SPECIFICATION PolicySpec
CONSTANTS
    Scopes = {1, 2, 3, 4}
    SourceOf <- ThreeFiles
    FormatOf <- Formats
    LineageOf <- ThreeLineages
    Walls = {50, 52, 54, 94}
    Fractions = {1}
    Offsets = {0, 1}
    FileTimes = {54, 57}
    Grains = {1}
    Bad = {garbled, truncated}
    None = None
    Second = 2
    Hour = 40
    Tolerance = 4
    Sentinels = {50}
    Earliest = 13
    Horizon = 93
    Supply <- Entries
    MaxFields = 5
    MaxDamaged = 1
CHECK_DEADLOCK FALSE
INVARIANTS EligibleIsUnanimous OrderIrrelevant StoreAgrees
