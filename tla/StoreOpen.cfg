SPECIFICATION FairSpec
CONSTANTS
  Procs = {p1, p2}
  Latest = 2
  MaxOutside = 1
  MaxFaults = 2
  MaxWrites = 1
  None = None
INVARIANTS OneProcess BackedUp
PROPERTIES StoreKept ComesUp
