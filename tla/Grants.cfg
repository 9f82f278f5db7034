SPECIFICATION Spec
SYMMETRY Alike
CONSTANTS
  Windows = {w1}
  Runs = {r1, r2}
  Tasks = {t1, t2}
  None = None
  MaxReads = 1
  MaxReadsOf = 1
  MaxExports = 1
  MaxExportsOf = 1
  MaxRoots = 1
  MaxListings = 1
  MaxOpens = 3
  MaxSelections = 1
  MaxPickers = 2
  MaxCloses = 1
INVARIANTS NothingLeaks RevokedExportsStop ClosedHoldsNothing RootsAreAwaited
CHECK_DEADLOCK FALSE
