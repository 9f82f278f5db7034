SPECIFICATION Spec
SYMMETRY Alike
CONSTANTS
  Windows = {w1, w2}
  None = None
  MaxJobs = 2
  Entries = 2
  MaxFaults = 1
INVARIANTS Exclusive StatusTracksControl EndsTruly NoOrphan
PROPERTIES NothingForged
CHECK_DEADLOCK FALSE
