SPECIFICATION Spec
CONSTANTS
  Scopes = {s1}
  Recoverable = {s1}
  MaxRuns = 1
  MaxTime = 1
  MaxEvidence = 1
  MaxRequests = 2
  MaxFaults = 0
INVARIANTS RollbackNeverDeadEnds
