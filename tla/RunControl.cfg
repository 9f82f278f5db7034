SPECIFICATION Spec
CONSTANTS
  Scopes = {s1, s2}
  Recoverable = {s1}
  MaxRuns = 2
  MaxTime = 1
  MaxEvidence = 1
  MaxRequests = 3
  MaxFaults = 1
INVARIANTS Reopens CancelDominates PausedAsRecorded OneLineage
PROPERTIES HistoryStays
