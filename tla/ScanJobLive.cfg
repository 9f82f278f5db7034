SPECIFICATION FairSpec
CONSTANTS
  Windows = {w1}
  None = None
  MaxJobs = 2
  Entries = 2
  MaxFaults = 1
PROPERTIES RequestsAnswered DeadWindowFrees
CHECK_DEADLOCK FALSE
