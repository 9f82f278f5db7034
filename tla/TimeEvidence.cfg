SPECIFICATION Spec
CONSTANTS
  Groups = 2
  Probes = 2
  MaxReads = 4
  MaxTime = 2
  MaxBacks = 1
  MaxFaults = 1
INVARIANTS TimeReopens SummaryTrue CleanEnd
