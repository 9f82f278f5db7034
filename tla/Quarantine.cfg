SPECIFICATION FairSpec
CONSTANTS
  N = 3
  Ops = {o1, o2}
  Foreign = {x}
  None = None
  MaxFaults = 1
  MaxUser = 1
INVARIANTS KeeperStays ManifestsTrue NothingLost StrangerIsFlagged
PROPERTIES ContractKept EventuallyHome
CHECK_DEADLOCK FALSE
