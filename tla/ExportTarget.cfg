SPECIFICATION Spec
CONSTANTS
  Exports = {e1, e2}
  Strangers = {x}
  None = None
  Records = 2
  MaxFaults = 1
  MaxUser = 2
INVARIANTS ReportTrue CancelUnpublished NoLitter
PROPERTIES NothingReplaced
CHECK_DEADLOCK FALSE
