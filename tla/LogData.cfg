SPECIFICATION FairSpec
CONSTANTS
  QUEUE_SIZE = 2
  MaxRecord = 3
  MaxSwitch = 2
  NULL = NULL
INVARIANTS
  RealTimeOrder
PROPERTIES
  HoldsNobodyUp
  EachHears
CHECK_DEADLOCK FALSE
