SPECIFICATION Spec
CONSTANTS
  QUEUE_SIZE = 2
  CardSpace = 8
  MaxSecond = 1
  MaxRecord = 2
  EndlessRecords = FALSE
  MaxPress = 3
  MaxReset = 1
  FopenMayFail = TRUE
  WriterSettles = TRUE
  NULL = NULL
INVARIANTS
  IInv
  InOrderOnce
  SessionPure
  LogStartsWithPreamble
PROPERTIES
  StopKeepsRecordsWhole
  ImplementsLogStore
CHECK_DEADLOCK FALSE
