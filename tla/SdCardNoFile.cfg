SPECIFICATION Spec
CONSTANTS
  QUEUE_SIZE = 2
  CardSpace = 6
  MaxSecond = 1
  MaxRecord = 2
  EndlessRecords = FALSE
  MaxPress = 3
  MaxReset = 1
  FopenMayFail = TRUE
  WriterSettles = FALSE
  NULL = NULL
INVARIANTS
  ActiveMeansLogging
CHECK_DEADLOCK FALSE
