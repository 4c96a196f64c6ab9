SPECIFICATION FairSpec
CONSTANTS
  QUEUE_SIZE = 2
  CardSpace = 6
  MaxSecond = 0
  MaxRecord = 1
  EndlessRecords = TRUE
  MaxPress = 3
  MaxReset = 0
  FopenMayFail = FALSE
  WriterSettles = FALSE
  NULL = NULL
INVARIANTS
  NoWriteAfterClose
  FilesParsable
PROPERTIES
  QueueDrains
  StopCompletes
CHECK_DEADLOCK FALSE
