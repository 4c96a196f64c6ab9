SPECIFICATION FairSpec
CONSTANTS
  Bodies <- Payloads
  Stamps <- Stamp
  StampLen = 1
  QUEUE_SIZE = 1
  Size = 5
  RingSize = 5
  MaxBodySize = 4
  MaxUnplugs = 1
  MaxRecords = 2
INVARIANTS
  TypeOK
  PacketsWereCaptured
PROPERTIES
  Resynchronises
CHECK_DEADLOCK FALSE
