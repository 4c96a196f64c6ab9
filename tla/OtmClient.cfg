SPECIFICATION FairSpec
CONSTANTS
  Size = 1
  MaxPackets = 3
  MaxConnects = 2
  Weather = {TRUE, FALSE}
  NULL = NULL
INVARIANTS
  IInv
  PublishedWereCaptured
  EndsOffline
PROPERTIES
  SilentAfterStop
  ShutdownCompletes
  WriterServes
CHECK_DEADLOCK FALSE
