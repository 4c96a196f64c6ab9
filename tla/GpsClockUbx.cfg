SPECIFICATION FairSpec
CONSTANTS
  Protocol = "ubx"
  Word = 4
  Day = 4
  Epoch = 6
  PpsMayStop = TRUE
  MaxBehind = 2
  MaxSecond = 6
  NULL = NULL
INVARIANTS
  NearUtc
PROPERTIES
  GpsTimeHeals
CHECK_DEADLOCK FALSE
