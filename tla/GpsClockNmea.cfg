SPECIFICATION Spec
CONSTANTS
  Protocol = "nmea"
  Word = 4
  Day = 4
  Epoch = 6
  PpsMayStop = FALSE
  MaxBehind = 0
  MaxSecond = 5
  NULL = NULL
INVARIANTS
  IInv
  UtcAfterFix
CHECK_DEADLOCK FALSE
