SPECIFICATION FairSpec
CONSTANTS
  Receivers = {"ubx", "nmea", "worn"}
  MaxEpoch = 4
  NULL = NULL
INVARIANTS
  AssembledWhole
  FieldsOfOneEpoch
PROPERTIES
  FixHeard
CHECK_DEADLOCK FALSE
