SPECIFICATION Spec
CONSTANTS
  Receivers = {"ubx"}
  MaxEpoch = 3
  NULL = NULL
INVARIANTS
  LoggedWhole
CHECK_DEADLOCK FALSE
