SPECIFICATION BootSpec
CONSTANTS
  Worlds = {"ublox", "flaky ublox", "nmea", "chatty nmea"}
  Builds = {{TRUE}, {TRUE, FALSE}}
  Tries = 6
  Rounds = 3
  MaxPending = 2
  Options = {{}, {"LED"}, {"SDCARD", "LED"}, {"GPS", "SDCARD", "LED"}}
  TextSize = 1024
  MainText = 260
  VersionLens = {40, 160, 512}
  MaxPresses = 1
  NULL = NULL
INVARIANTS
  BootTypeOK
  UbxTaskHearsUbx
  Configured
  PreambleFirst
PROPERTIES
  NoNullUse
  BootCompletes
  LedSettles
CHECK_DEADLOCK FALSE
