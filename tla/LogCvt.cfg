SPECIFICATION FairSpec
CONSTANTS
  Writers = {"none", "pcapng", "blf"}
  Bodies <- Payloads
  Times = {3, 6}
  Stamp <- StampBytes
  StampLen = 1
  Second = 4
  Nano = 2
  Word = 32
  GpsSize = 2
  EthAt = 2
  MacAt = 0
  MacLen = 1
  MaxRecords = 3
  MaxFiles = 2
INVARIANTS
  ConvertedInOrder
  TimesLeadBack
PROPERTIES
  Converts
CHECK_DEADLOCK FALSE
