SPECIFICATION FairSpec
CONSTANTS
  b1 = b1
  b2 = b2
  Browsers = {b1, b2}
  Asks <- MCAsks
  Configs <- MCConfigs
  Build = 1
  MaxSchema = 2
  TTL = 0
  Nobody = Nobody
  NoRequest = NoRequest
  Failed = Failed
  NoRows = NoRows
  MaxTime = 1
  MaxRequests = 2
  MaxOther <- MCOther
  MaxFaults = 1
  MaxStarts = 1
INVARIANTS
  TypeOK
  ServesWhatItMay
  PagesAgree
PROPERTIES
  SettingsMoveForward
  EveryRequestEnds
CHECK_DEADLOCK FALSE
