SPECIFICATION FairSpec
CONSTANTS
  Attempts = 2
  MaxEvents = 2
  MaxExports = 1
  MaxSessions = 1
  MaxOpened = 2
  MaxTraffic = 2
PROPERTY ClicksEnd
CHECK_DEADLOCK FALSE
