SPECIFICATION FairSpec
CONSTANTS
  MaxSpawn = 2
  MaxConn = 2
  MaxRestarts = 2
  MaxFaults = 1
  MaxFailures = 2
INVARIANTS
  TypeOK
  SingleCycle
  ReadyListens
  NoStrayHelper
PROPERTIES
  Settles
CHECK_DEADLOCK FALSE
