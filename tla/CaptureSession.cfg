CONSTANTS
  MaxSession = 2
  MaxFormat = 2
  Capacity = 1
  PendingCap = 1
  MaxStalled = 2
  Bounds <- MCBounds
SPECIFICATION FairSpec
CHECK_DEADLOCK FALSE
INVARIANTS
  TypeOK
  FragmentsKept
  StreamOwned
  RightBuffer
  MarkerFirst
PROPERTIES
  StopsAll
