CONSTANTS
  MaxSession = 2
  MaxFormat = 2
  Capacity = 1
  PendingCap = 1
  MaxStalled = 2
  Bounds <- MCBounds
SPECIFICATION Spec
CHECK_DEADLOCK FALSE
INVARIANT SavesOwn
