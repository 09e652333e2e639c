SPECIFICATION Spec
CONSTANTS
  Attempts = 2
  MaxEvents = 2
  MaxExports = 2
  MaxSessions = 2
  MaxOpened = 3
  MaxTraffic = 2
INVARIANTS
  TypeOK
  ExportingIsWatched
  SessionIsShown
  NoSnapshotLeft
CHECK_DEADLOCK FALSE
