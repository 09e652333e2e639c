SPECIFICATION Spec
CONSTANTS
  Snap = {s1, s2}
  SaveDurations = {3, 9}
  FragDurations = {2}
  Gaps = {0, 3}
  FragSizes = {1}
  Target = 2
  Window = 4
  DiskCap = 3
  MaxIndex = 4
  MaxPts = 5
  MaxFormat = 1
  MaxFaults = 1
  NoManifest = NoManifest
SYMMETRY Symmetry
INVARIANTS
  TypeOK
  PinsExact
  PinnedOnDisk
  SegmentsDecodable
  CleanSegmentsMatchInit
  DiskBounded
  CrashLosesOnlyNewest
PROPERTY
  ImplementsReplayStore
CHECK_DEADLOCK FALSE
