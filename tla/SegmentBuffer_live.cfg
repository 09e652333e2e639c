SPECIFICATION FairSpec
CONSTANTS
  Snap = {s1}
  SaveDurations = {3, 9}
  FragDurations = {2}
  Gaps = {0, 3}
  FragSizes = {1}
  Target = 2
  Window = 4
  DiskCap = 3
  MaxIndex = 5
  MaxPts = 5
  MaxFormat = 1
  MaxFaults = 0
  NoManifest = NoManifest
PROPERTY StopEventuallyCloses
CHECK_DEADLOCK FALSE
