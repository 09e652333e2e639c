SPECIFICATION Spec
CONSTANTS
  Handler = {h1, h2}
  Live = {live}
  Recovered = {recovered}
  Export = {e1, e2}
  Path = {p}
  UserFile = UserFile
  Nil = Nil
  MaxFaults = 1
SYMMETRY Symmetry
INVARIANTS
  TypeOK
  OneTerminalEvent
  EventMatchesFile
  NoLeftovers
PROPERTIES
  SourcesKept
  NoClobber
CHECK_DEADLOCK FALSE
