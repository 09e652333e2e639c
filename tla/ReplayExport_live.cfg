SPECIFICATION FairSpec
CONSTANTS
  Handler = {h1, h2}
  Live = {live}
  Recovered = {}
  Export = {e1}
  Path = {p}
  UserFile = UserFile
  Nil = Nil
  MaxFaults = 1
PROPERTY CancelledExportEnds
CHECK_DEADLOCK FALSE
