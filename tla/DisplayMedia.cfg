SPECIFICATION Spec
CONSTANTS
  Screens = {s1}
  Windows = {w1}
  Recs = {r1, r2}
  Replay = replay
  None = none
SYMMETRY Symmetry
INVARIANTS
  TypeOK
  PickHonoured
  SelectionSettled
