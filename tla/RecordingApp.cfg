SPECIFICATION Spec
CONSTANTS
  MaxRec = 3
  MaxFlow = 1
  MaxBuf = 1
  MaxEnded = 1
INVARIANTS
  FootageSafe
  
  NoOrphan
CHECK_DEADLOCK FALSE
