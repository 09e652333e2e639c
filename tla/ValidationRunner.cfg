SPECIFICATION Spec
CONSTANTS
  MaxRows = 2
  MaxLeft = 1
INVARIANTS
  RowsLeaveNothing
  CleanupProven
