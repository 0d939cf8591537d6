SPECIFICATION Spec
CONSTANTS
  t1 = t1
  t2 = t2
  Tasks = {t1, t2}
  Nobody = Nobody
  Counts = {10, 19, 31}
  INT_MAX = 31
  MaxBlocks = 3
CHECK_DEADLOCK FALSE
SYMMETRY MCSymmetry
INVARIANTS
  TypeOK
  TidyUseIsSafe
