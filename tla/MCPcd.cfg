SPECIFICATION Spec
CONSTANTS
  f1 = f1
  f2 = f2
  t1 = t1
  t2 = t2
  m1 = m1
  m2 = m2
  MAX_DEVICES = 2
  Size <- MCSize
  Majors = {m1, m2}
  NoMajor = NoMajor
  Files = {f1, f2}
  Tasks = {t1, t2}
  MaxCount = 3
  MaxLoads = 3
SYMMETRY MCSymmetry
CHECK_DEADLOCK FALSE
INVARIANTS
  TypeOK
  InBounds
  FilesHoldModule
  LeftBehind
