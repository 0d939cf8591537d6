SPECIFICATION Spec
CONSTANTS
  m1 = m1
  m2 = m2
  f1 = f1
  f2 = f2
  Majors = {m1, m2}
  NoMajor = NoMajor
  Files = {f1, f2}
  NDEV = 2
CHECK_DEADLOCK FALSE
SYMMETRY MCSymmetry
INVARIANTS
  TypeOK
  RegistryBalanced
  AllDevicesBound
  FaultHasACause
