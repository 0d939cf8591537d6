SPECIFICATION LiveSpec
CONSTANTS
  t1 = t1
  t2 = t2
  Tasks = {t1}
  Nobody = Nobody
  Counts = {10, 19}
  INT_MAX = 31
  MaxBlocks = 2
CHECK_DEADLOCK FALSE
PROPERTY
  BlinksWhenWritten
