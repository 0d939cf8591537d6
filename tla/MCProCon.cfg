SPECIFICATION FairSpec
CONSTANTS
  TP1 = TP1
  TP2 = TP2
  TP3 = TP3
  TC1 = TC1
  TC2 = TC2
  TC3 = TC3
  Producers = {TP1, TP2, TP3}
  Consumers = {TC1, TC2, TC3}
  Nobody = Nobody
  Q_DEFAULT_SIZE = 3
  NULL = NULL
  MaxSpurious = 2
CHECK_DEADLOCK FALSE
INVARIANTS
  TypeOK
  AssertsHold
  NoLostWakeup
  QueueEmptyAtEnd
PROPERTIES
  ImplementsFifo
  AllEnd
