SPECIFICATION FairSpec
CONSTANTS
  NO_PHIL = 5
  Nobody = Nobody
CHECK_DEADLOCK FALSE
INVARIANTS
  TypeOK
  AssertsHold
  NoLostWakeup
  OnlyOneDeadlock
PROPERTY
  WaitedSpoonReleased
