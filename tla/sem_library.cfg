SPECIFICATION MCSpec
CONSTANTS
  Threads = {t1, t2, t3}
  Sems <- MCSems
  K <- MCK
  Lib <- MCLib
  MaxCalls = 3
CHECK_DEADLOCK FALSE
INVARIANTS ValProtected NeverOverGranted NoPermitLost
PROPERTY ImplementsFairSem
