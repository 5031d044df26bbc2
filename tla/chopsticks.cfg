SPECIFICATION FairSpec
CONSTANTS
  N = 4
  Meals = 2
  Wakeups = 1
CHECK_DEADLOCK FALSE
INVARIANTS NeighboursDontDine NobodyForgotten
PROPERTIES TakeReturns ImplementsContract
