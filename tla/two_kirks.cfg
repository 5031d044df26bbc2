SPECIFICATION Spec
CONSTANTS
  Kirks = {k1, k2}
  Spocks = {s1}
  Lines = 2
  CAPACITY = 2
  Kills = 0
CHECK_DEADLOCK FALSE
INVARIANT TwoKirksWork
