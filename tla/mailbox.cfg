SPECIFICATION FairSpec
CONSTANTS
  Kirks = {k1, k2}
  Spocks = {s1, s2}
  Lines = 2
  CAPACITY = 2
  Kills = 1
CHECK_DEADLOCK FALSE
INVARIANTS NoItemTwice TypingOrder KeptWhileLive
PROPERTY EndOfInputStopsSpocks
