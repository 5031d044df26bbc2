SPECIFICATION Spec
CONSTANTS
  Producers = {p1, p2}
  Consumers = {c1, c2}
  SIZE = 2
  PRODUCER_LOOPS = 2
  Headers = {"assignment2/correct.h", "assignment2/incorrect.h", "assignment3/correct.h"}
SYMMETRY Symmetry
INVARIANTS NotAllWait OthersBlockOnlyAtLimits
PROPERTY ImplementsPosix
