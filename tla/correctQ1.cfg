SPECIFICATION Spec
CONSTANTS
  Producers = {p1, p2}
  Consumers = {c1, c2}
  SIZE = 3
  PRODUCER_LOOPS = 2
  Headers = {"assignment2/correct.h"}
INVARIANT BlocksOnlyAtLimits
