SPECIFICATION FairSpec
CONSTANTS
  Producers = {p1, p2}
  Consumers = {c1, c2}
  SIZE = 2
  PRODUCER_LOOPS = 2
INVARIANTS NoOverflowOrUnderflow Conservation SlotAccounting
PROPERTY Termination
