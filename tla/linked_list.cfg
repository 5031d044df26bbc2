SPECIFICATION ListSpec
CONSTANTS
  Addresses = {a1, a2, a3, a4}
  Numbers = {1, 2, 3}
  NULL = NULL
INVARIANT ReachesWhatIsAllocated
PROPERTY ImplementsSortedList
