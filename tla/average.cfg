SPECIFICATION FairCallSpec
CONSTANTS
  U = 2
  IntMax = 1
  Largest = 4
  MaxLen = 3
  Clients = {c1, c2}
  First = c1
  Given <- MCGiven
  MaxStarts = 2
CHECK_DEADLOCK FALSE
INVARIANTS SortsWholeParts PrintsOwnMedian FoundWhenUp
PROPERTY CallReturns
