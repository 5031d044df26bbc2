SPECIFICATION FairForkSpec
CONSTANTS
  N = 2
  MaxRuns = 3
CHECK_DEADLOCK FALSE
INVARIANTS NobodyCutOff ChildSeesThePast ReportsAfterChild NameIsRemoved
PROPERTY Ends
