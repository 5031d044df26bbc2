SPECIFICATION CountedFairSpec
CONSTANTS
  Readers = {r1, r2, r3}
  Writers = {w1, w2}
  JoinSets = {{r1}, {r1, r2, r3}}
  numCount = 2
  Headers = {"assignment2/correct.h", "assignment2/incorrect.h", "assignment3/correct.h"}
INVARIANTS Exclusion NoLostUpdate WrtReturned AtMostNumCount AdmitsNumCount
PROPERTIES ImplementsReadersWriters Termination
