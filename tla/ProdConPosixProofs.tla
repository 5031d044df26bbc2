------------------------- MODULE ProdConPosixProofs -------------------------
(***************************************************************************)
(* Theorems about prod_con.c for any number of threads, any SIZE and any   *)
(* PRODUCER_LOOPS.                                                         *)
(***************************************************************************)
EXTENDS ProdConPosix, FiniteSetTheorems, TLAPS

(* A producer never executes a statement of the consumer, nor a consumer   *)
(* one of the producer.                                                    *)
Roles ==
  /\ \A t \in Producers : pc[t] \notin {"dequeue", "fetch"}
  /\ \A t \in Consumers : pc[t] \notin {"insert", "advance"}

LoopBound == \A t \in Workers : pc[t] # "done" => i[t] <= PRODUCER_LOOPS

CountInv == TypeOK /\ Roles /\ LoopBound /\ SlotAccounting

(* How one step of a thread changes the number of threads of S at L.       *)
LEMMA StepCount ==
  ASSUME NEW S \in SUBSET Workers, NEW L, NEW t \in Workers,
         NEW from, NEW to, pc \in [Workers -> Labels], Step(t, from, to)
  PROVE  /\ Cardinality(At(S, L)) \in Nat
         /\ Cardinality(At(S, L)') \in Nat
         /\ t \in S /\ from \notin L /\ to \in L =>
              Cardinality(At(S, L)') = Cardinality(At(S, L)) + 1
         /\ t \in S /\ from \in L /\ to \notin L =>
              Cardinality(At(S, L)') = Cardinality(At(S, L)) - 1
         /\ t \notin S \/ (from \in L <=> to \in L) =>
              Cardinality(At(S, L)') = Cardinality(At(S, L))
<1>1. IsFiniteSet(Workers)
  BY FS_Union, BufferAssumption DEF Workers
<1>2. IsFiniteSet(At(S, L)) /\ IsFiniteSet(At(S, L)')
  BY <1>1, FS_Subset DEF At
<1>3. Cardinality(At(S, L)) \in Nat /\ Cardinality(At(S, L)') \in Nat
  BY <1>2, FS_CardinalityType
<1>4. pc[t] = from /\ pc' = [pc EXCEPT ![t] = to]
  BY DEF Step
<1>5. CASE t \in S /\ from \notin L /\ to \in L
  <2>1. At(S, L)' = At(S, L) \cup {t} /\ t \notin At(S, L)
    BY <1>4, <1>5 DEF At
  <2> QED
    BY <1>2, <1>3, <1>5, <2>1, FS_AddElement
<1>6. CASE t \in S /\ from \in L /\ to \notin L
  <2>1. At(S, L)' = At(S, L) \ {t} /\ t \in At(S, L)
    BY <1>4, <1>6 DEF At
  <2> QED
    BY <1>2, <1>3, <1>6, <2>1, FS_RemoveElement
<1>7. CASE t \notin S \/ (from \in L <=> to \in L)
  <2>1. At(S, L)' = At(S, L)
    BY <1>4, <1>7 DEF At
  <2> QED
    BY <1>3, <1>7, <2>1
<1> QED
  BY <1>3, <1>5, <1>6, <1>7

Delta(S, L, t, from, to) ==
  IF t \notin S \/ (from \in L <=> to \in L) THEN 0
  ELSE IF to \in L THEN 1
  ELSE -1

(* The same for the four sets of threads that SlotAccounting counts.       *)
LEMMA StepCounts ==
  ASSUME NEW t \in Workers, NEW from, NEW to,
         pc \in [Workers -> Labels], Step(t, from, to)
  PROVE  /\ Cardinality(Claiming) \in Nat
         /\ Cardinality(Claiming)' = Cardinality(Claiming) +
              Delta(Producers, {"lock", "insert", "advance"}, t, from, to)
         /\ Cardinality(Announcing) \in Nat
         /\ Cardinality(Announcing)' = Cardinality(Announcing) +
              Delta(Producers, {"unlock", "post"}, t, from, to)
         /\ Cardinality(Reading) \in Nat
         /\ Cardinality(Reading)' = Cardinality(Reading) +
              Delta(Consumers, {"lock", "dequeue"}, t, from, to)
         /\ Cardinality(Vacating) \in Nat
         /\ Cardinality(Vacating)' = Cardinality(Vacating) +
              Delta(Consumers, {"fetch", "unlock", "post"}, t, from, to)
<1>1. ASSUME NEW S \in SUBSET Workers, NEW L
      PROVE  /\ Cardinality(At(S, L)) \in Nat
             /\ Cardinality(At(S, L)') =
                  Cardinality(At(S, L)) + Delta(S, L, t, from, to)
  BY StepCount DEF Delta
<1>2. Producers \in SUBSET Workers /\ Consumers \in SUBSET Workers
  BY DEF Workers
<1> QED
  BY <1>1, <1>2 DEF Claiming, Announcing, Reading, Vacating

(* A thread at the test of insertbuffer has a slot, one at the test of     *)
(* dequeuebuffer a value.                                                  *)
LEMMA AccountingExcludesErrors ==
  ASSUME CountInv
  PROVE  NoOverflowOrUnderflow
<1>1. IsFiniteSet(Workers)
  BY FS_Union, BufferAssumption DEF Workers
<1>2. ASSUME NEW S \in SUBSET Workers, NEW L
      PROVE  /\ Cardinality(At(S, L)) \in Nat
             /\ \A t \in At(S, L) : Cardinality(At(S, L)) > 0
  <2>1. IsFiniteSet(At(S, L))
    BY <1>1, FS_Subset DEF At
  <2> QED
    BY <2>1, FS_CardinalityType, FS_EmptySet
<1>3. /\ Cardinality(Claiming) \in Nat /\ Cardinality(Reading) \in Nat
      /\ Cardinality(Announcing) \in Nat /\ Cardinality(Vacating) \in Nat
      /\ \A t \in Claiming : Cardinality(Claiming) > 0
      /\ \A t \in Reading : Cardinality(Reading) > 0
  BY <1>2 DEF Workers, Claiming, Reading, Announcing, Vacating
<1>4. /\ full_sem \in Nat /\ empty_sem \in Nat /\ buffer_index \in Nat
      /\ SIZE \in Nat
  BY BufferAssumption DEF CountInv, TypeOK, BufferTypeOK
<1> SUFFICES ASSUME NEW t \in Workers
             PROVE  /\ pc[t] = "insert" => buffer_index < SIZE
                    /\ pc[t] = "dequeue" => buffer_index > 0
  BY DEF NoOverflowOrUnderflow
<1>5. CASE pc[t] = "insert"
  <2>1. t \in Claiming
    BY <1>5 DEF CountInv, Roles, Workers, Claiming, At
  <2> QED
    BY <1>3, <1>4, <1>5, <2>1 DEF CountInv, SlotAccounting
<1>6. CASE pc[t] = "dequeue"
  <2>1. t \in Reading
    BY <1>6 DEF CountInv, Roles, Workers, Reading, At
  <2> QED
    BY <1>3, <1>4, <1>6, <2>1 DEF CountInv, SlotAccounting
<1> QED
  BY <1>5, <1>6

LEMMA InitCountInv == Init => CountInv
<1> SUFFICES ASSUME Init PROVE CountInv
  OBVIOUS
<1> USE BufferAssumption DEF Init, BufferInit
<1>1. TypeOK /\ Roles /\ LoopBound
  BY DEF TypeOK, BufferTypeOK, Labels, Roles, LoopBound, Workers
<1>2. /\ Claiming = {} /\ Announcing = {}
      /\ Reading = {} /\ Vacating = {}
  BY DEF Claiming, Announcing, Reading, Vacating, At, Workers
<1>3. SlotAccounting
  BY <1>2, FS_EmptySet DEF SlotAccounting
<1> QED
  BY <1>1, <1>3 DEF CountInv

(* buffer_index and the two semaphores move along with the four counts.    *)
Balanced(t, from, to) ==
  /\ full_sem' + buffer_index'
       + Delta(Producers, {"lock", "insert", "advance"}, t, from, to)
       + Delta(Consumers, {"fetch", "unlock", "post"}, t, from, to)
       = full_sem + buffer_index
  /\ empty_sem' + buffer_index
       + Delta(Consumers, {"lock", "dequeue"}, t, from, to)
       + Delta(Producers, {"unlock", "post"}, t, from, to)
       = empty_sem + buffer_index'

LEMMA AccountedStep ==
  ASSUME CountInv, NEW t \in Workers, NEW from, NEW to, Step(t, from, to),
         buffer_index' \in Int, full_sem' \in Nat, empty_sem' \in Nat,
         Balanced(t, from, to)
  PROVE  SlotAccounting' /\ buffer_index' \in 0..SIZE
<1> DEFINE d1 == Delta(Producers, {"lock", "insert", "advance"}, t, from, to)
           d2 == Delta(Consumers, {"fetch", "unlock", "post"}, t, from, to)
           d3 == Delta(Consumers, {"lock", "dequeue"}, t, from, to)
           d4 == Delta(Producers, {"unlock", "post"}, t, from, to)
<1>1. d1 \in Int /\ d2 \in Int /\ d3 \in Int /\ d4 \in Int
  BY DEF Delta
<1>2. /\ pc \in [Workers -> Labels] /\ buffer_index \in Nat /\ SIZE \in Nat
      /\ full_sem \in Nat /\ empty_sem \in Nat /\ SlotAccounting
  BY BufferAssumption DEF CountInv, TypeOK, BufferTypeOK
<1>3. /\ Cardinality(Claiming) \in Nat
      /\ Cardinality(Claiming)' = Cardinality(Claiming) + d1
      /\ Cardinality(Vacating) \in Nat
      /\ Cardinality(Vacating)' = Cardinality(Vacating) + d2
      /\ Cardinality(Reading) \in Nat
      /\ Cardinality(Reading)' = Cardinality(Reading) + d3
      /\ Cardinality(Announcing) \in Nat
      /\ Cardinality(Announcing)' = Cardinality(Announcing) + d4
  BY <1>2, StepCounts
<1>4. \A L : \A S \in SUBSET Workers : Cardinality(At(S, L)') \in Nat
  BY <1>2, StepCount
<1>5. /\ Cardinality(Claiming)' \in Nat /\ Cardinality(Vacating)' \in Nat
      /\ Cardinality(Reading)' \in Nat /\ Cardinality(Announcing)' \in Nat
  BY <1>4 DEF Claiming, Announcing, Reading, Vacating, Workers
<1>6. /\ full_sem' + buffer_index' + d1 + d2 = full_sem + buffer_index
      /\ empty_sem' + buffer_index + d3 + d4 = empty_sem + buffer_index'
  BY DEF Balanced
<1> HIDE DEF d1, d2, d3, d4
<1>7. full_sem' + Cardinality(Claiming)' + buffer_index'
        + Cardinality(Vacating)' = SIZE
  <2>1. full_sem' + (Cardinality(Claiming) + d1) + buffer_index'
          + (Cardinality(Vacating) + d2)
          = (full_sem' + buffer_index' + d1 + d2)
              + (Cardinality(Claiming) + Cardinality(Vacating))
    BY <1>1, <1>2, <1>3
  <2>2. @ = full_sem + buffer_index
              + (Cardinality(Claiming) + Cardinality(Vacating))
    BY <1>6
  <2>3. @ = SIZE
    BY <1>2, <1>3 DEF SlotAccounting
  <2> QED
    BY <1>3, <2>1, <2>2, <2>3
<1>8. empty_sem' + Cardinality(Reading)' + Cardinality(Announcing)'
        = buffer_index'
  <2> DEFINE x == empty_sem' + (Cardinality(Reading) + d3)
                    + (Cardinality(Announcing) + d4)
  <2>1. x + buffer_index
          = (empty_sem' + buffer_index + d3 + d4)
              + (Cardinality(Reading) + Cardinality(Announcing))
    BY <1>1, <1>2, <1>3
  <2>2. @ = empty_sem + buffer_index'
              + (Cardinality(Reading) + Cardinality(Announcing))
    BY <1>6
  <2>3. @ = buffer_index' + buffer_index
    BY <1>2, <1>3 DEF SlotAccounting
  <2>4. x \in Int
    BY <1>1, <1>3
  <2>5. x = buffer_index'
    <3> HIDE DEF x
    <3> QED
      BY <1>2, <2>1, <2>2, <2>3, <2>4
  <2> QED
    BY <1>3, <2>5
<1>9. SlotAccounting'
  BY <1>7, <1>8 DEF SlotAccounting
<1> QED
  BY <1>2, <1>5, <1>9 DEF SlotAccounting

LEMMA StepCountInv ==
  ASSUME CountInv, NEW t \in Workers, ThreadStep(t)
  PROVE  CountInv'
<1> USE BufferAssumption
    DEF CountInv, TypeOK, BufferTypeOK, Workers, Roles, LoopBound
<1> DEFINE Accounted == SlotAccounting' /\ buffer_index' \in 0..SIZE
           Kept == UNCHANGED <<full_sem, empty_sem>>
<1>1. NoOverflowOrUnderflow
  BY AccountingExcludesErrors
<1>2. CASE LoopTest(t) /\ Kept
  <2>1. PICK to \in {"wait", "done"} : Step(t, "loop", to)
    BY <1>2 DEF LoopTest
  <2>2. Balanced(t, "loop", to)
    BY <1>2 DEF LoopTest, Balanced, Delta
  <2>3. Accounted
    BY <1>2, <2>1, <2>2, AccountedStep DEF LoopTest
  <2> QED
    BY <1>2, <2>3 DEF LoopTest, Step, Labels
<1>3. CASE Lock(t) /\ Kept
  <2>1. CASE t \in Producers
    <3>1. Step(t, "lock", "insert") /\ Balanced(t, "lock", "insert")
      BY <1>3, <2>1 DEF Lock, Balanced, Delta
    <3>2. Accounted
      BY <1>3, <3>1, AccountedStep DEF Lock
    <3> QED
      BY <1>3, <2>1, <3>2 DEF Lock, Step, Labels
  <2>2. CASE t \in Consumers
    <3>1. t \notin Producers
      BY <2>2
    <3>2. Step(t, "lock", "dequeue") /\ Balanced(t, "lock", "dequeue")
      BY <1>3, <2>2, <3>1 DEF Lock, Balanced, Delta
    <3>3. Accounted
      BY <1>3, <3>2, AccountedStep DEF Lock
    <3> QED
      BY <1>3, <2>2, <3>1, <3>3 DEF Lock, Step, Labels
  <2> QED
    BY <2>1, <2>2
<1>4. CASE InsertStore(t) /\ Kept
  <2>1. /\ Step(t, "insert", "advance") /\ t \in Producers
        /\ buffer' = [buffer EXCEPT ![buffer_index] = t]
        /\ UNCHANGED <<buffer_index, buffer_mutex, i, taken>>
    BY <1>1, <1>4 DEF InsertStore, NoOverflowOrUnderflow, Step
  <2>2. Balanced(t, "insert", "advance")
    BY <1>4, <2>1 DEF Balanced, Delta
  <2>3. Accounted
    BY <1>4, <2>1, <2>2, AccountedStep
  <2> QED
    BY <1>4, <2>1, <2>3 DEF Step, Labels
<1>5. CASE InsertAdvance(t) /\ Kept
  <2>1. /\ Step(t, "advance", "unlock")
        /\ t \in Producers /\ t \notin Consumers
    BY <1>5 DEF InsertAdvance, Step
  <2>2. Balanced(t, "advance", "unlock")
    BY <1>5, <2>1 DEF InsertAdvance, Balanced, Delta
  <2>3. Accounted
    BY <1>5, <2>1, <2>2, AccountedStep DEF InsertAdvance
  <2> QED
    BY <1>5, <2>1, <2>3 DEF InsertAdvance, Step, Labels
<1>6. CASE DequeueRetreat(t) /\ Kept
  <2>1. /\ Step(t, "dequeue", "fetch")
        /\ t \in Consumers /\ t \notin Producers
        /\ buffer_index' = buffer_index - 1
        /\ UNCHANGED <<buffer, buffer_mutex, i, taken>>
    BY <1>1, <1>6 DEF DequeueRetreat, NoOverflowOrUnderflow, Step
  <2>2. Balanced(t, "dequeue", "fetch")
    BY <1>6, <2>1 DEF Balanced, Delta
  <2>3. Accounted
    BY <1>6, <2>1, <2>2, AccountedStep
  <2> QED
    BY <1>6, <2>1, <2>3 DEF Step, Labels
<1>7. CASE DequeueFetch(t) /\ Kept
  <2>1. /\ Step(t, "fetch", "unlock")
        /\ t \in Consumers /\ t \notin Producers
    BY <1>7 DEF DequeueFetch, Step
  <2>2. Balanced(t, "fetch", "unlock")
    BY <1>7, <2>1 DEF DequeueFetch, Balanced, Delta
  <2>3. Accounted
    BY <1>7, <2>1, <2>2, AccountedStep DEF DequeueFetch
  <2>4. taken' \in [Producers -> Nat]
    <3> DEFINE p == buffer[buffer_index]
    <3>1. taken' = [taken EXCEPT ![p] = taken[p] + 1]
      BY <1>7 DEF DequeueFetch
    <3> HIDE DEF p
    <3>2. p \in Producers => taken[p] + 1 \in Nat
      OBVIOUS
    <3> QED
      BY <3>1, <3>2
  <2> QED
    BY <1>7, <2>1, <2>3, <2>4 DEF DequeueFetch, Step, Labels
<1>8. CASE Unlock(t) /\ Kept
  <2>1. Step(t, "unlock", "post") /\ Balanced(t, "unlock", "post")
    BY <1>8 DEF Unlock, Balanced, Delta
  <2>2. Accounted
    BY <1>8, <2>1, AccountedStep DEF Unlock
  <2> QED
    BY <1>8, <2>2 DEF Unlock, Step, Labels
<1>9. CASE ProducerWait(t) \/ ConsumerWait(t)
  <2>1. /\ Step(t, "wait", "lock") /\ Balanced(t, "wait", "lock")
        /\ full_sem' \in Nat /\ empty_sem' \in Nat
    BY <1>9 DEF ProducerWait, ConsumerWait, Balanced, Delta
  <2>2. Accounted
    BY <1>9, <2>1, AccountedStep DEF ProducerWait, ConsumerWait
  <2> QED
    BY <1>9, <2>1, <2>2 DEF ProducerWait, ConsumerWait, Step, Labels
<1>10. CASE ProducerPost(t) \/ ConsumerPost(t)
  <2>1. /\ Step(t, "post", "loop") /\ buffer_index' = buffer_index
        /\ full_sem' \in Nat /\ empty_sem' \in Nat
    BY <1>10 DEF ProducerPost, ConsumerPost
  <2>2. Balanced(t, "post", "loop")
    <3>1. CASE ProducerPost(t)
      BY <2>1, <3>1 DEF ProducerPost, Balanced, Delta
    <3>2. CASE ConsumerPost(t)
      BY <2>1, <3>2 DEF ConsumerPost, Balanced, Delta
    <3> QED
      BY <1>10, <3>1, <3>2
  <2>3. Accounted
    BY <2>1, <2>2, AccountedStep
  <2> QED
    BY <1>10, <2>1, <2>3 DEF ProducerPost, ConsumerPost, Step, Labels
<1> QED
  BY <1>2, <1>3, <1>4, <1>5, <1>6, <1>7, <1>8, <1>9, <1>10
  DEF ThreadStep, BufferStep

LEMMA NextCountInv == CountInv /\ [Next]_vars => CountInv'
<1> SUFFICES ASSUME CountInv, [Next]_vars PROVE CountInv'
  OBVIOUS
<1>1. CASE UNCHANGED vars
  BY <1>1 DEF vars, bufferVars, CountInv, TypeOK, BufferTypeOK, Roles,
     LoopBound, SlotAccounting, Claiming, Announcing, Reading, Vacating, At
<1> QED
  BY <1>1, StepCountInv DEF Next, MainReturns

(* The variables of prod_con.c keep their types, and every slot and every  *)
(* value is accounted for by the two semaphores and the threads between a  *)
(* wait and a post.                                                        *)
THEOREM SlotsAreAccountedFor == Spec => [](TypeOK /\ SlotAccounting)
<1>1. CountInv => TypeOK /\ SlotAccounting
  BY DEF CountInv
<1> QED
  BY <1>1, InitCountInv, NextCountInv, PTL DEF Spec

(* The buffer overflow and underflow that the comments in producer and     *)
(* consumer fear never happen.                                             *)
THEOREM BufferStaysInBounds == Spec => []NoOverflowOrUnderflow
<1>1. CountInv => NoOverflowOrUnderflow
  BY AccountingExcludesErrors
<1> QED
  BY <1>1, InitCountInv, NextCountInv, PTL DEF Spec

-----------------------------------------------------------------------------
(* Conservation speaks of the moments at which the mutex is free.  In      *)
(* between, a value may be in a slot that the index does not count yet, or *)
(* no longer, and Ledger says where.                                       *)
InMutex(t) == pc[t] \in {"insert", "advance", "dequeue", "fetch", "unlock"}

OneInMutex ==
  /\ \A t \in Workers : InMutex(t) => buffer_mutex = "locked"
  /\ \A t, u \in Workers : InMutex(t) /\ InMutex(u) => t = u

(* How many values of p the index counted so far.                          *)
Counted(p) ==
  i[p] - (IF pc[p] \in {"wait", "lock", "insert", "advance", "done"} THEN 1 ELSE 0)

Slots(b, k, p) == {n \in 0..k - 1 : b[n] = p}

(* A consumer is between the index and the slot.                           *)
Fetching == \E t \in Consumers : pc[t] = "fetch"

Ledger ==
  /\ \A p \in Producers : pc[p] = "advance" => buffer[buffer_index] = p
  /\ \A p \in Producers :
       Counted(p) = taken[p] + Cardinality(Slots(buffer, buffer_index, p))
                      + (IF Fetching /\ buffer[buffer_index] = p THEN 1 ELSE 0)

LEMMA SlotsAreFinite ==
  ASSUME NEW b, NEW k \in Nat, NEW p
  PROVE  /\ IsFiniteSet(Slots(b, k, p))
         /\ Cardinality(Slots(b, k, p)) \in Nat
<1>1. IsFiniteSet(0..k - 1)
  BY FS_Interval
<1>2. IsFiniteSet(Slots(b, k, p))
  BY <1>1, FS_Subset DEF Slots
<1> QED
  BY <1>2, FS_CardinalityType

(* One slot more.                                                          *)
LEMMA NextSlot ==
  ASSUME NEW b, NEW k \in Nat, NEW p
  PROVE  Cardinality(Slots(b, k + 1, p)) =
           Cardinality(Slots(b, k, p)) + (IF b[k] = p THEN 1 ELSE 0)
<1>1. CASE b[k] = p
  <2>1. Slots(b, k + 1, p) = Slots(b, k, p) \cup {k} /\ k \notin Slots(b, k, p)
    BY <1>1 DEF Slots
  <2> QED
    BY <1>1, <2>1, SlotsAreFinite, FS_AddElement
<1>2. CASE b[k] # p
  <2>1. Slots(b, k + 1, p) = Slots(b, k, p)
    BY <1>2 DEF Slots
  <2> QED
    BY <1>2, <2>1, SlotsAreFinite
<1> QED
  BY <1>1, <1>2

LEMMA InitLedger == Init => OneInMutex /\ Ledger
<1> SUFFICES ASSUME Init PROVE OneInMutex /\ Ledger
  OBVIOUS
<1> USE BufferAssumption DEF Init, BufferInit, Workers
<1>1. OneInMutex
  BY DEF OneInMutex, InMutex
<1>2. ~Fetching
  BY DEF Fetching
<1>3. Cardinality({}) = 0
  BY FS_EmptySet
<1>4. ASSUME NEW p \in Producers
      PROVE  /\ pc[p] # "advance"
             /\ Counted(p) = taken[p] + Cardinality(Slots(buffer, buffer_index, p)) + 0
  <2>1. pc[p] = "loop" /\ Counted(p) = 0 /\ taken[p] = 0
    BY DEF Counted
  <2>2. Slots(buffer, buffer_index, p) = {}
    BY DEF Slots
  <2>3. Cardinality(Slots(buffer, buffer_index, p)) = 0
    BY <1>3, <2>2
  <2> QED
    BY <2>1, <2>3
<1>5. Ledger
  BY <1>2, <1>4 DEF Ledger
<1> QED
  BY <1>1, <1>5

(* The steps that leave the buffer, the index and what was taken alone.    *)
LEMMA LedgerKept ==
  ASSUME CountInv, Ledger, NEW t \in Workers, NEW from, NEW to, Step(t, from, to),
         UNCHANGED <<buffer, buffer_index, taken>>,
         from \notin {"advance", "fetch"}, to \notin {"advance", "fetch"},
         \A p \in Producers : Counted(p)' = Counted(p)
  PROVE  Ledger'
<1>1. \A u \in Workers : pc'[u] = IF u = t THEN to ELSE pc[u]
  BY DEF Step, CountInv, TypeOK, BufferTypeOK
<1>2. pc[t] = from
  BY DEF Step
<1>3. Fetching' <=> Fetching
  BY <1>1, <1>2 DEF Fetching, Workers
<1>4. \A p \in Producers : pc'[p] = "advance" => pc[p] = "advance"
  BY <1>1 DEF Workers
<1> QED
  BY <1>3, <1>4 DEF Ledger

(* Who is in the mutex after a step.                                       *)
LEMMA StepMutex ==
  ASSUME CountInv, OneInMutex, NEW t \in Workers, ThreadStep(t)
  PROVE  OneInMutex'
<1>1. pc \in [Workers -> Labels]
  BY DEF CountInv, TypeOK, BufferTypeOK
<1>2. CASE Lock(t)
  <2>1. /\ buffer_mutex = "unlocked" /\ buffer_mutex' = "locked"
        /\ \A u \in Workers : u # t => pc'[u] = pc[u]
    BY <1>1, <1>2 DEF Lock, Step
  <2> QED
    BY <2>1 DEF OneInMutex, InMutex
<1>3. CASE Unlock(t)
  <2>1. /\ pc[t] = "unlock" /\ pc'[t] = "post"
        /\ \A u \in Workers : u # t => pc'[u] = pc[u]
    BY <1>1, <1>3 DEF Unlock, Step
  <2> QED
    BY <2>1 DEF OneInMutex, InMutex
<1>4. CASE ~Lock(t) /\ ~Unlock(t)
  <2>1. buffer_mutex' = buffer_mutex
    BY <1>4 DEF ThreadStep, BufferStep, LoopTest, InsertStore, InsertAdvance,
         DequeueRetreat, DequeueFetch, ProducerWait, ProducerPost, ConsumerWait, ConsumerPost
  <2>2. PICK from \in Labels, to \in Labels :
          /\ Step(t, from, to)
          /\ to \in {"insert", "advance", "dequeue", "fetch", "unlock"}
               => from \in {"insert", "advance", "dequeue", "fetch", "unlock"}
    BY <1>4 DEF ThreadStep, BufferStep, LoopTest, InsertStore, InsertAdvance,
         DequeueRetreat, DequeueFetch, ProducerWait, ProducerPost, ConsumerWait,
         ConsumerPost, Labels
  <2>3. /\ InMutex(t)' => InMutex(t)
        /\ \A u \in Workers : u # t => (InMutex(u)' <=> InMutex(u))
    BY <1>1, <2>2 DEF Step, InMutex
  <2> QED
    BY <2>1, <2>3 DEF OneInMutex
<1> QED
  BY <1>2, <1>3, <1>4

LEMMA StepLedger ==
  ASSUME CountInv, OneInMutex, Ledger, NEW t \in Workers, ThreadStep(t)
  PROVE  Ledger'
<1>1. /\ pc \in [Workers -> Labels] /\ i \in [Workers -> 0..PRODUCER_LOOPS + 1]
      /\ buffer \in [0..SIZE - 1 -> Producers \cup {0}] /\ buffer_index \in Nat
      /\ taken \in [Producers -> Nat] /\ PRODUCER_LOOPS \in Nat
  BY BufferAssumption DEF CountInv, TypeOK, BufferTypeOK
<1>2. /\ Producers \subseteq Workers /\ Consumers \subseteq Workers
      /\ Producers \cap Consumers = {}
  BY BufferAssumption DEF Workers
<1>3. CASE LoopTest(t)
  <2>1. PICK to \in {"wait", "done"} : Step(t, "loop", to)
    BY <1>3 DEF LoopTest
  <2>2. ASSUME NEW p \in Producers PROVE Counted(p)' = Counted(p)
    BY <1>1, <1>2, <1>3, <2>1 DEF LoopTest, Step, Counted
  <2> QED
    BY <1>3, <2>1, <2>2, LedgerKept DEF LoopTest
<1>4. CASE Lock(t)
  <2>1. PICK to \in {"insert", "dequeue"} :
          Step(t, "lock", to) /\ (t \in Producers => to = "insert")
    BY <1>4 DEF Lock
  <2>2. ASSUME NEW p \in Producers PROVE Counted(p)' = Counted(p)
    BY <1>1, <1>2, <1>4, <2>1 DEF Lock, Step, Counted
  <2> QED
    BY <1>4, <2>1, <2>2, LedgerKept DEF Lock
<1>5. CASE Unlock(t)
  <2>1. ASSUME NEW p \in Producers PROVE Counted(p)' = Counted(p)
    BY <1>1, <1>2, <1>5 DEF Unlock, Step, Counted
  <2> QED
    BY <1>5, <2>1, LedgerKept DEF Unlock
<1>6. CASE ProducerWait(t) \/ ConsumerWait(t)
  <2>1. Step(t, "wait", "lock") /\ UNCHANGED <<buffer, buffer_index, i, taken>>
    BY <1>6 DEF ProducerWait, ConsumerWait
  <2>2. ASSUME NEW p \in Producers PROVE Counted(p)' = Counted(p)
    BY <1>1, <1>2, <2>1 DEF Step, Counted
  <2> QED
    BY <2>1, <2>2, LedgerKept
<1>7. CASE ProducerPost(t) \/ ConsumerPost(t)
  <2>1. Step(t, "post", "loop") /\ UNCHANGED <<buffer, buffer_index, i, taken>>
    BY <1>7 DEF ProducerPost, ConsumerPost
  <2>2. ASSUME NEW p \in Producers PROVE Counted(p)' = Counted(p)
    BY <1>1, <1>2, <2>1 DEF Step, Counted
  <2> QED
    BY <2>1, <2>2, LedgerKept
<1>8. CASE InsertStore(t)
  <2>1. /\ Step(t, "insert", "advance") /\ t \in Producers /\ buffer_index < SIZE
        /\ buffer' = [buffer EXCEPT ![buffer_index] = t]
        /\ UNCHANGED <<buffer_index, i, taken>>
    BY <1>8, AccountingExcludesErrors
    DEF InsertStore, NoOverflowOrUnderflow, Step, CountInv, Roles, Workers
  <2>2. /\ pc[t] = "insert" /\ pc'[t] = "advance"
        /\ \A u \in Workers : u # t => pc'[u] = pc[u] /\ pc[u] \notin {"advance", "fetch"}
    BY <1>1, <2>1 DEF Step, OneInMutex, InMutex
  <2>3. ~Fetching /\ ~Fetching'
    BY <1>2, <2>2 DEF Fetching
  <2>4. /\ buffer'[buffer_index] = t
        /\ \A n \in 0..buffer_index - 1 : buffer'[n] = buffer[n]
    BY <1>1, <2>1, BufferAssumption
  <2>5. ASSUME NEW p \in Producers
        PROVE  /\ Counted(p)' = Counted(p)
               /\ Slots(buffer, buffer_index, p)' = Slots(buffer, buffer_index, p)
    <3>1. Counted(p)' = Counted(p)
      BY <1>1, <1>2, <2>1, <2>2 DEF Counted
    <3>2. Slots(buffer', buffer_index, p) = Slots(buffer, buffer_index, p)
      BY <2>4 DEF Slots
    <3> QED
      BY <2>1, <3>1, <3>2
  <2>6. \A p \in Producers : pc'[p] = "advance" => p = t
    BY <1>2, <2>2
  <2> QED
    BY <2>1, <2>3, <2>4, <2>5, <2>6 DEF Ledger
<1>9. CASE InsertAdvance(t)
  <2>1. /\ Step(t, "advance", "unlock") /\ t \in Producers
        /\ buffer_index' = buffer_index + 1
        /\ UNCHANGED <<buffer, i, taken>>
    BY <1>9 DEF InsertAdvance, Step, CountInv, Roles, Workers
  <2>2. /\ pc[t] = "advance" /\ pc'[t] = "unlock"
        /\ \A u \in Workers : u # t => pc'[u] = pc[u] /\ pc[u] \notin {"advance", "fetch"}
    BY <1>1, <2>1 DEF Step, OneInMutex, InMutex
  <2>3. ~Fetching /\ ~Fetching'
    BY <1>2, <2>2 DEF Fetching
  <2>4. buffer[buffer_index] = t
    BY <2>1, <2>2 DEF Ledger
  <2>5. ASSUME NEW p \in Producers
        PROVE  Counted(p)' = taken'[p] + Cardinality(Slots(buffer, buffer_index, p)')
    <3>1. Cardinality(Slots(buffer, buffer_index + 1, p)) =
            Cardinality(Slots(buffer, buffer_index, p)) + (IF p = t THEN 1 ELSE 0)
      BY <1>1, <2>4, NextSlot
    <3>2. Counted(p) = taken[p] + Cardinality(Slots(buffer, buffer_index, p))
      BY <1>1, <2>3, SlotsAreFinite DEF Ledger
    <3>3. Counted(p)' = Counted(p) + (IF p = t THEN 1 ELSE 0)
      BY <1>1, <1>2, <2>1, <2>2 DEF Counted
    <3>4. Slots(buffer, buffer_index, p)' = Slots(buffer, buffer_index + 1, p)
      BY <2>1 DEF Slots
    <3>5. Cardinality(Slots(buffer, buffer_index, p)) \in Nat /\ taken[p] \in Nat
      BY <1>1, SlotsAreFinite
    <3> QED
      BY <2>1, <3>1, <3>2, <3>3, <3>4, <3>5
  <2>6. \A p \in Producers : pc'[p] # "advance"
    BY <1>2, <2>2
  <2>7. ASSUME NEW p \in Producers
        PROVE Cardinality(Slots(buffer, buffer_index, p)') \in Nat /\ taken'[p] \in Nat
    BY <1>1, <2>1, SlotsAreFinite
  <2> QED
    BY <2>3, <2>5, <2>6, <2>7 DEF Ledger
<1>10. CASE DequeueRetreat(t)
  <2>1. /\ Step(t, "dequeue", "fetch") /\ t \in Consumers /\ buffer_index > 0
        /\ buffer_index' = buffer_index - 1
        /\ UNCHANGED <<buffer, i, taken>>
    BY <1>10, AccountingExcludesErrors
    DEF DequeueRetreat, NoOverflowOrUnderflow, Step, CountInv, Roles, Workers
  <2>2. /\ pc[t] = "dequeue" /\ pc'[t] = "fetch"
        /\ \A u \in Workers : u # t => pc'[u] = pc[u] /\ pc[u] \notin {"advance", "fetch"}
    BY <1>1, <2>1 DEF Step, OneInMutex, InMutex
  <2>3. ~Fetching /\ Fetching'
    BY <1>2, <2>1, <2>2 DEF Fetching
  <2>4. buffer_index' \in Nat /\ buffer_index = buffer_index' + 1
    BY <1>1, <2>1
  <2>5. ASSUME NEW p \in Producers
        PROVE  Counted(p)' = taken'[p] + Cardinality(Slots(buffer, buffer_index, p)')
                               + (IF (buffer[buffer_index])' = p THEN 1 ELSE 0)
    <3>1. Cardinality(Slots(buffer, buffer_index, p)) =
            Cardinality(Slots(buffer, buffer_index', p))
              + (IF buffer[buffer_index'] = p THEN 1 ELSE 0)
      BY <2>4, NextSlot
    <3>2. Counted(p) = taken[p] + Cardinality(Slots(buffer, buffer_index, p))
      BY <1>1, <2>3, SlotsAreFinite DEF Ledger
    <3>3. Counted(p)' = Counted(p)
      BY <1>1, <1>2, <2>1, <2>2 DEF Counted
    <3>4. Slots(buffer, buffer_index, p)' = Slots(buffer, buffer_index', p)
      BY <2>1 DEF Slots
    <3>5. Cardinality(Slots(buffer, buffer_index', p)) \in Nat /\ taken[p] \in Nat
      BY <1>1, <2>4, SlotsAreFinite
    <3> QED
      BY <2>1, <3>1, <3>2, <3>3, <3>4, <3>5
  <2>6. \A p \in Producers : pc'[p] # "advance"
    BY <1>2, <2>1, <2>2
  <2> QED
    BY <2>3, <2>5, <2>6 DEF Ledger
<1>11. CASE DequeueFetch(t)
  <2>1. /\ Step(t, "fetch", "unlock") /\ t \in Consumers
        /\ taken' = [taken EXCEPT ![buffer[buffer_index]] = @ + 1]
        /\ UNCHANGED <<buffer, buffer_index, i>>
    BY <1>11 DEF DequeueFetch, Step, CountInv, Roles, Workers
  <2>2. /\ pc[t] = "fetch" /\ pc'[t] = "unlock"
        /\ \A u \in Workers : u # t => pc'[u] = pc[u] /\ pc[u] \notin {"advance", "fetch"}
    BY <1>1, <2>1 DEF Step, OneInMutex, InMutex
  <2>3. Fetching /\ ~Fetching'
    BY <1>2, <2>1, <2>2 DEF Fetching
  <2>4. ASSUME NEW p \in Producers
        PROVE  Counted(p)' = taken'[p] + Cardinality(Slots(buffer, buffer_index, p)')
    <3>1. Counted(p) = taken[p] + Cardinality(Slots(buffer, buffer_index, p))
                         + (IF buffer[buffer_index] = p THEN 1 ELSE 0)
      BY <2>3 DEF Ledger
    <3>2. taken'[p] = taken[p] + (IF buffer[buffer_index] = p THEN 1 ELSE 0)
      BY <1>1, <2>1
    <3>3. Counted(p)' = Counted(p)
      BY <1>1, <1>2, <2>1, <2>2 DEF Counted
    <3>4. Slots(buffer, buffer_index, p)' = Slots(buffer, buffer_index, p)
      BY <2>1 DEF Slots
    <3>5. Cardinality(Slots(buffer, buffer_index, p)) \in Nat /\ taken[p] \in Nat
      BY <1>1, SlotsAreFinite
    <3> QED
      BY <3>1, <3>2, <3>3, <3>4, <3>5
  <2>5. \A p \in Producers : pc'[p] # "advance"
    BY <1>2, <2>1, <2>2
  <2>6. ASSUME NEW p \in Producers
        PROVE  Counted(p)' = taken'[p] + Cardinality(Slots(buffer, buffer_index, p)') + 0
    <3>1. Cardinality(Slots(buffer, buffer_index, p)') \in Nat /\ taken'[p] \in Nat
      <4>1. buffer_index' \in Nat
        BY <1>1, <2>1
      <4>2. taken'[p] \in Nat
        BY <1>1, <2>1
      <4>3. Slots(buffer, buffer_index, p)' = Slots(buffer, buffer_index, p)
        BY <2>1 DEF Slots
      <4> QED
        BY <1>1, <4>2, <4>3, SlotsAreFinite
    <3> QED
      BY <2>4, <3>1
  <2> QED
    BY <2>3, <2>5, <2>6 DEF Ledger
<1> QED
  BY <1>3, <1>4, <1>5, <1>6, <1>7, <1>8, <1>9, <1>10, <1>11 DEF ThreadStep, BufferStep

(* Whenever the mutex is free, each value that was stored is in the buffer *)
(* or was dequeued once.                                                   *)
THEOREM NoValueIsLost == Spec => []Conservation
<1> DEFINE I == CountInv /\ OneInMutex /\ Ledger
<1>1. Init => I
  BY InitCountInv, InitLedger
<1>2. I /\ [Next]_vars => I'
  <2> SUFFICES ASSUME I, [Next]_vars PROVE OneInMutex' /\ Ledger'
    BY NextCountInv
  <2>1. CASE UNCHANGED vars
    BY <2>1 DEF vars, bufferVars, OneInMutex, InMutex, Ledger, Counted, Slots, Fetching
  <2> QED
    BY <2>1, StepMutex, StepLedger DEF Next, MainReturns
<1>3. I => Conservation
  <2> SUFFICES ASSUME I, buffer_mutex = "unlocked", NEW p \in Producers
               PROVE  Stored(p) = taken[p]
                        + Cardinality({n \in 0..buffer_index - 1 : buffer[n] = p})
    BY DEF Conservation
  <2>1. \A t \in Workers : ~InMutex(t)
    BY DEF OneInMutex
  <2>2. Stored(p) = Counted(p) /\ ~Fetching
    BY <2>1 DEF InMutex, Stored, Counted, Fetching, Workers
  <2>3. /\ taken[p] \in Nat /\ buffer_index \in Nat
        /\ Cardinality(Slots(buffer, buffer_index, p)) \in Nat
    BY SlotsAreFinite DEF CountInv, TypeOK, BufferTypeOK
  <2> QED
    BY <2>2, <2>3 DEF Ledger, Slots
<1> QED
  BY <1>1, <1>2, <1>3, PTL DEF Spec
-----------------------------------------------------------------------------
(* What prod_con.c needs besides, so that nobody is left waiting for ever. *)
(* The mutex is held by somebody, and the index is the number of times the *)
(* producers advanced it less the number of times the consumers retreated  *)
(* it.                                                                     *)
MutexInUse == buffer_mutex = "locked" => \E t \in Workers : InMutex(t)

(* How many of its values t has counted in or out.                         *)
Passed(t) ==
  i[t] - (IF pc[t] \in {"wait", "lock", "insert", "advance", "dequeue", "done"} THEN 1 ELSE 0)

Passes(S) == {x \in S \X (1..PRODUCER_LOOPS) : x[2] <= Passed(x[1])}

Begun ==
  \A t \in Workers :
    /\ pc[t] # "loop" => i[t] >= 1
    /\ pc[t] = "done" => i[t] = PRODUCER_LOOPS + 1

Tally ==
  Cardinality(Passes(Producers)) = Cardinality(Passes(Consumers)) + buffer_index

TallyInv == OneInMutex /\ MutexInUse /\ Begun /\ Tally

LEMMA PassesAreFinite ==
  /\ IsFiniteSet(Producers \X (1..PRODUCER_LOOPS))
  /\ IsFiniteSet(Consumers \X (1..PRODUCER_LOOPS))
  /\ Cardinality(Producers \X (1..PRODUCER_LOOPS))
       = Cardinality(Consumers \X (1..PRODUCER_LOOPS))
  /\ \A S \in {Producers, Consumers} :
       IsFiniteSet(Passes(S)) /\ Cardinality(Passes(S)) \in Nat
<1>1. IsFiniteSet(1..PRODUCER_LOOPS)
  BY FS_Interval, BufferAssumption
<1>2. /\ IsFiniteSet(Producers \X (1..PRODUCER_LOOPS))
      /\ IsFiniteSet(Consumers \X (1..PRODUCER_LOOPS))
      /\ Cardinality(Producers \X (1..PRODUCER_LOOPS))
           = Cardinality(Producers) * Cardinality(1..PRODUCER_LOOPS)
      /\ Cardinality(Consumers \X (1..PRODUCER_LOOPS))
           = Cardinality(Consumers) * Cardinality(1..PRODUCER_LOOPS)
  BY <1>1, FS_Product, BufferAssumption
<1>3. ASSUME NEW S \in {Producers, Consumers}
      PROVE  IsFiniteSet(Passes(S)) /\ Cardinality(Passes(S)) \in Nat
  <2>1. IsFiniteSet(S \X (1..PRODUCER_LOOPS))
    BY <1>2
  <2>2. IsFiniteSet(Passes(S))
    BY <2>1, FS_Subset DEF Passes
  <2> QED
    BY <2>2, FS_CardinalityType
<1> QED
  BY <1>2, <1>3, BufferAssumption

(* One value more of t.                                                    *)
LEMMA OnePassMore ==
  ASSUME NEW S \in {Producers, Consumers}, NEW t \in S, CountInv,
         Passed(t)' = Passed(t) + 1, Passed(t)' \in 1..PRODUCER_LOOPS,
         \A u \in S : u # t => Passed(u)' = Passed(u)
  PROVE  Cardinality(Passes(S)') = Cardinality(Passes(S)) + 1
<1>1. PICK n \in 1..PRODUCER_LOOPS :
        /\ Passed(t)' = n /\ Passed(t) = n - 1
  <2>1. Passed(t) \in Int
    BY DEF Passed, CountInv, TypeOK, BufferTypeOK, Workers
  <2> QED
    BY <2>1, BufferAssumption
<1>2. <<t, n>> \notin Passes(S)
  BY <1>1 DEF Passes
<1>3. Passes(S)' = Passes(S) \cup {<<t, n>>}
  <2>1. ASSUME NEW x \in S \X (1..PRODUCER_LOOPS)
        PROVE  x[2] <= Passed(x[1])' <=> x[2] <= Passed(x[1]) \/ x = <<t, n>>
    <3>1. x[1] \in S /\ x[2] \in 1..PRODUCER_LOOPS /\ x = <<x[1], x[2]>>
      OBVIOUS
    <3>2. CASE x[1] = t
      <4>1. Passed(x[1])' = n /\ Passed(x[1]) = n - 1
        BY <1>1, <3>2
      <4>2. x = <<t, n>> <=> x[2] = n
        BY <3>1, <3>2
      <4> QED
        BY <3>1, <4>1, <4>2, BufferAssumption
    <3>3. CASE x[1] # t
      <4>1. Passed(x[1])' = Passed(x[1]) /\ x # <<t, n>>
        BY <3>1, <3>3
      <4> QED
        BY <4>1
    <3> QED
      BY <3>2, <3>3
  <2>2. Passes(S)' = {x \in S \X (1..PRODUCER_LOOPS) : x[2] <= Passed(x[1])'}
    BY DEF Passes
  <2>3. <<t, n>> \in S \X (1..PRODUCER_LOOPS)
    OBVIOUS
  <2> QED
    BY <2>1, <2>2, <2>3 DEF Passes
<1> QED
  BY <1>2, <1>3, PassesAreFinite, FS_AddElement

LEMMA SamePasses ==
  ASSUME NEW S, \A u \in S : Passed(u)' = Passed(u)
  PROVE  Passes(S)' = Passes(S)
BY DEF Passes

LEMMA InitTally == Init => TallyInv
<1> SUFFICES ASSUME Init PROVE TallyInv
  OBVIOUS
<1>1. OneInMutex
  BY InitLedger
<1>2. MutexInUse /\ Begun
  BY DEF Init, BufferInit, MutexInUse, Begun
<1>3. ASSUME NEW S \in {Producers, Consumers} PROVE Passes(S) = {}
  <2>1. \A u \in S : Passed(u) = 0
    BY DEF Init, BufferInit, Passed, Workers
  <2> QED
    BY <2>1, BufferAssumption DEF Passes
<1>4. Tally
  <2>1. Passes(Producers) = {} /\ Passes(Consumers) = {} /\ Cardinality({}) = 0
    BY <1>3, FS_EmptySet
  <2>2. buffer_index = 0
    BY DEF Init, BufferInit
  <2> QED
    BY <2>1, <2>2 DEF Tally
<1> QED
  BY <1>1, <1>2, <1>4 DEF TallyInv

LEMMA StepMutexInUse ==
  ASSUME CountInv, OneInMutex, MutexInUse, NEW t \in Workers, ThreadStep(t)
  PROVE  MutexInUse'
<1>1. pc \in [Workers -> Labels]
  BY DEF CountInv, TypeOK, BufferTypeOK
<1>2. CASE Lock(t)
  <2>1. InMutex(t)'
    BY <1>1, <1>2 DEF Lock, Step, InMutex
  <2> QED
    BY <2>1 DEF MutexInUse
<1>3. CASE Unlock(t)
  BY <1>3 DEF Unlock, MutexInUse
<1>4. CASE ~Lock(t) /\ ~Unlock(t)
  <2>1. buffer_mutex' = buffer_mutex
    BY <1>4 DEF ThreadStep, BufferStep, LoopTest, InsertStore, InsertAdvance,
         DequeueRetreat, DequeueFetch, ProducerWait, ProducerPost, ConsumerWait, ConsumerPost
  <2>2. PICK from \in Labels, to \in Labels :
          /\ Step(t, from, to)
          /\ from \in {"insert", "advance", "dequeue", "fetch", "unlock"}
               => to \in {"insert", "advance", "dequeue", "fetch", "unlock"}
    BY <1>4 DEF ThreadStep, BufferStep, LoopTest, InsertStore, InsertAdvance,
         DequeueRetreat, DequeueFetch, ProducerWait, ProducerPost, ConsumerWait,
         ConsumerPost, Labels
  <2>3. \A u \in Workers : InMutex(u) => InMutex(u)'
    BY <1>1, <2>2 DEF Step, InMutex
  <2> QED
    BY <2>1, <2>3 DEF MutexInUse
<1> QED
  BY <1>2, <1>3, <1>4

LEMMA StepTally ==
  ASSUME CountInv, TallyInv, NEW t \in Workers, ThreadStep(t)
  PROVE  Begun' /\ Tally'
<1>1. /\ pc \in [Workers -> Labels] /\ i \in [Workers -> 0..PRODUCER_LOOPS + 1]
      /\ PRODUCER_LOOPS \in Nat /\ buffer_index \in Nat
      /\ Producers \subseteq Workers /\ Consumers \subseteq Workers
      /\ Producers \cap Consumers = {}
      /\ Cardinality(Passes(Producers)) \in Nat /\ Cardinality(Passes(Consumers)) \in Nat
  BY BufferAssumption, PassesAreFinite DEF CountInv, TypeOK, BufferTypeOK, Workers
<1>2. /\ i[t] \in 0..PRODUCER_LOOPS + 1
      /\ pc[t] # "loop" => i[t] >= 1
      /\ pc[t] # "done" => i[t] <= PRODUCER_LOOPS
  BY <1>1 DEF CountInv, TallyInv, Begun, LoopBound
<1>3. CASE InsertAdvance(t)
  <2>1. /\ pc[t] = "advance" /\ pc' = [pc EXCEPT ![t] = "unlock"] /\ t \in Producers
        /\ buffer_index' = buffer_index + 1 /\ i' = i
    BY <1>3 DEF InsertAdvance, Step, CountInv, Roles, Workers
  <2>2. Passed(t)' = Passed(t) + 1 /\ Passed(t)' \in 1..PRODUCER_LOOPS
    BY <1>1, <1>2, <2>1 DEF Passed
  <2>3. \A u \in Workers : u # t => Passed(u)' = Passed(u)
    BY <1>1, <2>1 DEF Passed
  <2>4. Cardinality(Passes(Producers)') = Cardinality(Passes(Producers)) + 1
    BY <1>1, <2>1, <2>2, <2>3, OnePassMore
  <2>5. Passes(Consumers)' = Passes(Consumers)
    <3>1. \A u \in Consumers : Passed(u)' = Passed(u)
      BY <1>1, <2>1, <2>3
    <3> QED
      BY <3>1, SamePasses
  <2>6. Tally'
    BY <1>1, <2>1, <2>4, <2>5 DEF TallyInv, Tally
  <2>7. Begun'
    BY <1>1, <2>1 DEF TallyInv, Begun
  <2> QED
    BY <2>6, <2>7
<1>4. CASE DequeueRetreat(t)
  <2>1. /\ pc[t] = "dequeue" /\ pc' = [pc EXCEPT ![t] = "fetch"] /\ t \in Consumers
        /\ buffer_index' = buffer_index - 1 /\ i' = i
    BY <1>4, AccountingExcludesErrors
    DEF DequeueRetreat, NoOverflowOrUnderflow, Step, CountInv, Roles, Workers
  <2>2. Passed(t)' = Passed(t) + 1 /\ Passed(t)' \in 1..PRODUCER_LOOPS
    BY <1>1, <1>2, <2>1 DEF Passed
  <2>3. \A u \in Workers : u # t => Passed(u)' = Passed(u)
    BY <1>1, <2>1 DEF Passed
  <2>4. Cardinality(Passes(Consumers)') = Cardinality(Passes(Consumers)) + 1
    BY <1>1, <2>1, <2>2, <2>3, OnePassMore
  <2>5. Passes(Producers)' = Passes(Producers)
    <3>1. \A u \in Producers : Passed(u)' = Passed(u)
      BY <1>1, <2>1, <2>3
    <3> QED
      BY <3>1, SamePasses
  <2>6. Tally'
    BY <1>1, <2>1, <2>4, <2>5 DEF TallyInv, Tally
  <2>7. Begun'
    BY <1>1, <2>1 DEF TallyInv, Begun
  <2> QED
    BY <2>6, <2>7
<1>5. CASE ~InsertAdvance(t) /\ ~DequeueRetreat(t)
  <2>1. buffer_index' = buffer_index
    BY <1>5 DEF ThreadStep, BufferStep, LoopTest, Lock, InsertStore, DequeueFetch, Unlock,
         ProducerWait, ProducerPost, ConsumerWait, ConsumerPost
  <2>2. CASE LoopTest(t)
    <3>1. /\ pc[t] = "loop" /\ i' = [i EXCEPT ![t] = @ + 1]
          /\ pc' = [pc EXCEPT ![t] = IF i[t] < PRODUCER_LOOPS THEN "wait" ELSE "done"]
      BY <2>2 DEF LoopTest, Step
    <3>2. \A u \in Workers : Passed(u)' = Passed(u)
      BY <1>1, <3>1 DEF Passed
    <3>3. Begun'
      BY <1>1, <1>2, <3>1 DEF TallyInv, Begun
    <3> QED
      BY <1>1, <2>1, <3>2, <3>3, SamePasses DEF TallyInv, Tally
  <2>3. CASE ~LoopTest(t)
    <3>1. /\ i' = i
          /\ \E from \in Labels, to \in Labels :
               /\ Step(t, from, to) /\ from # "loop" /\ to # "done"
               /\ from \in {"wait", "lock", "insert", "advance", "dequeue", "done"}
                    <=> to \in {"wait", "lock", "insert", "advance", "dequeue", "done"}
      BY <1>5, <2>3, AccountingExcludesErrors
      DEF ThreadStep, BufferStep, Lock, InsertStore, NoOverflowOrUnderflow, DequeueFetch,
          Unlock, ProducerWait, ProducerPost, ConsumerWait, ConsumerPost, Labels, Step
    <3>2. PICK from \in Labels, to \in Labels :
            /\ pc[t] = from /\ pc' = [pc EXCEPT ![t] = to] /\ from # "loop" /\ to # "done"
            /\ from \in {"wait", "lock", "insert", "advance", "dequeue", "done"}
                 <=> to \in {"wait", "lock", "insert", "advance", "dequeue", "done"}
      BY <3>1 DEF Step
    <3>3. \A u \in Workers : Passed(u)' = Passed(u)
      BY <1>1, <3>1, <3>2 DEF Passed
    <3>4. Begun'
      BY <1>1, <1>2, <3>1, <3>2 DEF TallyInv, Begun
    <3> QED
      BY <1>1, <2>1, <3>3, <3>4, SamePasses DEF TallyInv, Tally
  <2> QED
    BY <2>2, <2>3
<1> QED
  BY <1>3, <1>4, <1>5

LEMMA TallyHolds == Spec => [](CountInv /\ TallyInv)
<1>1. CountInv /\ TallyInv /\ [Next]_vars => TallyInv'
  <2> SUFFICES ASSUME CountInv, TallyInv, [Next]_vars PROVE TallyInv'
    OBVIOUS
  <2>1. CASE UNCHANGED vars
    BY <2>1 DEF vars, bufferVars, TallyInv, OneInMutex, MutexInUse, InMutex, Begun, Tally,
       Passes, Passed
  <2>2. ASSUME NEW t \in Workers, ThreadStep(t) PROVE TallyInv'
    BY <2>2, StepMutex, StepMutexInUse, StepTally DEF TallyInv
  <2> QED
    BY <2>1, <2>2 DEF Next, MainReturns
<1> QED
  BY <1>1, InitCountInv, NextCountInv, InitTally, PTL DEF Spec

(* Of two sides of which one is through, and a thread of the other is not, *)
(* the first has counted more.                                             *)
LEMMA OneSideIsThrough ==
  ASSUME CountInv, TallyInv,
         NEW S \in {Producers, Consumers}, NEW R \in {Producers, Consumers},
         \A u \in S : pc[u] = "done", NEW t \in R, pc[t] = "wait"
  PROVE  Cardinality(Passes(R)) < Cardinality(Passes(S))
<1>1. /\ Producers \subseteq Workers /\ Consumers \subseteq Workers
      /\ i \in [Workers -> 0..PRODUCER_LOOPS + 1] /\ PRODUCER_LOOPS \in Nat
  BY BufferAssumption DEF Workers, CountInv, TypeOK, BufferTypeOK
<1>2. Passes(S) = S \X (1..PRODUCER_LOOPS)
  <2>1. \A u \in S : Passed(u) = PRODUCER_LOOPS
    BY <1>1 DEF Passed, TallyInv, Begun
  <2> QED
    BY <1>1, <2>1 DEF Passes
<1>3. i[t] \in 1..PRODUCER_LOOPS /\ Passed(t) = i[t] - 1
  BY <1>1 DEF TallyInv, Begun, CountInv, LoopBound, Passed
<1>4. <<t, i[t]>> \in R \X (1..PRODUCER_LOOPS) /\ <<t, i[t]>> \notin Passes(R)
  BY <1>3 DEF Passes
<1>5. /\ Passes(R) \subseteq R \X (1..PRODUCER_LOOPS)
      /\ Passes(R) # R \X (1..PRODUCER_LOOPS)
  BY <1>4 DEF Passes
<1>6. /\ IsFiniteSet(R \X (1..PRODUCER_LOOPS))
      /\ Cardinality(R \X (1..PRODUCER_LOOPS)) = Cardinality(S \X (1..PRODUCER_LOOPS))
  BY PassesAreFinite
<1>7. Cardinality(Passes(R)) # Cardinality(R \X (1..PRODUCER_LOOPS))
      /\ Cardinality(Passes(R)) <= Cardinality(R \X (1..PRODUCER_LOOPS))
  BY <1>5, <1>6, FS_Subset
<1>8. Cardinality(Passes(R)) \in Nat /\ Cardinality(Passes(S)) \in Nat
  BY PassesAreFinite
<1> QED
  BY <1>2, <1>6, <1>7, <1>8

(* A consumer that waits after the last producer has finished finds a      *)
(* value, and no producer waits after the last consumer has finished.      *)
LEMMA NobodyIsLeftOver ==
  ASSUME CountInv, TallyInv
  PROVE  /\ (\A p \in Producers : pc[p] = "done") /\ (\E c \in Consumers : pc[c] = "wait")
              => buffer_index > 0
         /\ (\A c \in Consumers : pc[c] = "done") => \A p \in Producers : pc[p] # "wait"
<1>1. /\ Cardinality(Passes(Producers)) \in Nat /\ Cardinality(Passes(Consumers)) \in Nat
      /\ buffer_index \in Nat
  BY PassesAreFinite DEF CountInv, TypeOK, BufferTypeOK
<1>2. ASSUME \A p \in Producers : pc[p] = "done", NEW c \in Consumers, pc[c] = "wait"
      PROVE  buffer_index > 0
  <2>1. Cardinality(Passes(Consumers)) < Cardinality(Passes(Producers))
    BY <1>2, OneSideIsThrough
  <2> QED
    BY <1>1, <2>1 DEF TallyInv, Tally
<1>3. ASSUME \A c \in Consumers : pc[c] = "done", NEW p \in Producers, pc[p] = "wait"
      PROVE  FALSE
  <2>1. Cardinality(Passes(Producers)) < Cardinality(Passes(Consumers))
    BY <1>3, OneSideIsThrough
  <2> QED
    BY <1>1, <2>1 DEF TallyInv, Tally
<1> QED
  BY <1>2, <1>3
=============================================================================
