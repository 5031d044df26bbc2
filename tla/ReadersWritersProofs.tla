------------------------ MODULE ReadersWritersProofs ------------------------
(***************************************************************************)
(* Theorems about the readers and writers, for any number of either.       *)
(*                                                                         *)
(* First the two programs of ReadersWriters.  What they guarantee, all     *)
(* four programs of CountedReaders guarantee, because none of them does    *)
(* anything else to wrt, mutex, cnt and numreader; and countSem keeps its  *)
(* limit, by what the library's proofs say of it.                          *)
(***************************************************************************)
EXTENDS CountedReaders, FiniteSetTheorems, TLAPS

(* The statements between a lock and an unlock of mutex.                   *)
Holds(r) == pc[r] \in {"enter", "first", "unlock1", "leave", "last", "unlock2"}

(* The readers that numreader counts.                                      *)
Counted ==
  {r \in Readers : pc[r] \in {"first", "unlock1", "read", "lock2", "leave"}}

(* The readers hold wrt together although one of them took it and another  *)
(* gives it back: somebody is counted and the first of them has got it, or *)
(* the last has not given it back yet.                                     *)
Group ==
  \/ \E r \in Readers : pc[r] = "last"
  \/ Counted # {} /\ \A r \in Readers : pc[r] # "first"

MutexInv ==
  /\ \A r \in Readers : Holds(r) => mutex = "locked"
  /\ \A r, q \in Readers : Holds(r) /\ Holds(q) => r = q

(* With mutex held, numreader tells the first reader and the last that     *)
(* there is no other.                                                      *)
CountInv ==
  /\ numreader = Cardinality(Counted)
  /\ \A r \in Readers : pc[r] = "first" => Counted = {r}
  /\ \A r \in Readers : pc[r] = "last" => Counted = {}

(* wrt is taken exactly once: by one writer or by the readers together.    *)
WrtInv ==
  /\ \A w \in Writers : Writing(w) => ~Group
  /\ \A v, w \in Writers : Writing(v) /\ Writing(w) => v = w
  /\ wrt = 1 <=> ~Group /\ \A w \in Writers : ~Writing(w)

LockInv == TypeOK /\ MutexInv /\ CountInv /\ WrtInv

(* Once main has destroyed the locks they protect nothing, but no writer   *)
(* is left.                                                                *)
Inv ==
  /\ TypeOK
  /\ main = "join" => LockInv
  /\ main # "join" => \A w \in Writers : pc[w] = "done"

LEMMA CountOfReaders ==
  ASSUME NEW S \in SUBSET Readers
  PROVE  IsFiniteSet(S) /\ Cardinality(S) \in 0..Cardinality(Readers)
<1>1. IsFiniteSet(S) /\ Cardinality(S) <= Cardinality(Readers)
  BY FS_Subset, ReadersWritersAssumption
<1> QED
  BY <1>1, FS_CardinalityType, ReadersWritersAssumption

(* What numreader says about the set it counts.                            *)
LEMMA Counting ==
  /\ IsFiniteSet(Counted)
  /\ Cardinality(Counted) \in 0..Cardinality(Readers)
  /\ Cardinality(Counted) = 0 <=> Counted = {}
  /\ \A r \in Counted : Cardinality(Counted) = 1 <=> Counted = {r}
<1>1. IsFiniteSet(Counted) /\ Cardinality(Counted) \in 0..Cardinality(Readers)
  BY CountOfReaders DEF Counted
<1>2. Cardinality(Counted) = 0 <=> Counted = {}
  BY <1>1, FS_EmptySet
<1>3. \A r \in Counted : Cardinality(Counted) = 1 <=> Counted = {r}
  BY <1>1, FS_Singleton
<1> QED
  BY <1>1, <1>2, <1>3

LEMMA InitInv == Init => LockInv
<1> SUFFICES ASSUME Init PROVE LockInv
  OBVIOUS
<1>1. Counted = {}
  BY DEF Init, Counted, Threads
<1>2. TypeOK
  BY Counting, <1>1, ReadersWritersAssumption
  DEF Init, TypeOK, Threads, ReaderLabels, WriterLabels
<1>3. MutexInv
  BY DEF Init, MutexInv, Holds, Threads
<1>4. CountInv
  BY <1>1, FS_EmptySet DEF Init, CountInv, Threads
<1>5. WrtInv
  BY <1>1, ReadersWritersAssumption DEF Init, WrtInv, Group, Writing, Threads
<1> QED
  BY <1>2, <1>3, <1>4, <1>5 DEF LockInv

-----------------------------------------------------------------------------
(* A writer's step concerns wrt alone.                                     *)
LEMMA WriterInv ==
  ASSUME LockInv, NEW w \in Writers, WriterStep(w), UNCHANGED <<joined, main>>
  PROVE  LockInv'
<1>1. PICK from \in WriterLabels, to \in WriterLabels : Step(w, from, to)
  BY DEF WriterStep, WriterWait, WriterLoad, WriterStore, WriterPost, WriterLabels
<1>2. pc' = [pc EXCEPT ![w] = to] /\ pc \in [Threads -> ReaderLabels \cup WriterLabels]
  BY <1>1 DEF Step, LockInv, TypeOK
<1>3. \A r \in Readers : pc'[r] = pc[r]
  BY <1>2, ReadersWritersAssumption DEF Threads
<1>4. \A v \in Writers : pc'[v] = IF v = w THEN to ELSE pc[v]
  BY <1>2 DEF Threads
<1>5. UNCHANGED <<mutex, numreader>>
  BY DEF WriterStep, WriterWait, WriterLoad, WriterStore, WriterPost
<1>6. Counted' = Counted /\ (Group' <=> Group)
  BY <1>3 DEF Counted, Group
<1>7. MutexInv' /\ CountInv'
  BY <1>3, <1>5, <1>6 DEF LockInv, MutexInv, CountInv, Holds
<1>8. TypeOK'
  BY <1>2, <1>3, <1>4, <1>5, ReadersWritersAssumption
  DEF LockInv, TypeOK, WrtInv, Writing, Step, Threads, WriterStep, WriterWait,
      WriterLoad, WriterStore, WriterPost
<1>9. WrtInv'
  <2>1. CASE WriterWait(w)
    BY <2>1, <1>3, <1>4, <1>6 DEF LockInv, TypeOK, WrtInv, Writing, WriterWait, Step,
         Threads
  <2>2. CASE WriterLoad(w) \/ WriterStore(w)
    BY <2>2, <1>3, <1>4, <1>6
    DEF LockInv, TypeOK, WrtInv, Writing, WriterLoad, WriterStore, Step, Threads
  <2>3. CASE WriterPost(w)
    BY <2>3, <1>3, <1>4, <1>6 DEF LockInv, TypeOK, WrtInv, Writing, WriterPost, Step,
         Threads
  <2> QED
    BY <2>1, <2>2, <2>3 DEF WriterStep
<1> QED
  BY <1>7, <1>8, <1>9 DEF LockInv

-----------------------------------------------------------------------------
(* What a reader's step does to the program counters.                      *)
LEMMA ReaderPc ==
  ASSUME TypeOK, NEW r \in Readers, NEW from, NEW to \in ReaderLabels,
         Step(r, from, to)
  PROVE  /\ pc[r] = from /\ pc'[r] = to
         /\ \A t \in Threads : t # r => pc'[t] = pc[t]
         /\ pc' \in [Threads -> ReaderLabels \cup WriterLabels]
         /\ \A q \in Readers : pc'[q] \in ReaderLabels
         /\ \A w \in Writers : pc'[w] = pc[w] /\ pc'[w] \in WriterLabels
         /\ Counted' = IF to \in {"first", "unlock1", "read", "lock2", "leave"}
                         THEN Counted \cup {r} ELSE Counted \ {r}
<1>1. r \in Threads /\ \A w \in Writers : w \in Threads /\ w # r
  BY ReadersWritersAssumption DEF Threads
<1>2. pc' = [pc EXCEPT ![r] = to] /\ pc[r] = from
  BY DEF Step
<1>3. pc'[r] = to /\ \A t \in Threads : t # r => pc'[t] = pc[t]
  BY <1>1, <1>2 DEF TypeOK
<1>4. Counted' = IF to \in {"first", "unlock1", "read", "lock2", "leave"}
                   THEN Counted \cup {r} ELSE Counted \ {r}
  BY <1>3 DEF Counted, Threads
<1> QED
  BY <1>1, <1>2, <1>3, <1>4 DEF TypeOK, Threads

LEMMA ReaderInv ==
  ASSUME LockInv, NEW r \in Readers, ReaderStep(r), UNCHANGED <<joined, main>>
  PROVE  LockInv'
<1> USE DEF LockInv
<1>1. r \in Threads
  BY DEF Threads
<1>2. UNCHANGED <<cnt, loaded>>
  BY DEF ReaderStep, Lock, Enter, FirstReader, Unlock, Read, Leave, LastReader
<1>3. CASE Lock(r)
  <2>1. PICK to \in {"enter", "leave"} :
          /\ Step(r, IF to = "enter" THEN "lock1" ELSE "lock2", to)
          /\ mutex = "unlocked" /\ mutex' = "locked"
          /\ UNCHANGED <<wrt, numreader>>
    BY <1>3 DEF Lock
  <2>2. Counted' = Counted
    BY <2>1, ReaderPc DEF Counted, ReaderLabels
  <2>3. Group' <=> Group
    BY <2>1, <2>2, ReaderPc DEF Group, ReaderLabels, Threads
  <2>4. TypeOK'
    BY <1>2, <2>1, ReaderPc DEF TypeOK, ReaderLabels
  <2>5. MutexInv'
    BY <2>1, ReaderPc DEF MutexInv, Holds, ReaderLabels, Threads
  <2>6. CountInv'
    BY <2>1, <2>2, ReaderPc DEF CountInv, ReaderLabels, Threads
  <2>7. WrtInv'
    BY <2>1, <2>3, ReaderPc DEF WrtInv, Writing, ReaderLabels
  <2> QED
    BY <2>4, <2>5, <2>6, <2>7
<1>4. CASE Enter(r)
  <2> DEFINE to == IF numreader = 0 THEN "first" ELSE "unlock1"
  <2>1. /\ Step(r, "enter", to) /\ to \in ReaderLabels
        /\ numreader' = numreader + 1
        /\ UNCHANGED <<wrt, mutex>>
    BY <1>4 DEF Enter, ReaderLabels
  <2>2. Counted' = Counted \cup {r} /\ r \notin Counted
    BY <2>1, ReaderPc DEF Counted
  <2>3. numreader' = Cardinality(Counted')
    BY <2>1, <2>2, Counting, FS_AddElement DEF CountInv
  <2>4. \A q \in Readers : pc[q] \notin {"first", "last"}
    BY <2>1, ReaderPc DEF MutexInv, Holds
  <2>5. Group' <=> Group
    BY <2>1, <2>2, <2>4, Counting, ReaderPc DEF Group, CountInv, Threads
  <2>6. TypeOK'
    <3>1. Counted' \subseteq Readers
      BY <2>2 DEF Counted
    <3>2. numreader' \in 0..Cardinality(Readers)
      BY <2>3, <3>1, CountOfReaders
    <3> QED
      BY <1>2, <2>1, <3>2, ReaderPc DEF TypeOK
  <2>7. MutexInv'
    BY <2>1, ReaderPc DEF MutexInv, Holds, Threads
  <2>8. CountInv'
    BY <2>1, <2>2, <2>3, <2>4, Counting, ReaderPc DEF CountInv, Threads
  <2>9. WrtInv'
    BY <2>1, <2>5, ReaderPc DEF WrtInv, Writing
  <2> QED
    BY <2>6, <2>7, <2>8, <2>9
<1>5. CASE FirstReader(r)
  <2>1. /\ Step(r, "first", "unlock1") /\ "unlock1" \in ReaderLabels
        /\ wrt > 0 /\ wrt' = wrt - 1
        /\ UNCHANGED <<mutex, numreader>>
    BY <1>5 DEF FirstReader, ReaderLabels
  <2>2. Counted' = Counted /\ Counted # {}
    BY <2>1, ReaderPc DEF Counted
  <2>3. ~Group /\ Group'
    BY <2>1, <2>2, ReaderPc DEF Group, MutexInv, Holds, Threads
  <2>4. wrt = 1 /\ wrt' = 0
    BY <2>1 DEF TypeOK
  <2>5. TypeOK'
    BY <1>2, <2>1, <2>4, ReaderPc DEF TypeOK
  <2>6. MutexInv'
    BY <2>1, ReaderPc DEF MutexInv, Holds, Threads
  <2>7. CountInv'
    BY <2>1, <2>2, ReaderPc DEF CountInv, Threads
  <2>8. WrtInv'
    BY <2>1, <2>3, <2>4, ReaderPc DEF WrtInv, Writing
  <2> QED
    BY <2>5, <2>6, <2>7, <2>8
<1>6. CASE Unlock(r)
  <2>1. PICK to \in {"read", "done"} :
          /\ Step(r, IF to = "read" THEN "unlock1" ELSE "unlock2", to)
          /\ mutex' = "unlocked"
          /\ UNCHANGED <<wrt, numreader>>
    BY <1>6 DEF Unlock
  <2>2. Counted' = Counted
    BY <2>1, ReaderPc DEF Counted, ReaderLabels
  <2>3. Group' <=> Group
    BY <2>1, <2>2, ReaderPc DEF Group, ReaderLabels, Threads
  <2>4. TypeOK'
    BY <1>2, <2>1, ReaderPc DEF TypeOK, ReaderLabels
  <2>5. MutexInv'
    BY <2>1, ReaderPc DEF MutexInv, Holds, ReaderLabels, Threads
  <2>6. CountInv'
    BY <2>1, <2>2, ReaderPc DEF CountInv, ReaderLabels, Threads
  <2>7. WrtInv'
    BY <2>1, <2>3, ReaderPc DEF WrtInv, Writing, ReaderLabels
  <2> QED
    BY <2>4, <2>5, <2>6, <2>7
<1>7. CASE Read(r)
  <2>1. /\ Step(r, "read", "lock2") /\ "lock2" \in ReaderLabels
        /\ UNCHANGED <<wrt, mutex, numreader>>
    BY <1>7 DEF Read, ReaderLabels
  <2>2. Counted' = Counted
    BY <2>1, ReaderPc DEF Counted
  <2>3. Group' <=> Group
    BY <2>1, <2>2, ReaderPc DEF Group, Threads
  <2>4. TypeOK' /\ MutexInv' /\ CountInv' /\ WrtInv'
    BY <1>2, <2>1, <2>2, <2>3, ReaderPc
    DEF TypeOK, MutexInv, Holds, CountInv, WrtInv, Writing, Threads
  <2> QED
    BY <2>4
<1>8. CASE Leave(r)
  <2> DEFINE to == IF numreader = 1 THEN "last" ELSE "unlock2"
  <2>1. /\ Step(r, "leave", to) /\ to \in ReaderLabels
        /\ numreader' = numreader - 1
        /\ UNCHANGED <<wrt, mutex>>
    BY <1>8 DEF Leave, ReaderLabels
  <2>2. Counted' = Counted \ {r} /\ r \in Counted
    BY <2>1, ReaderPc DEF Counted
  <2>3. numreader' = Cardinality(Counted')
    BY <2>1, <2>2, Counting, FS_RemoveElement DEF CountInv
  <2>4. \A q \in Readers : pc[q] \notin {"first", "last"}
    BY <2>1, ReaderPc DEF MutexInv, Holds
  <2>5. Group /\ Group'
    BY <2>1, <2>2, <2>4, Counting, ReaderPc DEF Group, CountInv, Threads
  <2>6. TypeOK'
    <3>1. Counted' \subseteq Readers
      BY <2>2 DEF Counted
    <3>2. numreader' \in 0..Cardinality(Readers)
      BY <2>3, <3>1, CountOfReaders
    <3> QED
      BY <1>2, <2>1, <3>2, ReaderPc DEF TypeOK
  <2>7. MutexInv'
    BY <2>1, ReaderPc DEF MutexInv, Holds, Threads
  <2>8. CountInv'
    BY <2>1, <2>2, <2>3, <2>4, Counting, ReaderPc DEF CountInv, Threads
  <2>9. WrtInv'
    BY <2>1, <2>5, ReaderPc DEF WrtInv, Writing
  <2> QED
    BY <2>6, <2>7, <2>8, <2>9
<1>9. CASE LastReader(r)
  <2>1. /\ Step(r, "last", "unlock2") /\ "unlock2" \in ReaderLabels
        /\ wrt' = wrt + 1
        /\ UNCHANGED <<mutex, numreader>>
    BY <1>9 DEF LastReader, ReaderLabels
  <2>2. Counted' = {} /\ Counted = {}
    BY <2>1, ReaderPc DEF CountInv
  <2>3. Group /\ ~Group'
    BY <2>1, <2>2, ReaderPc DEF Group, MutexInv, Holds, Threads
  <2>4. wrt = 0 /\ wrt' = 1
    BY <2>1, <2>3 DEF TypeOK, WrtInv
  <2>5. TypeOK'
    BY <1>2, <2>1, <2>4, ReaderPc DEF TypeOK
  <2>6. MutexInv'
    BY <2>1, ReaderPc DEF MutexInv, Holds, Threads
  <2>7. CountInv'
    BY <2>1, <2>2, ReaderPc DEF CountInv, Threads
  <2>8. WrtInv'
    BY <2>1, <2>3, <2>4, ReaderPc DEF WrtInv, Writing
  <2> QED
    BY <2>5, <2>6, <2>7, <2>8
<1> QED
  BY <1>3, <1>4, <1>5, <1>6, <1>7, <1>8, <1>9 DEF ReaderStep

-----------------------------------------------------------------------------
LEMMA Invariance == Spec => []Inv
<1>1. Init => Inv
  BY InitInv DEF Init, Inv, LockInv
<1>2. Inv /\ [Next]_vars => Inv'
  <2> SUFFICES ASSUME Inv, [Next]_vars PROVE Inv'
    OBVIOUS
  <2>1. CASE UNCHANGED vars
    BY <2>1 DEF vars, Inv, LockInv, TypeOK, MutexInv, CountInv, WrtInv, Holds,
                Counted, Group, Writing
  <2>2. ASSUME NEW t \in Threads, ThreadStep(t) PROVE Inv'
    BY <2>2, ReaderInv, WriterInv DEF ThreadStep, Inv, LockInv
  <2>3. ASSUME NEW r \in Readers, RunsOn(r) PROVE Inv'
    <3>1. \A w \in Writers : w \in Threads /\ w # r
      BY ReadersWritersAssumption DEF Threads
    <3>2. PICK to \in ReaderLabels : pc' = [pc EXCEPT ![r] = to]
      BY <2>3 DEF RunsOn
    <3>3. r \in Threads /\ r \notin Writers
      BY <3>1 DEF Threads
    <3>4. /\ pc' \in [Threads -> ReaderLabels \cup WriterLabels]
          /\ \A q \in Readers : pc'[q] = IF q = r THEN to ELSE pc[q]
          /\ \A w \in Writers : pc'[w] = pc[w]
      BY <3>1, <3>2, <3>3 DEF Inv, TypeOK, Threads
    <3>5. TypeOK'
      BY <2>3, <3>4 DEF RunsOn, Inv, TypeOK
    <3> QED
      BY <2>3, <3>4, <3>5 DEF RunsOn, Inv
  <2>4. CASE MainDestroys
    BY <2>4 DEF MainDestroys, Inv, TypeOK
  <2>5. CASE MainReturns
    BY <2>5 DEF MainReturns, Inv, TypeOK
  <2>6. CASE Exited
    BY <2>1, <2>6 DEF Exited
  <2> QED
    BY <2>1, <2>2, <2>3, <2>4, <2>5, <2>6 DEF Next
<1> QED
  BY <1>1, <1>2, PTL DEF Spec

(* A reader in the reading section is one of the group that holds wrt.     *)
LEMMA ReadingInGroup ==
  ASSUME LockInv
  PROVE  (\E r \in Readers : Reading(r)) <=> Group
<1>1. ASSUME NEW r \in Readers, Reading(r) PROVE Group
  <2>1. CASE pc[r] = "last"
    BY <2>1 DEF Group
  <2>2. CASE pc[r] # "last"
    <3>1. r \in Counted /\ pc[r] # "first"
      BY <1>1, <2>2 DEF Reading, Counted
    <3>2. \A q \in Readers : pc[q] # "first"
      BY <3>1 DEF LockInv, CountInv
    <3> QED
      BY <3>1, <3>2 DEF Group
  <2> QED
    BY <2>1, <2>2
<1>2. ASSUME Group PROVE \E r \in Readers : Reading(r)
  BY <1>2 DEF Group, Counted, Reading
<1> QED
  BY <1>1, <1>2

(* Writers exclude each other and the readers, however many there are of   *)
(* either, although the reader that gives wrt back need not be the one     *)
(* that took it.                                                           *)
THEOREM ReadersAndWritersExclude == Spec => []Exclusion
<1>1. Inv => Exclusion
  BY ReadingInGroup DEF Inv, LockInv, WrtInv, Exclusion, Writing
<1> QED
  BY <1>1, Invariance, PTL

(* The readers always give wrt back: it is free while nobody reads or      *)
(* writes.                                                                 *)
THEOREM WrtComesBack == Spec => []WrtReturned
<1>1. Inv => WrtReturned
  BY ReadingInGroup DEF Inv, LockInv, WrtInv, WrtReturned
<1> QED
  BY <1>1, Invariance, PTL

-----------------------------------------------------------------------------
(* The counter.  One element more doubles the number of subsets, and so    *)
(* the power of two.                                                       *)
LEMMA NextPower ==
  ASSUME NEW S, IsFiniteSet(S), NEW x, x \notin S
  PROVE  2 ^ Cardinality(S \cup {x}) = 2 ^ Cardinality(S) * 2
<1> DEFINE With == {T \cup {x} : T \in SUBSET S}
           f == [T \in SUBSET S |-> T \cup {x}]
<1>1. /\ IsFiniteSet(SUBSET S) /\ Cardinality(SUBSET S) = 2 ^ Cardinality(S)
      /\ Cardinality(SUBSET S) \in Nat
  BY FS_SUBSET, FS_CardinalityType
<1>2. IsFiniteSet(With) /\ Cardinality(With) = Cardinality(SUBSET S)
  <2>1. f \in [SUBSET S -> With] /\ \A U \in With : \E T \in SUBSET S : f[T] = U
    OBVIOUS
  <2>2. ASSUME NEW T \in SUBSET S, NEW U \in SUBSET S, f[T] = f[U] PROVE T = U
    <3>1. T \cup {x} = U \cup {x} /\ x \notin T /\ x \notin U
      BY <2>2
    <3> QED
      BY <3>1
  <2>3. f \in Bijection(SUBSET S, With)
    BY <2>1, <2>2 DEF Bijection, Injection, Surjection, IsInjective
  <2>4. ExistsBijection(SUBSET S, With)
    BY <2>3 DEF ExistsBijection
  <2> QED
    BY <1>1, <2>4, FS_Bijection
<1>3. PICK A, B, C : /\ A = SUBSET S /\ B = With /\ C = SUBSET (S \cup {x})
                     /\ C = A \cup B /\ A \cap B = {}
  <2>1. ASSUME NEW U \in SUBSET (S \cup {x}), x \in U PROVE U \in With
    <3>1. PICK T \in SUBSET S : U = T \cup {x}
      <4>1. U = (U \ {x}) \cup {x} /\ U \ {x} \in SUBSET S
        BY <2>1
      <4> QED
        BY <4>1
    <3> QED
      BY <3>1
  <2>2. \A U \in With : U \in SUBSET (S \cup {x}) /\ x \in U
    OBVIOUS
  <2>3. \A U \in SUBSET S : U \in SUBSET (S \cup {x}) /\ x \notin U
    OBVIOUS
  <2>4. \A U \in SUBSET (S \cup {x}) : x \notin U => U \in SUBSET S
    OBVIOUS
  <2>5. PICK A, B, C : A = SUBSET S /\ B = With /\ C = SUBSET (S \cup {x})
    OBVIOUS
  <2> HIDE DEF With
  <2>6. /\ \A U \in C : x \in U => U \in B
        /\ \A U \in C : x \notin U => U \in A
        /\ \A U \in B : U \in C /\ x \in U
        /\ \A U \in A : U \in C /\ x \notin U
    BY <2>1, <2>2, <2>3, <2>4, <2>5
  <2>7. C = A \cup B /\ A \cap B = {}
    BY <2>6
  <2> QED
    BY <2>5, <2>7
<1>4. Cardinality(SUBSET (S \cup {x})) = Cardinality(SUBSET S) + Cardinality(SUBSET S)
  <2> HIDE DEF With
  <2>1. Cardinality(A \cup B) = Cardinality(A) + Cardinality(B) - Cardinality(A \cap B)
    BY <1>1, <1>2, <1>3, FS_Union
  <2>2. Cardinality(A \cap B) = 0
    BY <1>3, FS_EmptySet
  <2>3. Cardinality(A) \in Nat /\ Cardinality(B) = Cardinality(A)
    BY <1>1, <1>2, <1>3
  <2>4. Cardinality(C) = Cardinality(A \cup B)
    BY <1>3, Zenon
  <2>5. Cardinality(C) = Cardinality(A) + Cardinality(A)
    BY <2>1, <2>2, <2>3, <2>4
  <2> QED
    BY <1>3, <2>5
<1>5. Cardinality(SUBSET (S \cup {x})) = 2 ^ Cardinality(S \cup {x})
  <2>1. IsFiniteSet(S \cup {x})
    BY FS_AddElement
  <2> QED
    BY <2>1, FS_SUBSET
<1> QED
  BY <1>1, <1>4, <1>5

(* The writers that have doubled cnt.                                      *)
Stored == {w \in Writers : pc[w] \in {"post", "done"}}

(* What a writer loaded is still in cnt when it stores the double.         *)
CntInv ==
  /\ cnt = 2 ^ Cardinality(Stored)
  /\ main = "join" => \A w \in Writers : pc[w] = "store" => loaded[w] = cnt

LEMMA NextCntInv == Inv /\ Exclusion /\ CntInv /\ [Next]_vars => CntInv'
<1> SUFFICES ASSUME Inv, Exclusion, CntInv, [Next]_vars PROVE CntInv'
  OBVIOUS
<1>1. /\ pc \in [Threads -> ReaderLabels \cup WriterLabels]
      /\ loaded \in [Writers -> Nat] /\ cnt \in Nat
      /\ Writers \subseteq Threads /\ \A w \in Writers : w \notin Readers
      /\ IsFiniteSet(Stored)
  <2>1. IsFiniteSet(Stored)
    BY FS_Subset, ReadersWritersAssumption DEF Stored
  <2> QED
    BY <2>1, ReadersWritersAssumption DEF Inv, TypeOK, Threads
<1>2. ASSUME UNCHANGED <<cnt, loaded>>, \A w \in Writers : pc'[w] = pc[w],
             main' = "join" => main = "join"
      PROVE  CntInv'
  <2>1. Stored' = Stored
    BY <1>2 DEF Stored
  <2> QED
    BY <1>2, <2>1 DEF CntInv
<1>3. ASSUME NEW w \in Writers, WriterStep(w), main = "join", main' = main PROVE CntInv'
  <2>1. CASE WriterWait(w) \/ WriterPost(w)
    <3>1. /\ UNCHANGED <<cnt, loaded>>
          /\ \/ pc[w] = "wait" /\ pc' = [pc EXCEPT ![w] = "load"]
             \/ pc[w] = "post" /\ pc' = [pc EXCEPT ![w] = "done"]
      BY <2>1 DEF WriterWait, WriterPost, Step
    <3>2. Stored' = Stored
      BY <1>1, <3>1 DEF Stored
    <3> QED
      BY <1>1, <1>3, <3>1, <3>2 DEF CntInv
  <2>2. CASE WriterLoad(w)
    <3>1. /\ pc[w] = "load" /\ pc' = [pc EXCEPT ![w] = "store"]
          /\ cnt' = cnt /\ loaded' = [loaded EXCEPT ![w] = cnt]
      BY <2>2 DEF WriterLoad, Step
    <3>2. Stored' = Stored
      BY <1>1, <3>1 DEF Stored
    <3> QED
      BY <1>1, <1>3, <3>1, <3>2 DEF CntInv
  <2>3. CASE WriterStore(w)
    <3>1. /\ pc[w] = "store" /\ pc' = [pc EXCEPT ![w] = "post"]
          /\ cnt' = loaded[w] * 2 /\ loaded' = loaded
      BY <2>3 DEF WriterStore, Step
    <3>2. Stored' = Stored \cup {w} /\ w \notin Stored
      BY <1>1, <3>1 DEF Stored
    <3>3. cnt' = 2 ^ Cardinality(Stored')
      <4>1. 2 ^ Cardinality(Stored \cup {w}) = 2 ^ Cardinality(Stored) * 2
        BY <1>1, <3>2, NextPower
      <4>2. cnt' = cnt * 2
        BY <1>3, <3>1 DEF CntInv
      <4> QED
        BY <3>2, <4>1, <4>2 DEF CntInv
    <3>4. \A v \in Writers : pc'[v] # "store"
      <4>1. \A v \in Writers : v # w => pc[v] # "store"
        BY <3>1 DEF Exclusion, Writing
      <4> QED
        BY <1>1, <3>1, <4>1
    <3> QED
      BY <3>3, <3>4 DEF CntInv
  <2> QED
    BY <1>3, <2>1, <2>2, <2>3 DEF WriterStep
<1>4. ASSUME NEW r \in Readers, ReaderStep(r), main' = main PROVE CntInv'
  <2>1. UNCHANGED <<cnt, loaded>> /\ \E from, to : Step(r, from, to)
    BY <1>4 DEF ReaderStep, Lock, Enter, FirstReader, Unlock, Read, Leave, LastReader
  <2>2. \A w \in Writers : pc'[w] = pc[w]
    BY <1>1, <2>1 DEF Step
  <2> QED
    BY <1>2, <1>4, <2>1, <2>2
<1>5. ASSUME NEW r \in Readers, RunsOn(r) PROVE CntInv'
  <2>1. UNCHANGED <<cnt, loaded, main>> /\ \A w \in Writers : pc'[w] = pc[w]
    BY <1>1, <1>5 DEF RunsOn
  <2> QED
    BY <1>2, <2>1
<1>6. CASE MainDestroys \/ MainReturns \/ Exited \/ UNCHANGED vars
  BY <1>2, <1>6 DEF MainDestroys, MainReturns, Exited, vars
<1> QED
  BY <1>3, <1>4, <1>5, <1>6 DEF Next, ThreadStep

(* cnt = cnt * 2 is done in two steps, and still no writer overwrites what *)
(* another has stored: cnt is two to the number of those that stored.      *)
THEOREM NoUpdateIsLost == Spec => []NoLostUpdate
<1>1. Init => CntInv
  <2> SUFFICES ASSUME Init PROVE CntInv
    OBVIOUS
  <2>1. Stored = {}
    BY ReadersWritersAssumption DEF Init, Stored, Threads
  <2>2. 2 ^ Cardinality({}) = 1
    <3>1. Cardinality(SUBSET {}) = 2 ^ Cardinality({})
      BY FS_EmptySet, FS_SUBSET
    <3>2. SUBSET {} = {{}} /\ Cardinality({{}}) = 1
      BY FS_Singleton
    <3> QED
      BY <3>1, <3>2
  <2>3. \A w \in Writers : pc[w] = "wait"
    BY ReadersWritersAssumption DEF Init, Threads
  <2> QED
    BY <2>1, <2>2, <2>3 DEF Init, CntInv
<1>2. CntInv => NoLostUpdate
  BY DEF CntInv, Stored, NoLostUpdate
<1> QED
  BY <1>1, <1>2, NextCntInv, Invariance, ReadersAndWritersExclude, PTL DEF Spec

-----------------------------------------------------------------------------
(* A reader's step is a step of the program without countSem, or a call, a *)
(* library statement or the first of the two reads, which leave its        *)
(* variables alone.                                                        *)
LEMMA CountedReaderStepImplements ==
  ASSUME NEW r \in Readers, CountedReaderStep(r)
  PROVE  [Next]_vars
<1>1. CASE \/ CallWait(r) \/ CallPost(r) \/ FirstRead(r)
           \/ Sem!SemStep(r) /\ UNCHANGED <<vars, stage>>
  BY <1>1 DEF CallWait, CallPost, FirstRead
<1>2. CASE Reread(r) \/ SharedStep(r)
  <2>1. ReaderStep(r) /\ UNCHANGED <<joined, main>>
    BY <1>2 DEF Reread, SharedStep, ReaderStep
  <2> QED
    BY <2>1 DEF CountedReaderStep, ThreadStep, Threads, Next
<1> QED
  BY <1>1, <1>2 DEF CountedReaderStep

(* The limited programs, whatever header they are compiled with, do        *)
(* nothing to the shared data that reader-writer2.c does not do.           *)
THEOREM CountingIsARestriction == CountedSpec => ImplementsReadersWriters
<1>1. CountedInit => Init
  BY DEF CountedInit
<1>2. [CountedNext]_allVars => [Next]_vars
  <2> SUFFICES ASSUME [CountedNext]_allVars PROVE [Next]_vars
    OBVIOUS
  <2>1. CASE UNCHANGED allVars
    BY <2>1 DEF allVars
  <2>2. ASSUME NEW r \in Readers, CountedReaderStep(r) PROVE [Next]_vars
    BY <2>2, CountedReaderStepImplements
  <2>3. ASSUME NEW w \in Writers, SharedWriterStep(w) PROVE [Next]_vars
    BY <2>3 DEF SharedWriterStep, ThreadStep, Threads, Next
  <2>4. ASSUME NEW r \in Readers, RunsOn(r) PROVE [Next]_vars
    BY <2>4 DEF Next
  <2>5. CASE MainStep
    BY <2>5 DEF MainStep, Next
  <2> QED
    BY <2>1, <2>2, <2>3, <2>4, <2>5 DEF CountedNext
<1> QED
  BY <1>1, <1>2, PTL DEF CountedSpec, Spec, ImplementsReadersWriters

(* So that in all four programs writers exclude each other and the         *)
(* readers, no update of cnt is lost, and wrt is given back.               *)
THEOREM AllProgramsExclude ==
  CountedSpec => []Exclusion /\ []NoLostUpdate /\ []WrtReturned
  BY CountingIsARestriction, ReadersAndWritersExclude, NoUpdateIsLost, WrtComesBack, PTL
  DEF ImplementsReadersWriters

-----------------------------------------------------------------------------
(* What the library's proofs say of countSem.  They end with a client that *)
(* makes at most MaxCalls calls, which is none of these programs.          *)
P == INSTANCE CountingSemProofs WITH
  Threads <- Readers, Sems <- Headers,
  K <- [s \in Headers |-> numCount], Lib <- [s \in Headers |-> s],
  MaxCalls <- 0, calls <- [r \in Readers |-> 0]

LEMMA AssumptionOfP == P!CountingSemAssumption /\ P!SemClientAssumption
<1>1. IsFiniteSet(Readers) /\ numCount \in Nat
  BY ReadersWritersAssumption, CountedReadersAssumption
<1>2. [s \in Headers |-> numCount] \in [Headers -> Nat]
  BY <1>1
<1>3. [s \in Headers |-> s]
        \in [Headers -> {P!A2Correct, P!A2Incorrect, P!A3Correct, P!A3Main}]
  BY HeadersAssumption
  DEF P!A2Correct, P!A2Incorrect, P!A3Correct, P!A3Main,
      Sem!A2Correct, Sem!A2Incorrect, Sem!A3Correct, Sem!A3Main
<1> QED
  BY <1>1, <1>2, <1>3
  DEF P!CountingSemAssumption, P!SemClientAssumption, IsFiniteSet, P!IsFiniteSet

LEMMA SameStep == ASSUME NEW r \in Readers PROVE Sem!SemStep(r) <=> P!SemStep(r)
BY DEF
  Sem!SemStep, Sem!MutexWait, Sem!MutexPost, Sem!GateWait, Sem!Decrement,
  Sem!WaitTest, Sem!IncorrectDecrement, Sem!IncorrectWaitTest,
  Sem!IncorrectRelease, Sem!IncorrectGateWait, Sem!Increment,
  Sem!A2CorrectPostTest, Sem!A2IncorrectPostTest, Sem!A3CorrectPostTest,
  Sem!A3MainPostTest, Sem!OpenGate, Sem!Goto, Sem!GateFirst,
  Sem!A2Correct, Sem!A2Incorrect, Sem!A3Correct, Sem!A3Main,
  P!SemStep, P!MutexWait, P!MutexPost, P!GateWait, P!Decrement, P!WaitTest,
  P!IncorrectDecrement, P!IncorrectWaitTest, P!IncorrectRelease,
  P!IncorrectGateWait, P!Increment, P!A2CorrectPostTest,
  P!A2IncorrectPostTest, P!A3CorrectPostTest, P!A3MainPostTest, P!OpenGate,
  P!Goto, P!GateFirst, P!A2Correct, P!A2Incorrect, P!A3Correct, P!A3Main

LEMMA SameCalls ==
  ASSUME NEW r \in Readers, NEW s \in Headers
  PROVE  /\ Sem!CallSemWait(r, s) <=> P!CallSemWait(r, s)
         /\ Sem!CallSemPost(r, s) <=> P!CallSemPost(r, s)
BY DEF Sem!CallSemWait, Sem!CallSemPost, Sem!Enter, Sem!GateFirst, Sem!A2Incorrect,
       P!CallSemWait, P!CallSemPost, P!Enter, P!GateFirst, P!A2Incorrect

LEMMA SameStatus ==
  ASSUME NEW r \in Readers
  PROVE  /\ Sem!Waiting(r) <=> P!Waiting(r)
         /\ Sem!Waiting(r)' <=> P!Waiting(r)'
         /\ Sem!Posting(r) <=> P!Posting(r)
         /\ Sem!Posting(r)' <=> P!Posting(r)'
BY DEF Sem!Waiting, Sem!Posting, Sem!GateFirst, Sem!A2Incorrect,
       P!Waiting, P!Posting, P!GateFirst, P!A2Incorrect

LEMMA SameInit == Sem!SemInit <=> P!SemInit
BY DEF Sem!SemInit, Sem!GateFirst, Sem!A2Incorrect,
       P!SemInit, P!GateFirst, P!A2Incorrect

Stages == {"begin", "admitted", "reread", "release", "posted"}

(* Where a reader of the limited programs is in the library.               *)
InCall(r) ==
  /\ givenSem[r] = header
  /\ stage[r] \in {"begin", "reread", "release"} => at[r] = "out"
  /\ stage[r] = "admitted" =>
       at[r] \in {"out", "w_gate", "w_mutex", "w_dec", "w_test", "w_exit", "w_block"}
  /\ stage[r] = "posted" => at[r] \in {"out", "p_mutex", "p_inc", "p_test", "p_exit"}
  /\ main = "join" /\ (stage[r] = "begin" \/ (stage[r] = "admitted" /\ at[r] # "out"))
       => pc[r] = "lock1"

AdmittedSet == {r \in Readers : Admitted(r)}

(* credit is what is left of numCount beside those who were let in.        *)
LimitInv ==
  /\ header \in Headers \cup {"none"}
  /\ header # "none" =>
       /\ stage \in [Readers -> Stages]
       /\ pc \in [Threads -> ReaderLabels \cup WriterLabels]
       /\ P!LibInv
       /\ \A r \in Readers : InCall(r)
       /\ credit[header] + Cardinality(AdmittedSet) = numCount
  /\ header = "none" => \A r \in Readers : stage[r] = "free" /\ at[r] = "out"

LEMMA HeaderNames == "none" \notin Headers
BY HeadersAssumption DEF Sem!A2Correct, Sem!A2Incorrect, Sem!A3Correct, Sem!A3Main

LEMMA AdmittedAreFinite == IsFiniteSet(AdmittedSet) /\ Cardinality(AdmittedSet) \in Nat
<1>1. IsFiniteSet(AdmittedSet)
  BY FS_Subset, ReadersWritersAssumption DEF AdmittedSet
<1> QED
  BY <1>1, FS_CardinalityType

(* How many are admitted after a step that moves r alone.                  *)
LEMMA AdmittedAfter ==
  ASSUME NEW r \in Readers,
         \A u \in Readers : u # r => (Admitted(u)' <=> Admitted(u))
  PROVE  /\ Cardinality(AdmittedSet) \in Nat
         /\ (Admitted(r)' <=> Admitted(r)) =>
               Cardinality(AdmittedSet') = Cardinality(AdmittedSet)
         /\ Admitted(r)' /\ ~Admitted(r) =>
               Cardinality(AdmittedSet') = Cardinality(AdmittedSet) + 1
         /\ ~Admitted(r)' /\ Admitted(r) =>
               Cardinality(AdmittedSet') = Cardinality(AdmittedSet) - 1
<1>1. CASE Admitted(r)' <=> Admitted(r)
  <2>1. AdmittedSet' = AdmittedSet
    BY <1>1 DEF AdmittedSet
  <2> QED
    BY <1>1, <2>1, AdmittedAreFinite
<1>2. CASE Admitted(r)' /\ ~Admitted(r)
  <2>1. AdmittedSet' = AdmittedSet \cup {r} /\ r \notin AdmittedSet
    BY <1>2 DEF AdmittedSet
  <2> QED
    BY <1>2, <2>1, AdmittedAreFinite, FS_AddElement
<1>3. CASE ~Admitted(r)' /\ Admitted(r)
  <2>1. AdmittedSet' = AdmittedSet \ {r} /\ r \in AdmittedSet
    BY <1>3 DEF AdmittedSet
  <2> QED
    BY <1>3, <2>1, AdmittedAreFinite, FS_RemoveElement
<1> QED
  BY <1>1, <1>2, <1>3, AdmittedAreFinite

LEMMA InitLimit == CountedInit => LimitInv
<1> SUFFICES ASSUME CountedInit PROVE LimitInv
  OBVIOUS
<1>1. header \in Headers \cup {"none"} /\ at = [r \in Readers |-> "out"]
      /\ stage = [r \in Readers |-> IF header = "none" THEN "free" ELSE "begin"]
  BY DEF CountedInit, Sem!SemInit
<1>2. ASSUME header # "none"
      PROVE  /\ stage \in [Readers -> Stages]
             /\ pc \in [Threads -> ReaderLabels \cup WriterLabels]
             /\ P!LibInv
             /\ \A r \in Readers : InCall(r)
             /\ credit[header] + Cardinality(AdmittedSet) = numCount
  <2>1. givenSem = [r \in Readers |-> header] /\ header \in Headers
    BY <1>1, <1>2 DEF CountedInit
  <2>2. P!LibInv
    BY <2>1, SameInit, AssumptionOfP, P!InitLibInv DEF CountedInit
  <2>3. credit[header] = numCount /\ \A r \in Readers : pc[r] = "lock1"
    BY <2>1 DEF CountedInit, Init, Sem!SemInit, Threads
  <2>4. AdmittedSet = {}
    BY <1>1, <1>2 DEF AdmittedSet, Admitted, Sem!Posting
  <2>5. Cardinality(AdmittedSet) = 0
    BY <2>4, FS_EmptySet
  <2>6. \A r \in Readers : InCall(r)
    BY <1>1, <1>2, <2>1, <2>3 DEF InCall
  <2>7. /\ pc \in [Threads -> ReaderLabels \cup WriterLabels]
        /\ stage \in [Readers -> Stages]
    BY <1>1, <1>2 DEF CountedInit, Init, ReaderLabels, WriterLabels, Stages
  <2> QED
    BY <2>2, <2>3, <2>5, <2>6, <2>7, CountedReadersAssumption
<1> QED
  BY <1>1, <1>2, HeaderNames DEF LimitInv

(* What a reader does outside the library: its stage and its label change. *)
LEMMA OutsideLimit ==
  ASSUME LimitInv, header # "none", header' = header, libVars' = libVars,
         NEW r \in Readers,
         stage' \in [Readers -> Stages], \A u \in Readers : u # r => stage'[u] = stage[u],
         pc' \in [Threads -> ReaderLabels \cup WriterLabels],
         \A u \in Readers : u # r => pc'[u] = pc[u],
         main' = "join" => main = "join",
         Admitted(r)' <=> Admitted(r), InCall(r)'
  PROVE  LimitInv'
<1>1. UNCHANGED <<val, B1, B2, at, givenSem, credit>>
  BY DEF libVars
<1>2. P!LibInv'
  BY <1>1, AssumptionOfP, P!UnchangedLibInv DEF LimitInv, P!semVars
<1>3. \A u \in Readers : u # r => (Admitted(u)' <=> Admitted(u))
  BY <1>1 DEF Admitted, Sem!Waiting, Sem!Posting
<1>4. Cardinality(AdmittedSet') = Cardinality(AdmittedSet)
  BY <1>3, AdmittedAfter
<1>5. ASSUME NEW u \in Readers, u # r PROVE InCall(u)'
  BY <1>1, <1>5 DEF LimitInv, InCall
<1> QED
  BY <1>1, <1>2, <1>4, <1>5 DEF LimitInv

(* The two calls.                                                          *)
LEMMA CallLimit ==
  ASSUME LimitInv, header # "none", header' = header, main = "join",
         NEW r \in Readers, CallWait(r) \/ CallPost(r)
  PROVE  LimitInv'
<1>1. /\ header \in Headers /\ InCall(r)
      /\ at \in [Readers -> P!Statements] /\ givenSem \in [Readers -> Headers]
  BY DEF LimitInv, P!LibInv, P!GrantInv, P!MutexInv, P!SemTypeOK
<1>2. UNCHANGED <<val, B1, B2, credit>> /\ UNCHANGED vars
  BY DEF CallWait, CallPost, Sem!CallSemWait, Sem!CallSemPost, Sem!Enter
<1>3. P!LibInv'
  BY <1>1, SameCalls, AssumptionOfP, P!CallLibInv DEF CallWait, CallPost, LimitInv
<1>4. /\ \A u \in Readers : u # r => /\ at'[u] = at[u] /\ stage'[u] = stage[u]
                                     /\ givenSem'[u] = givenSem[u]
      /\ givenSem'[r] = header
      /\ stage' \in [Readers -> Stages]
      /\ \/ /\ stage[r] = "begin" /\ stage'[r] = "admitted" /\ at[r] = "out"
            /\ at'[r] \in {"w_gate", "w_mutex"}
         \/ /\ stage[r] = "release" /\ stage'[r] = "posted" /\ at[r] = "out"
            /\ at'[r] = "p_mutex"
  BY <1>1 DEF CallWait, CallPost, Sem!CallSemWait, Sem!CallSemPost, Sem!Enter, Stage,
       LimitInv, Stages
<1>5. /\ \A u \in Readers : u # r => (Admitted(u)' <=> Admitted(u))
      /\ Admitted(r)' <=> Admitted(r)
  BY <1>2, <1>4 DEF Admitted, Sem!Waiting, Sem!Posting
<1>6. Cardinality(AdmittedSet') = Cardinality(AdmittedSet)
  BY <1>5, AdmittedAfter
<1>7. ASSUME NEW u \in Readers PROVE InCall(u)'
  BY <1>1, <1>2, <1>4 DEF LimitInv, InCall, vars
<1> QED
  BY <1>2, <1>3, <1>4, <1>6, <1>7 DEF LimitInv, vars

(* A statement of the library: credit moves exactly when r is let in or    *)
(* its semPost counts.                                                     *)
LEMMA LibraryLimit ==
  ASSUME LimitInv, header # "none", header' = header,
         NEW r \in Readers, Sem!SemStep(r), UNCHANGED <<vars, stage>>
  PROVE  LimitInv'
<1>1. /\ InCall(r) /\ givenSem[r] = header /\ header \in Headers /\ stage[r] \in Stages
      /\ P!LibInv /\ P!GrantInv /\ P!MutexInv
      /\ at \in [Readers -> P!Statements] /\ givenSem \in [Readers -> Headers]
      /\ credit \in [Headers -> Int]
      /\ credit[header] + Cardinality(AdmittedSet) = numCount
  BY DEF LimitInv, InCall, P!LibInv, P!GrantInv, P!MutexInv, P!SemTypeOK
<1>2. P!SemStep(r)
  BY SameStep
<1>3. P!LibInv'
  BY <1>1, <1>2, AssumptionOfP, P!StepLibInv
<1>4. givenSem' = givenSem /\ \A u \in Readers : u # r => at'[u] = at[u]
  BY <1>1, <1>2, AssumptionOfP, P!StepIsLocal
<1>5. \A u \in Readers : u # r => (Admitted(u)' <=> Admitted(u))
  <2>1. ASSUME NEW u \in Readers \ {r}
        PROVE  (P!Waiting(u)' <=> P!Waiting(u)) /\ (P!Posting(u)' <=> P!Posting(u))
    BY <1>1, <1>2, AssumptionOfP, P!OthersGoOn
  <2> QED
    BY <2>1, SameStatus DEF Admitted
<1>6. /\ at[r] # "out" /\ at'[r] \in P!Statements
      /\ at[r] \in {"w_gate", "w_mutex", "w_dec", "w_test", "w_exit", "w_block"} =>
           at'[r] \in {"out", "w_gate", "w_mutex", "w_dec", "w_test", "w_exit", "w_block"}
      /\ at[r] \in {"p_mutex", "p_inc", "p_test", "p_exit"} =>
           at'[r] \in {"out", "p_mutex", "p_inc", "p_test", "p_exit"}
  BY <1>1, <1>2, AssumptionOfP, P!StepStaysInCall
<1>7. InCall(r)'
  BY <1>1, <1>4, <1>6 DEF InCall, vars, Stages
<1>8. /\ stage'[r] = stage[r] /\ stage[r] \in {"admitted", "posted"}
      /\ stage[r] = "admitted" => ~P!Posting(r) /\ ~P!Posting(r)'
      /\ stage[r] = "posted" => ~P!Waiting(r) /\ ~P!Waiting(r)'
  BY <1>1, <1>6, <1>7 DEF InCall, Stages, P!Posting, P!Waiting
<1>9. /\ stage[r] = "admitted" => /\ Admitted(r) <=> ~P!Waiting(r)
                                  /\ Admitted(r)' <=> ~P!Waiting(r)'
      /\ stage[r] = "posted" => /\ Admitted(r) <=> P!Posting(r)
                                /\ Admitted(r)' <=> P!Posting(r)'
  BY <1>8, SameStatus DEF Admitted
<1>10. credit'[header] + Cardinality(AdmittedSet') = numCount
  <2>1. /\ Cardinality(AdmittedSet) \in Nat /\ credit[header] \in Int
        /\ credit[header] + Cardinality(AdmittedSet) = numCount
    BY <1>1, AdmittedAreFinite
  <2>2. CASE /\ credit' = credit /\ (P!Waiting(r)' <=> P!Waiting(r))
             /\ (P!Posting(r)' <=> P!Posting(r))
    <3>1. Admitted(r)' <=> Admitted(r)
      BY <1>8, <1>9, <2>2
    <3>2. Cardinality(AdmittedSet') = Cardinality(AdmittedSet)
      BY <1>5, <3>1, AdmittedAfter
    <3> QED
      BY <2>1, <2>2, <3>2
  <2>3. CASE /\ P!Waiting(r) /\ ~P!Waiting(r)'
             /\ credit' = [credit EXCEPT ![header] = @ - 1]
    <3>1. Admitted(r)' /\ ~Admitted(r)
      BY <1>8, <1>9, <2>3
    <3>2. Cardinality(AdmittedSet') = Cardinality(AdmittedSet) + 1
      BY <1>5, <3>1, AdmittedAfter
    <3> QED
      BY <1>1, <2>1, <2>3, <3>2
  <2>4. CASE /\ P!Posting(r) /\ ~P!Posting(r)'
             /\ credit' = [credit EXCEPT ![header] = @ + 1]
    <3>1. ~Admitted(r)' /\ Admitted(r)
      BY <1>8, <1>9, <2>4
    <3>2. Cardinality(AdmittedSet') = Cardinality(AdmittedSet) - 1
      BY <1>5, <3>1, AdmittedAfter
    <3> QED
      BY <1>1, <2>1, <2>4, <3>2
  <2> QED
    BY <1>1, <1>2, <2>2, <2>3, <2>4, AssumptionOfP, P!StepEffect
<1>11. ASSUME NEW u \in Readers, u # r PROVE InCall(u)'
  BY <1>4, <1>11 DEF LimitInv, InCall, vars
<1> QED
  BY <1>3, <1>7, <1>10, <1>11 DEF LimitInv, vars

LEMMA NextLimit == LimitInv /\ [CountedNext]_allVars => LimitInv'
<1> SUFFICES ASSUME LimitInv, [CountedNext]_allVars, header # "none" PROVE LimitInv'
  <2> SUFFICES ASSUME LimitInv, [CountedNext]_allVars, header = "none" PROVE LimitInv'
    OBVIOUS
  <2>1. header' = header /\ UNCHANGED <<libVars, stage>>
    <3>1. ASSUME NEW r \in Readers, CountedReaderStep(r) PROVE UNCHANGED <<header, libVars, stage>>
      <4>1. stage[r] = "free" /\ at[r] = "out"
        BY DEF LimitInv
      <4>2. ~Sem!SemStep(r)
        BY <4>1 DEF Sem!SemStep, Sem!MutexWait, Sem!MutexPost, Sem!GateWait, Sem!Decrement,
             Sem!WaitTest, Sem!IncorrectDecrement, Sem!IncorrectWaitTest,
             Sem!IncorrectRelease, Sem!IncorrectGateWait, Sem!Increment,
             Sem!A2CorrectPostTest, Sem!A2IncorrectPostTest, Sem!A3CorrectPostTest,
             Sem!A3MainPostTest, Sem!OpenGate
      <4> QED
        BY <3>1, <4>1, <4>2 DEF CountedReaderStep, CallWait, CallPost, FirstRead, Reread,
             SharedStep, Stage
    <3> QED
      BY <3>1 DEF CountedNext, SharedWriterStep, MainStep, allVars
  <2> QED
    BY <2>1, HeaderNames DEF LimitInv, libVars
<1>1. header' = header
  BY DEF CountedNext, CountedReaderStep, SharedWriterStep, MainStep, allVars
<1>2. header # "none"
  OBVIOUS
<1>3. /\ stage \in [Readers -> Stages]
      /\ pc \in [Threads -> ReaderLabels \cup WriterLabels]
      /\ \A r \in Readers : InCall(r)
  BY <1>2 DEF LimitInv
<1>4. ASSUME NEW r \in Readers, CountedReaderStep(r) PROVE LimitInv'
  <2>1. main = "join" /\ InCall(r) /\ r \in Threads
    BY <1>3, <1>4 DEF CountedReaderStep, Threads
  <2>2. CASE CallWait(r) \/ CallPost(r)
    BY <1>1, <1>2, <2>1, <2>2, CallLimit
  <2>3. CASE FirstRead(r)
    <3>1. /\ pc[r] = "read" /\ stage[r] = "admitted" /\ stage' = [stage EXCEPT ![r] = "reread"]
          /\ UNCHANGED <<vars, libVars>>
      BY <2>3 DEF FirstRead, Stage
    <3>2. at[r] = "out"
      BY <2>1, <3>1 DEF InCall
    <3>3. InCall(r)' /\ (Admitted(r)' <=> Admitted(r))
      BY <1>1, <1>3, <2>1, <3>1, <3>2 DEF InCall, Admitted, Sem!Waiting, Sem!Posting, libVars, vars
    <3> QED
      BY <1>1, <1>2, <1>3, <3>1, <3>3, OutsideLimit DEF vars, Stages
  <2>4. CASE Reread(r)
    <3>1. /\ stage[r] = "reread" /\ stage' = [stage EXCEPT ![r] = "release"]
          /\ pc' = [pc EXCEPT ![r] = "lock2"]
          /\ UNCHANGED <<main, libVars>>
      BY <2>4 DEF Reread, Read, Step, Stage
    <3>2. InCall(r)' /\ (Admitted(r)' <=> Admitted(r))
      BY <1>1, <1>3, <2>1, <3>1 DEF InCall, Admitted, Sem!Waiting, Sem!Posting, libVars
    <3>3. /\ pc' \in [Threads -> ReaderLabels \cup WriterLabels]
          /\ \A u \in Readers : u # r => pc'[u] = pc[u] /\ stage'[u] = stage[u]
          /\ stage' \in [Readers -> Stages]
      BY <1>3, <3>1 DEF ReaderLabels, Threads, Stages
    <3> QED
      BY <1>1, <1>2, <3>1, <3>2, <3>3, OutsideLimit
  <2>5. CASE SharedStep(r)
    <3>1. /\ stage[r] \in {"admitted", "posted"} /\ at[r] = "out"
          /\ UNCHANGED <<main, libVars, stage>>
      BY <1>3, <2>5 DEF SharedStep, Stages
    <3>2. PICK to \in ReaderLabels : pc' = [pc EXCEPT ![r] = to]
      BY <1>3, <2>5, <3>1
      DEF SharedStep, Lock, Enter, FirstReader, Unlock, Leave, LastReader, Read, Step,
          ReaderLabels
    <3>3. InCall(r)' /\ (Admitted(r)' <=> Admitted(r))
      BY <1>1, <2>1, <3>1 DEF InCall, Admitted, Sem!Waiting, Sem!Posting, libVars
    <3>4. /\ pc' \in [Threads -> ReaderLabels \cup WriterLabels]
          /\ \A u \in Readers : u # r => pc'[u] = pc[u]
      BY <1>3, <3>2 DEF Threads
    <3> QED
      BY <1>1, <1>2, <1>3, <3>1, <3>3, <3>4, OutsideLimit
  <2>6. CASE Sem!SemStep(r) /\ UNCHANGED <<vars, stage>>
    BY <1>1, <1>2, <2>6, LibraryLimit
  <2> QED
    BY <1>4, <2>2, <2>3, <2>4, <2>5, <2>6 DEF CountedReaderStep
<1>5. ASSUME UNCHANGED <<libVars, stage>>,
             pc' \in [Threads -> ReaderLabels \cup WriterLabels],
             \A r \in Readers : pc'[r] = pc[r] \/ main' # "join",
             main' = "join" => main = "join"
      PROVE  LimitInv'
  <2>1. \A r \in Readers : InCall(r)' /\ (Admitted(r)' <=> Admitted(r))
    BY <1>1, <1>3, <1>5 DEF InCall, Admitted, Sem!Waiting, Sem!Posting, libVars
  <2>2. AdmittedSet' = AdmittedSet
    BY <2>1 DEF AdmittedSet
  <2>3. P!LibInv'
    BY <1>2, <1>5, AssumptionOfP, P!UnchangedLibInv DEF LimitInv, libVars, P!semVars
  <2> QED
    BY <1>1, <1>2, <1>5, <2>1, <2>2, <2>3 DEF LimitInv, libVars
<1>6. ASSUME NEW w \in Writers, SharedWriterStep(w) PROVE LimitInv'
  <2>1. PICK to \in WriterLabels : pc' = [pc EXCEPT ![w] = to]
    BY <1>6 DEF SharedWriterStep, WriterStep, WriterWait, WriterLoad, WriterStore,
         WriterPost, Step, WriterLabels
  <2>2. w \in Threads /\ w \notin Readers /\ UNCHANGED <<libVars, stage, main>>
    BY <1>6, ReadersWritersAssumption DEF SharedWriterStep, Threads
  <2> QED
    BY <1>3, <1>5, <2>1, <2>2 DEF Threads
<1>7. ASSUME NEW r \in Readers, RunsOn(r) /\ UNCHANGED <<libVars, header, stage>>
      PROVE  LimitInv'
  BY <1>3, <1>5, <1>7 DEF RunsOn, Threads
<1>8. ASSUME MainStep PROVE LimitInv'
  <2>1. UNCHANGED <<libVars, stage, pc>> /\ (main' = "join" => main = "join")
    BY <1>8 DEF MainStep, MainDestroys, MainReturns, Exited, vars
  <2> QED
    BY <1>3, <1>5, <2>1
<1>9. ASSUME UNCHANGED allVars PROVE LimitInv'
  BY <1>3, <1>5, <1>9 DEF allVars, vars
<1> QED
  BY <1>4, <1>6, <1>7, <1>8, <1>9 DEF CountedNext

(* Whatever header they are compiled with, no more than numCount readers   *)
(* are ever between their semWait and their semPost.                       *)
THEOREM LimitHolds == CountedSpec => []AtMostNumCount
<1>1. LimitInv => AtMostNumCount
  <2> SUFFICES ASSUME LimitInv PROVE Cardinality(AdmittedSet) <= numCount
    BY DEF AtMostNumCount, AdmittedSet
  <2>1. CASE header = "none"
    <3>1. AdmittedSet = {}
      BY <2>1 DEF LimitInv, AdmittedSet, Admitted, Sem!Posting
    <3> QED
      BY <3>1, FS_EmptySet, CountedReadersAssumption
  <2>2. CASE header # "none"
    <3>1. /\ P!GrantInv /\ header \in Headers /\ credit[header] \in Int
          /\ credit[header] + Cardinality(AdmittedSet) = numCount
      BY <2>2 DEF LimitInv, P!LibInv, P!GrantInv, P!MutexInv, P!SemTypeOK
    <3>2. credit[header] >= 0
      BY <3>1, AssumptionOfP, P!GrantInvExcludes DEF P!NeverOverGranted
    <3> QED
      BY <3>1, <3>2, AdmittedAreFinite, CountedReadersAssumption
  <2> QED
    BY <2>1, <2>2
<1> QED
  BY <1>1, InitLimit, NextLimit, PTL DEF CountedSpec

(* Compiled with incorrect.h or with assignment3/correct.h, as many are    *)
(* let in: with no call under way, a reader is kept waiting only by        *)
(* numCount others.                                                        *)
THEOREM LimitIsReached == CountedSpec => []AdmitsNumCount
<1>1. LimitInv => AdmitsNumCount
  <2> SUFFICES ASSUME LimitInv, header \in {Sem!A2Incorrect, Sem!A3Correct},
                      \A r \in Readers : at[r] = "out" \/ Blocked(r),
                      NEW b \in Readers, Blocked(b)
               PROVE  Cardinality({r \in Readers : Admitted(r)}) = numCount
    BY DEF AdmitsNumCount
  <2>1. header # "none"
    BY DEF Sem!A2Incorrect, Sem!A3Correct
  <2>2. /\ header \in Headers /\ P!LibInv /\ credit[header] \in Int
        /\ credit[header] + Cardinality(AdmittedSet) = numCount
        /\ givenSem[b] = header
    BY <2>1 DEF LimitInv, InCall, P!LibInv, P!GrantInv, P!MutexInv, P!SemTypeOK
  <2>3. header \in {P!A2Incorrect, P!A3Correct} /\ P!AtRest(header)
    BY DEF P!A2Incorrect, P!A3Correct, Sem!A2Incorrect, Sem!A3Correct, P!AtRest, Blocked
  <2>4. P!NoPermitLost /\ P!NeverOverGranted
    BY <2>2, AssumptionOfP, P!NoPermitLostHolds, P!GrantInvExcludes DEF P!LibInv
  <2>5. credit[header] <= 0 /\ credit[header] >= 0
    BY <2>2, <2>3, <2>4 DEF P!NoPermitLost, P!NeverOverGranted, Blocked
  <2> QED
    BY <2>2, <2>5, AdmittedAreFinite DEF AdmittedSet
<1> QED
  BY <1>1, InitLimit, NextLimit, PTL DEF CountedSpec
=============================================================================
