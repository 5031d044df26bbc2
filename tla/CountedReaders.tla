--------------------------- MODULE CountedReaders ---------------------------
(***************************************************************************)
(* The four programs of the readers and writers.  reader-writer1.c and     *)
(* reader-writer2.c are those of ReadersWriters.  reader-writer-correct.c  *)
(* and reader-writer-incorrect.c keep the readers to numCount at a time by *)
(* countSem, one of the repository's own semaphores, and differ in the     *)
(* header they include.  Their reader reads cnt twice, sleeping in         *)
(* between, and calls semPost before it takes mutex to leave; main joins   *)
(* every thread.                                                           *)
(*                                                                         *)
(* stage[r] says how far a reader is with what these two add:              *)
(*   begin     it calls semWait next                                       *)
(*   admitted  it called semWait                                           *)
(*   reread    it read cnt once                                            *)
(*   release   it read cnt twice and calls semPost next                    *)
(*   posted    it called semPost                                           *)
(*   free      the program has no countSem                                 *)
(* A thread that made a call executes library statements until at[t] is    *)
(* "out" again.                                                            *)
(***************************************************************************)
EXTENDS ReadersWriters

CONSTANTS
  numCount,  \* the readers allowed at a time
  Headers    \* the headers considered, versions of CountingSem

ASSUME CountedReadersAssumption ==
  /\ numCount \in Nat \ {0}
  /\ Readers \in JoinSets

VARIABLES val, B1, B2, at, givenSem, credit       \* see CountingSem

VARIABLES
  header,  \* the header the program was compiled with, or "none"
  stage    \* see above

(* countSem of each of the programs that have one                          *)
Sem == INSTANCE CountingSem WITH
  Threads <- Readers, Sems <- Headers,
  K <- [s \in Headers |-> numCount], Lib <- [s \in Headers |-> s]

ASSUME HeadersAssumption ==
  Headers \subseteq {Sem!A2Correct, Sem!A2Incorrect, Sem!A3Correct, Sem!A3Main}

libVars == <<val, B1, B2, at, givenSem, credit>>

allVars == <<vars, libVars, header, stage>>

CountedInit ==
  /\ Init
  /\ Sem!SemInit
  /\ header \in Headers \cup {"none"}
  /\ header # "none" => joined = Readers
  /\ givenSem = [r \in Readers |-> IF header = "none" THEN CHOOSE s \in Headers : TRUE
                                                      ELSE header]
  /\ stage = [r \in Readers |-> IF header = "none" THEN "free" ELSE "begin"]

Stage(r, from, to) ==
  /\ stage[r] = from
  /\ stage' = [stage EXCEPT ![r] = to]

CallWait(r) ==
  /\ Stage(r, "begin", "admitted")
  /\ Sem!CallSemWait(r, header)
  /\ UNCHANGED vars

(* Mutant: mutex is not taken before numreader--.                          *)
CallPostNoLock(r) ==
  /\ Stage(r, "release", "posted")
  /\ Step(r, "lock2", "leave")
  /\ Sem!CallSemPost(r, header)
  /\ UNCHANGED <<wrt, mutex, cnt, numreader, loaded, joined, main>>

CallPost(r) ==
  /\ Stage(r, "release", "posted")
  /\ Sem!CallSemPost(r, header)
  /\ UNCHANGED vars

FirstRead(r) ==
  /\ pc[r] = "read"
  /\ Stage(r, "admitted", "reread")
  /\ UNCHANGED <<vars, libVars>>

Reread(r) ==
  /\ Stage(r, "reread", "release")
  /\ Read(r)
  /\ UNCHANGED <<joined, main, libVars>>

(* The statements that all four programs have.                             *)
SharedStep(r) ==
  /\ \/ stage[r] = "free" /\ Read(r)
     \/ /\ at[r] = "out" /\ stage[r] \in {"admitted", "posted", "free"}
        /\ Lock(r) \/ Enter(r) \/ FirstReader(r) \/ Unlock(r) \/ Leave(r)
             \/ LastReader(r)
  /\ UNCHANGED <<joined, main, libVars, stage>>

CountedReaderStep(r) ==
  /\ main = "join"
  /\ \/ CallWait(r) \/ CallPost(r)
     \/ FirstRead(r) \/ Reread(r)
     \/ SharedStep(r)
     \/ Sem!SemStep(r) /\ UNCHANGED <<vars, stage>>
  /\ UNCHANGED header

SharedWriterStep(w) ==
  /\ main = "join"
  /\ WriterStep(w)
  /\ UNCHANGED <<joined, main, libVars, header, stage>>

(* main, and what happens while it returns.                                *)
MainStep ==
  /\ MainDestroys \/ MainReturns \/ Exited
  /\ UNCHANGED <<libVars, header, stage>>

CountedNext ==
  \/ \E r \in Readers : CountedReaderStep(r)
  \/ \E w \in Writers : SharedWriterStep(w)
  \/ \E r \in Readers : RunsOn(r) /\ UNCHANGED <<libVars, header, stage>>
  \/ MainStep

CountedSpec == CountedInit /\ [][CountedNext]_allVars

(* A thread that is not blocked is scheduled sooner or later, and so is    *)
(* main.                                                                   *)
CountedFairSpec ==
  /\ CountedSpec
  /\ \A r \in Readers : WF_allVars(CountedReaderStep(r))
  /\ \A w \in Writers : WF_allVars(SharedWriterStep(w))
  /\ WF_allVars(MainStep)

-----------------------------------------------------------------------------
(* A reader that was let in by semWait and whose semPost has not counted.  *)
Admitted(r) ==
  /\ ~Sem!Waiting(r)
  /\ \/ stage[r] \in {"admitted", "reread", "release"}
     \/ Sem!Posting(r)

(* What countSem is for: at most numCount readers at a time are between    *)
(* their semWait and their semPost.                                        *)
AtMostNumCount == Cardinality({r \in Readers : Admitted(r)}) <= numCount

(* incorrect.h and assignment3's correct.h also let numCount readers in:   *)
(* with no call under way, a reader is kept waiting only by numCount       *)
(* others.                                                                 *)
Blocked(r) == at[r] = "w_gate" /\ B1[header] = 0

AdmitsNumCount ==
  /\ header \in {Sem!A2Incorrect, Sem!A3Correct}
  /\ \A r \in Readers : at[r] = "out" \/ Blocked(r)
  /\ \E r \in Readers : Blocked(r)
  => Cardinality({r \in Readers : Admitted(r)}) = numCount

(* countSem restricts the program of reader-writer2.c and breaks nothing   *)
(* of it: whatever a thread does is a step of that program or changes      *)
(* nothing it has.                                                         *)
ImplementsReadersWriters == Spec
=============================================================================
