--------------------------- MODULE ReadersWriters ---------------------------
(***************************************************************************)
(* reader-writer2.c and reader-writer1.c: the first readers-writers        *)
(* problem.  Every thread runs once.  The first reader takes wrt for all   *)
(* of them and the last one gives it back; mutex guards their number.      *)
(*                                                                         *)
(* The two programs differ in whom main joins: all threads, or, in         *)
(* reader-writer1.c, the writers and five of the ten readers.  It then     *)
(* destroys mutex and wrt and returns, and the others run on until the     *)
(* process exits.                                                          *)
(*                                                                         *)
(* pc[t] names the statement that t executes next:                         *)
(*   reader  lock1, enter (numreader++), first (sem_wait(&wrt)), unlock1,  *)
(*           read, lock2, leave (numreader--), last (sem_post(&wrt)),      *)
(*           unlock2, done                                                 *)
(*   writer  wait, load, store (cnt = cnt*2 takes two steps), post, done   *)
(***************************************************************************)
EXTENDS Integers, FiniteSets

CONSTANTS
  Readers,  \* the threads that run reader
  Writers,  \* the threads that run writer
  JoinSets  \* the sets of readers that main joins, one for each program

ASSUME ReadersWritersAssumption ==
  /\ IsFiniteSet(Readers) /\ IsFiniteSet(Writers)
  /\ Readers \cap Writers = {}
  /\ JoinSets \subseteq SUBSET Readers

VARIABLES
  wrt,        \* the sem_t that excludes writers
  mutex,      \* the pthread mutex
  cnt,        \* the shared counter
  numreader,  \* the readers that entered and did not leave
  pc,         \* pc[t]: see above
  loaded,     \* loaded[w]: the value of cnt that writer w loaded
  joined,     \* the readers that main joins
  main        \* "join", "destroyed" (mutex and wrt are), or "returned"

vars == <<wrt, mutex, cnt, numreader, pc, loaded, joined, main>>

Threads == Readers \cup Writers

ReaderLabels == {"lock1", "enter", "first", "unlock1", "read", "lock2",
                 "leave", "last", "unlock2", "done"}

WriterLabels == {"wait", "load", "store", "post", "done"}

TypeOK ==
  /\ wrt \in {0, 1}
  /\ mutex \in {"locked", "unlocked"}
  /\ cnt \in Nat
  /\ numreader \in 0..Cardinality(Readers)
  /\ pc \in [Threads -> ReaderLabels \cup WriterLabels]
  /\ \A r \in Readers : pc[r] \in ReaderLabels
  /\ \A w \in Writers : pc[w] \in WriterLabels
  /\ loaded \in [Writers -> Nat]
  /\ joined \in JoinSets
  /\ main \in {"join", "destroyed", "returned"}

Init ==
  /\ wrt = 1
  /\ mutex = "unlocked"
  /\ cnt = 1
  /\ numreader = 0
  /\ pc = [t \in Threads |-> IF t \in Readers THEN "lock1" ELSE "wait"]
  /\ loaded = [w \in Writers |-> 0]
  /\ joined \in JoinSets
  /\ main = "join"

Step(t, from, to) ==
  /\ pc[t] = from
  /\ pc' = [pc EXCEPT ![t] = to]

-----------------------------------------------------------------------------
(* writer                                                                  *)

(* Mutant: the writer looks at wrt but does not take it.                   *)
WriterWaitNoTake(w) ==
  /\ Step(w, "wait", "load")
  /\ wrt > 0
  /\ UNCHANGED <<wrt, mutex, cnt, numreader, loaded>>

WriterWait(w) ==
  /\ Step(w, "wait", "load")
  /\ wrt > 0
  /\ wrt' = wrt - 1
  /\ UNCHANGED <<mutex, cnt, numreader, loaded>>

WriterLoad(w) ==
  /\ Step(w, "load", "store")
  /\ loaded' = [loaded EXCEPT ![w] = cnt]
  /\ UNCHANGED <<wrt, mutex, cnt, numreader>>

WriterStore(w) ==
  /\ Step(w, "store", "post")
  /\ cnt' = loaded[w] * 2
  /\ UNCHANGED <<wrt, mutex, numreader, loaded>>

WriterPost(w) ==
  /\ Step(w, "post", "done")
  /\ wrt' = wrt + 1
  /\ UNCHANGED <<mutex, cnt, numreader, loaded>>

WriterStep(w) ==
  WriterWait(w) \/ WriterLoad(w) \/ WriterStore(w) \/ WriterPost(w)

-----------------------------------------------------------------------------
(* reader                                                                  *)

Lock(r) ==
  /\ Step(r, "lock1", "enter") \/ Step(r, "lock2", "leave")
  /\ mutex = "unlocked"
  /\ mutex' = "locked"
  /\ UNCHANGED <<wrt, cnt, numreader, loaded>>

(* Mutant: the second reader is taken for the first.                       *)
EnterOffByOne(r) ==
  /\ Step(r, "enter", IF numreader = 1 THEN "first" ELSE "unlock1")
  /\ numreader' = numreader + 1
  /\ UNCHANGED <<wrt, mutex, cnt, loaded>>

Enter(r) ==
  /\ Step(r, "enter", IF numreader = 0 THEN "first" ELSE "unlock1")
  /\ numreader' = numreader + 1
  /\ UNCHANGED <<wrt, mutex, cnt, loaded>>

(* The first reader waits for the writers with mutex held, so that the     *)
(* readers after it wait in Lock.                                          *)
FirstReader(r) ==
  /\ Step(r, "first", "unlock1")
  /\ wrt > 0
  /\ wrt' = wrt - 1
  /\ UNCHANGED <<mutex, cnt, numreader, loaded>>

Unlock(r) ==
  /\ Step(r, "unlock1", "read") \/ Step(r, "unlock2", "done")
  /\ mutex' = "unlocked"
  /\ UNCHANGED <<wrt, cnt, numreader, loaded>>

(* printf of cnt: the only step in the reading section.                    *)
Read(r) ==
  /\ Step(r, "read", "lock2")
  /\ UNCHANGED <<wrt, mutex, cnt, numreader, loaded>>

(* Mutant: no reader is taken for the last.                                *)
LeaveNeverLast(r) ==
  /\ Step(r, "leave", "unlock2")
  /\ numreader' = numreader - 1
  /\ UNCHANGED <<wrt, mutex, cnt, loaded>>

Leave(r) ==
  /\ Step(r, "leave", IF numreader = 1 THEN "last" ELSE "unlock2")
  /\ numreader' = numreader - 1
  /\ UNCHANGED <<wrt, mutex, cnt, loaded>>

LastReader(r) ==
  /\ Step(r, "last", "unlock2")
  /\ wrt' = wrt + 1
  /\ UNCHANGED <<mutex, cnt, numreader, loaded>>

ReaderStep(r) ==
  \/ Lock(r) \/ Enter(r) \/ FirstReader(r) \/ Unlock(r)
  \/ Read(r) \/ Leave(r) \/ LastReader(r)

-----------------------------------------------------------------------------
ThreadStep(t) ==
  /\ main = "join"
  /\ (t \in Readers /\ ReaderStep(t)) \/ (t \in Writers /\ WriterStep(t))
  /\ UNCHANGED <<joined, main>>

(* The joins have returned: pthread_mutex_destroy and sem_destroy.  What   *)
(* mutex, wrt and numreader hold from here on is undefined, and is read by *)
(* nothing below.                                                          *)
MainDestroys ==
  /\ main = "join"
  /\ \A t \in Writers \cup joined : pc[t] = "done"
  /\ main' = "destroyed"
  /\ UNCHANGED <<wrt, mutex, cnt, numreader, pc, loaded, joined>>

(* A reader that was not joined uses the destroyed mutex and wrt, and      *)
(* numreader without their protection: there is no telling which of its    *)
(* statements comes next, but none of them assigns anything else.          *)
RunsOn(r) ==
  /\ main = "destroyed" /\ pc[r] # "done"
  /\ \E to \in ReaderLabels : pc' = [pc EXCEPT ![r] = to]
  /\ UNCHANGED <<wrt, mutex, cnt, numreader, loaded, joined, main>>

(* return ends the process, whoever still runs.                            *)
MainReturns ==
  /\ main = "destroyed"
  /\ main' = "returned"
  /\ UNCHANGED <<wrt, mutex, cnt, numreader, pc, loaded, joined>>

Exited == main = "returned" /\ UNCHANGED vars

Next ==
  \/ \E t \in Threads : ThreadStep(t)
  \/ \E r \in Readers : RunsOn(r)
  \/ MainDestroys \/ MainReturns \/ Exited

Spec == Init /\ [][Next]_vars

-----------------------------------------------------------------------------
Writing(w) == pc[w] \in {"load", "store", "post"}

Reading(r) == pc[r] \in {"unlock1", "read", "lock2", "leave", "last"}

(* A writer is alone: no other writer and no reader is between taking and  *)
(* giving back wrt.  Readers hold wrt together, through one of them.       *)
Exclusion ==
  \A w \in Writers : Writing(w) =>
    /\ \A r \in Readers : ~Reading(r)
    /\ \A v \in Writers : Writing(v) => v = w

(* No update of cnt is lost: it was doubled once by each writer that got   *)
(* past its store.                                                         *)
NoLostUpdate ==
  cnt = 2 ^ Cardinality({w \in Writers : pc[w] \in {"post", "done"}})

(* Readers and writers are only kept waiting by one another: while nobody  *)
(* reads or writes, wrt is free.                                           *)
WrtReturned ==
  /\ main = "join"
  /\ (\A r \in Readers : ~Reading(r)) /\ (\A w \in Writers : ~Writing(w))
  => wrt = 1

(* Whoever main joins finishes, so that the program ends.                  *)
Termination == <>(main = "returned")
=============================================================================
