------------------------------ MODULE ProdCon ------------------------------
(***************************************************************************)
(* correctQ1.c and incorrectQ1.c: the bounded buffer of BufferProgram      *)
(* guarded by two of the repository's own counting semaphores, fs for the  *)
(* free slots and es for the values to be read.  The two programs differ   *)
(* in the header they include, and assignment3/correct.h is a corrected    *)
(* version of one of them.  header says which one the program is built     *)
(* with.                                                                   *)
(*                                                                         *)
(* A call moves pc past the call statement; the thread then executes       *)
(* library statements until at[t] is "out" again.                          *)
(***************************************************************************)
EXTENDS BufferProgram

CONSTANT Headers  \* the headers considered, versions of CountingSem

VARIABLES val, B1, B2, at, givenSem, credit  \* see CountingSem

VARIABLE header  \* the header the program was compiled with

Sems == {"fs", "es"} \X Headers

INSTANCE CountingSem WITH
  Threads <- Workers,
  K <- [s \in Sems |-> IF s[1] = "fs" THEN SIZE ELSE 0],
  Lib <- [s \in Sems |-> s[2]]

ASSUME HeadersAssumption ==
  Headers \subseteq {A2Correct, A2Incorrect, A3Correct, A3Main}

fs == <<"fs", header>>

es == <<"es", header>>

libVars == <<val, B1, B2, at, givenSem, credit>>

vars == <<bufferVars, libVars, header>>

TypeOK == BufferTypeOK /\ SemTypeOK /\ header \in Headers

WaitsOn(t) == IF t \in Producers THEN fs ELSE es

PostsOn(t) == IF t \in Producers THEN es ELSE fs

(* main: semInit(&fs, SIZE), semInit(&es, 0), then the threads start.      *)
Init ==
  /\ header \in Headers
  /\ BufferInit
  /\ SemInit
  /\ givenSem = [t \in Workers |-> WaitsOn(t)]

DataUnchanged == UNCHANGED <<buffer, buffer_index, buffer_mutex, i, taken>>

(* semWait(&fs) of a producer, semWait(&es) of a consumer.                 *)
CallWait(t) ==
  /\ Step(t, "wait", "lock")
  /\ CallSemWait(t, WaitsOn(t))
  /\ DataUnchanged

(* semPost(&es) of a producer, semPost(&fs) of a consumer.                 *)
CallPost(t) ==
  /\ Step(t, "post", "loop")
  /\ CallSemPost(t, PostsOn(t))
  /\ DataUnchanged

BodyStep(t) ==
  /\ at[t] = "out"
  /\ BufferStep(t)
  /\ UNCHANGED libVars

ThreadStep(t) ==
  /\ \/ BodyStep(t)
     \/ CallWait(t) \/ CallPost(t)
     \/ SemStep(t) /\ UNCHANGED bufferVars
  /\ UNCHANGED header

(* main joins every thread and returns.                                    *)
MainReturns == Finished /\ UNCHANGED vars

Next == (\E t \in Workers : ThreadStep(t)) \/ MainReturns

Spec == Init /\ [][Next]_vars

-----------------------------------------------------------------------------
(* Seen through the mapping, a call counts as made when the semaphore's    *)
(* credit moves: until then the thread is still at the call.               *)
AbstractPc ==
  [t \in Workers |-> IF Waiting(t) THEN "wait"
                     ELSE IF Posting(t) THEN "post"
                     ELSE pc[t]]

Posix == INSTANCE ProdConPosix WITH
  pc <- AbstractPc, full_sem <- credit[fs], empty_sem <- credit[es]

(* The hand-made semaphores can stand in for sem_t: the program on fs and  *)
(* es does nothing that prod_con.c on full_sem and empty_sem could not do. *)
ImplementsPosix == Posix!Spec

(* t executes a statement that blocks it: at a gate, at the mutex of a     *)
(* semaphore, or at buffer_mutex.                                          *)
Blocked(t) == at[t] = "w_gate" /\ B1[givenSem[t]] = 0

Stuck(t) ==
  \/ Blocked(t)
  \/ at[t] \in {"w_mutex", "p_mutex"} /\ B2[givenSem[t]] = 0
  \/ at[t] = "out" /\ pc[t] = "lock" /\ buffer_mutex = "locked"

(* Producers and consumers never all wait for one another, in any of the   *)
(* programs.  As a thread executes a bounded number of statements, all of  *)
(* them finish and main's joins return.                                    *)
NotAllWait ==
  Finished \/ \E t \in Workers : ~Stuck(t) /\ (at[t] # "out" \/ pc[t] # "done")

(* Every thread is outside the buffer code, and finished, about to loop or *)
(* wait, or blocked in semWait.                                            *)
Quiet ==
  \A t \in Workers :
    Blocked(t) \/ (at[t] = "out" /\ pc[t] \in {"loop", "wait", "done"})

(* "when 0, buffer is full" and "when 0, buffer is empty": with no call or *)
(* buffer operation under way, a producer is kept waiting only by a full   *)
(* buffer, a consumer only by an empty one.                                *)
BlocksOnlyAtLimits ==
  Quiet =>
    /\ (\E t \in Producers : Blocked(t)) => buffer_index = SIZE
    /\ (\E t \in Consumers : Blocked(t)) => buffer_index = 0

(* The same of the programs compiled with a header that loses no permit,   *)
(* unlike assignment2's correct.h.                                         *)
OthersBlockOnlyAtLimits ==
  header \in {A2Incorrect, A3Correct} => BlocksOnlyAtLimits
=============================================================================
