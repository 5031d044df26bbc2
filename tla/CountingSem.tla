---------------------------- MODULE CountingSem ----------------------------
(***************************************************************************)
(* The counting semaphores the repository builds out of two POSIX sem_t,   *)
(* as a library: the state of struct CS, one action per statement of       *)
(* semInit, semWait and semPost that touches shared state, and two call    *)
(* actions for the client modules.  Four versions of the library exist,    *)
(* and Lib[s] names the file whose version semaphore s is compiled with.   *)
(*                                                                         *)
(* Each thread executes at most one library call at a time.  at[t] names   *)
(* the statement t executes next ("out": it is not in the library):        *)
(*   w_gate    sem_wait(&B1)       in semWait                              *)
(*   w_mutex   sem_wait(&B2)       in semWait                              *)
(*   w_dec     val -= 1                                                    *)
(*   w_test    the test of val, and what it guards                         *)
(*   w_exit    sem_post(&B2), then return                                  *)
(*   w_block   sem_post(&B2), then sem_wait(&B1)   (incorrect.h only)      *)
(*   p_mutex   sem_wait(&B2)       in semPost                              *)
(*   p_inc     val += 1                                                    *)
(*   p_test    the test of val, and what it guards                         *)
(*   p_exit    sem_post(&B2), then return                                  *)
(* A sem_t is a count: sem_wait blocks at zero, sem_post never blocks and  *)
(* never saturates (the bounds of the runs are far below SEM_VALUE_MAX).   *)
(***************************************************************************)
EXTENDS Integers, FiniteSets

CONSTANTS
  Threads,  \* the threads that call the library
  Sems,     \* the semaphores (each one a struct CS)
  K,        \* K[s]: the k that s is initialised with
  Lib       \* Lib[s]: the version of the library that s belongs to

A2Correct   == "assignment2/correct.h"      \* and assignment3/correct1.h
A2Incorrect == "assignment2/incorrect.h"
A3Correct   == "assignment3/correct.h"
A3Main      == "assignment3/correctQ1.c"    \* initSem, myWait and myPost

ASSUME CountingSemAssumption ==
  /\ IsFiniteSet(Threads)
  /\ K \in [Sems -> Nat]
  /\ Lib \in [Sems -> {A2Correct, A2Incorrect, A3Correct, A3Main}]

VARIABLES
  val,       \* val[s]: the member val
  B1,        \* B1[s]: the sem_t that waiters block on ("gate" in assignment3)
  B2,        \* B2[s]: the sem_t that protects val ("mutex" in assignment3)
  at,        \* at[t]: the library statement that t executes next
  givenSem,  \* givenSem[t]: the argument of t's latest call
  credit     \* history, not in the code: credit[s] is k plus the posts that
             \* have counted, minus the waits that have been granted

semVars == <<val, B1, B2, at, givenSem, credit>>

(* incorrect.h takes the mutex first and the gate last; the others take    *)
(* the gate first.                                                         *)
GateFirst(s) == Lib[s] # A2Incorrect

Statements ==
  {"out", "w_gate", "w_mutex", "w_dec", "w_test", "w_exit", "w_block",
   "p_mutex", "p_inc", "p_test", "p_exit"}

SemTypeOK ==
  /\ val \in [Sems -> Int]
  /\ B1 \in [Sems -> Nat]
  /\ B2 \in [Sems -> {0, 1}]
  /\ at \in [Threads -> Statements]
  /\ givenSem \in [Threads -> Sems]
  /\ credit \in [Sems -> Int]

SemInit ==
  /\ val = K
  /\ B1 = [s \in Sems |-> IF GateFirst(s) /\ K[s] >= 1 THEN 1 ELSE 0]
  /\ B2 = [s \in Sems |-> 1]
  /\ at = [t \in Threads |-> "out"]
  /\ credit = K

-----------------------------------------------------------------------------
(* Entering the library.                                                   *)

Enter(t, s, statement) ==
  /\ at[t] = "out"
  /\ at' = [at EXCEPT ![t] = statement]
  /\ givenSem' = [givenSem EXCEPT ![t] = s]
  /\ UNCHANGED <<val, B1, B2, credit>>

CallSemWait(t, s) == Enter(t, s, IF GateFirst(s) THEN "w_gate" ELSE "w_mutex")

CallSemPost(t, s) == Enter(t, s, "p_mutex")

Goto(t, statement) ==
  /\ at' = [at EXCEPT ![t] = statement]
  /\ UNCHANGED givenSem

(* Mutant: semPost does not take the mutex.                                *)
MutexWaitNotInPost(t) ==
  /\ at[t] \in {"w_mutex", "p_mutex"}
  /\ IF at[t] = "w_mutex"
       THEN /\ B2[givenSem[t]] > 0
            /\ B2' = [B2 EXCEPT ![givenSem[t]] = @ - 1]
       ELSE UNCHANGED B2
  /\ Goto(t, IF at[t] = "w_mutex" THEN "w_dec" ELSE "p_inc")
  /\ UNCHANGED <<val, B1, credit>>

(* sem_wait(&B2) of either routine.                                        *)
MutexWait(t) ==
  /\ at[t] \in {"w_mutex", "p_mutex"}
  /\ B2[givenSem[t]] > 0
  /\ B2' = [B2 EXCEPT ![givenSem[t]] = @ - 1]
  /\ Goto(t, IF at[t] = "w_mutex" THEN "w_dec" ELSE "p_inc")
  /\ UNCHANGED <<val, B1, credit>>

(* sem_post(&B2), the last statement of either routine.                    *)
MutexPost(t) ==
  /\ at[t] \in {"w_exit", "p_exit"}
  /\ B2' = [B2 EXCEPT ![givenSem[t]] = @ + 1]
  /\ Goto(t, "out")
  /\ UNCHANGED <<val, B1, credit>>

-----------------------------------------------------------------------------
(* semWait of the three versions that take the gate first.                 *)

GateWait(t) ==
  /\ GateFirst(givenSem[t])
  /\ at[t] = "w_gate"
  /\ B1[givenSem[t]] > 0
  /\ B1' = [B1 EXCEPT ![givenSem[t]] = @ - 1]
  /\ Goto(t, "w_mutex")
  /\ UNCHANGED <<val, B2, credit>>

Decrement(t) ==
  /\ GateFirst(givenSem[t])
  /\ at[t] = "w_dec"
  /\ val' = [val EXCEPT ![givenSem[t]] = @ - 1]
  /\ credit' = [credit EXCEPT ![givenSem[t]] = @ - 1]
  /\ Goto(t, "w_test")
  /\ UNCHANGED <<B1, B2>>

(* Mutants: the gate is opened again whatever val is, or not at all.       *)
WaitTestAlways(t) ==
  /\ GateFirst(givenSem[t])
  /\ at[t] = "w_test"
  /\ B1' = [B1 EXCEPT ![givenSem[t]] = @ + 1]
  /\ Goto(t, "w_exit")
  /\ UNCHANGED <<val, B2, credit>>

WaitTestNever(t) ==
  /\ GateFirst(givenSem[t])
  /\ at[t] = "w_test"
  /\ Goto(t, "w_exit")
  /\ UNCHANGED <<val, B1, B2, credit>>

WaitTest(t) ==
  /\ GateFirst(givenSem[t])
  /\ at[t] = "w_test"
  /\ B1' = IF val[givenSem[t]] > 0
             THEN [B1 EXCEPT ![givenSem[t]] = @ + 1]
             ELSE B1
  /\ Goto(t, "w_exit")
  /\ UNCHANGED <<val, B2, credit>>

-----------------------------------------------------------------------------
(* semWait of incorrect.h: a thread that finds val negative releases the   *)
(* mutex and only then blocks on B1; it is granted its permit there.       *)

IncorrectDecrement(t) ==
  /\ ~GateFirst(givenSem[t])
  /\ at[t] = "w_dec"
  /\ val' = [val EXCEPT ![givenSem[t]] = @ - 1]
  /\ credit' = IF val[givenSem[t]] > 0
                 THEN [credit EXCEPT ![givenSem[t]] = @ - 1]
                 ELSE credit
  /\ Goto(t, "w_test")
  /\ UNCHANGED <<B1, B2>>

IncorrectWaitTest(t) ==
  /\ ~GateFirst(givenSem[t])
  /\ at[t] = "w_test"
  /\ Goto(t, IF val[givenSem[t]] < 0 THEN "w_block" ELSE "w_exit")
  /\ UNCHANGED <<val, B1, B2, credit>>

IncorrectRelease(t) ==
  /\ at[t] = "w_block"
  /\ B2' = [B2 EXCEPT ![givenSem[t]] = @ + 1]
  /\ Goto(t, "w_gate")
  /\ UNCHANGED <<val, B1, credit>>

IncorrectGateWait(t) ==
  /\ ~GateFirst(givenSem[t])
  /\ at[t] = "w_gate"
  /\ B1[givenSem[t]] > 0
  /\ B1' = [B1 EXCEPT ![givenSem[t]] = @ - 1]
  /\ credit' = [credit EXCEPT ![givenSem[t]] = @ - 1]
  /\ Goto(t, "out")
  /\ UNCHANGED <<val, B2>>

-----------------------------------------------------------------------------
(* semPost: the four versions differ in the test alone.                    *)

Increment(t) ==
  /\ at[t] = "p_inc"
  /\ val' = [val EXCEPT ![givenSem[t]] = @ + 1]
  /\ credit' = [credit EXCEPT ![givenSem[t]] = @ + 1]
  /\ Goto(t, "p_test")
  /\ UNCHANGED <<B1, B2>>

(* sem_post(&B1) when opens is true; the mutex is released next.           *)
OpenGate(t, opens) ==
  /\ at[t] = "p_test"
  /\ B1' = IF opens THEN [B1 EXCEPT ![givenSem[t]] = @ + 1] ELSE B1
  /\ Goto(t, "p_exit")
  /\ UNCHANGED <<B2, credit>>

(* if (givenSem->val = 1): an assignment, so the test always succeeds.     *)
A2CorrectPostTest(t) ==
  /\ Lib[givenSem[t]] = A2Correct
  /\ OpenGate(t, TRUE)
  /\ val' = [val EXCEPT ![givenSem[t]] = 1]

(* Mutant: off by one, the last of the waiters is not woken.               *)
A2IncorrectPostTestNegative(t) ==
  /\ Lib[givenSem[t]] = A2Incorrect
  /\ OpenGate(t, val[givenSem[t]] < 0)
  /\ UNCHANGED val

A2IncorrectPostTest(t) ==
  /\ Lib[givenSem[t]] = A2Incorrect
  /\ OpenGate(t, val[givenSem[t]] <= 0)
  /\ UNCHANGED val

(* Mutant: the gate is opened at zero, as in correctQ1.c.                  *)
A3CorrectPostTestZero(t) ==
  /\ Lib[givenSem[t]] = A3Correct
  /\ OpenGate(t, val[givenSem[t]] = 0)
  /\ UNCHANGED val

A3CorrectPostTest(t) ==
  /\ Lib[givenSem[t]] = A3Correct
  /\ OpenGate(t, val[givenSem[t]] = 1)
  /\ UNCHANGED val

A3MainPostTest(t) ==
  /\ Lib[givenSem[t]] = A3Main
  /\ OpenGate(t, val[givenSem[t]] = 0)
  /\ UNCHANGED val

-----------------------------------------------------------------------------
SemStep(t) ==
  \/ MutexWait(t) \/ MutexPost(t)
  \/ GateWait(t) \/ Decrement(t) \/ WaitTest(t)
  \/ IncorrectDecrement(t) \/ IncorrectWaitTest(t)
  \/ IncorrectRelease(t) \/ IncorrectGateWait(t)
  \/ Increment(t)
  \/ A2CorrectPostTest(t) \/ A2IncorrectPostTest(t)
  \/ A3CorrectPostTest(t) \/ A3MainPostTest(t)

-----------------------------------------------------------------------------
(* The statements executed with B2 held.                                   *)
InCritical(t) ==
  at[t] \in {"w_dec", "w_test", "w_exit", "w_block",
             "p_inc", "p_test", "p_exit"}

(* Nobody is in the middle of a call on s: every thread that calls s is    *)
(* blocked at its gate.                                                    *)
AtRest(s) ==
  \A t \in Threads :
    at[t] # "out" /\ givenSem[t] = s => at[t] = "w_gate" /\ B1[s] = 0

(* A call that has not taken effect yet: a semWait without its permit, or  *)
(* a semPost before its increment.                                         *)
Waiting(t) ==
  \/ at[t] \in {"w_gate", "w_mutex", "w_dec", "w_block"}
  \/ at[t] = "w_test" /\ ~GateFirst(givenSem[t]) /\ val[givenSem[t]] < 0

Posting(t) == at[t] \in {"p_mutex", "p_inc"}

(* val, and the decision taken on it, belong to one thread at a time: B2   *)
(* keeps two semWait or semPost calls on one semaphore from interleaving   *)
(* their val updates and tests.                                            *)
ValProtected ==
  \A t, u \in Threads :
    InCritical(t) /\ InCritical(u) /\ givenSem[t] = givenSem[u] => t = u

(* A semaphore never lets more waits through than k plus the posts: the    *)
(* promise the whole library exists for.                                   *)
NeverOverGranted == \A s \in Sems : credit[s] >= 0

(* No permit is lost by assignment3/correct.h and incorrect.h: when every  *)
(* call on s is either finished or blocked and somebody is blocked, there  *)
(* is no permit left to give.                                              *)
NoPermitLost ==
  \A s \in Sems :
    /\ Lib[s] \in {A3Correct, A2Incorrect}
    /\ AtRest(s)
    /\ \E t \in Threads : at[t] # "out" /\ givenSem[t] = s
    => credit[s] <= 0

(* In assignment3's correct.h and correctQ1.c B1 is used as the binary     *)
(* semaphore that the header's comment says it is: it never counts past    *)
(* one.                                                                    *)
GateIsBinary ==
  \A s \in Sems : Lib[s] \in {A3Correct, A3Main} => B1[s] <= 1
=============================================================================
