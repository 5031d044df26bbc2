----------------------------- MODULE SemClient -----------------------------
(***************************************************************************)
(* The library of CountingSem under its most general client: any thread    *)
(* calls semWait or semPost on any semaphore, in any order, at most        *)
(* MaxCalls times.  What holds here holds for every program that uses the  *)
(* library, in particular for ProdCon and ReadersWriters.                  *)
(***************************************************************************)
EXTENDS CountingSem

CONSTANT MaxCalls  \* bound on the calls a thread makes

ASSUME SemClientAssumption == MaxCalls \in Nat

VARIABLE calls     \* calls[t]: the calls that t may still make

vars == <<val, B1, B2, at, givenSem, credit, calls>>

TypeOK ==
  /\ SemTypeOK
  /\ calls \in [Threads -> 0..MaxCalls]

Init ==
  /\ SemInit
  /\ givenSem \in [Threads -> Sems]
  /\ calls = [t \in Threads |-> MaxCalls]

ClientCall(t) ==
  /\ calls[t] > 0
  /\ calls' = [calls EXCEPT ![t] = @ - 1]
  /\ \E s \in Sems : CallSemWait(t, s) \/ CallSemPost(t, s)

LibraryStep(t) ==
  /\ SemStep(t)
  /\ UNCHANGED calls

Next == \E t \in Threads : ClientCall(t) \/ LibraryStep(t)

Spec == Init /\ [][Next]_vars

(* The kernel runs every thread that is not blocked: weak fairness of each *)
(* thread's library steps.  A client may stop calling.                     *)
FairSpec == Spec /\ \A t \in Threads : WF_vars(LibraryStep(t))

-----------------------------------------------------------------------------
(* The refinement mapping: a call takes effect when the history variable   *)
(* credit moves.                                                           *)
Status ==
  [t \in Threads |-> IF Waiting(t) THEN "waiting"
                     ELSE IF Posting(t) THEN "posting"
                     ELSE "idle"]

Abs == INSTANCE AbstractSem WITH value <- credit, st <- Status, arg <- givenSem

(* Every behaviour of the library is one of a counting semaphore: each     *)
(* semWait consumes an existing permit in one step, each semPost adds one. *)
ImplementsSem == Abs!Spec

(* assignment3/correct.h and incorrect.h are also live as a counting       *)
(* semaphore is: while there is a permit and a waiter, some semWait is     *)
(* granted.  In all versions a semPost takes effect.                       *)
ImplementsFairSem ==
  /\ Abs!Spec
  /\ Abs!PostFairness
  /\ \A s \in Sems :
       Lib[s] \in {A3Correct, A2Incorrect} => Abs!GrantFairness(s)
=============================================================================
