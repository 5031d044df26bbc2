---------------------------- MODULE AbstractSem ----------------------------
(***************************************************************************)
(* What a counting semaphore promises its callers, whatever it is made of. *)
(* semWait and semPost each take effect in one indivisible step somewhere  *)
(* between the call and the return: a semWait consumes a permit that must  *)
(* be there, a semPost adds one.  The library modelled in CountingSem is   *)
(* compared with this module under a refinement mapping.                   *)
(***************************************************************************)
EXTENDS Integers

CONSTANTS
  Threads,  \* the threads that call the semaphores
  Sems,     \* the semaphores
  K         \* the initial number of permits of each semaphore

VARIABLES
  value,    \* value[s]: the permits of semaphore s
  st,       \* st[t]: what thread t is doing: "idle", "waiting" or "posting"
  arg       \* arg[t]: the semaphore of t's latest call

vars == <<value, st, arg>>

Init ==
  /\ value = K
  /\ st = [t \in Threads |-> "idle"]
  /\ arg \in [Threads -> Sems]

Call(t, s, what) ==
  /\ st[t] = "idle"
  /\ st' = [st EXCEPT ![t] = what]
  /\ arg' = [arg EXCEPT ![t] = s]
  /\ UNCHANGED value

Acquire(t) ==
  /\ st[t] = "waiting"
  /\ value[arg[t]] > 0
  /\ value' = [value EXCEPT ![arg[t]] = @ - 1]
  /\ st' = [st EXCEPT ![t] = "idle"]
  /\ UNCHANGED arg

Release(t) ==
  /\ st[t] = "posting"
  /\ value' = [value EXCEPT ![arg[t]] = @ + 1]
  /\ st' = [st EXCEPT ![t] = "idle"]
  /\ UNCHANGED arg

Next ==
  \E t \in Threads :
    \/ \E s \in Sems, what \in {"waiting", "posting"} : Call(t, s, what)
    \/ Acquire(t)
    \/ Release(t)

Spec == Init /\ [][Next]_vars

(* The liveness a counting semaphore owes: a permit nobody else takes is   *)
(* not withheld from the waiters (no order among them is promised), and a  *)
(* post that was called takes effect.                                      *)
GrantFairness(s) == WF_vars(\E t \in Threads : arg[t] = s /\ Acquire(t))

PostFairness == \A t \in Threads : WF_vars(Release(t))

FairSpec == Spec /\ PostFairness /\ \A s \in Sems : GrantFairness(s)
=============================================================================
