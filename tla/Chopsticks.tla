----------------------------- MODULE Chopsticks -----------------------------
(***************************************************************************)
(* chopsticks0.c: a monitor for the dining philosophers, made of one POSIX *)
(* mutex and one condition variable per philosopher, under the use that    *)
(* chopsticks.h prescribes: one thread per philosopher, which thinks,      *)
(* calls chopsticks_take, eats and calls chopsticks_put.                   *)
(*                                                                         *)
(* pc[i] names the statement that philosopher i executes next:             *)
(*   think                                     outside, without chopsticks *)
(*   t_lock, t_hungry, t_update, t_test,                                   *)
(*   t_unlock                                  chopsticks_take             *)
(*   blocked   in pthread_cond_wait, asleep on CV[i], without M            *)
(*   relock    in pthread_cond_wait, awake, about to take M again          *)
(*   eat                                       outside, with chopsticks    *)
(*   p_lock, p_think, p_left, p_right,                                     *)
(*   p_unlock                                  chopsticks_put              *)
(* pthread_cond_wait may return without a signal, as POSIX allows.         *)
(***************************************************************************)
EXTENDS Integers

CONSTANTS
  N,       \* NTHREADS, the number of philosophers
  Meals,   \* bound on the meals of a philosopher
  Wakeups  \* bound on the spurious wakeups

ASSUME ChopsticksAssumption ==
  N \in Nat \ {0, 1} /\ Meals \in Nat /\ Wakeups \in Nat

VARIABLES
  state,   \* state[i]: THINKING, HUNGRY or EATING
  M,       \* the mutex: "locked" or "unlocked"
  pc,      \* pc[i]: see above
  meals,   \* meals[i]: the meals that i may still begin
  wakeups  \* the spurious wakeups that may still happen

bounds == <<meals, wakeups>>

vars == <<state, M, pc, meals, wakeups>>

Philosophers == 0..N - 1

THINKING == 1
HUNGRY   == 2
EATING   == 3

LEFT(i)  == (i + N - 1) % N
RIGHT(i) == (i + 1) % N

InMonitorLabels == {"t_hungry", "t_update", "t_test", "t_unlock",
                    "p_think", "p_left", "p_right", "p_unlock"}

Labels == InMonitorLabels \cup
            {"think", "t_lock", "blocked", "relock", "eat", "p_lock"}

TypeOK ==
  /\ state \in [Philosophers -> {THINKING, HUNGRY, EATING}]
  /\ M \in {"locked", "unlocked"}
  /\ pc \in [Philosophers -> Labels]
  /\ meals \in [Philosophers -> 0..Meals]
  /\ wakeups \in 0..Wakeups

(* chopsticks_init                                                         *)
Init ==
  /\ state = [i \in Philosophers |-> THINKING]
  /\ M = "unlocked"
  /\ pc = [i \in Philosophers |-> "think"]
  /\ meals = [i \in Philosophers |-> Meals]
  /\ wakeups = Wakeups

-----------------------------------------------------------------------------
Step(i, from, to) ==
  /\ pc[i] = from
  /\ pc' = [pc EXCEPT ![i] = to]

Lock(i, from, to) ==
  /\ Step(i, from, to)
  /\ M = "unlocked"
  /\ M' = "locked"
  /\ UNCHANGED <<state, bounds>>

Unlock(i, from, to) ==
  /\ Step(i, from, to)
  /\ M' = "unlocked"
  /\ UNCHANGED <<state, bounds>>

(* Mutant: only the left neighbour is looked at.                           *)
MayEatLeftOnly(j) == state[j] = HUNGRY /\ state[LEFT(j)] # EATING

MayEat(j) ==
  /\ state[j] = HUNGRY
  /\ state[LEFT(j)] # EATING
  /\ state[RIGHT(j)] # EATING

(* Mutant: j becomes EATING without a signal.                              *)
UpdateStateNoSignal(j, i, from, to) ==
  /\ Step(i, from, to)
  /\ state' = IF MayEat(j) THEN [state EXCEPT ![j] = EATING] ELSE state
  /\ UNCHANGED <<M, bounds>>

(* update_state(j), called by i.  The signal is lost unless j is asleep.   *)
UpdateState(j, i, from, to) ==
  /\ pc[i] = from
  /\ state' = IF MayEat(j) THEN [state EXCEPT ![j] = EATING] ELSE state
  /\ pc' = [k \in Philosophers |->
              IF k = i THEN to
              ELSE IF k = j /\ MayEat(j) /\ pc[j] = "blocked" THEN "relock"
              ELSE pc[k]]
  /\ UNCHANGED <<M, bounds>>

-----------------------------------------------------------------------------
(* chopsticks_take                                                         *)

TakeCall(i) ==
  /\ meals[i] > 0
  /\ meals' = [meals EXCEPT ![i] = @ - 1]
  /\ Step(i, "think", "t_lock")
  /\ UNCHANGED <<state, M, wakeups>>

TakeLock(i) == Lock(i, "t_lock", "t_hungry")

TakeHungry(i) ==
  /\ Step(i, "t_hungry", "t_update")
  /\ state' = [state EXCEPT ![i] = HUNGRY]
  /\ UNCHANGED <<M, bounds>>

TakeUpdate(i) == UpdateState(i, i, "t_update", "t_test")

(* while (state[i] == HUNGRY) pthread_cond_wait (&CV[i],&M): the mutex is  *)
(* released and i falls asleep in one step.                                *)
TakeTest(i) ==
  /\ pc[i] = "t_test"
  /\ IF state[i] = HUNGRY
       THEN Unlock(i, "t_test", "blocked")
       ELSE /\ Step(i, "t_test", "t_unlock")
            /\ UNCHANGED <<state, M, bounds>>

SpuriousWakeup(i) ==
  /\ wakeups > 0
  /\ wakeups' = wakeups - 1
  /\ Step(i, "blocked", "relock")
  /\ UNCHANGED <<state, M, meals>>

(* Mutant: an "if" instead of the "while".                                 *)
TakeRelockIf(i) == Lock(i, "relock", "t_unlock")

TakeRelock(i) == Lock(i, "relock", "t_test")

TakeUnlock(i) == Unlock(i, "t_unlock", "eat")

-----------------------------------------------------------------------------
(* chopsticks_put                                                          *)

PutCall(i) ==
  /\ Step(i, "eat", "p_lock")
  /\ UNCHANGED <<state, M, bounds>>

PutLock(i) == Lock(i, "p_lock", "p_think")

PutThink(i) ==
  /\ Step(i, "p_think", "p_left")
  /\ state' = [state EXCEPT ![i] = THINKING]
  /\ UNCHANGED <<M, bounds>>

PutLeft(i) == UpdateState(LEFT(i), i, "p_left", "p_right")

(* Mutant: the left neighbour is updated twice, the right one never.       *)
PutRightLeft(i) == UpdateState(LEFT(i), i, "p_right", "p_unlock")

PutRight(i) == UpdateState(RIGHT(i), i, "p_right", "p_unlock")

PutUnlock(i) == Unlock(i, "p_unlock", "think")

-----------------------------------------------------------------------------
(* What i does by itself once it has called.                               *)
Run(i) ==
  \/ TakeLock(i) \/ TakeHungry(i) \/ TakeUpdate(i) \/ TakeTest(i)
  \/ TakeRelock(i) \/ TakeUnlock(i)
  \/ PutCall(i) \/ PutLock(i) \/ PutThink(i) \/ PutLeft(i) \/ PutRight(i)
  \/ PutUnlock(i)

Next == \E i \in Philosophers : TakeCall(i) \/ Run(i) \/ SpuriousWakeup(i)

Spec == Init /\ [][Next]_vars

(* A thread that is not blocked is scheduled sooner or later, and every    *)
(* meal ends.  Nobody has to become hungry, and no spurious wakeup has to  *)
(* happen.                                                                 *)
FairSpec == Spec /\ \A i \in Philosophers : WF_vars(Run(i))

-----------------------------------------------------------------------------
(* chopsticks_take(i) has returned, and the chopsticks are not back yet.   *)
Dining(i) == pc[i] \in {"eat", "p_lock", "p_think"}

(* "The two chopsticks are then not available for taking until they are    *)
(* released again": no two neighbours are between the return of take and   *)
(* the release in put at the same time, whoever is woken in whatever order *)
(* and with or without a signal.                                           *)
NeighboursDontDine == \A i \in Philosophers : Dining(i) => ~Dining(RIGHT(i))

(* put passes the chopsticks on: when nobody is in the monitor, a          *)
(* philosopher who is still hungry has a neighbour who eats.               *)
NobodyForgotten ==
  M = "unlocked" => \A i \in Philosophers : ~MayEat(i)

(* No deadlock and no wakeup that comes to nothing: a call of              *)
(* chopsticks_take returns, as long as nobody eats forever or over and     *)
(* over again (here: more than Meals times).                               *)
TakeReturns == \A i \in Philosophers : pc[i] = "t_lock" ~> pc[i] = "eat"

-----------------------------------------------------------------------------
(* A philosopher holds its chopsticks from the moment state[i] is EATING,  *)
(* set by whoever calls update_state, to the moment it is THINKING again.  *)
Phase ==
  [i \in Philosophers |->
     IF state[i] = EATING THEN "holding"
     ELSE IF pc[i] \in {"think", "p_left", "p_right", "p_unlock"} THEN "away"
     ELSE "waiting"]

OnTable ==
  {c \in Philosophers : state[c] # EATING /\ state[LEFT(c)] # EATING}

Contract == INSTANCE ChopsticksContract WITH available <- OnTable, phase <- Phase

(* The monitor keeps the promise of chopsticks.h: each call takes both     *)
(* chopsticks in one step when both are available, and chopsticks that     *)
(* stay available are given to the philosopher who waits for them.         *)
ImplementsContract == Contract!FairSpec
=============================================================================
