------------------------- MODULE ChopsticksContract -------------------------
(***************************************************************************)
(* What chopsticks.h promises the philosophers: chopsticks_take(i) blocks  *)
(* until chopsticks i and (i+1) mod N are both available and then takes    *)
(* the two in one step, chopsticks_put(i) releases them.  The monitor of   *)
(* module Chopsticks is compared with this module.                         *)
(***************************************************************************)
EXTENDS Integers

CONSTANT N      \* the number of philosophers, and of chopsticks

VARIABLES
  available,    \* the chopsticks that nobody holds
  phase         \* phase[i]: "away", "waiting" in take, or "holding"

vars == <<available, phase>>

Philosophers == 0..N - 1

Chopsticks(i) == {i, (i + 1) % N}

Init ==
  /\ available = Philosophers
  /\ phase = [i \in Philosophers |-> "away"]

Ask(i) ==
  /\ phase[i] = "away"
  /\ phase' = [phase EXCEPT ![i] = "waiting"]
  /\ UNCHANGED available

Take(i) ==
  /\ phase[i] = "waiting"
  /\ Chopsticks(i) \subseteq available
  /\ phase' = [phase EXCEPT ![i] = "holding"]
  /\ available' = available \ Chopsticks(i)

Put(i) ==
  /\ phase[i] = "holding"
  /\ phase' = [phase EXCEPT ![i] = "away"]
  /\ available' = available \cup Chopsticks(i)

Next == \E i \in Philosophers : Ask(i) \/ Take(i) \/ Put(i)

Spec == Init /\ [][Next]_vars

(* Deadlock is prevented: chopsticks that stay available are taken by the  *)
(* philosopher who waits for them.  A philosopher whose neighbours eat in  *)
(* turn may still starve.                                                  *)
FairSpec == Spec /\ \A i \in Philosophers : WF_vars(Take(i))
=============================================================================
