-------------------------- MODULE ChopsticksProofs --------------------------
(***************************************************************************)
(* Theorems about every behaviour of Chopsticks, for any number of         *)
(* philosophers, meals and spurious wakeups.                               *)
(***************************************************************************)
EXTENDS Chopsticks, TLAPS

(* LEFT and RIGHT, arithmetic modulo N in the code, are inverse to one     *)
(* another, and nobody is his own neighbour.                               *)
LEMMA Neighbours ==
  ASSUME NEW i \in Philosophers
  PROVE  /\ LEFT(i) \in Philosophers /\ RIGHT(i) \in Philosophers
         /\ LEFT(RIGHT(i)) = i /\ RIGHT(LEFT(i)) = i
         /\ LEFT(i) # i /\ RIGHT(i) # i
<1> USE ChopsticksAssumption DEF Philosophers
<1>1. \A k \in Philosophers : RIGHT(k) = IF k = N - 1 THEN 0 ELSE k + 1
  BY DEF RIGHT
<1>2. \A k \in Philosophers : LEFT(k) = IF k = 0 THEN N - 1 ELSE k - 1
  <2> SUFFICES ASSUME NEW k \in Philosophers
               PROVE  (k + N - 1) % N = IF k = 0 THEN N - 1 ELSE k - 1
    BY DEF LEFT
  <2>1. CASE k = 0
    BY <2>1
  <2>2. CASE k # 0
    <3>1. (k - 1 + N) % N = (k - 1) % N
      OBVIOUS
    <3> QED
      BY <2>2, <3>1
  <2> QED
    BY <2>1, <2>2
<1> HIDE DEF LEFT, RIGHT
<1>3. LEFT(i) \in Philosophers /\ RIGHT(i) \in Philosophers
  BY <1>1, <1>2
<1>4. LEFT(RIGHT(i)) = i /\ RIGHT(LEFT(i)) = i
  BY <1>1, <1>2, <1>3
<1> QED
  BY <1>1, <1>2, <1>3, <1>4

-----------------------------------------------------------------------------
InMonitor(i) == pc[i] \in InMonitorLabels

(* The mutex: whoever is in the monitor is there alone and has locked M.   *)
Alone ==
  \A i \in Philosophers : InMonitor(i) =>
    /\ M = "locked"
    /\ \A j \in Philosophers : InMonitor(j) => i = j

(* What state[i] is while i executes each statement; it may be changed by  *)
(* a neighbour while i sleeps, or is waking up.                            *)
StateOfPc(i) ==
  /\ pc[i] \in {"think", "t_lock", "t_hungry", "p_left", "p_right", "p_unlock"}
       => state[i] = THINKING
  /\ pc[i] \in {"t_update", "blocked"} => state[i] = HUNGRY
  /\ pc[i] \in {"t_test", "relock"} => state[i] \in {HUNGRY, EATING}
  /\ pc[i] \in {"t_unlock", "eat", "p_lock", "p_think"} => state[i] = EATING

NeighboursDontEat ==
  \A i \in Philosophers : state[i] = EATING => state[RIGHT(i)] # EATING

Inv ==
  /\ TypeOK
  /\ Alone
  /\ \A i \in Philosophers : StateOfPc(i)
  /\ NeighboursDontEat

LEMMA InitInv == Init => Inv
BY ChopsticksAssumption
   DEF Init, Inv, TypeOK, Alone, StateOfPc, NeighboursDontEat, InMonitor,
       InMonitorLabels, Labels, THINKING, HUNGRY, EATING

-----------------------------------------------------------------------------
(* A step of i that leaves the monitor's state alone, from a label to a    *)
(* label that expects the same of state[i].                                *)
LEMMA UpdateInv ==
  ASSUME Inv, NEW i \in Philosophers, NEW j \in Philosophers,
         NEW from \in InMonitorLabels, NEW to \in InMonitorLabels,
         UpdateState(j, i, from, to),
         \/ j = i /\ from = "t_update" /\ to = "t_test"
         \/ j # i /\ from \in {"p_left", "p_right"} /\ to \in {"p_right", "p_unlock"}
  PROVE  Inv'
<1> USE DEF InMonitorLabels, Labels, THINKING, HUNGRY, EATING
<1>1. TypeOK'
  BY DEF UpdateState, Inv, TypeOK, bounds
<1>2. Alone'
  <2>1. \A k \in Philosophers : InMonitor(k)' <=> InMonitor(k)
    BY DEF UpdateState, Inv, TypeOK, InMonitor
  <2>2. M' = M
    BY DEF UpdateState
  <2> QED
    BY <2>1, <2>2 DEF Inv, Alone
<1>3. ASSUME NEW k \in Philosophers PROVE StateOfPc(k)'
  <2>1. StateOfPc(k) /\ StateOfPc(j)
    BY DEF Inv
  <2>2. k # i => pc[k] \notin InMonitorLabels
    BY DEF UpdateState, Inv, Alone, InMonitor
  <2>3. CASE MayEat(j)
    <3>1. state' = [state EXCEPT ![j] = EATING]
      BY <2>3 DEF UpdateState
    <3> QED
      BY <2>1, <2>2, <2>3, <3>1 DEF UpdateState, StateOfPc, MayEat, Inv, TypeOK
  <2>4. CASE ~MayEat(j)
    BY <2>1, <2>2, <2>4 DEF UpdateState, StateOfPc, Inv, TypeOK
  <2> QED
    BY <2>3, <2>4
<1>4. NeighboursDontEat'
  <2>1. CASE MayEat(j)
    <3>1. state' = [state EXCEPT ![j] = EATING]
      BY <2>1 DEF UpdateState
    <3>2. state[LEFT(j)] # EATING /\ state[RIGHT(j)] # EATING
      BY <2>1 DEF MayEat
    <3> SUFFICES ASSUME NEW k \in Philosophers, state'[k] = EATING
                 PROVE  state'[RIGHT(k)] # EATING
      BY DEF NeighboursDontEat
    <3>3. CASE k = j
      BY <3>1, <3>2, <3>3, Neighbours DEF Inv, TypeOK
    <3>4. CASE k # j /\ RIGHT(k) = j
      BY <3>1, <3>2, <3>4, Neighbours DEF Inv, TypeOK
    <3>5. CASE k # j /\ RIGHT(k) # j
      BY <3>1, <3>5, Neighbours DEF Inv, TypeOK, NeighboursDontEat
    <3> QED
      BY <3>3, <3>4, <3>5
  <2>2. CASE ~MayEat(j)
    BY <2>2 DEF UpdateState, Inv, NeighboursDontEat
  <2> QED
    BY <2>1, <2>2
<1> QED
  BY <1>1, <1>2, <1>3, <1>4 DEF Inv

(* A step of i that changes nothing but where i is, and M when it enters   *)
(* or leaves the monitor.                                                  *)
LEMMA MoveInv ==
  ASSUME Inv, NEW i \in Philosophers, NEW from \in Labels, NEW to \in Labels,
         Step(i, from, to), state' = state,
         meals' \in [Philosophers -> 0..Meals], wakeups' \in 0..Wakeups,
         StateOfPc(i)',
         \/ from \notin InMonitorLabels /\ to \notin InMonitorLabels /\ M' = M
         \/ from \in InMonitorLabels /\ to \in InMonitorLabels /\ M' = M
         \/ from \in InMonitorLabels /\ to \notin InMonitorLabels /\ M' = "unlocked"
         \/ from \notin InMonitorLabels /\ M = "unlocked" /\ M' = "locked"
  PROVE  Inv'
<1>1. TypeOK'
  BY DEF Step, Inv, TypeOK
<1>2. Alone'
  <2> USE DEF Inv, TypeOK, Alone, InMonitor
  <2>1. pc[i] = from /\ pc'[i] = to /\ \A k \in Philosophers \ {i} : pc'[k] = pc[k]
    BY DEF Step
  <2> HIDE DEF TypeOK
  <2> QED
    BY <2>1
<1>3. ASSUME NEW k \in Philosophers PROVE StateOfPc(k)'
  <2>1. k # i => pc'[k] = pc[k]
    BY DEF Step, Inv, TypeOK
  <2> QED
    BY <2>1 DEF StateOfPc, Inv
<1>4. NeighboursDontEat'
  BY DEF Inv, NeighboursDontEat
<1> QED
  BY <1>1, <1>2, <1>3, <1>4 DEF Inv

(* state[i] := HUNGRY and state[i] := THINKING.                            *)
LEMMA AssignInv ==
  ASSUME Inv, NEW i \in Philosophers,
         NEW from \in InMonitorLabels, NEW to \in InMonitorLabels,
         NEW value \in {THINKING, HUNGRY},
         Step(i, from, to), state' = [state EXCEPT ![i] = value],
         UNCHANGED <<M, bounds>>, StateOfPc(i)'
  PROVE  Inv'
<1>1. TypeOK'
  BY DEF Step, Inv, TypeOK, bounds, Labels
<1>2. \A k \in Philosophers : InMonitor(k)' <=> InMonitor(k)
  BY DEF Step, Inv, TypeOK, InMonitor
<1>3. Alone'
  BY <1>2 DEF Inv, Alone
<1>4. ASSUME NEW k \in Philosophers PROVE StateOfPc(k)'
  <2>1. k # i => pc'[k] = pc[k] /\ state'[k] = state[k]
    BY DEF Step, Inv, TypeOK
  <2> QED
    BY <2>1 DEF StateOfPc, Inv
<1>5. NeighboursDontEat'
  <2>1. \A k \in Philosophers : state'[k] = EATING => state[k] = EATING
    BY DEF Inv, TypeOK, THINKING, HUNGRY, EATING
  <2> QED
    BY <2>1, Neighbours DEF Inv, NeighboursDontEat
<1> QED
  BY <1>1, <1>3, <1>4, <1>5 DEF Inv

-----------------------------------------------------------------------------
LEMMA StepInv == Inv /\ [Next]_vars => Inv'
<1> SUFFICES ASSUME Inv, [Next]_vars PROVE Inv'
  OBVIOUS
<1> USE DEF InMonitorLabels, Labels, bounds
<1>0. TypeOK
  BY DEF Inv
<1>1. ASSUME NEW i \in Philosophers,
             \/ TakeCall(i) \/ TakeLock(i) \/ TakeRelock(i) \/ TakeUnlock(i)
             \/ PutCall(i) \/ PutLock(i) \/ PutUnlock(i) \/ SpuriousWakeup(i)
      PROVE  Inv'
  <2>1. StateOfPc(i)
    BY DEF Inv
  <2>2. meals' \in [Philosophers -> 0..Meals] /\ wakeups' \in 0..Wakeups
    BY <1>0, <1>1, ChopsticksAssumption
       DEF TypeOK, TakeCall, TakeLock, TakeRelock, TakeUnlock, PutCall, PutLock,
           PutUnlock, SpuriousWakeup, Lock, Unlock
  <2>3. \A from, to \in Labels : Step(i, from, to) => pc[i] = from /\ pc'[i] = to
    BY <1>0 DEF TypeOK, Step
  <2>4. CASE TakeCall(i)
    BY <2>1, <2>2, <2>3, <2>4, MoveInv DEF TakeCall, StateOfPc
  <2>5. CASE TakeLock(i)
    BY <2>1, <2>2, <2>3, <2>5, MoveInv DEF TakeLock, Lock, StateOfPc
  <2>6. CASE TakeRelock(i)
    BY <2>1, <2>2, <2>3, <2>6, MoveInv DEF TakeRelock, Lock, StateOfPc
  <2>7. CASE TakeUnlock(i)
    BY <2>1, <2>2, <2>3, <2>7, MoveInv DEF TakeUnlock, Unlock, StateOfPc
  <2>8. CASE PutCall(i)
    BY <2>1, <2>2, <2>3, <2>8, MoveInv DEF PutCall, StateOfPc
  <2>9. CASE PutLock(i)
    BY <2>1, <2>2, <2>3, <2>9, MoveInv DEF PutLock, Lock, StateOfPc
  <2>10. CASE PutUnlock(i)
    BY <2>1, <2>2, <2>3, <2>10, MoveInv DEF PutUnlock, Unlock, StateOfPc
  <2>11. CASE SpuriousWakeup(i)
    BY <2>1, <2>2, <2>3, <2>11, MoveInv DEF SpuriousWakeup, StateOfPc
  <2> QED
    BY <1>1, <2>4, <2>5, <2>6, <2>7, <2>8, <2>9, <2>10, <2>11
<1>2. ASSUME NEW i \in Philosophers, TakeTest(i) PROVE Inv'
  <2>1. StateOfPc(i) /\ meals' = meals /\ wakeups' = wakeups
    BY <1>2 DEF Inv, TakeTest, Unlock
  <2>2. CASE state[i] = HUNGRY
    <3>1. Unlock(i, "t_test", "blocked")
      BY <1>2, <2>2 DEF TakeTest
    <3>2. StateOfPc(i)'
      BY <1>0, <2>2, <3>1 DEF Unlock, Step, TypeOK, StateOfPc
    <3> QED
      BY <1>0, <2>1, <3>1, <3>2, MoveInv DEF Unlock, TypeOK
  <2>3. CASE state[i] # HUNGRY
    <3>1. Step(i, "t_test", "t_unlock") /\ UNCHANGED <<state, M, bounds>>
      BY <1>2, <2>3 DEF TakeTest
    <3>2. StateOfPc(i)'
      BY <1>0, <2>1, <2>3, <3>1 DEF Step, TypeOK, StateOfPc
    <3> QED
      BY <1>0, <2>1, <3>1, <3>2, MoveInv DEF TypeOK
  <2> QED
    BY <2>2, <2>3
<1>3. ASSUME NEW i \in Philosophers, TakeHungry(i) PROVE Inv'
  <2>1. StateOfPc(i)'
    BY <1>0, <1>3 DEF TakeHungry, Step, TypeOK, StateOfPc
  <2> QED
    BY <1>3, <2>1, AssignInv DEF TakeHungry
<1>4. ASSUME NEW i \in Philosophers, PutThink(i) PROVE Inv'
  <2>1. StateOfPc(i)'
    BY <1>0, <1>4 DEF PutThink, Step, TypeOK, StateOfPc
  <2> QED
    BY <1>4, <2>1, AssignInv DEF PutThink
<1>5. ASSUME NEW i \in Philosophers, TakeUpdate(i) PROVE Inv'
  BY <1>5, UpdateInv DEF TakeUpdate
<1>6. ASSUME NEW i \in Philosophers, PutLeft(i) PROVE Inv'
  BY <1>6, UpdateInv, Neighbours DEF PutLeft
<1>7. ASSUME NEW i \in Philosophers, PutRight(i) PROVE Inv'
  BY <1>7, UpdateInv, Neighbours DEF PutRight
<1>8. CASE UNCHANGED vars
  BY <1>8 DEF vars, Inv, TypeOK, Alone, InMonitor, StateOfPc, NeighboursDontEat
<1> QED
  BY <1>1, <1>2, <1>3, <1>4, <1>5, <1>6, <1>7, <1>8 DEF Next, Run

(* No two neighbours dine at the same time: between the return of          *)
(* chopsticks_take and the release in chopsticks_put the two chopsticks of *)
(* a philosopher are his own.  The variables keep their types.             *)
THEOREM NeighboursNeverDine == Spec => [](TypeOK /\ NeighboursDontDine)
<1>1. Inv => TypeOK /\ NeighboursDontDine
  BY Neighbours DEF Inv, NeighboursDontEat, StateOfPc, NeighboursDontDine, Dining
<1> QED
  BY <1>1, InitInv, StepInv, PTL DEF Spec

-----------------------------------------------------------------------------
(* Whoever is hungry and could eat is about to be updated by the           *)
(* philosopher in the monitor.                                             *)
UpdateDue(i) ==
  \/ pc[i] = "t_update"
  \/ pc[LEFT(i)] \in {"p_left", "p_right"}
  \/ pc[RIGHT(i)] = "p_left"

HungryAreUpdated == \A i \in Philosophers : MayEat(i) => UpdateDue(i)

LEMMA StepUpdated == Inv /\ HungryAreUpdated /\ [Next]_vars => HungryAreUpdated'
<1> SUFFICES ASSUME Inv, HungryAreUpdated, [Next]_vars,
                    NEW i \in Philosophers, MayEat(i)'
             PROVE  UpdateDue(i)'
  BY DEF HungryAreUpdated
<1>0. /\ TypeOK
      /\ LEFT(i) \in Philosophers /\ RIGHT(i) \in Philosophers
      /\ LEFT(RIGHT(i)) = i /\ RIGHT(LEFT(i)) = i
      /\ LEFT(i) # i /\ RIGHT(i) # i
      /\ MayEat(i) => UpdateDue(i)
  BY Neighbours DEF Inv, HungryAreUpdated
<1> USE DEF THINKING, HUNGRY, EATING
<1>1. ASSUME NEW j \in Philosophers,
             \/ TakeCall(j) \/ TakeLock(j) \/ TakeRelock(j) \/ TakeUnlock(j)
             \/ PutCall(j) \/ PutLock(j) \/ PutUnlock(j) \/ SpuriousWakeup(j)
             \/ TakeTest(j)
      PROVE  UpdateDue(i)'
  <2>1. state' = state
    BY <1>1 DEF TakeCall, TakeLock, TakeRelock, TakeUnlock, PutCall, PutLock,
       PutUnlock, SpuriousWakeup, TakeTest, Lock, Unlock
  <2>2. UpdateDue(i)
    BY <1>0, <2>1 DEF MayEat
  <2>3. /\ \A k \in Philosophers \ {j} : pc'[k] = pc[k]
        /\ pc[j] \notin {"t_update", "p_left", "p_right"}
    BY <1>0, <1>1 DEF TypeOK, TakeCall, TakeLock, TakeRelock, TakeUnlock,
       PutCall, PutLock, PutUnlock, SpuriousWakeup, TakeTest, Lock, Unlock, Step
  <2> QED
    BY <1>0, <2>2, <2>3 DEF UpdateDue
<1>2. ASSUME NEW j \in Philosophers, TakeHungry(j) PROVE UpdateDue(i)'
  <2>1. CASE i = j
    BY <1>0, <1>2, <2>1 DEF TakeHungry, Step, TypeOK, UpdateDue
  <2>2. CASE i # j
    <3>1. state[j] = THINKING /\ pc[j] = "t_hungry"
      BY <1>2 DEF TakeHungry, Step, Inv, StateOfPc
    <3>2. MayEat(i)
      BY <1>0, <1>2, <2>2, <3>1 DEF TakeHungry, MayEat, TypeOK
    <3> QED
      BY <1>0, <1>2, <2>2, <3>1, <3>2 DEF TakeHungry, Step, TypeOK, UpdateDue
  <2> QED
    BY <2>1, <2>2
<1>3. ASSUME NEW j \in Philosophers, PutThink(j) PROVE UpdateDue(i)'
  <2>1. CASE i = LEFT(j) \/ i = RIGHT(j)
    <3>1. pc'[j] = "p_left"
      BY <1>0, <1>3 DEF PutThink, Step, TypeOK
    <3> QED
      BY <2>1, <3>1, Neighbours DEF UpdateDue
  <2>2. CASE i # LEFT(j) /\ i # RIGHT(j)
    <3>1. LEFT(i) # j /\ RIGHT(i) # j /\ i # j
      BY <1>0, <1>3, <2>2 DEF PutThink, TypeOK, MayEat
    <3>2. MayEat(i) /\ pc[j] = "p_think"
      BY <1>0, <1>3, <3>1 DEF PutThink, Step, TypeOK, MayEat
    <3> QED
      BY <1>0, <1>3, <3>1, <3>2 DEF PutThink, Step, TypeOK, UpdateDue
  <2> QED
    BY <2>1, <2>2
<1>4. ASSUME NEW j \in Philosophers, NEW k \in Philosophers,
             \/ k = j /\ TakeUpdate(j)
             \/ k = LEFT(j) /\ PutLeft(j)
             \/ k = RIGHT(j) /\ PutRight(j)
      PROVE  UpdateDue(i)'
  <2>1. state' = IF MayEat(k) THEN [state EXCEPT ![k] = EATING] ELSE state
    BY <1>4 DEF TakeUpdate, PutLeft, PutRight, UpdateState
  <2>2. i # k /\ MayEat(i)
    BY <1>0, <2>1 DEF MayEat, TypeOK
  <2>3. UpdateDue(i)
    BY <1>0, <2>2
  <2>4. \A m \in Philosophers \ {j} :
          pc[m] \in {"t_update", "p_left", "p_right"} => pc'[m] = pc[m]
    BY <1>4 DEF TakeUpdate, PutLeft, PutRight, UpdateState
  <2>5. \/ k = j /\ pc[j] = "t_update"
        \/ k = LEFT(j) /\ pc[j] = "p_left" /\ pc'[j] = "p_right"
        \/ k = RIGHT(j) /\ pc[j] = "p_right"
    BY <1>4 DEF TakeUpdate, PutLeft, PutRight, UpdateState
  <2> QED
    BY <1>0, <2>2, <2>3, <2>4, <2>5 DEF UpdateDue
<1>5. CASE UNCHANGED vars
  BY <1>0, <1>5 DEF vars, MayEat, UpdateDue
<1> QED
  BY <1>1, <1>2, <1>3, <1>4, <1>5, Neighbours DEF Next, Run

(* chopsticks_put forgets nobody, and no call of chopsticks_take goes to   *)
(* sleep beside free chopsticks: with the monitor empty, a hungry          *)
(* philosopher has a neighbour who eats.                                   *)
THEOREM PutForgetsNobody == Spec => []NobodyForgotten
<1>1. Init => HungryAreUpdated
  BY DEF Init, HungryAreUpdated, MayEat, THINKING, HUNGRY
<1>2. Inv /\ HungryAreUpdated => NobodyForgotten
  BY Neighbours
     DEF Inv, HungryAreUpdated, UpdateDue, Alone, InMonitor, InMonitorLabels,
         NobodyForgotten
<1> QED
  BY <1>1, <1>2, InitInv, StepInv, StepUpdated, PTL DEF Spec

-----------------------------------------------------------------------------
(* Under the refinement mapping, the update that makes j EATING is Take(j) *)
(* of the contract.                                                        *)
LEMMA UpdateImplementsTake ==
  ASSUME Inv, NEW i \in Philosophers, NEW j \in Philosophers,
         NEW from \in {"t_update", "p_left", "p_right"},
         NEW to \in {"t_test", "p_right", "p_unlock"},
         from = "t_update" <=> to = "t_test",
         UpdateState(j, i, from, to)
  PROVE  Contract!Take(j) \/ UNCHANGED <<OnTable, Phase>>
<1> USE DEF THINKING, HUNGRY, EATING
<1>0. TypeOK /\ \A k \in Philosophers : StateOfPc(k)
  BY DEF Inv
<1>1. CASE MayEat(j)
  <2>1. state' = [state EXCEPT ![j] = EATING] /\ state[j] = HUNGRY
    BY <1>1 DEF UpdateState, MayEat
  <2>2. Phase' = [Phase EXCEPT ![j] = "holding"]
    BY <1>0, <2>1 DEF UpdateState, Phase, StateOfPc, TypeOK
  <2>3. Phase[j] = "waiting"
    BY <1>0, <2>1 DEF Phase, StateOfPc
  <2>4. Contract!Chopsticks(j) = {j, RIGHT(j)}
    BY DEF Contract!Chopsticks, RIGHT
  <2>5. {j, RIGHT(j)} \subseteq OnTable
    BY <1>1, Neighbours DEF OnTable, MayEat
  <2>6. OnTable' = OnTable \ {j, RIGHT(j)}
    BY <1>0, <2>1, Neighbours DEF OnTable, TypeOK
  <2> QED
    BY <2>2, <2>3, <2>4, <2>5, <2>6 DEF Contract!Take
<1>2. CASE ~MayEat(j)
  <2>1. state' = state
    BY <1>2 DEF UpdateState
  <2>2. Phase' = Phase
    BY <1>0, <1>2, <2>1 DEF UpdateState, Phase, TypeOK
  <2> QED
    BY <2>1, <2>2 DEF OnTable
<1> QED
  BY <1>1, <1>2

(* The monitor does nothing that the contract of chopsticks.h does not     *)
(* allow: chopsticks are taken two at a time, by a philosopher who waits   *)
(* for them, from among those on the table, and all come back.             *)
THEOREM MonitorKeepsContract == Spec => Contract!Spec
<1> USE DEF THINKING, HUNGRY, EATING
<1>1. Init => Contract!Init
  <2> SUFFICES ASSUME Init PROVE Contract!Init
    OBVIOUS
  <2>1. OnTable = Philosophers
    BY Neighbours DEF Init, OnTable
  <2>2. Phase = [i \in Philosophers |-> "away"]
    BY DEF Init, Phase
  <2> QED
    BY <2>1, <2>2 DEF Contract!Init, Contract!Philosophers, Philosophers
<1>2. Inv /\ [Next]_vars => [Contract!Next]_(Contract!vars)
  <2> SUFFICES ASSUME Inv, [Next]_vars
               PROVE  Contract!Next \/ UNCHANGED <<OnTable, Phase>>
    BY DEF Contract!vars
  <2>0. TypeOK /\ NeighboursDontEat /\ \A k \in Philosophers : StateOfPc(k)
    BY DEF Inv
  <2> USE DEF Contract!Philosophers
  <2>1. ASSUME NEW i \in Philosophers, TakeCall(i)
        PROVE  Contract!Next \/ UNCHANGED <<OnTable, Phase>>
    <3>0. pc[i] = "think" /\ state[i] = THINKING /\ state' = state
      BY <2>0, <2>1 DEF TakeCall, Step, StateOfPc
    <3>1. Phase[i] = "away" /\ Phase' = [Phase EXCEPT ![i] = "waiting"]
      <4>1. pc' = [pc EXCEPT ![i] = "t_lock"]
        BY <2>1 DEF TakeCall, Step
      <4>2. Phase[i] = "away" /\ Phase'[i] = "waiting"
        BY <2>0, <3>0, <4>1 DEF Phase, TypeOK
      <4>3. \A k \in Philosophers \ {i} : Phase'[k] = Phase[k]
        BY <2>0, <3>0, <4>1 DEF Phase, TypeOK
      <4> QED
        BY <4>2, <4>3 DEF Phase
    <3>2. OnTable' = OnTable
      BY <2>1 DEF TakeCall, OnTable
    <3> QED
      BY <3>1, <3>2 DEF Contract!Next, Contract!Ask, Philosophers
  <2>2. ASSUME NEW i \in Philosophers,
               \/ TakeLock(i) \/ TakeTest(i) \/ TakeRelock(i) \/ TakeUnlock(i)
               \/ PutCall(i) \/ PutLock(i) \/ PutUnlock(i) \/ SpuriousWakeup(i)
        PROVE  UNCHANGED <<OnTable, Phase>>
    <3>1. state' = state
      BY <2>2 DEF TakeLock, TakeTest, TakeRelock, TakeUnlock, PutCall, PutLock,
         PutUnlock, SpuriousWakeup, Lock, Unlock
    <3>2. \E from, to \in Labels :
            /\ Step(i, from, to)
            /\ \/ from = "p_unlock" /\ to = "think"
               \/ state[i] = EATING
               \/ {from, to} \cap {"think", "p_left", "p_right", "p_unlock"} = {}
      BY <2>0, <2>2 DEF TakeLock, TakeTest, TakeRelock, TakeUnlock, PutCall,
         PutLock, PutUnlock, SpuriousWakeup, Lock, Unlock, Labels,
         InMonitorLabels, Step, StateOfPc
    <3>3. Phase' = Phase
      BY <2>0, <3>1, <3>2 DEF Step, Phase, TypeOK
    <3> QED
      BY <3>1, <3>3 DEF OnTable
  <2>3. ASSUME NEW i \in Philosophers, TakeHungry(i)
        PROVE  UNCHANGED <<OnTable, Phase>>
    <3>1. state[i] = THINKING /\ state' = [state EXCEPT ![i] = HUNGRY]
      BY <2>0, <2>3 DEF TakeHungry, Step, StateOfPc
    <3>2. Phase' = Phase
      BY <2>0, <2>3, <3>1 DEF TakeHungry, Step, Phase, TypeOK
    <3>3. \A k \in Philosophers : state'[k] = EATING <=> state[k] = EATING
      BY <2>0, <3>1 DEF TypeOK
    <3>4. OnTable' = OnTable
      BY <3>3, Neighbours DEF OnTable
    <3> QED
      BY <3>2, <3>4
  <2>4. ASSUME NEW i \in Philosophers, PutThink(i)
        PROVE  Contract!Next
    <3>1. state[i] = EATING /\ state' = [state EXCEPT ![i] = THINKING]
      BY <2>0, <2>4 DEF PutThink, Step, StateOfPc
    <3>2. Phase[i] = "holding" /\ Phase' = [Phase EXCEPT ![i] = "away"]
      <4>1. pc' = [pc EXCEPT ![i] = "p_left"]
        BY <2>4 DEF PutThink, Step
      <4>2. Phase[i] = "holding" /\ Phase'[i] = "away"
        BY <2>0, <3>1, <4>1 DEF Phase, TypeOK
      <4>3. \A k \in Philosophers \ {i} : Phase'[k] = Phase[k]
        BY <2>0, <3>1, <4>1 DEF Phase, TypeOK
      <4> QED
        BY <4>2, <4>3 DEF Phase
    <3>3. state[RIGHT(i)] # EATING /\ state[LEFT(i)] # EATING
      BY <2>0, <3>1, Neighbours DEF NeighboursDontEat
    <3>4. OnTable' = OnTable \cup {i, RIGHT(i)}
      BY <2>0, <3>1, <3>3, Neighbours DEF OnTable, TypeOK
    <3>5. Contract!Chopsticks(i) = {i, RIGHT(i)}
      BY DEF Contract!Chopsticks, RIGHT
    <3> QED
      BY <3>2, <3>4, <3>5 DEF Contract!Next, Contract!Put, Philosophers
  <2>5. ASSUME NEW i \in Philosophers, TakeUpdate(i) \/ PutLeft(i) \/ PutRight(i)
        PROVE  Contract!Next \/ UNCHANGED <<OnTable, Phase>>
    <3>1. ASSUME NEW j \in Philosophers, Contract!Take(j) PROVE Contract!Next
      BY <3>1 DEF Contract!Next, Philosophers
    <3>2. CASE TakeUpdate(i)
      BY <3>1, <3>2, UpdateImplementsTake DEF TakeUpdate
    <3>3. CASE PutLeft(i)
      BY <3>1, <3>3, UpdateImplementsTake, Neighbours DEF PutLeft
    <3>4. CASE PutRight(i)
      BY <3>1, <3>4, UpdateImplementsTake, Neighbours DEF PutRight
    <3> QED
      BY <2>5, <3>2, <3>3, <3>4
  <2>6. CASE UNCHANGED vars
    BY <2>6 DEF vars, OnTable, Phase
  <2> QED
    BY <2>1, <2>2, <2>3, <2>4, <2>5, <2>6 DEF Next, Run
<1> QED
  BY <1>1, <1>2, InitInv, StepInv, PTL DEF Spec, Contract!Spec
=============================================================================
