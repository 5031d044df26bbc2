---------------------------- MODULE ProdConPosix ----------------------------
(***************************************************************************)
(* prod_con.c: the bounded buffer guarded by two POSIX semaphores.         *)
(* full_sem counts the free slots and empty_sem the values to be read;     *)
(* sem_wait and sem_post are indivisible.  It is also the specification    *)
(* that ProdCon, the same program on the repository's own counting         *)
(* semaphores, is shown to implement.                                      *)
(***************************************************************************)
EXTENDS BufferProgram

VARIABLES
  full_sem,  \* "when 0, buffer is full"
  empty_sem  \* "when 0, buffer is empty"

vars == <<bufferVars, full_sem, empty_sem>>

TypeOK ==
  /\ BufferTypeOK
  /\ full_sem \in Nat
  /\ empty_sem \in Nat

(* Mutant: one permit too many.                                            *)
InitOneMore ==
  /\ BufferInit
  /\ full_sem = SIZE + 1
  /\ empty_sem = 0

Init ==
  /\ BufferInit
  /\ full_sem = SIZE
  /\ empty_sem = 0

(* sem_wait(&full_sem), sem_post(&empty_sem)                               *)
ProducerWait(t) ==
  /\ t \in Producers
  /\ Step(t, "wait", "lock")
  /\ full_sem > 0
  /\ full_sem' = full_sem - 1
  /\ UNCHANGED <<buffer, buffer_index, buffer_mutex, i, taken, empty_sem>>

ProducerPost(t) ==
  /\ t \in Producers
  /\ Step(t, "post", "loop")
  /\ empty_sem' = empty_sem + 1
  /\ UNCHANGED <<buffer, buffer_index, buffer_mutex, i, taken, full_sem>>

(* Mutants: the consumer posts the semaphore it waits on, or nothing.      *)
ConsumerPostEmpty(t) ==
  /\ t \in Consumers
  /\ Step(t, "post", "loop")
  /\ empty_sem' = empty_sem + 1
  /\ UNCHANGED <<buffer, buffer_index, buffer_mutex, i, taken, full_sem>>

ConsumerPostNothing(t) ==
  /\ t \in Consumers
  /\ Step(t, "post", "loop")
  /\ UNCHANGED <<buffer, buffer_index, buffer_mutex, i, taken>>
  /\ UNCHANGED <<full_sem, empty_sem>>

(* sem_wait(&empty_sem), sem_post(&full_sem)                               *)
ConsumerWait(t) ==
  /\ t \in Consumers
  /\ Step(t, "wait", "lock")
  /\ empty_sem > 0
  /\ empty_sem' = empty_sem - 1
  /\ UNCHANGED <<buffer, buffer_index, buffer_mutex, i, taken, full_sem>>

ConsumerPost(t) ==
  /\ t \in Consumers
  /\ Step(t, "post", "loop")
  /\ full_sem' = full_sem + 1
  /\ UNCHANGED <<buffer, buffer_index, buffer_mutex, i, taken, empty_sem>>

ThreadStep(t) ==
  \/ BufferStep(t) /\ UNCHANGED <<full_sem, empty_sem>>
  \/ ProducerWait(t) \/ ProducerPost(t)
  \/ ConsumerWait(t) \/ ConsumerPost(t)

(* main joins every thread and returns: nothing more happens.              *)
MainReturns == Finished /\ UNCHANGED vars

Next == (\E t \in Workers : ThreadStep(t)) \/ MainReturns

Spec == Init /\ [][Next]_vars

(* A thread that is not blocked is scheduled sooner or later.              *)
FairSpec == Spec /\ \A t \in Workers : WF_vars(ThreadStep(t))

-----------------------------------------------------------------------------
At(S, L) == {t \in S : pc[t] \in L}

Claiming   == At(Producers, {"lock", "insert", "advance"})
Announcing == At(Producers, {"unlock", "post"})
Reading    == At(Consumers, {"lock", "dequeue"})
Vacating   == At(Consumers, {"fetch", "unlock", "post"})

(* A slot is free and counted by full_sem, claimed by a producer that      *)
(* waited and has not advanced the index, in use, or being vacated by a    *)
(* consumer that has retreated the index and not posted yet.  A value in   *)
(* the buffer is counted by empty_sem, promised to a consumer that waited  *)
(* and has not retreated the index, or about to be announced by a post.    *)
SlotAccounting ==
  /\ full_sem + Cardinality(Claiming) + buffer_index
       + Cardinality(Vacating) = SIZE
  /\ empty_sem + Cardinality(Reading) + Cardinality(Announcing)
       = buffer_index
=============================================================================
