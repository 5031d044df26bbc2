--------------------------- MODULE BufferProgram ---------------------------
(***************************************************************************)
(* The part that prod_con.c, correctQ1.c and incorrectQ1.c share: a        *)
(* bounded buffer used as a stack, the mutex around it, and the loops of   *)
(* the producer and consumer threads.  ProdConPosix adds the semaphores of *)
(* prod_con.c, ProdCon those of correctQ1.c and incorrectQ1.c; both decide *)
(* when a thread passes from "wait" to "lock" and from "post" to "loop".   *)
(*                                                                         *)
(* pc[t] names the statement that t executes next:                         *)
(*   loop     the test i++ < PRODUCER_LOOPS                                *)
(*   wait     the wait on full_sem (producer) or empty_sem (consumer)      *)
(*   lock     pthread_mutex_lock                                           *)
(*   insert   the test buffer_index < SIZE and the store into the slot     *)
(*   advance  the increment of buffer_index                                *)
(*   dequeue  the test buffer_index > 0 and the decrement of buffer_index  *)
(*   fetch    the read of the slot                                         *)
(*   unlock   pthread_mutex_unlock                                         *)
(*   post     the post on empty_sem (producer) or full_sem (consumer)      *)
(*   done     pthread_exit                                                 *)
(* A value is identified by the producer that drew it; the random number   *)
(* itself, the sleeps and the printing play no part.                       *)
(***************************************************************************)
EXTENDS Integers, FiniteSets

CONSTANTS
  Producers,      \* the even-numbered threads
  Consumers,      \* the odd-numbered threads
  SIZE,           \* the capacity of the buffer
  PRODUCER_LOOPS  \* the iterations of every thread

(* main creates producers and consumers in pairs, so there are as many of  *)
(* the one as of the other.  0 is what a static buffer slot starts as.     *)
ASSUME BufferAssumption ==
  /\ IsFiniteSet(Producers) /\ IsFiniteSet(Consumers)
  /\ Producers \cap Consumers = {}
  /\ Cardinality(Producers) = Cardinality(Consumers)
  /\ 0 \notin Producers
  /\ SIZE \in Nat \ {0}
  /\ PRODUCER_LOOPS \in Nat

VARIABLES
  buffer,        \* the slots, 0..SIZE-1
  buffer_index,  \* the number of slots in use
  buffer_mutex,  \* "locked" or "unlocked"
  pc,            \* pc[t]: see above
  i,             \* i[t]: the loop counter of t
  taken          \* history: taken[p] values of producer p were dequeued

bufferVars == <<buffer, buffer_index, buffer_mutex, pc, i, taken>>

Workers == Producers \cup Consumers

Labels == {"loop", "wait", "lock", "insert", "advance", "dequeue", "fetch",
           "unlock", "post", "done"}

BufferTypeOK ==
  /\ buffer \in [0..SIZE - 1 -> Producers \cup {0}]
  /\ buffer_index \in 0..SIZE
  /\ buffer_mutex \in {"locked", "unlocked"}
  /\ pc \in [Workers -> Labels]
  /\ i \in [Workers -> 0..PRODUCER_LOOPS + 1]
  /\ taken \in [Producers -> Nat]

BufferInit ==
  /\ buffer = [n \in 0..SIZE - 1 |-> 0]
  /\ buffer_index = 0
  /\ buffer_mutex = "unlocked"
  /\ pc = [t \in Workers |-> "loop"]
  /\ i = [t \in Workers |-> 0]
  /\ taken = [p \in Producers |-> 0]

-----------------------------------------------------------------------------
Step(t, from, to) ==
  /\ pc[t] = from
  /\ pc' = [pc EXCEPT ![t] = to]

LoopTest(t) ==
  /\ Step(t, "loop", IF i[t] < PRODUCER_LOOPS THEN "wait" ELSE "done")
  /\ i' = [i EXCEPT ![t] = @ + 1]
  /\ UNCHANGED <<buffer, buffer_index, buffer_mutex, taken>>

(* Mutant: the mutex is not waited for.                                    *)
LockNoWait(t) ==
  /\ Step(t, "lock", IF t \in Producers THEN "insert" ELSE "dequeue")
  /\ buffer_mutex' = "locked"
  /\ UNCHANGED <<buffer, buffer_index, i, taken>>

Lock(t) ==
  /\ Step(t, "lock", IF t \in Producers THEN "insert" ELSE "dequeue")
  /\ buffer_mutex = "unlocked"
  /\ buffer_mutex' = "locked"
  /\ UNCHANGED <<buffer, buffer_index, i, taken>>

(* insertbuffer: buffer[buffer_index++] = value, in two steps.  With no    *)
(* slot left, "Buffer overflow" is printed and the value is dropped.       *)
InsertStore(t) ==
  /\ IF buffer_index < SIZE
       THEN /\ buffer' = [buffer EXCEPT ![buffer_index] = t]
            /\ Step(t, "insert", "advance")
       ELSE /\ Step(t, "insert", "unlock")
            /\ UNCHANGED buffer
  /\ UNCHANGED <<buffer_index, buffer_mutex, i, taken>>

InsertAdvance(t) ==
  /\ Step(t, "advance", "unlock")
  /\ buffer_index' = buffer_index + 1
  /\ UNCHANGED <<buffer, buffer_mutex, i, taken>>

(* dequeuebuffer: return buffer[--buffer_index], in two steps.  With no    *)
(* value left, "Buffer underflow" is printed and 0 is returned.            *)
DequeueRetreat(t) ==
  /\ IF buffer_index > 0
       THEN /\ buffer_index' = buffer_index - 1
            /\ Step(t, "dequeue", "fetch")
       ELSE /\ Step(t, "dequeue", "unlock")
            /\ UNCHANGED buffer_index
  /\ UNCHANGED <<buffer, buffer_mutex, i, taken>>

DequeueFetch(t) ==
  /\ Step(t, "fetch", "unlock")
  /\ taken' = [taken EXCEPT ![buffer[buffer_index]] = @ + 1]
  /\ UNCHANGED <<buffer, buffer_index, buffer_mutex, i>>

Unlock(t) ==
  /\ Step(t, "unlock", "post")
  /\ buffer_mutex' = "unlocked"
  /\ UNCHANGED <<buffer, buffer_index, i, taken>>

BufferStep(t) ==
  \/ LoopTest(t) \/ Lock(t)
  \/ InsertStore(t) \/ InsertAdvance(t)
  \/ DequeueRetreat(t) \/ DequeueFetch(t)
  \/ Unlock(t)

Finished == \A t \in Workers : pc[t] = "done"

-----------------------------------------------------------------------------
(* Neither insertbuffer nor dequeuebuffer ever takes its error branch: the *)
(* "buffer overflow" and "buffer underflow" that the comments in producer  *)
(* and consumer fear cannot happen.                                        *)
NoOverflowOrUnderflow ==
  \A t \in Workers :
    /\ pc[t] = "insert" => buffer_index < SIZE
    /\ pc[t] = "dequeue" => buffer_index > 0

(* The values of producer p that were stored, from its loop counter.       *)
Stored(p) == i[p] - (IF pc[p] \in {"wait", "lock", "done"} THEN 1 ELSE 0)

(* Whenever the mutex is free, every value a producer stored is in the     *)
(* buffer or was dequeued exactly once: the two-step updates of slot and   *)
(* index neither lose nor duplicate nor overwrite a value.                 *)
Conservation ==
  buffer_mutex = "unlocked" =>
    \A p \in Producers :
      Stored(p) =
        taken[p] + Cardinality({n \in 0..buffer_index - 1 : buffer[n] = p})

(* Every thread finishes its iterations and exits, so that main's joins    *)
(* return.                                                                 *)
Termination == <>Finished
=============================================================================
