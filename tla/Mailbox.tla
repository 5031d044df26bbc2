------------------------------ MODULE Mailbox ------------------------------
(***************************************************************************)
(* kirk.c and spock.c: kirks put lines into a System V message queue that  *)
(* they create when there is none and remove at the end of their input;    *)
(* spocks connect to an existing queue and print what they receive until   *)
(* msgrcv fails.  Any number of either run at once, and any may be killed. *)
(*                                                                         *)
(* All of them use the same key, so that there is at most one queue at a   *)
(* time; a queue that was removed leaves its identifier, msqid, useless in *)
(* the hands of whoever got it.  Identifiers are numbered as created.      *)
(*                                                                         *)
(* pc[p] names the call that process p makes next:                         *)
(*   kirk   get (msgget), read (fgets), send (msgsnd), remove (msgctl)     *)
(*   spock  get (msgget), receive (msgrcv), print                          *)
(*   exited, killed                                                        *)
(***************************************************************************)
EXTENDS Integers, Sequences, FiniteSets, SequencesExt

CONSTANTS
  Kirks,     \* the runs of kirk
  Spocks,    \* the runs of spock
  Lines,     \* bound on the lines typed into a kirk
  CAPACITY,  \* the messages that a queue has room for
  Kills      \* bound on the processes that are killed

ASSUME MailboxAssumption ==
  /\ IsFiniteSet(Kirks) /\ IsFiniteSet(Spocks) /\ Kirks \cap Spocks = {}
  /\ Lines \in Nat /\ CAPACITY \in Nat \ {0} /\ Kills \in Nat

VARIABLES
  live,      \* the identifier of the existing queue, 0 if there is none
  created,   \* the queues created so far
  queue,     \* the messages in the existing queue, oldest first
  pc,        \* pc[p]: see above
  msqid,     \* msqid[p]: the identifier p got, 0 before
  typed,     \* typed[k]: the lines typed into k so far
  buf,       \* buf[s]: the message s received last, <<>> before
  kills,     \* the processes killed so far
  accepted,  \* history: accepted[q] are the messages put into queue q
  printed,   \* history: printed[s] are the messages s printed, in order
  refused    \* history: the messages that msgsnd refused

vars == <<live, created, queue, pc, msqid, typed, buf, kills,
          accepted, printed, refused>>

Processes == Kirks \cup Spocks

(* A message is identified by the kirk it was typed into and its number.   *)
Messages == Kirks \X (1..Lines)

KirkLabels == {"get", "read", "send", "remove", "exited", "killed"}

SpockLabels == {"get", "receive", "print", "exited", "killed"}

QueueIds == 1..Cardinality(Kirks)

TypeOK ==
  /\ live \in {0} \cup QueueIds
  /\ created \in {0} \cup QueueIds
  /\ queue \in Seq(Messages)
  /\ Len(queue) <= CAPACITY
  /\ pc \in [Processes -> KirkLabels \cup SpockLabels]
  /\ \A k \in Kirks : pc[k] \in KirkLabels
  /\ \A s \in Spocks : pc[s] \in SpockLabels
  /\ msqid \in [Processes -> {0} \cup QueueIds]
  /\ typed \in [Kirks -> 0..Lines]
  /\ buf \in [Spocks -> Messages \cup {<<>>}]
  /\ kills \in 0..Kills
  /\ accepted \in [QueueIds -> SUBSET Messages]
  /\ printed \in [Spocks -> Seq(Messages)]
  /\ refused \in SUBSET Messages

Init ==
  /\ live = 0
  /\ created = 0
  /\ queue = <<>>
  /\ pc = [p \in Processes |-> "get"]
  /\ msqid = [p \in Processes |-> 0]
  /\ typed = [k \in Kirks |-> 0]
  /\ buf = [s \in Spocks |-> <<>>]
  /\ kills = 0
  /\ accepted = [q \in QueueIds |-> {}]
  /\ printed = [s \in Spocks |-> <<>>]
  /\ refused = {}

Step(p, from, to) ==
  /\ pc[p] = from
  /\ pc' = [pc EXCEPT ![p] = to]

-----------------------------------------------------------------------------
(* kirk                                                                    *)

(* msgget(key, 0644 | IPC_CREAT)                                           *)
KirkGet(k) ==
  /\ Step(k, "get", "read")
  /\ IF live = 0
       THEN /\ created' = created + 1
            /\ live' = created + 1
       ELSE UNCHANGED <<created, live>>
  /\ msqid' = [msqid EXCEPT ![k] = live']
  /\ UNCHANGED <<queue, typed, buf, kills, accepted, printed, refused>>

(* while (fgets(...) != NULL): a line, or the end of the input.            *)
KirkRead(k) ==
  /\ \/ /\ typed[k] < Lines
        /\ typed' = [typed EXCEPT ![k] = @ + 1]
        /\ Step(k, "read", "send")
     \/ /\ Step(k, "read", "remove")
        /\ UNCHANGED typed
  /\ UNCHANGED <<live, created, queue, msqid, buf, kills>>
  /\ UNCHANGED <<accepted, printed, refused>>

(* Mutant: the message goes to the front.                                  *)
KirkSendFirst(k) ==
  /\ Step(k, "send", "read")
  /\ LET m == <<k, typed[k]>> IN
       IF msqid[k] = live
         THEN /\ Len(queue) < CAPACITY
              /\ queue' = <<m>> \o queue
              /\ accepted' = [accepted EXCEPT ![live] = @ \cup {m}]
              /\ UNCHANGED refused
         ELSE /\ refused' = refused \cup {m}
              /\ UNCHANGED <<queue, accepted>>
  /\ UNCHANGED <<live, created, msqid, typed, buf, kills, printed>>

(* msgsnd blocks while the queue is full and fails when it was removed;    *)
(* kirk reports the failure and reads on.                                  *)
KirkSend(k) ==
  /\ Step(k, "send", "read")
  /\ LET m == <<k, typed[k]>> IN
       IF msqid[k] = live
         THEN /\ Len(queue) < CAPACITY
              /\ queue' = Append(queue, m)
              /\ accepted' = [accepted EXCEPT ![live] = @ \cup {m}]
              /\ UNCHANGED refused
         ELSE /\ refused' = refused \cup {m}
              /\ UNCHANGED <<queue, accepted>>
  /\ UNCHANGED <<live, created, msqid, typed, buf, kills, printed>>

(* Mutant: the queue stays.                                                *)
KirkRemoveNot(k) ==
  /\ Step(k, "remove", "exited")
  /\ UNCHANGED <<live, queue, created, msqid, typed, buf, kills>>
  /\ UNCHANGED <<accepted, printed, refused>>

(* msgctl(msqid, IPC_RMID, NULL): the messages go with the queue.          *)
KirkRemove(k) ==
  /\ Step(k, "remove", "exited")
  /\ IF msqid[k] = live
       THEN live' = 0 /\ queue' = <<>>
       ELSE UNCHANGED <<live, queue>>
  /\ UNCHANGED <<created, msqid, typed, buf, kills, accepted, printed, refused>>

-----------------------------------------------------------------------------
(* spock                                                                   *)

(* msgget(key, 0644): without a queue, spock exits.                        *)
SpockGet(s) ==
  /\ Step(s, "get", IF live = 0 THEN "exited" ELSE "receive")
  /\ msqid' = [msqid EXCEPT ![s] = live]
  /\ UNCHANGED <<live, created, queue, typed, buf, kills>>
  /\ UNCHANGED <<accepted, printed, refused>>

(* Mutants: the message is read but stays in the queue, or is not printed. *)
SpockReceivePeek(s) ==
  /\ IF msqid[s] = live
       THEN /\ queue # <<>>
            /\ buf' = [buf EXCEPT ![s] = Head(queue)]
            /\ Step(s, "receive", "print")
            /\ UNCHANGED queue
       ELSE /\ Step(s, "receive", "exited")
            /\ UNCHANGED <<buf, queue>>
  /\ UNCHANGED <<live, created, msqid, typed, kills, accepted, printed, refused>>

SpockReceiveNoPrint(s) ==
  /\ IF msqid[s] = live
       THEN /\ queue # <<>>
            /\ buf' = [buf EXCEPT ![s] = Head(queue)]
            /\ queue' = Tail(queue)
            /\ Step(s, "receive", "receive")
       ELSE /\ Step(s, "receive", "exited")
            /\ UNCHANGED <<buf, queue>>
  /\ UNCHANGED <<live, created, msqid, typed, kills, accepted, printed, refused>>

(* msgrcv blocks while the queue is empty and fails when it was removed.   *)
SpockReceive(s) ==
  /\ IF msqid[s] = live
       THEN /\ queue # <<>>
            /\ buf' = [buf EXCEPT ![s] = Head(queue)]
            /\ queue' = Tail(queue)
            /\ Step(s, "receive", "print")
       ELSE /\ Step(s, "receive", "exited")
            /\ UNCHANGED <<buf, queue>>
  /\ UNCHANGED <<live, created, msqid, typed, kills, accepted, printed, refused>>

SpockPrint(s) ==
  /\ Step(s, "print", "receive")
  /\ printed' = [printed EXCEPT ![s] = Append(@, buf[s])]
  /\ UNCHANGED <<live, created, queue, msqid, typed, buf, kills>>
  /\ UNCHANGED <<accepted, refused>>

-----------------------------------------------------------------------------
(* A signal ends a process wherever it is; the queue outlives it.          *)
Kill(p) ==
  /\ kills < Kills
  /\ kills' = kills + 1
  /\ pc[p] \notin {"exited", "killed"}
  /\ pc' = [pc EXCEPT ![p] = "killed"]
  /\ UNCHANGED <<live, created, queue, msqid, typed, buf>>
  /\ UNCHANGED <<accepted, printed, refused>>

Kirk(k) == KirkGet(k) \/ KirkRead(k) \/ KirkSend(k) \/ KirkRemove(k)

Spock(s) == SpockGet(s) \/ SpockReceive(s) \/ SpockPrint(s)

Next ==
  \/ \E k \in Kirks : Kirk(k)
  \/ \E s \in Spocks : Spock(s)
  \/ \E p \in Processes : Kill(p)

Spec == Init /\ [][Next]_vars

(* A process that is not blocked in a call is scheduled sooner or later.   *)
(* Nobody has to type into a kirk or end its input.                        *)
FairSpec ==
  /\ Spec
  /\ \A k \in Kirks : WF_vars(KirkSend(k) \/ KirkRemove(k))
  /\ \A s \in Spocks : WF_vars(Spock(s))

-----------------------------------------------------------------------------
(* The messages that s took out of a queue, in order.                      *)
TakenBy(s) ==
  IF pc[s] = "print" THEN Append(printed[s], buf[s]) ELSE printed[s]

(* "These two processes cannot pull the same item", and one spock does not *)
(* pull an item twice, across the removal of queues and killed processes.  *)
NoItemTwice ==
  \A s, u \in Spocks : \A m \in 1..Len(TakenBy(s)), n \in 1..Len(TakenBy(u)) :
    TakenBy(s)[m] = TakenBy(u)[n] => s = u /\ m = n

(* A spock prints what was typed into one kirk in the order it was typed,  *)
(* whichever of the lines it gets.                                         *)
TypingOrder ==
  \A s \in Spocks : \A m, n \in 1..Len(printed[s]) :
    /\ m < n
    /\ printed[s][m][1] = printed[s][n][1]
    => printed[s][m][2] < printed[s][n][2]

(* While a queue exists, no message in it is lost: a message that was put  *)
(* into it is still there, or was taken by a spock.  A message taken by a  *)
(* spock that is killed before it prints is lost with it.                  *)
KeptWhileLive ==
  live # 0 =>
    \A m \in accepted[live] :
      \/ m \in ToSet(queue)
      \/ \E s \in Spocks : m \in ToSet(TakenBy(s)) \/ (pc[s] = "killed" /\ m = buf[s])

(* "why does pressing CTRL + D cause this code to stop?": once a kirk has  *)
(* read the end of its input, every spock on its queue stops, even one     *)
(* that is blocked in msgrcv.                                              *)
EndOfInputStopsSpocks ==
  \A k \in Kirks, s \in Spocks :
    (pc[k] = "remove" /\ pc[s] \in {"receive", "print"} /\ msqid[s] = msqid[k])
      ~> (pc[k] = "killed" \/ pc[s] \in {"exited", "killed"})

(* "When running two copies of kirk the programs work as expected": no     *)
(* line typed into a running kirk is refused.                              *)
TwoKirksWork == refused = {}
=============================================================================
