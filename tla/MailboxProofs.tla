--------------------------- MODULE MailboxProofs ---------------------------
(***************************************************************************)
(* Theorems about kirk.c and spock.c for any number of either, any number  *)
(* of lines and kills, and queues of any size.                             *)
(*                                                                         *)
(* The lines of a kirk are in order: first those that a spock took, in the *)
(* order it took them, then those in the queue, then the one that the kirk *)
(* is about to send.                                                       *)
(***************************************************************************)
EXTENDS Mailbox, FiniteSetTheorems, TLAPS

(* m and n are of different kirks, or m was typed first.                   *)
Before(m, n) == m[1] = n[1] => m[2] < n[2]

(* The queue q and what each spock took, T, when the lines in old are      *)
(* those that some kirk is done with.                                      *)
Ordered(q, T, old) ==
  /\ \A a \in 1..Len(q) : q[a] \in old
  /\ \A a, b \in 1..Len(q) : a < b => Before(q[a], q[b])
  /\ \A s \in Spocks : \A a \in 1..Len(T[s]) :
       /\ T[s][a] \in old
       /\ \A b \in 1..Len(q) : Before(T[s][a], q[b])
       /\ \A b \in 1..Len(T[s]) : a < b => Before(T[s][a], T[s][b])
       /\ \A u \in Spocks : u # s => \A b \in 1..Len(T[u]) : T[s][a] # T[u][b]

(* The queue may be removed, and what a spock had taken last be forgotten. *)
LEMMA OrderedLess ==
  ASSUME NEW q, NEW T, NEW old, Ordered(q, T, old),
         NEW q2, q2 = q \/ q2 = <<>>,
         NEW old2, old \subseteq old2,
         NEW T2, \A s \in Spocks :
           /\ Len(T2[s]) \in Nat /\ Len(T[s]) \in Nat /\ Len(T2[s]) <= Len(T[s])
           /\ \A a \in 1..Len(T2[s]) : T2[s][a] = T[s][a]
  PROVE  Ordered(q2, T2, old2)
<1>1. /\ \A a \in 1..Len(q2) : q2[a] \in old2
      /\ \A a, b \in 1..Len(q2) : a < b => Before(q2[a], q2[b])
  BY DEF Ordered
<1>2. ASSUME NEW s \in Spocks, NEW a \in 1..Len(T2[s])
      PROVE  /\ T2[s][a] \in old2
             /\ \A b \in 1..Len(q2) : Before(T2[s][a], q2[b])
             /\ \A b \in 1..Len(T2[s]) : a < b => Before(T2[s][a], T2[s][b])
             /\ \A u \in Spocks : u # s => \A b \in 1..Len(T2[u]) : T2[s][a] # T2[u][b]
  <2>1. a \in 1..Len(T[s]) /\ T2[s][a] = T[s][a]
    BY <1>2
  <2>2. T2[s][a] \in old2 /\ \A b \in 1..Len(q2) : Before(T2[s][a], q2[b])
    BY <2>1 DEF Ordered
  <2>3. ASSUME NEW b \in 1..Len(T2[s]), a < b PROVE Before(T2[s][a], T2[s][b])
    BY <2>1, <2>3 DEF Ordered
  <2>4. ASSUME NEW u \in Spocks, u # s, NEW b \in 1..Len(T2[u]) PROVE T2[s][a] # T2[u][b]
    BY <2>1, <2>4 DEF Ordered
  <2> QED
    BY <2>2, <2>3, <2>4
<1> QED
  BY <1>1, <1>2 DEF Ordered

(* A new line goes to the end of the queue.                                *)
LEMMA OrderedSend ==
  ASSUME NEW q \in Seq(Messages), NEW T, NEW old, Ordered(q, T, old),
         NEW m \in Messages, \A n \in old : Before(n, m),
         NEW old2, old \cup {m} \subseteq old2
  PROVE  Ordered(Append(q, m), T, old2)
<1> DEFINE q2 == Append(q, m)
<1>1. /\ Len(q2) = Len(q) + 1 /\ Len(q) \in Nat
      /\ q2[Len(q) + 1] = m
      /\ \A a \in 1..Len(q) : q2[a] = q[a]
  OBVIOUS
<1> HIDE DEF q2
<1>2. \A a \in 1..Len(q2) : a \in 1..Len(q) \/ a = Len(q) + 1
  BY <1>1
<1>3. \A a \in 1..Len(q2) : q2[a] \in old2
  BY <1>1, <1>2 DEF Ordered
<1>4. ASSUME NEW a \in 1..Len(q2), NEW b \in 1..Len(q2), a < b PROVE Before(q2[a], q2[b])
  <2>1. a \in 1..Len(q)
    BY <1>1, <1>4
  <2> QED
    BY <1>1, <1>2, <1>4, <2>1 DEF Ordered
<1>5. ASSUME NEW s \in Spocks, NEW a \in 1..Len(T[s])
      PROVE  T[s][a] \in old2 /\ \A b \in 1..Len(q2) : Before(T[s][a], q2[b])
  BY <1>1, <1>2 DEF Ordered
<1>6. Ordered(q2, T, old2)
  BY <1>3, <1>4, <1>5 DEF Ordered
<1> QED
  BY <1>6 DEF q2

(* A spock takes the first line of the queue.                              *)
LEMMA OrderedReceive ==
  ASSUME NEW q \in Seq(Messages), q # <<>>, NEW T \in [Spocks -> Seq(Messages)],
         NEW old \in SUBSET Messages, Ordered(q, T, old), NEW s \in Spocks
  PROVE  Ordered(Tail(q), [T EXCEPT ![s] = Append(T[s], Head(q))], old)
<1> DEFINE q2 == Tail(q)
           t2 == Append(T[s], Head(q))
           T2 == [T EXCEPT ![s] = t2]
<1>1. /\ Len(q) \in Nat \ {0} /\ Len(q2) = Len(q) - 1 /\ q[1] \in Messages
      /\ \A a \in 1..Len(q2) : q2[a] = q[a + 1]
      /\ Head(q) = q[1]
  OBVIOUS
<1>2. /\ Len(T[s]) \in Nat /\ Len(t2) = Len(T[s]) + 1
      /\ t2[Len(T[s]) + 1] = q[1]
      /\ \A a \in 1..Len(T[s]) : t2[a] = T[s][a]
  BY <1>1
<1>3. T2[s] = t2 /\ \A u \in Spocks : u # s => T2[u] = T[u]
  OBVIOUS
<1> HIDE DEF q2, t2, T2
<1>4. \A a \in 1..Len(t2) : a \in 1..Len(T[s]) \/ a = Len(T[s]) + 1
  BY <1>2
<1>5. \A a \in 1..Len(q2) : a + 1 \in 1..Len(q) /\ 1 \in 1..Len(q) /\ 1 < a + 1
  BY <1>1
<1>6. 1 \in 1..Len(q)
  BY <1>1
<1>7. /\ \A a \in 1..Len(q2) : q2[a] \in old
      /\ \A a, b \in 1..Len(q2) : a < b => Before(q2[a], q2[b])
  <2>1. \A a \in 1..Len(q2) : q2[a] \in old
    BY <1>1, <1>5 DEF Ordered
  <2>2. ASSUME NEW a \in 1..Len(q2), NEW b \in 1..Len(q2), a < b
        PROVE  Before(q2[a], q2[b])
    <3>1. a + 1 < b + 1 /\ a + 1 \in 1..Len(q) /\ b + 1 \in 1..Len(q)
      BY <1>1, <1>5, <2>2
    <3>2. Before(q[a + 1], q[b + 1])
      BY <3>1 DEF Ordered
    <3> QED
      BY <1>1, <3>2
  <2> QED
    BY <2>1, <2>2
<1>8. ASSUME NEW a \in 1..Len(t2)
      PROVE  /\ t2[a] \in old
             /\ \A b \in 1..Len(q2) : Before(t2[a], q2[b])
             /\ \A b \in 1..Len(t2) : a < b => Before(t2[a], t2[b])
             /\ \A u \in Spocks : u # s => \A b \in 1..Len(T[u]) : t2[a] # T[u][b]
  <2>1. CASE a \in 1..Len(T[s])
    <3>1. t2[a] = T[s][a] /\ t2[a] \in old
      BY <1>2, <2>1 DEF Ordered
    <3>2. \A b \in 1..Len(q2) : Before(t2[a], q2[b])
      BY <1>1, <1>5, <2>1, <3>1 DEF Ordered
    <3>3. ASSUME NEW b \in 1..Len(t2), a < b PROVE Before(t2[a], t2[b])
      BY <1>2, <1>4, <1>6, <2>1, <3>1, <3>3 DEF Ordered
    <3>4. \A u \in Spocks : u # s => \A b \in 1..Len(T[u]) : t2[a] # T[u][b]
      BY <2>1, <3>1 DEF Ordered
    <3> QED
      BY <3>1, <3>2, <3>3, <3>4
  <2>2. CASE a = Len(T[s]) + 1
    <3>1. t2[a] = q[1] /\ t2[a] \in old
      BY <1>2, <1>6, <2>2 DEF Ordered
    <3>2. \A b \in 1..Len(q2) : Before(t2[a], q2[b])
      BY <1>1, <1>5, <3>1 DEF Ordered
    <3>3. ASSUME NEW b \in 1..Len(t2), a < b PROVE FALSE
      BY <1>2, <1>4, <2>2, <3>3
    <3>4. ASSUME NEW u \in Spocks, u # s, NEW b \in 1..Len(T[u]) PROVE t2[a] # T[u][b]
      <4>1. Before(T[u][b], q[1])
        BY <1>6 DEF Ordered
      <4>2. ~Before(q[1], q[1])
        BY <1>1 DEF Before, Messages
      <4> QED
        BY <3>1, <4>1, <4>2
    <3> QED
      BY <3>1, <3>2, <3>3, <3>4
  <2> QED
    BY <1>4, <2>1, <2>2
<1>9. ASSUME NEW u \in Spocks, u # s, NEW a \in 1..Len(T[u])
      PROVE  /\ T[u][a] \in old
             /\ \A b \in 1..Len(q2) : Before(T[u][a], q2[b])
             /\ \A b \in 1..Len(T[u]) : a < b => Before(T[u][a], T[u][b])
             /\ \A v \in Spocks : v # u => \A b \in 1..Len(T2[v]) : T[u][a] # T2[v][b]
  <2>1. ASSUME NEW v \in Spocks, v # u, NEW b \in 1..Len(T2[v]) PROVE T[u][a] # T2[v][b]
    <3>1. CASE v = s
      BY <1>3, <1>8, <1>9, <2>1, <3>1
    <3>2. CASE v # s
      BY <1>3, <1>9, <2>1, <3>2 DEF Ordered
    <3> QED
      BY <3>1, <3>2
  <2>2. \A b \in 1..Len(q2) : Before(T[u][a], q2[b])
    BY <1>1, <1>5 DEF Ordered
  <2> QED
    BY <2>1, <2>2 DEF Ordered
<1>10. ASSUME NEW u \in Spocks, NEW a \in 1..Len(T2[u])
       PROVE  /\ T2[u][a] \in old
              /\ \A b \in 1..Len(q2) : Before(T2[u][a], q2[b])
              /\ \A b \in 1..Len(T2[u]) : a < b => Before(T2[u][a], T2[u][b])
              /\ \A v \in Spocks : v # u => \A b \in 1..Len(T2[v]) : T2[u][a] # T2[v][b]
  <2>1. CASE u = s
    BY <1>3, <1>8, <1>10, <2>1
  <2>2. CASE u # s
    BY <1>3, <1>9, <1>10, <2>2
  <2> QED
    BY <2>1, <2>2
<1>11. Ordered(q2, T2, old)
  BY <1>7, <1>10 DEF Ordered
<1> QED
  BY <1>11 DEF q2, T2, t2

-----------------------------------------------------------------------------
(* The labels, and the data that they promise.                             *)
Labelled ==
  /\ queue \in Seq(Messages)
  /\ typed \in [Kirks -> 0..Lines]
  /\ pc \in [Processes -> KirkLabels \cup SpockLabels]
  /\ \A k \in Kirks : pc[k] = "send" => typed[k] # 0
  /\ printed \in [Spocks -> Seq(Messages)]
  /\ buf \in [Spocks -> Messages \cup {<<>>}]
  /\ \A s \in Spocks : pc[s] = "print" => buf[s] \in Messages

(* The lines that their kirk is done with.                                 *)
Sent == {m \in Messages : /\ m[2] <= typed[m[1]]
                          /\ pc[m[1]] = "send" => m[2] < typed[m[1]]}

Taken == [s \in Spocks |-> TakenBy(s)]

OrderInv == Labelled /\ Ordered(queue, Taken, Sent)

LEMMA InitOrder == Init => OrderInv
<1> SUFFICES ASSUME Init PROVE OrderInv
  OBVIOUS
<1>1. Labelled
  BY MailboxAssumption DEF Init, Labelled, Processes, KirkLabels, SpockLabels
<1>2. \A s \in Spocks : Taken[s] = <<>>
  BY DEF Init, Taken, TakenBy, Processes
<1>3. Ordered(queue, Taken, Sent)
  BY <1>2 DEF Init, Ordered
<1> QED
  BY <1>1, <1>3 DEF OrderInv

LEMMA StepLabels == Labelled /\ [Next]_vars => Labelled'
<1> SUFFICES ASSUME Labelled, [Next]_vars PROVE Labelled'
  OBVIOUS
<1> USE DEF Labelled, Processes, Step
<1>1. ASSUME NEW k \in Kirks, KirkGet(k) PROVE Labelled'
  BY <1>1, MailboxAssumption DEF KirkGet, KirkLabels
<1>2. ASSUME NEW k \in Kirks, KirkRead(k) PROVE Labelled'
  <2>1. /\ pc' \in [Processes -> KirkLabels \cup SpockLabels]
        /\ \A p \in Processes : p # k => pc'[p] = pc[p]
        /\ pc'[k] # "print"
        /\ UNCHANGED <<queue, printed, buf>>
    BY <1>2 DEF KirkRead, KirkLabels
  <2>2. /\ typed' \in [Kirks -> 0..Lines]
        /\ pc'[k] = "send" => typed'[k] # 0
        /\ \A j \in Kirks : j # k => typed'[j] = typed[j]
    <3>1. CASE /\ typed[k] < Lines
               /\ typed' = [typed EXCEPT ![k] = @ + 1]
      BY <3>1, MailboxAssumption
    <3>2. CASE Step(k, "read", "remove") /\ UNCHANGED typed
      BY <3>2, MailboxAssumption
    <3> QED
      BY <1>2, <3>1, <3>2 DEF KirkRead
  <2> QED
    BY <2>1, <2>2, MailboxAssumption
<1>3. ASSUME NEW k \in Kirks, KirkSend(k) PROVE Labelled'
  <2>1. <<k, typed[k]>> \in Messages
    BY <1>3, MailboxAssumption DEF KirkSend, Messages
  <2>2. queue' \in Seq(Messages)
    <3>1. Append(queue, <<k, typed[k]>>) \in Seq(Messages)
      BY <2>1
    <3> QED
      BY <1>3, <3>1 DEF KirkSend
  <2> QED
    BY <1>3, <2>2, MailboxAssumption DEF KirkSend, KirkLabels
<1>4. ASSUME NEW k \in Kirks, KirkRemove(k) PROVE Labelled'
  <2>1. queue' = queue \/ queue' = <<>>
    BY <1>4 DEF KirkRemove
  <2>2. queue' \in Seq(Messages)
    <3>1. queue \in Seq(Messages) /\ <<>> \in Seq(Messages)
      OBVIOUS
    <3> QED
      BY ONLY <2>1, <3>1
  <2> QED
    BY <1>4, <2>2, MailboxAssumption DEF KirkRemove, KirkLabels
<1>5. ASSUME NEW s \in Spocks, SpockGet(s) PROVE Labelled'
  BY <1>5, MailboxAssumption DEF SpockGet, SpockLabels
<1>6. ASSUME NEW s \in Spocks, SpockReceive(s) PROVE Labelled'
  <2>1. CASE msqid[s] = live
    <3>1. Head(queue) \in Messages /\ Tail(queue) \in Seq(Messages)
      BY <1>6, <2>1 DEF SpockReceive
    <3> QED
      BY <1>6, <2>1, <3>1, MailboxAssumption DEF SpockReceive, SpockLabels
  <2>2. CASE msqid[s] # live
    BY <1>6, <2>2, MailboxAssumption DEF SpockReceive, SpockLabels
  <2> QED
    BY <2>1, <2>2
<1>7. ASSUME NEW s \in Spocks, SpockPrint(s) PROVE Labelled'
  <2>1. Append(printed[s], buf[s]) \in Seq(Messages)
    BY <1>7 DEF SpockPrint
  <2> QED
    BY <1>7, <2>1, MailboxAssumption DEF SpockPrint, SpockLabels
<1>8. ASSUME NEW p \in Processes, Kill(p) PROVE Labelled'
  BY <1>8, MailboxAssumption DEF Kill, SpockLabels
<1>9. ASSUME UNCHANGED vars PROVE Labelled'
  BY <1>9 DEF vars
<1> QED
  BY <1>1, <1>2, <1>3, <1>4, <1>5, <1>6, <1>7, <1>8, <1>9 DEF Next, Kirk, Spock

(* A step that sends nothing and takes nothing.                            *)
LEMMA OrderKept ==
  ASSUME OrderInv, Labelled', queue' = queue \/ queue' = <<>>,
         Sent \subseteq Sent',
         \A s \in Spocks : TakenBy(s)' = TakenBy(s) \/ TakenBy(s)' = printed[s]
  PROVE  OrderInv'
<1>1. ASSUME NEW s \in Spocks
      PROVE  /\ Len(Taken'[s]) \in Nat /\ Len(Taken[s]) \in Nat
             /\ Len(Taken'[s]) <= Len(Taken[s])
             /\ \A a \in 1..Len(Taken'[s]) : Taken'[s][a] = Taken[s][a]
  <2>1. Taken[s] = TakenBy(s) /\ Taken'[s] = TakenBy(s)'
    BY DEF Taken
  <2>2. /\ printed[s] \in Seq(Messages)
        /\ pc[s] = "print" => buf[s] \in Messages
    BY DEF OrderInv, Labelled
  <2>3. CASE pc[s] = "print"
    <3>1. TakenBy(s) = Append(printed[s], buf[s])
      BY <2>3 DEF TakenBy
    <3> QED
      BY <2>1, <2>2, <2>3, <3>1
  <2>4. CASE pc[s] # "print"
    <3>1. TakenBy(s) = printed[s]
      BY <2>4 DEF TakenBy
    <3> QED
      BY <2>1, <2>2, <3>1
  <2> QED
    BY <2>3, <2>4
<1>2. Ordered(queue, Taken, Sent)
  BY DEF OrderInv
<1>3. Ordered(queue', Taken', Sent')
  BY <1>1, <1>2, OrderedLess
<1> QED
  BY <1>3 DEF OrderInv

LEMMA StepOrder == OrderInv /\ [Next]_vars => OrderInv'
<1> SUFFICES ASSUME OrderInv, [Next]_vars PROVE OrderInv'
  OBVIOUS
<1>1. Labelled /\ Labelled'
  BY StepLabels DEF OrderInv
<1>2. ASSUME NEW k \in Kirks, NEW s \in Spocks PROVE k # s
  BY MailboxAssumption
<1>3. \A m \in Messages : m[1] \in Kirks /\ m[2] \in 1..Lines
  BY DEF Messages
<1>4. ASSUME NEW k \in Kirks, KirkGet(k) PROVE OrderInv'
  <2>1. Sent \subseteq Sent'
    BY <1>1, <1>3, <1>4 DEF KirkGet, Step, Sent, Labelled, Processes
  <2>2. \A s \in Spocks : TakenBy(s)' = TakenBy(s)
    BY <1>1, <1>2, <1>4 DEF KirkGet, Step, TakenBy, Labelled, Processes
  <2> QED
    BY <1>1, <1>4, <2>1, <2>2, OrderKept DEF KirkGet
<1>5. ASSUME NEW k \in Kirks, KirkRead(k) PROVE OrderInv'
  <2>1. Sent \subseteq Sent'
    <3> SUFFICES ASSUME NEW m \in Messages, m \in Sent PROVE m \in Sent'
      BY DEF Sent
    <3>1. CASE m[1] = k
      BY <1>1, <1>3, <1>5, <3>1 DEF KirkRead, Step, Sent, Labelled, Processes
    <3>2. CASE m[1] # k
      BY <1>1, <1>3, <1>5, <3>2 DEF KirkRead, Step, Sent, Labelled, Processes
    <3> QED
      BY <3>1, <3>2
  <2>2. \A s \in Spocks : TakenBy(s)' = TakenBy(s)
    BY <1>1, <1>2, <1>5 DEF KirkRead, Step, TakenBy, Labelled, Processes
  <2> QED
    BY <1>1, <1>5, <2>1, <2>2, OrderKept DEF KirkRead
<1>6. ASSUME NEW k \in Kirks, KirkSend(k) PROVE OrderInv'
  <2> DEFINE m == <<k, typed[k]>>
  <2>1. m \in Messages /\ m[1] = k /\ m[2] = typed[k] /\ typed[k] \in Nat
    BY <1>1, <1>6, MailboxAssumption DEF KirkSend, Step, Messages, Labelled
  <2>2. Sent \cup {m} \subseteq Sent'
    <3>1. /\ m \in Sent'
          /\ UNCHANGED typed /\ pc'[k] = "read"
          /\ \A p \in Processes : p # k => pc'[p] = pc[p]
      BY <1>1, <1>6, <2>1 DEF KirkSend, Step, Sent, Labelled, Processes
    <3>2. ASSUME NEW n \in Sent PROVE n \in Sent'
      BY <1>3, <3>1 DEF Sent, Processes
    <3> QED
      BY <3>1, <3>2
  <2>3. \A n \in Sent : Before(n, m)
    BY <1>6, <2>1 DEF KirkSend, Step, Sent, Before
  <2>4. \A s \in Spocks : TakenBy(s)' = TakenBy(s)
    BY <1>1, <1>2, <1>6 DEF KirkSend, Step, TakenBy, Labelled, Processes
  <2> HIDE DEF m
  <2>5. CASE msqid[k] = live
    <3>1. queue' = Append(queue, m)
      BY <1>6, <2>5 DEF KirkSend, m
    <3>2. Taken' = Taken
      BY <2>4 DEF Taken
    <3>3. Ordered(queue, Taken, Sent) /\ queue \in Seq(Messages)
      BY <1>1 DEF OrderInv, Labelled
    <3>4. Ordered(Append(queue, m), Taken, Sent')
      BY <2>1, <2>2, <2>3, <3>3, OrderedSend
    <3> QED
      BY <1>1, <3>1, <3>2, <3>4 DEF OrderInv
  <2>6. CASE msqid[k] # live
    <3>1. queue' = queue
      BY <1>6, <2>6 DEF KirkSend
    <3> QED
      BY <1>1, <2>2, <2>4, <3>1, OrderKept
  <2> QED
    BY <2>5, <2>6
<1>7. ASSUME NEW k \in Kirks, KirkRemove(k) PROVE OrderInv'
  <2>1. Sent \subseteq Sent'
    BY <1>1, <1>3, <1>7 DEF KirkRemove, Step, Sent, Labelled, Processes
  <2>2. \A s \in Spocks : TakenBy(s)' = TakenBy(s)
    BY <1>1, <1>2, <1>7 DEF KirkRemove, Step, TakenBy, Labelled, Processes
  <2>3. queue' = queue \/ queue' = <<>>
    BY <1>7 DEF KirkRemove
  <2> QED
    BY <1>1, <2>1, <2>2, <2>3, OrderKept
<1>8. ASSUME NEW s \in Spocks, SpockGet(s) PROVE OrderInv'
  <2>1. Sent \subseteq Sent'
    BY <1>1, <1>2, <1>3, <1>8 DEF SpockGet, Step, Sent, Labelled, Processes
  <2>2. \A u \in Spocks : TakenBy(u)' = TakenBy(u)
    BY <1>1, <1>8 DEF SpockGet, Step, TakenBy, Labelled, Processes
  <2> QED
    BY <1>1, <1>8, <2>1, <2>2, OrderKept DEF SpockGet
<1>9. ASSUME NEW s \in Spocks, SpockReceive(s) PROVE OrderInv'
  <2>1. Sent' = Sent
    BY <1>1, <1>2, <1>3, <1>9 DEF SpockReceive, Step, Sent, Labelled, Processes
  <2>2. \A u \in Spocks : u # s => TakenBy(u)' = TakenBy(u)
    BY <1>1, <1>9 DEF SpockReceive, Step, TakenBy, Labelled, Processes
  <2>3. pc[s] = "receive" /\ TakenBy(s) = printed[s] /\ UNCHANGED printed
    BY <1>9 DEF SpockReceive, Step, TakenBy
  <2>4. CASE msqid[s] = live
    <3>1. /\ queue # <<>> /\ queue' = Tail(queue)
          /\ pc'[s] = "print" /\ buf'[s] = Head(queue)
      BY <1>1, <1>9, <2>4 DEF SpockReceive, Step, Labelled, Processes
    <3>2. TakenBy(s)' = Append(TakenBy(s), Head(queue))
      BY <2>3, <3>1 DEF TakenBy
    <3>3. Taken' = [Taken EXCEPT ![s] = Append(Taken[s], Head(queue))]
      BY <2>2, <3>2 DEF Taken
    <3>4. Taken \in [Spocks -> Seq(Messages)]
      <4>1. ASSUME NEW u \in Spocks PROVE TakenBy(u) \in Seq(Messages)
        BY <1>1 DEF TakenBy, Labelled
      <4> QED
        BY <4>1 DEF Taken
    <3>5. /\ Ordered(queue, Taken, Sent) /\ queue \in Seq(Messages)
          /\ Sent \in SUBSET Messages
      BY <1>1 DEF OrderInv, Labelled, Sent
    <3>6. Ordered(Tail(queue), Taken', Sent)
      BY <3>1, <3>3, <3>4, <3>5, OrderedReceive
    <3> QED
      BY <1>1, <2>1, <3>1, <3>6 DEF OrderInv
  <2>5. CASE msqid[s] # live
    <3>1. UNCHANGED queue /\ pc'[s] = "exited"
      BY <1>1, <1>9, <2>5 DEF SpockReceive, Step, Labelled, Processes
    <3>2. TakenBy(s)' = TakenBy(s)
      BY <2>3, <3>1 DEF TakenBy
    <3> QED
      BY <1>1, <2>1, <2>2, <3>1, <3>2, OrderKept
  <2> QED
    BY <2>4, <2>5
<1>10. ASSUME NEW s \in Spocks, SpockPrint(s) PROVE OrderInv'
  <2>1. Sent \subseteq Sent'
    BY <1>1, <1>2, <1>3, <1>10 DEF SpockPrint, Step, Sent, Labelled, Processes
  <2>2. \A u \in Spocks : TakenBy(u)' = TakenBy(u)
    BY <1>1, <1>10 DEF SpockPrint, Step, TakenBy, Labelled, Processes
  <2> QED
    BY <1>1, <1>10, <2>1, <2>2, OrderKept DEF SpockPrint
<1>11. ASSUME NEW p \in Processes, Kill(p) PROVE OrderInv'
  <2>1. Sent \subseteq Sent'
    BY <1>1, <1>3, <1>11 DEF Kill, Sent, Labelled, Processes
  <2>2. \A s \in Spocks : TakenBy(s)' = TakenBy(s) \/ TakenBy(s)' = printed[s]
    BY <1>1, <1>11 DEF Kill, TakenBy, Labelled, Processes
  <2> QED
    BY <1>1, <1>11, <2>1, <2>2, OrderKept DEF Kill
<1>12. ASSUME UNCHANGED vars PROVE OrderInv'
  <2>1. Sent \subseteq Sent' /\ \A s \in Spocks : TakenBy(s)' = TakenBy(s)
    BY <1>12 DEF vars, Sent, TakenBy
  <2> QED
    BY <1>1, <1>12, <2>1, OrderKept DEF vars
<1> QED
  BY <1>4, <1>5, <1>6, <1>7, <1>8, <1>9, <1>10, <1>11, <1>12 DEF Next, Kirk, Spock

(* No line is received twice, by two spocks or by one, although queues are *)
(* removed and processes killed at any time.                               *)
THEOREM EachLineGoesToOneSpock == Spec => []NoItemTwice
<1>1. OrderInv => NoItemTwice
  <2> SUFFICES ASSUME OrderInv,
                      NEW s \in Spocks, NEW u \in Spocks,
                      NEW m \in 1..Len(TakenBy(s)), NEW n \in 1..Len(TakenBy(u)),
                      TakenBy(s)[m] = TakenBy(u)[n]
               PROVE  s = u /\ m = n
    BY DEF NoItemTwice
  <2>1. Taken[s] = TakenBy(s) /\ Taken[u] = TakenBy(u) /\ Ordered(queue, Taken, Sent)
    BY DEF Taken, OrderInv
  <2>2. s = u
    BY <2>1 DEF Ordered
  <2>3. TakenBy(s)[m] \in Messages
    BY <2>1 DEF Ordered, Sent
  <2>4. ~Before(TakenBy(s)[m], TakenBy(s)[m])
    BY <2>3 DEF Before, Messages
  <2>5. ~(m < n) /\ ~(n < m)
    BY <2>1, <2>2, <2>4 DEF Ordered
  <2> QED
    BY <2>2, <2>5
<1> QED
  BY <1>1, InitOrder, StepOrder, PTL DEF Spec

(* A spock prints the lines of a kirk in the order they were typed.        *)
THEOREM LinesKeepTheirOrder == Spec => []TypingOrder
<1>1. OrderInv => TypingOrder
  <2> SUFFICES ASSUME OrderInv, NEW s \in Spocks,
                      NEW m \in 1..Len(printed[s]), NEW n \in 1..Len(printed[s]), m < n
               PROVE  Before(printed[s][m], printed[s][n])
    BY DEF TypingOrder, Before
  <2>1. Taken[s] = TakenBy(s) /\ Ordered(queue, Taken, Sent) /\ Labelled
    BY DEF Taken, OrderInv
  <2>2. /\ m \in 1..Len(TakenBy(s)) /\ TakenBy(s)[m] = printed[s][m]
        /\ n \in 1..Len(TakenBy(s)) /\ TakenBy(s)[n] = printed[s][n]
    BY <2>1 DEF TakenBy, Labelled
  <2> QED
    BY <2>1, <2>2 DEF Ordered
<1> QED
  BY <1>1, InitOrder, StepOrder, PTL DEF Spec

-----------------------------------------------------------------------------
(* The queues are numbered as they are created, each by another kirk, and  *)
(* nothing is in one that is yet to come.                                  *)
Past == {k \in Kirks : pc[k] # "get"}

QueuesInv ==
  /\ created \in Nat /\ created <= Cardinality(Past)
  /\ live \in {0, created}
  /\ accepted \in [QueueIds -> SUBSET Messages]
  /\ \A q \in QueueIds : q > created => accepted[q] = {}

LEMMA InitQueues == Init => QueuesInv
<1> SUFFICES ASSUME Init PROVE QueuesInv
  OBVIOUS
<1>1. IsFiniteSet(Past) /\ Cardinality(Past) \in Nat
  BY FS_Subset, FS_CardinalityType, MailboxAssumption DEF Past
<1> QED
  BY <1>1 DEF Init, QueuesInv

LEMMA PastSize ==
  /\ Cardinality(Past) \in Nat /\ Cardinality(Kirks) \in Nat
  /\ Cardinality(Past) <= Cardinality(Kirks)
<1>1. Past \subseteq Kirks /\ IsFiniteSet(Kirks)
  BY MailboxAssumption DEF Past
<1> QED
  BY <1>1, FS_Subset, FS_CardinalityType

LEMMA StepQueues == Labelled /\ QueuesInv /\ [Next]_vars => QueuesInv'
<1> SUFFICES ASSUME Labelled, QueuesInv, [Next]_vars PROVE QueuesInv'
  OBVIOUS
<1>1. IsFiniteSet(Past) /\ IsFiniteSet(Past')
  BY FS_Subset, MailboxAssumption DEF Past
<1>2. ASSUME Past \subseteq Past' PROVE Cardinality(Past) <= Cardinality(Past')
  BY <1>1, <1>2, FS_Subset
<1>3. ASSUME Past \subseteq Past', UNCHANGED <<created, accepted>>,
             live' = live \/ live' = 0
      PROVE  QueuesInv'
  BY <1>1, <1>2, <1>3, FS_CardinalityType DEF QueuesInv, QueueIds
<1>4. ASSUME NEW k \in Kirks, KirkGet(k) PROVE QueuesInv'
  <2>1. Past' = Past \cup {k} /\ k \notin Past
    BY <1>4, MailboxAssumption DEF KirkGet, Step, Past, Labelled, Processes
  <2>2. Cardinality(Past') = Cardinality(Past) + 1
    BY <1>1, <2>1, FS_AddElement
  <2>3. Cardinality(Past) \in Nat
    BY <1>1, FS_CardinalityType
  <2>4. CASE live = 0
    <3>1. created' = created + 1 /\ live' = created + 1 /\ accepted' = accepted
      BY <1>4, <2>4 DEF KirkGet
    <3>2. \A q \in QueueIds : q > created + 1 => accepted[q] = {}
      BY PastSize DEF QueuesInv, QueueIds
    <3> QED
      BY <2>2, <2>3, <3>1, <3>2 DEF QueuesInv, QueueIds
  <2>5. CASE live # 0
    BY <1>3, <1>4, <2>1, <2>5 DEF KirkGet
  <2> QED
    BY <2>4, <2>5
<1>5. ASSUME NEW k \in Kirks, KirkRead(k) PROVE QueuesInv'
  <2>1. Past \subseteq Past'
    BY <1>5, MailboxAssumption DEF KirkRead, Step, Past, Labelled, Processes
  <2> QED
    BY <1>3, <1>5, <2>1 DEF KirkRead
<1>6. ASSUME NEW k \in Kirks, KirkSend(k) PROVE QueuesInv'
  <2>1. Past \subseteq Past'
    BY <1>6, MailboxAssumption DEF KirkSend, Step, Past, Labelled, Processes
  <2>2. CASE msqid[k] = live
    <3>1. <<k, typed[k]>> \in Messages
      BY <1>6, MailboxAssumption DEF KirkSend, Step, Messages, Labelled
    <3>2. accepted' = [accepted EXCEPT ![live] = @ \cup {<<k, typed[k]>>}]
      BY <1>6, <2>2 DEF KirkSend
    <3>3. /\ accepted' \in [QueueIds -> SUBSET Messages]
          /\ \A q \in QueueIds : q # live => accepted'[q] = accepted[q]
      BY <3>1, <3>2 DEF QueuesInv
    <3>4. \A q \in QueueIds : q > created => accepted'[q] = {}
      BY <3>3 DEF QueuesInv, QueueIds
    <3>5. UNCHANGED <<live, created>>
      BY <1>6 DEF KirkSend
    <3>6. created <= Cardinality(Past')
      BY <1>1, <1>2, <2>1, FS_CardinalityType DEF QueuesInv
    <3> QED
      BY <3>3, <3>4, <3>5, <3>6 DEF QueuesInv, QueueIds
  <2>3. CASE msqid[k] # live
    BY <1>3, <1>6, <2>1, <2>3 DEF KirkSend
  <2> QED
    BY <2>2, <2>3
<1>7. ASSUME NEW k \in Kirks, KirkRemove(k) PROVE QueuesInv'
  <2>1. Past \subseteq Past'
    BY <1>7, MailboxAssumption DEF KirkRemove, Step, Past, Labelled, Processes
  <2> QED
    BY <1>3, <1>7, <2>1 DEF KirkRemove
<1>8. ASSUME NEW s \in Spocks, Spock(s) PROVE QueuesInv'
  <2>1. Past \subseteq Past' /\ UNCHANGED <<live, created, accepted>>
    BY <1>8, MailboxAssumption
    DEF Spock, SpockGet, SpockReceive, SpockPrint, Step, Past, Labelled, Processes
  <2> QED
    BY <1>3, <2>1
<1>9. ASSUME NEW p \in Processes, Kill(p) PROVE QueuesInv'
  <2>1. Past \subseteq Past'
    BY <1>9 DEF Kill, Past, Labelled, Processes
  <2> QED
    BY <1>3, <1>9, <2>1 DEF Kill
<1>10. ASSUME UNCHANGED vars PROVE QueuesInv'
  <2>1. Past \subseteq Past'
    BY <1>10 DEF vars, Past
  <2> QED
    BY <1>3, <1>10, <2>1 DEF vars
<1> QED
  BY <1>4, <1>5, <1>6, <1>7, <1>8, <1>9, <1>10 DEF Next, Kirk

(* Where a line is that was put into the queue: in it, with a spock, or    *)
(* lost with a spock that was killed.                                      *)
With(s) ==
  {m \in Messages : m \in ToSet(TakenBy(s)) \/ (pc[s] = "killed" /\ m = buf[s])}

KeptInv ==
  live # 0 => \A m \in accepted[live] : m \in ToSet(queue) \/ \E s \in Spocks : m \in With(s)

(* Nothing is forgotten if the queue and the spocks only gain.             *)
LEMMA KeptByMore ==
  ASSUME KeptInv,
         \/ live' = 0
         \/ live' = live /\ accepted' = accepted,
         live' # 0 => ToSet(queue) \subseteq ToSet(queue') \cup UNION {With(s)' : s \in Spocks},
         \A s \in Spocks : With(s) \subseteq With(s)'
  PROVE  KeptInv'
BY DEF KeptInv

LEMMA SetOfSequence ==
  ASSUME NEW S, NEW q \in Seq(S), NEW e \in S
  PROVE  /\ ToSet(Append(q, e)) = ToSet(q) \cup {e}
         /\ q # <<>> => ToSet(q) = ToSet(Tail(q)) \cup {Head(q)}
<1>1. ToSet(Append(q, e)) = ToSet(q) \cup {e}
  <2>1. \A a \in 1..Len(q) : Append(q, e)[a] = q[a]
    OBVIOUS
  <2>2. /\ Append(q, e)[Len(q) + 1] = e /\ Len(q) \in Nat
        /\ DOMAIN q = 1..Len(q) /\ DOMAIN Append(q, e) = 1..(Len(q) + 1)
    OBVIOUS
  <2>3. 1..(Len(q) + 1) = 1..Len(q) \cup {Len(q) + 1}
    BY <2>2
  <2> QED
    BY <2>1, <2>2, <2>3 DEF ToSet
<1>2. ASSUME q # <<>> PROVE ToSet(q) = ToSet(Tail(q)) \cup {Head(q)}
  <2> DEFINE t == Tail(q)
  <2>1. /\ Len(q) \in Nat \ {0} /\ DOMAIN q = 1..Len(q) /\ Head(q) = q[1]
        /\ DOMAIN t = 1..(Len(q) - 1)
        /\ \A a \in 1..(Len(q) - 1) : t[a] = q[a + 1]
    BY <1>2
  <2> HIDE DEF t
  <2>2. ASSUME NEW x \in ToSet(q) PROVE x \in ToSet(t) \cup {Head(q)}
    <3>1. PICK a \in 1..Len(q) : x = q[a]
      BY <2>1 DEF ToSet
    <3>2. CASE a = 1
      BY <2>1, <3>1, <3>2
    <3>3. CASE a # 1
      <4>1. a - 1 \in 1..(Len(q) - 1) /\ t[a - 1] = x
        BY <2>1, <3>1, <3>3
      <4> QED
        BY <2>1, <4>1 DEF ToSet
    <3> QED
      BY <3>2, <3>3
  <2>3. ASSUME NEW x \in ToSet(t) PROVE x \in ToSet(q)
    <3>1. PICK a \in 1..(Len(q) - 1) : x = t[a]
      BY <2>1 DEF ToSet
    <3>2. a + 1 \in 1..Len(q) /\ x = q[a + 1]
      BY <2>1, <3>1
    <3> QED
      BY <2>1, <3>2 DEF ToSet
  <2>4. Head(q) \in ToSet(q)
    BY <2>1 DEF ToSet
  <2> QED
    BY <2>2, <2>3, <2>4 DEF t
<1> QED
  BY <1>1, <1>2

LEMMA StepKept == Labelled /\ QueuesInv /\ KeptInv /\ [Next]_vars => KeptInv'
<1> SUFFICES ASSUME Labelled, QueuesInv, KeptInv, [Next]_vars PROVE KeptInv'
  OBVIOUS
<1>1. ASSUME NEW s \in Spocks,
             UNCHANGED <<buf[s], printed[s], pc[s]>>
      PROVE  With(s)' = With(s)
  BY <1>1 DEF With, TakenBy
<1>2. ASSUME NEW k \in Kirks, Kirk(k), NEW s \in Spocks
      PROVE  With(s) \subseteq With(s)'
  BY <1>1, <1>2, MailboxAssumption
  DEF Kirk, KirkGet, KirkRead, KirkSend, KirkRemove, Step, Labelled, Processes
<1>3. ASSUME NEW s \in Spocks, Spock(s), NEW u \in Spocks, u # s
      PROVE  With(u) \subseteq With(u)'
  BY <1>1, <1>3 DEF Spock, SpockGet, SpockReceive, SpockPrint, Step, Labelled, Processes
<1>4. ASSUME NEW k \in Kirks, KirkGet(k) PROVE KeptInv'
  <2>1. CASE live = 0
    <3>1. live' = created + 1 /\ created + 1 \in QueueIds /\ UNCHANGED accepted
      <4>1. Past' = Past \cup {k} /\ k \notin Past /\ IsFiniteSet(Past)
        BY <1>4, FS_Subset, MailboxAssumption
        DEF KirkGet, Step, Past, Labelled, Processes
      <4>2. Cardinality(Past') = Cardinality(Past) + 1
        BY <4>1, FS_AddElement
      <4>3. Cardinality(Past') <= Cardinality(Kirks)
        BY FS_Subset, MailboxAssumption DEF Past
      <4> QED
        BY <1>4, <2>1, <4>2, <4>3, PastSize DEF KirkGet, QueuesInv, QueueIds
    <3> QED
      BY <3>1 DEF KeptInv, QueuesInv
  <2>2. CASE live # 0
    BY <1>2, <1>4, <2>2, KeptByMore DEF KirkGet, Kirk
  <2> QED
    BY <2>1, <2>2
<1>5. ASSUME NEW k \in Kirks, KirkRead(k) PROVE KeptInv'
  BY <1>2, <1>5, KeptByMore DEF KirkRead, Kirk
<1>6. ASSUME NEW k \in Kirks, KirkSend(k) PROVE KeptInv'
  <2> DEFINE m == <<k, typed[k]>>
  <2>1. m \in Messages
    BY <1>6, MailboxAssumption DEF KirkSend, Step, Messages, Labelled
  <2> HIDE DEF m
  <2>2. CASE msqid[k] = live
    <3>1. /\ queue' = Append(queue, m) /\ live' = live
          /\ accepted' = [accepted EXCEPT ![live] = @ \cup {m}]
      BY <1>6, <2>2 DEF KirkSend, m
    <3>2. ToSet(queue') = ToSet(queue) \cup {m}
      BY <2>1, <3>1, SetOfSequence DEF Labelled
    <3>3. live # 0 => accepted'[live] \subseteq accepted[live] \cup {m}
      BY <3>1 DEF QueuesInv
    <3>4. \A s \in Spocks : With(s) \subseteq With(s)'
      BY <1>2, <1>6 DEF Kirk
    <3> QED
      BY <3>1, <3>2, <3>3, <3>4 DEF KeptInv
  <2>3. CASE msqid[k] # live
    BY <1>2, <1>6, <2>3, KeptByMore DEF KirkSend, Kirk
  <2> QED
    BY <2>2, <2>3
<1>7. ASSUME NEW k \in Kirks, KirkRemove(k) PROVE KeptInv'
  BY <1>2, <1>7, KeptByMore DEF KirkRemove, Kirk
<1>8. ASSUME NEW s \in Spocks, SpockGet(s) PROVE KeptInv'
  <2>1. With(s) \subseteq With(s)'
    BY <1>8 DEF SpockGet, Step, With, TakenBy, Labelled, Processes
  <2> QED
    BY <1>3, <1>8, <2>1, KeptByMore DEF SpockGet, Spock
<1>9. ASSUME NEW s \in Spocks, SpockReceive(s) PROVE KeptInv'
  <2>1. pc[s] = "receive" /\ TakenBy(s) = printed[s] /\ UNCHANGED <<printed, live, accepted>>
    BY <1>9 DEF SpockReceive, Step, TakenBy
  <2>2. CASE msqid[s] = live
    <3>1. /\ queue # <<>> /\ queue' = Tail(queue)
          /\ pc'[s] = "print" /\ buf'[s] = Head(queue)
      BY <1>9, <2>2 DEF SpockReceive, Step, Labelled, Processes
    <3>2. Head(queue) \in Messages
      BY <3>1 DEF Labelled
    <3>3. /\ ToSet(TakenBy(s)') = ToSet(TakenBy(s)) \cup {Head(queue)}
          /\ ToSet(queue) = ToSet(queue') \cup {Head(queue)}
      BY <2>1, <3>1, <3>2, SetOfSequence DEF TakenBy, Labelled
    <3>4. With(s) \subseteq With(s)' /\ Head(queue) \in With(s)'
      BY <2>1, <3>2, <3>3 DEF With
    <3> QED
      BY <1>3, <1>9, <2>1, <3>3, <3>4, KeptByMore DEF Spock
  <2>3. CASE msqid[s] # live
    <3>1. UNCHANGED queue /\ pc'[s] = "exited" /\ UNCHANGED buf
      BY <1>9, <2>3 DEF SpockReceive, Step, Labelled, Processes
    <3>2. With(s) \subseteq With(s)'
      BY <2>1, <3>1 DEF With, TakenBy
    <3> QED
      BY <1>3, <1>9, <2>1, <3>1, <3>2, KeptByMore DEF Spock
  <2> QED
    BY <2>2, <2>3
<1>10. ASSUME NEW s \in Spocks, SpockPrint(s) PROVE KeptInv'
  <2>1. With(s) \subseteq With(s)'
    BY <1>10 DEF SpockPrint, Step, With, TakenBy, Labelled, Processes
  <2> QED
    BY <1>3, <1>10, <2>1, KeptByMore DEF SpockPrint, Spock
<1>11. ASSUME NEW p \in Processes, Kill(p) PROVE KeptInv'
  <2>1. ASSUME NEW s \in Spocks PROVE With(s) \subseteq With(s)'
    <3>1. CASE s = p /\ pc[s] = "print"
      <4>1. ToSet(TakenBy(s)) = ToSet(printed[s]) \cup {buf[s]}
        BY <3>1, SetOfSequence DEF TakenBy, Labelled
      <4>2. pc'[s] = "killed" /\ TakenBy(s)' = printed[s] /\ buf'[s] = buf[s]
        BY <1>11, <3>1 DEF Kill, TakenBy, Labelled, Processes
      <4> QED
        BY <3>1, <4>1, <4>2 DEF With
    <3>2. CASE s = p /\ pc[s] # "print"
      BY <1>11, <3>2 DEF Kill, With, TakenBy, Labelled, Processes
    <3>3. CASE s # p
      BY <1>1, <1>11, <3>3 DEF Kill, Labelled, Processes
    <3> QED
      BY <3>1, <3>2, <3>3
  <2> QED
    BY <1>11, <2>1, KeptByMore DEF Kill
<1>12. ASSUME UNCHANGED vars PROVE KeptInv'
  <2>1. \A s \in Spocks : With(s)' = With(s)
    BY <1>12 DEF vars, With, TakenBy
  <2> QED
    BY <1>12, <2>1, KeptByMore DEF vars
<1> QED
  BY <1>4, <1>5, <1>6, <1>7, <1>8, <1>9, <1>10, <1>11, <1>12 DEF Next, Kirk, Spock

(* No line that a queue accepted is lost while the queue exists, unless    *)
(* with a spock that is killed between msgrcv and printf.                  *)
THEOREM NothingIsLostInAQueue == Spec => []KeptWhileLive
<1>1. Init => KeptInv
  BY DEF Init, KeptInv
<1>2. OrderInv => Labelled
  BY DEF OrderInv
<1>3. KeptInv => KeptWhileLive
  BY DEF KeptInv, KeptWhileLive, With
<1> QED
  BY <1>1, <1>2, <1>3, InitOrder, StepOrder, InitQueues, StepQueues, StepKept, PTL DEF Spec

-----------------------------------------------------------------------------
Typed ==
  /\ Len(queue) <= CAPACITY
  /\ \A k \in Kirks : pc[k] \in KirkLabels
  /\ \A s \in Spocks : pc[s] \in SpockLabels
  /\ msqid \in [Processes -> {0} \cup QueueIds]
  /\ kills \in 0..Kills
  /\ refused \in SUBSET Messages

Numbered == live \in {0} \cup QueueIds /\ created \in {0} \cup QueueIds

LEMMA QueueNumbers == QueuesInv => Numbered
BY PastSize DEF QueuesInv, QueueIds, Numbered

LEMMA InitTyped == Init => Typed
BY MailboxAssumption DEF Init, Typed, KirkLabels, SpockLabels, Processes

LEMMA StepTyped == Labelled /\ Numbered /\ Numbered' /\ Typed /\ [Next]_vars => Typed'
<1> SUFFICES ASSUME Labelled, Numbered, Numbered', Typed, [Next]_vars
             PROVE  Typed'
  OBVIOUS
<1> USE DEF Typed, Labelled, Numbered, Processes, Step
<1>1. ASSUME NEW k \in Kirks, KirkGet(k) PROVE Typed'
  BY <1>1, MailboxAssumption DEF KirkGet, KirkLabels
<1>2. ASSUME NEW k \in Kirks, KirkRead(k) PROVE Typed'
  BY <1>2, MailboxAssumption DEF KirkRead, KirkLabels
<1>3. ASSUME NEW k \in Kirks, KirkSend(k) PROVE Typed'
  <2>1. <<k, typed[k]>> \in Messages
    BY <1>3, MailboxAssumption DEF KirkSend, Messages
  <2>2. Len(queue') <= CAPACITY
    <3>1. CASE msqid[k] = live
      <4>1. /\ queue' = Append(queue, <<k, typed[k]>>) /\ Len(queue) < CAPACITY
        BY <1>3, <3>1 DEF KirkSend
      <4>2. Len(queue') = Len(queue) + 1 /\ Len(queue) \in Nat
        BY <2>1, <4>1
      <4> QED
        BY <4>1, <4>2, MailboxAssumption
    <3>2. CASE msqid[k] # live
      BY <1>3, <3>2 DEF KirkSend
    <3> QED
      BY <3>1, <3>2
  <2>3. refused' \in SUBSET Messages
    BY <1>3, <2>1 DEF KirkSend
  <2> QED
    BY <1>3, <2>2, <2>3, MailboxAssumption DEF KirkSend, KirkLabels
<1>4. ASSUME NEW k \in Kirks, KirkRemove(k) PROVE Typed'
  <2>1. Len(queue') <= CAPACITY
    BY <1>4, MailboxAssumption DEF KirkRemove
  <2> QED
    BY <1>4, <2>1, MailboxAssumption DEF KirkRemove, KirkLabels
<1>5. ASSUME NEW s \in Spocks, SpockGet(s) PROVE Typed'
  BY <1>5, MailboxAssumption DEF SpockGet, SpockLabels
<1>6. ASSUME NEW s \in Spocks, SpockReceive(s) PROVE Typed'
  <2>1. Len(queue') <= CAPACITY
    BY <1>6, MailboxAssumption DEF SpockReceive
  <2> QED
    BY <1>6, <2>1, MailboxAssumption DEF SpockReceive, SpockLabels
<1>7. ASSUME NEW s \in Spocks, SpockPrint(s) PROVE Typed'
  BY <1>7, MailboxAssumption DEF SpockPrint, SpockLabels
<1>8. ASSUME NEW p \in Processes, Kill(p) PROVE Typed'
  BY <1>8, MailboxAssumption DEF Kill, KirkLabels, SpockLabels
<1>9. ASSUME UNCHANGED vars PROVE Typed'
  BY <1>9 DEF vars
<1> QED
  BY <1>1, <1>2, <1>3, <1>4, <1>5, <1>6, <1>7, <1>8, <1>9 DEF Next, Kirk, Spock

(* The types hold: as many queues are created as there are kirks at most,  *)
(* and no queue holds more than it has room for.                           *)
THEOREM MailboxTypes == Spec => []TypeOK
<1>1. OrderInv => Labelled
  BY DEF OrderInv
<1>2. Labelled /\ QueuesInv /\ Typed => TypeOK
  BY QueueNumbers DEF Labelled, QueuesInv, Typed, TypeOK, Numbered
<1> QED
  BY <1>1, <1>2, InitOrder, StepOrder, InitQueues, StepQueues, InitTyped, StepTyped,
     QueueNumbers, PTL DEF Spec
=============================================================================
