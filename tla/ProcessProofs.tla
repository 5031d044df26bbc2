--------------------------- MODULE ProcessProofs ---------------------------
(***************************************************************************)
(* The programs whose actors are processes.  The shared-memory handshake,  *)
(* for any number of killed runs: what A prints was written to its end,    *)
(* and the turn never goes back.  The programs that fork, for any number   *)
(* of threads and of runs: nobody is cut off, a child knows of the past    *)
(* only, and test.c reports what was done and leaves nothing behind.       *)
(***************************************************************************)
EXTENDS ShmHandshake, ForkPrograms, TLAPS

-----------------------------------------------------------------------------
(* The shared-memory handshake.                                            *)

(* Both halves of the text have been written.                              *)
Written(g) == sharedStr[g][1] # "" /\ sharedStr[g][2] # ""

(* How many segments there can be: a run creates some when it finds none,  *)
(* and once more after A removed them.                                     *)
SegmentsInv ==
  /\ live \in {0, created}
  /\ live = 0 /\ pc["A"] # "done" => created = 0
  /\ created <= 2 * restarts + (IF pc["A"] = "done" /\ live # 0 THEN 2 ELSE 1)
  /\ \A p \in Processes : at[p] = 0 => pc[p] = "attach"

(* The integer passes 1 only when the text is written, in all segments,    *)
(* also those that a killed run has left.  A text once written stays so.   *)
TextInv ==
  /\ \A g \in Generations : sharedInt[g] \in {2, 3} => Written(g)
  /\ \A p \in {"B", "C"} :
       /\ pc[p] = "copy2" => sharedStr[at[p]][1] # ""
       /\ pc[p] = "set" => Written(at[p])
  /\ pc["A"] \in {"print1", "poll3", "print2"} => Written(at["A"])

PrintedInv ==
  \A n \in 1..2 : printed[n] # <<>> => printed[n][1] # "" /\ printed[n][2] # ""

Memory == <<"memory", "memory">>

BIsThrough == pc["B"] \in {"exit", "done"}
CIsThrough == pc["C"] \in {"exit", "done"}
CHasTurn == pc["C"] \in {"copy1", "copy2", "set"} \/ CIsThrough
AHasSet == pc["A"] \notin {"attach", "set"}

(* Without a killed run, a 2 is B's and a 3 is C's, who write nothing      *)
(* afterwards; C has the turn only after B, in the same segments, so the   *)
(* text is C's alone from then on.                                         *)
FreshInv == Fresh =>
  /\ \A g \in Generations :
       /\ sharedInt[g] = 2 => BIsThrough /\ at["B"] = g
       /\ sharedInt[g] = 3 => CIsThrough /\ at["C"] = g
  /\ CHasTurn => BIsThrough /\ at["B"] = at["C"]
  /\ pc["C"] = "copy2" => sharedStr[at["C"]][1] = "memory"
  /\ pc["C"] = "set" \/ CIsThrough => sharedStr[at["C"]] = Memory
  /\ pc["A"] = "print2" => CIsThrough /\ at["C"] = at["A"]
  /\ printed[2] # <<>> => printed[2] = Memory

(* If B waits for the 1 as well, the integer is 0 where A has not set it,  *)
(* and B has the turn only after A, in the same segments.                  *)
TurnInv == InTurns =>
  /\ \A g \in Generations : sharedInt[g] >= 1 => AHasSet /\ at["A"] = g
  /\ pc["B"] \notin {"attach", "poll"} => AHasSet /\ at["A"] = at["B"]

IInv == TypeOK /\ SegmentsInv /\ TextInv /\ PrintedInv

LEMMA OneIsNotTwo == 1 # 2
  OBVIOUS

LEMMA Halved ==
  ASSUME NEW t \in Halves \X Halves, NEW x \in Halves
  PROVE  /\ [t EXCEPT ![1] = x] = <<x, t[2]>>
         /\ [t EXCEPT ![2] = x] = <<t[1], x>>
  OBVIOUS

LEMMA FirstHalf ==
  ASSUME NEW t \in Halves \X Halves, NEW x \in Halves \ {""},
         NEW u, u = <<x, t[2]>>
  PROVE  /\ u \in Halves \X Halves
         /\ t[1] # "" => u[1] # ""
         /\ t[2] # "" => u[2] # ""
         /\ u[1] # ""
  OBVIOUS

LEMMA SecondHalf ==
  ASSUME NEW t \in Halves \X Halves, NEW x \in Halves \ {""},
         NEW u, u = <<t[1], x>>
  PROVE  /\ u \in Halves \X Halves
         /\ t[1] # "" => u[1] # ""
         /\ t[2] # "" => u[2] # ""
         /\ u[2] # ""
  OBVIOUS

LEMMA InitIInv == Init => IInv
<1> SUFFICES ASSUME Init PROVE IInv
  OBVIOUS
<1> USE ShmHandshakeAssumption DEF Processes
<1>1. /\ restarts = 0 /\ live = 0 /\ created = 0
      /\ at = [p \in Processes |-> 0]
      /\ pc = [p \in Processes |-> "attach"]
      /\ program \in Programs
  BY DEF Init
<1>2. sharedInt = [g \in Generations |-> 0]
  BY DEF Init
<1>3. sharedStr = [g \in Generations |-> <<"", "">>]
  BY DEF Init
<1>4. printed = [n \in 1..2 |-> <<>>]
  BY DEF Init
<1>5. TypeOK
  <2>1. sharedStr \in [Generations -> Halves \X Halves]
    BY <1>3 DEF Halves
  <2>2. printed \in [1..2 -> {<<>>} \cup (Halves \X Halves)]
    BY <1>4
  <2>3. pc \in [Processes -> Labels] /\ at \in [Processes -> {0} \cup Generations]
    BY <1>1 DEF Labels
  <2>4. sharedInt \in [Generations -> 0..3]
    BY <1>2
  <2> QED
    BY <1>1, <2>1, <2>2, <2>3, <2>4 DEF TypeOK
<1>6. SegmentsInv
  BY <1>1 DEF SegmentsInv
<1>7. TextInv
  BY <1>1, <1>2 DEF TextInv
<1>8. PrintedInv
  BY <1>4 DEF PrintedInv
<1> QED
  BY <1>5, <1>6, <1>7, <1>8 DEF IInv

(* What a copy does to the text.                                           *)
LEMMA CopyWrites ==
  ASSUME TypeOK, NEW p \in Processes, NEW from, NEW to, NEW half \in {1, 2},
         NEW text \in Halves \ {""}, Copy(p, from, half, text, to),
         at[p] \in Generations
  PROVE  /\ sharedStr' \in [Generations -> Halves \X Halves]
         /\ \A g \in Generations :
              /\ sharedStr[g][1] # "" => sharedStr'[g][1] # ""
              /\ sharedStr[g][2] # "" => sharedStr'[g][2] # ""
         /\ half = 1 => sharedStr'[at[p]][1] # ""
         /\ half = 2 => sharedStr'[at[p]][2] # ""
<1> DEFINE old == sharedStr[at[p]]
           new == [old EXCEPT ![half] = text]
<1>1. old \in Halves \X Halves /\ sharedStr \in [Generations -> Halves \X Halves]
  BY DEF TypeOK
<1>2. sharedStr' = [sharedStr EXCEPT ![at[p]] = new]
  BY DEF Copy
<1>3. new \in Halves \X Halves /\ (old[1] # "" => new[1] # "")
      /\ (old[2] # "" => new[2] # "") /\ new[half] # ""
  <2>1. CASE half = 1
    <3>1. new = <<text, old[2]>>
      BY <1>1, <2>1, Halved
    <3> HIDE DEF new, old
    <3> QED
      BY <1>1, <2>1, <3>1, FirstHalf
  <2>2. CASE half = 2
    <3>1. new = <<old[1], text>>
      BY <1>1, <2>2, Halved
    <3> HIDE DEF new, old
    <3> QED
      BY <1>1, <2>2, <3>1, SecondHalf
  <2> QED
    BY <2>1, <2>2
<1> HIDE DEF old, new
<1>4. sharedStr'[at[p]] = new /\ (\A g \in Generations \ {at[p]} : sharedStr'[g] = sharedStr[g])
  BY <1>1, <1>2
<1>5. sharedStr' \in [Generations -> Halves \X Halves]
  BY <1>1, <1>2, <1>3
<1>6. ASSUME NEW g \in Generations
      PROVE  /\ sharedStr[g][1] # "" => sharedStr'[g][1] # ""
             /\ sharedStr[g][2] # "" => sharedStr'[g][2] # ""
  <2>1. CASE g = at[p]
    BY <1>3, <1>4, <2>1 DEF old
  <2>2. CASE g # at[p]
    BY <1>4, <2>2
  <2> QED
    BY <2>1, <2>2
<1> QED
  <2>1. half = 1 => new[1] # ""
    BY <1>3
  <2>2. half = 2 => new[2] # ""
    BY <1>3
  <2> QED
    BY <1>4, <1>5, <1>6, <2>1, <2>2

(* A process that attaches finds the segments or creates them, and has not *)
(* touched them yet.                                                       *)
LEMMA AttachKeeps ==
  ASSUME IInv, NEW p \in Processes, NEW to, Attach(p), Step(p, "attach", to),
         to \in (IF p = "A" THEN {"set"} ELSE {"poll", "copy1", "crashed"})
  PROVE  IInv'
<1> USE ShmHandshakeAssumption
<1>1. created' \in Generations /\ live' \in Generations /\ live' = created'
  BY DEF Attach, IInv, TypeOK, SegmentsInv, Generations
<1>2. TypeOK'
  BY <1>1 DEF Attach, Step, IInv, TypeOK, Labels
<1>3. SegmentsInv'
  <2>1. pc'["A"] # "done" <=> pc["A"] # "done"
    BY DEF Step, IInv, TypeOK, Processes
  <2>2. created' <= 2 * restarts' + (IF pc'["A"] = "done" /\ live' # 0 THEN 2 ELSE 1)
    BY <1>1, <2>1 DEF Attach, Step, IInv, TypeOK, SegmentsInv, Generations
  <2>3. ASSUME NEW q \in Processes, at'[q] = 0 PROVE pc'[q] = "attach"
    BY <1>1, <2>3 DEF Attach, Step, IInv, TypeOK, SegmentsInv, Generations
  <2> QED
    BY <1>1, <2>1, <2>2, <2>3 DEF SegmentsInv, Generations
<1>4. TextInv'
  BY DEF Attach, Step, IInv, TypeOK, TextInv, Written, Processes
<1>5. PrintedInv'
  BY DEF Attach, IInv, PrintedInv
<1> QED
  BY <1>2, <1>3, <1>4, <1>5 DEF IInv

(* A step that changes neither the segments nor who is attached keeps      *)
(* their number.                                                           *)
LEMMA SegmentsKept ==
  ASSUME IInv, NEW p \in Processes, NEW from \in Labels, NEW to \in Labels,
         Step(p, from, to), UNCHANGED <<live, created, at>>,
         from \notin {"attach", "done"}, p = "A" => to # "done"
  PROVE  SegmentsInv' /\ at[p] \in Generations /\ at'[p] \in Generations
<1>1. pc'["A"] # "done" <=> pc["A"] # "done"
  BY DEF Step, IInv, TypeOK, Processes
<1> QED
  BY <1>1 DEF Step, IInv, TypeOK, SegmentsInv, Generations

LEMMA NextIInv == IInv /\ [Next]_vars => IInv'
<1> SUFFICES ASSUME IInv, [Next]_vars PROVE IInv'
  OBVIOUS
<1> USE DEF IInv
<1>0. ASSUME UNCHANGED printed PROVE PrintedInv'
  BY <1>0 DEF PrintedInv
<1>1. CASE AttachA \/ AttachB \/ AttachC
  BY <1>1, AttachKeeps DEF AttachA, AttachB, AttachC, Processes
<1>2. ASSUME NEW p \in Processes, NEW n \in 1..3, NEW to \in {"poll", "exit"},
             Set(p, n, to), n = 1 <=> p = "A"
      PROVE  IInv'
  <2>1. SegmentsInv' /\ at[p] \in Generations
    BY <1>2, SegmentsKept DEF Set, Labels
  <2>2. TypeOK'
    BY <1>2, <2>1 DEF Set, Step, TypeOK, Labels
  <2>3. pc[p] = "set" /\ pc' = [pc EXCEPT ![p] = to]
    BY <1>2 DEF Set, Step
  <2>4. UNCHANGED <<sharedStr, at>> /\ sharedInt' = [sharedInt EXCEPT ![at[p]] = n]
    BY <1>2 DEF Set
  <2>5. ASSUME NEW g \in Generations, sharedInt'[g] \in {2, 3} PROVE Written(g)'
    <3>1. CASE g = at[p] /\ p \in {"B", "C"}
      BY <2>3, <2>4, <3>1 DEF TextInv, Written
    <3>2. CASE g # at[p] \/ p = "A"
      <4>1. sharedInt[g] \in {2, 3}
        BY <1>2, <2>4, <2>5, <3>2 DEF TypeOK
      <4> QED
        BY <2>4, <4>1 DEF TextInv, Written
    <3> QED
      BY <3>1, <3>2 DEF Processes
  <2>6. TextInv'
    BY <2>3, <2>4, <2>5 DEF TextInv, Written, TypeOK, Processes
  <2>7. PrintedInv'
    BY <1>0, <1>2 DEF Set
  <2> QED
    BY <2>1, <2>2, <2>6, <2>7
<1>3. ASSUME NEW p \in Processes, NEW from \in {"poll", "poll3"}, NEW n \in 1..3,
             NEW to \in {"copy1", "print1", "print2"}, Poll(p, from, n, to),
             p = "A" => n \in {2, 3}, p # "A" => to = "copy1"
      PROVE  IInv'
  <2>1. SegmentsInv' /\ at[p] \in Generations
    BY <1>3, SegmentsKept DEF Poll, memory, Labels
  <2>2. TypeOK'
    BY <1>3 DEF Poll, memory, Step, TypeOK, Labels
  <2>3. pc[p] = from /\ pc' = [pc EXCEPT ![p] = to] /\ sharedInt[at[p]] = n
    BY <1>3 DEF Poll, Step
  <2>4. UNCHANGED <<sharedStr, at, sharedInt>>
    BY <1>3 DEF Poll, memory
  <2>5. p = "A" => Written(at["A"])
    BY <1>3, <2>1, <2>3 DEF TextInv
  <2>6. TextInv'
    BY <1>3, <2>3, <2>4, <2>5 DEF TextInv, Written, TypeOK, Processes
  <2>7. PrintedInv'
    BY <1>0, <1>3 DEF Poll
  <2> QED
    BY <2>1, <2>2, <2>6, <2>7
<1>4. ASSUME NEW p \in {"B", "C"}, NEW text \in Halves \ {""},
             NEW half \in {1, 2}, NEW from, NEW to, Copy(p, from, half, text, to),
             \/ half = 1 /\ from = "copy1" /\ to = "copy2"
             \/ half = 2 /\ from = "copy2" /\ to = "set"
      PROVE  IInv'
  <2>0. p \in Processes /\ from \in {"copy1", "copy2"} /\ to \in {"copy2", "set"}
    <3>1. half = 1 \/ half = 2
      OBVIOUS
    <3> QED
      BY <1>4, <3>1 DEF Processes
  <2>h. /\ half = 1 => to = "copy2"
        /\ half = 2 => from = "copy2" /\ to = "set"
    <3>0. 1 # 2
      BY OneIsNotTwo, Zenon
    <3>1. CASE half = 1 /\ from = "copy1" /\ to = "copy2"
      <4>1. half # 2
        BY <3>0, <3>1, Zenon
      <4> QED
        BY <3>1, <4>1
    <3>2. CASE half = 2 /\ from = "copy2" /\ to = "set"
      <4>1. half # 1
        BY <3>0, <3>2, Zenon
      <4> QED
        BY <3>2, <4>1
    <3> QED
      BY <1>4, <3>1, <3>2
  <2>1. SegmentsInv' /\ at[p] \in Generations
    BY <1>4, <2>0, SegmentsKept DEF Copy, Labels
  <2>2. /\ sharedStr' \in [Generations -> Halves \X Halves]
        /\ \A g \in Generations :
             /\ sharedStr[g][1] # "" => sharedStr'[g][1] # ""
             /\ sharedStr[g][2] # "" => sharedStr'[g][2] # ""
        /\ half = 1 => sharedStr'[at[p]][1] # ""
        /\ half = 2 => sharedStr'[at[p]][2] # ""
    <3>1. p \in Processes /\ TypeOK
      BY DEF Processes
    <3> QED
      BY <1>4, <2>1, <3>1, CopyWrites
  <2>3. /\ pc[p] = from
        /\ pc' = [pc EXCEPT ![p] = to]
        /\ UNCHANGED <<program, restarts>>
    BY <1>4 DEF Copy, Step
  <2>4. UNCHANGED <<live, created, sharedInt, at, printed>>
    BY <1>4 DEF Copy
  <2>5. TypeOK'
    <3>1. to \in Labels
      BY <2>0 DEF Labels
    <3> QED
      BY <2>2, <2>3, <2>4, <3>1 DEF TypeOK
  <2>6. ASSUME NEW g \in Generations, Written(g) PROVE Written(g)'
    BY <2>2, <2>6 DEF Written
  <2>7. half = 2 => Written(at[p])'
    <3>1. half = 2 => sharedStr[at[p]][1] # ""
      BY <2>h, <2>3 DEF TextInv
    <3> QED
      BY <2>1, <2>2, <2>4, <3>1 DEF Written
  <2>8. TextInv'
    <3>1. \A g \in Generations : sharedInt'[g] \in {2, 3} => Written(g)'
      BY <2>4, <2>6 DEF TextInv
    <3>2. ASSUME NEW q \in {"B", "C"}
          PROVE  /\ pc'[q] = "copy2" => sharedStr'[at'[q]][1] # ""
                 /\ pc'[q] = "set" => Written(at[q])'
      <4>1. CASE q = p
        <5>1. pc'[p] = to
          BY <2>3 DEF TypeOK, Processes
        <5>2. CASE half = 1
          <6>1. to = "copy2" /\ sharedStr'[at'[p]][1] # ""
            BY <2>h, <2>2, <2>4, <5>2
          <6> QED
            BY <4>1, <5>1, <6>1
        <5>3. CASE half = 2
          <6>1. to = "set" /\ Written(at[p])'
            BY <2>h, <2>7, <5>3
          <6> QED
            BY <4>1, <5>1, <6>1
        <5> QED
          BY <5>2, <5>3
      <4>2. CASE q # p
        <5>1. pc'[q] = pc[q] /\ at'[q] = at[q]
          BY <2>3, <2>4, <4>2 DEF TypeOK, Processes
        <5>2. pc[q] \in {"copy2", "set"} => at[q] \in Generations
          BY DEF TypeOK, SegmentsInv, Processes
        <5>3. pc[q] = "set" => Written(at[q])'
          BY <2>4, <2>6, <5>2 DEF TextInv, Written
        <5>4. pc[q] = "copy2" => sharedStr'[at[q]][1] # ""
          BY <2>2, <5>2 DEF TextInv
        <5> QED
          BY <5>1, <5>3, <5>4
      <4> QED
        BY <4>1, <4>2
    <3>3. pc'["A"] \in {"print1", "poll3", "print2"} => Written(at["A"])'
      <4>1. pc'["A"] = pc["A"] /\ at'["A"] = at["A"]
        BY <2>3, <2>4 DEF TypeOK, Processes
      <4>2. pc["A"] \in {"print1", "poll3", "print2"} => at["A"] \in Generations
        BY DEF TypeOK, SegmentsInv, Processes
      <4> QED
        BY <2>4, <2>6, <4>1, <4>2 DEF TextInv, Written
    <3> QED
      BY <3>1, <3>2, <3>3 DEF TextInv
  <2>9. PrintedInv'
    BY <1>0, <2>4
  <2> QED
    BY <2>1, <2>5, <2>8, <2>9
<1>5. ASSUME NEW n \in 1..2, NEW from \in {"print1", "print2"}, NEW to \in {"poll3", "exit"},
             PrintText(n, from, to)
      PROVE  IInv'
  <2>1. SegmentsInv' /\ at["A"] \in Generations
    BY <1>5, SegmentsKept DEF PrintText, memory, Labels, Processes
  <2>2. TypeOK'
    BY <1>5, <2>1 DEF PrintText, memory, Step, TypeOK, Labels
  <2>3. /\ pc["A"] = from /\ pc' = [pc EXCEPT !["A"] = to]
        /\ UNCHANGED <<sharedStr, at, sharedInt>>
    BY <1>5 DEF PrintText, memory, Step
  <2>4. TextInv'
    BY <2>3 DEF TextInv, Written, TypeOK, Processes
  <2>5. Written(at["A"])
    BY <2>3 DEF TextInv
  <2>6. printed' = [printed EXCEPT ![n] = sharedStr[at["A"]]]
    BY <1>5 DEF PrintText
  <2>7. PrintedInv'
    BY <2>5, <2>6 DEF PrintedInv, Written, TypeOK
  <2> QED
    BY <2>1, <2>2, <2>4, <2>7
<1>6. CASE Remove
  <2>1. TypeOK'
    BY <1>6 DEF Remove, Step, TypeOK, Labels
  <2>2. SegmentsInv'
    BY <1>6 DEF Remove, Step, TypeOK, SegmentsInv, Processes, Generations
  <2>3. TextInv'
    BY <1>6 DEF Remove, Step, TypeOK, TextInv, Written, Processes
  <2> QED
    BY <1>0, <1>6, <2>1, <2>2, <2>3 DEF Remove
<1>7. ASSUME NEW p \in {"B", "C"}, Detach(p) PROVE IInv'
  <2>1. SegmentsInv'
    BY <1>7, SegmentsKept DEF Detach, memory, Labels, Processes
  <2>2. TypeOK'
    BY <1>7 DEF Detach, memory, Step, TypeOK, Labels
  <2>3. TextInv'
    BY <1>7 DEF Detach, memory, Step, TypeOK, TextInv, Written, Processes
  <2> QED
    BY <1>0, <1>7, <2>1, <2>2, <2>3 DEF Detach
<1>8. CASE Restart
  <2>1. TypeOK'
    BY <1>8, ShmHandshakeAssumption DEF Restart, TypeOK, Labels
  <2>2. SegmentsInv'
    BY <1>8 DEF Restart, TypeOK, SegmentsInv, Processes, Generations
  <2>3. TextInv'
    BY <1>8 DEF Restart, TypeOK, TextInv, Written, Processes
  <2>4. printed' = [n \in 1..2 |-> <<>>]
    BY <1>8 DEF Restart
  <2>5. PrintedInv'
    BY <2>4 DEF PrintedInv
  <2> QED
    BY <2>1, <2>2, <2>3, <2>5
<1>9. CASE UNCHANGED vars
  BY <1>0, <1>9 DEF vars, TypeOK, SegmentsInv, TextInv, Written
<1> QED
  <2>1. CASE A
    BY <2>1, <1>1, <1>2, <1>3, <1>5, <1>6 DEF A, Processes
  <2>2. CASE B
    <3>1. CASE AttachB \/ Poll("B", "poll", 1, "copy1") \/ Set("B", 2, "exit") \/ Detach("B")
      BY <3>1, <1>1, <1>2, <1>3, <1>7 DEF Processes
    <3>2. CASE \/ Copy("B", "copy1", 1, "shared", "copy2")
               \/ Copy("B", "copy2", 2, "shared", "set")
      <4>1. "shared" \in Halves \ {""} /\ "B" \in {"B", "C"}
        BY DEF Halves
      <4>2. ASSUME Copy("B", "copy1", 1, "shared", "copy2") PROVE IInv'
        BY <4>1, <4>2, <1>4
      <4>3. ASSUME Copy("B", "copy2", 2, "shared", "set") PROVE IInv'
        BY <4>1, <4>3, <1>4
      <4> QED
        BY <3>2, <4>2, <4>3
    <3> QED
      BY <2>2, <3>1, <3>2 DEF B
  <2>3. CASE C
    <3>1. CASE AttachC \/ Poll("C", "poll", 2, "copy1") \/ Set("C", 3, "exit") \/ Detach("C")
      BY <3>1, <1>1, <1>2, <1>3, <1>7 DEF Processes
    <3>2. CASE \/ Copy("C", "copy1", 1, "memory", "copy2")
               \/ Copy("C", "copy2", 2, "memory", "set")
      <4>1. "memory" \in Halves \ {""} /\ "C" \in {"B", "C"}
        BY DEF Halves
      <4>2. ASSUME Copy("C", "copy1", 1, "memory", "copy2") PROVE IInv'
        BY <4>1, <4>2, <1>4
      <4>3. ASSUME Copy("C", "copy2", 2, "memory", "set") PROVE IInv'
        BY <4>1, <4>3, <1>4
      <4> QED
        BY <3>2, <4>2, <4>3
    <3> QED
      BY <2>3, <3>1, <3>2 DEF C
  <2> QED
    BY <2>1, <2>2, <2>3, <1>8, <1>9 DEF Next

LEMMA InitTurns == Init => FreshInv /\ TurnInv
<1> SUFFICES ASSUME Init PROVE FreshInv /\ TurnInv
  OBVIOUS
<1>1. pc = [p \in Processes |-> "attach"] /\ sharedInt = [g \in Generations |-> 0]
  BY DEF Init
<1>2. printed[2] = <<>>
  <2>1. printed = [n \in 1..2 |-> <<>>]
    BY DEF Init
  <2> QED
    BY <2>1
<1>3. /\ pc["A"] = "attach" /\ pc["B"] = "attach" /\ pc["C"] = "attach"
      /\ \A g \in Generations : sharedInt[g] = 0
  BY <1>1 DEF Processes
<1>4. FreshInv
  BY <1>2, <1>3 DEF FreshInv, BIsThrough, CIsThrough, CHasTurn
<1>5. TurnInv
  BY <1>3 DEF TurnInv, AHasSet
<1> QED
  BY <1>4, <1>5

LEMMA NextTurns ==
  ASSUME IInv, FreshInv, TurnInv, Next
  PROVE  FreshInv' /\ TurnInv'
<1> USE DEF IInv
<1>0. Fresh' => Fresh /\ ~Restart /\ program' = program
  <2>1. CASE Restart
    BY <2>1 DEF Restart, Fresh, TypeOK
  <2>2. CASE ~Restart
    BY <2>2 DEF Next, A, B, C, AttachA, AttachB, AttachC, Set, Poll, Copy, PrintText,
               Remove, Detach, Step, Fresh
  <2> QED
    BY <2>1, <2>2
<1> SUFFICES ASSUME Fresh' PROVE FreshInv' /\ TurnInv'
  BY DEF FreshInv, TurnInv, InTurns
<1>00. Fresh /\ InTurns' = InTurns
  BY <1>0 DEF InTurns
<1> USE DEF BIsThrough, CIsThrough, CHasTurn, AHasSet, Processes
<1>1. CASE AttachA \/ AttachB \/ AttachC
  <2>1. UNCHANGED <<sharedInt, sharedStr, printed>>
    BY <1>1 DEF AttachA, AttachB, AttachC, Attach
  <2>2. CASE AttachA
    <3>1. /\ pc["A"] = "attach" /\ pc'["A"] = "set"
          /\ \A q \in {"B", "C"} : pc'[q] = pc[q] /\ at'[q] = at[q]
      BY <2>2 DEF AttachA, Attach, Step, TypeOK
    <3> QED
      BY <1>00, <2>1, <3>1 DEF FreshInv, TurnInv
  <2>3. CASE AttachB
    <3>1. /\ pc["B"] = "attach"
          /\ pc'["B"] \in {"poll", "copy1", "crashed"} /\ (InTurns => pc'["B"] = "poll")
          /\ \A q \in {"A", "C"} : pc'[q] = pc[q] /\ at'[q] = at[q]
      BY <2>3 DEF AttachB, Attach, Step, TypeOK, InTurns
    <3> QED
      BY <1>00, <2>1, <3>1 DEF FreshInv, TurnInv
  <2>4. CASE AttachC
    <3>1. /\ pc["C"] = "attach" /\ pc'["C"] = "poll"
          /\ \A q \in {"A", "B"} : pc'[q] = pc[q] /\ at'[q] = at[q]
      BY <2>4 DEF AttachC, Attach, Step, TypeOK
    <3> QED
      BY <1>00, <2>1, <3>1 DEF FreshInv, TurnInv
  <2> QED
    BY <1>1, <2>2, <2>3, <2>4
<1>2. CASE Set("A", 1, "poll") \/ Set("B", 2, "exit") \/ Set("C", 3, "exit")
  <2>1. UNCHANGED <<sharedStr, at, printed>>
    BY <1>2 DEF Set
  <2>2. CASE Set("A", 1, "poll")
    <3>1. /\ pc["A"] = "set" /\ pc'["A"] = "poll"
          /\ pc'["B"] = pc["B"] /\ pc'["C"] = pc["C"]
          /\ \A g \in Generations : sharedInt'[g] = IF g = at["A"] THEN 1 ELSE sharedInt[g]
      BY <2>2 DEF Set, Step, TypeOK
    <3>2. FreshInv'
      BY <1>00, <2>1, <3>1 DEF FreshInv
    <3>3. TurnInv'
      BY <1>00, <2>1, <3>1 DEF TurnInv
    <3> QED
      BY <3>2, <3>3
  <2>3. CASE Set("B", 2, "exit")
    <3>1. /\ pc["B"] = "set" /\ pc'["B"] = "exit"
          /\ pc'["A"] = pc["A"] /\ pc'["C"] = pc["C"]
          /\ \A g \in Generations : sharedInt'[g] = IF g = at["B"] THEN 2 ELSE sharedInt[g]
      BY <2>3 DEF Set, Step, TypeOK
    <3>2. FreshInv'
      BY <1>00, <2>1, <3>1 DEF FreshInv
    <3>3. TurnInv'
      BY <1>00, <2>1, <3>1 DEF TurnInv
    <3> QED
      BY <3>2, <3>3
  <2>4. CASE Set("C", 3, "exit")
    <3>1. /\ pc["C"] = "set" /\ pc'["C"] = "exit"
          /\ pc'["A"] = pc["A"] /\ pc'["B"] = pc["B"]
          /\ \A g \in Generations : sharedInt'[g] = IF g = at["C"] THEN 3 ELSE sharedInt[g]
      BY <2>4 DEF Set, Step, TypeOK
    <3>2. FreshInv'
      BY <1>00, <2>1, <3>1 DEF FreshInv
    <3>3. TurnInv'
      <4>1. InTurns => at["A"] = at["C"] /\ AHasSet
        BY <3>1 DEF FreshInv, TurnInv, InTurns
      <4> QED
        BY <1>00, <2>1, <3>1, <4>1 DEF TurnInv
    <3> QED
      BY <3>2, <3>3
  <2> QED
    BY <1>2, <2>2, <2>3, <2>4
<1>3. CASE \/ Poll("A", "poll", 2, "print1") \/ Poll("A", "poll3", 3, "print2")
           \/ Poll("B", "poll", 1, "copy1") \/ Poll("C", "poll", 2, "copy1")
  <2>1. UNCHANGED <<sharedInt, sharedStr, at, printed>>
    BY <1>3 DEF Poll, memory
  <2>2. CASE Poll("A", "poll", 2, "print1") \/ Poll("A", "poll3", 3, "print2")
    <3>1. /\ pc["A"] \in {"poll", "poll3"} /\ pc'["A"] \in {"print1", "print2"}
          /\ pc'["A"] = "print2" => sharedInt[at["A"]] = 3 /\ at["A"] \in Generations
          /\ pc'["B"] = pc["B"] /\ pc'["C"] = pc["C"]
      BY <2>2 DEF Poll, Step, TypeOK, SegmentsInv
    <3> QED
      BY <1>00, <2>1, <3>1 DEF FreshInv, TurnInv
  <2>3. CASE Poll("B", "poll", 1, "copy1")
    <3>1. /\ pc["B"] = "poll" /\ pc'["B"] = "copy1"
          /\ sharedInt[at["B"]] = 1 /\ at["B"] \in Generations
          /\ pc'["A"] = pc["A"] /\ pc'["C"] = pc["C"]
      BY <2>3 DEF Poll, Step, TypeOK, SegmentsInv
    <3> QED
      BY <1>00, <2>1, <3>1 DEF FreshInv, TurnInv
  <2>4. CASE Poll("C", "poll", 2, "copy1")
    <3>1. /\ pc["C"] = "poll" /\ pc'["C"] = "copy1"
          /\ sharedInt[at["C"]] = 2 /\ at["C"] \in Generations
          /\ pc'["A"] = pc["A"] /\ pc'["B"] = pc["B"]
      BY <2>4 DEF Poll, Step, TypeOK, SegmentsInv
    <3> QED
      BY <1>00, <2>1, <3>1 DEF FreshInv, TurnInv
  <2> QED
    BY <1>3, <2>2, <2>3, <2>4
<1>4. CASE \/ Copy("B", "copy1", 1, "shared", "copy2")
           \/ Copy("B", "copy2", 2, "shared", "set")
  <2>1. UNCHANGED <<sharedInt, at, printed>>
    BY <1>4 DEF Copy
  <2>2. /\ pc["B"] \in {"copy1", "copy2"} /\ pc'["B"] \in {"copy2", "set"}
        /\ pc'["A"] = pc["A"] /\ pc'["C"] = pc["C"]
    BY <1>4 DEF Copy, Step, TypeOK
  <2> QED
    BY <1>00, <2>1, <2>2 DEF FreshInv, TurnInv
<1>5. CASE \/ Copy("C", "copy1", 1, "memory", "copy2")
           \/ Copy("C", "copy2", 2, "memory", "set")
  <2>1. UNCHANGED <<sharedInt, at, printed>>
    BY <1>5 DEF Copy
  <2>2. /\ pc["C"] \in {"copy1", "copy2"} /\ pc'["C"] \in {"copy2", "set"}
        /\ pc'["A"] = pc["A"] /\ pc'["B"] = pc["B"]
    BY <1>5 DEF Copy, Step, TypeOK
  <2>3. /\ at["C"] \in Generations
        /\ sharedStr[at["C"]] \in Halves \X Halves
        /\ "memory" \in Halves
    BY <2>2 DEF TypeOK, SegmentsInv, Halves
  <2>4. pc'["C"] = "copy2" => sharedStr'[at["C"]][1] = "memory"
    <3>1. CASE Copy("C", "copy1", 1, "memory", "copy2")
      <4>1. sharedStr' = [sharedStr EXCEPT ![at["C"]] =
                            [sharedStr[at["C"]] EXCEPT ![1] = "memory"]]
        BY <3>1 DEF Copy
      <4>2. sharedStr'[at["C"]] = <<"memory", sharedStr[at["C"]][2]>>
        BY <2>3, <4>1, Halved DEF TypeOK
      <4> QED
        BY <4>2
    <3>2. CASE Copy("C", "copy2", 2, "memory", "set")
      BY <3>2 DEF Copy, Step, TypeOK
    <3> QED
      BY <1>5, <3>1, <3>2
  <2>5. pc'["C"] = "set" => sharedStr'[at["C"]] = Memory
    <3>1. CASE Copy("C", "copy1", 1, "memory", "copy2")
      BY <3>1 DEF Copy, Step, TypeOK
    <3>2. CASE Copy("C", "copy2", 2, "memory", "set")
      <4>1. sharedStr' = [sharedStr EXCEPT ![at["C"]] =
                            [sharedStr[at["C"]] EXCEPT ![2] = "memory"]]
        BY <3>2 DEF Copy
      <4>2. sharedStr'[at["C"]] = <<sharedStr[at["C"]][1], "memory">>
        BY <2>3, <4>1, Halved DEF TypeOK
      <4>3. sharedStr[at["C"]][1] = "memory"
        BY <1>00, <3>2 DEF FreshInv, Copy, Step
      <4> QED
        BY <4>2, <4>3 DEF Memory
    <3> QED
      BY <1>5, <3>1, <3>2
  <2> QED
    BY <1>00, <2>1, <2>2, <2>4, <2>5 DEF FreshInv, TurnInv
<1>6. CASE PrintText(1, "print1", "poll3") \/ PrintText(2, "print2", "exit")
  <2>1. UNCHANGED <<sharedInt, sharedStr, at>>
    BY <1>6 DEF PrintText, memory
  <2>2. /\ pc["A"] \in {"print1", "print2"} /\ pc'["A"] \in {"poll3", "exit"}
        /\ pc'["B"] = pc["B"] /\ pc'["C"] = pc["C"]
    BY <1>6 DEF PrintText, Step, TypeOK
  <2>3. \/ printed'[2] = printed[2]
        \/ printed'[2] = sharedStr[at["A"]] /\ pc["A"] = "print2"
    BY <1>6 DEF PrintText, Step, TypeOK
  <2> QED
    BY <1>00, <2>1, <2>2, <2>3 DEF FreshInv, TurnInv
<1>7. CASE Remove \/ Detach("B") \/ Detach("C")
  <2>1. UNCHANGED <<sharedInt, sharedStr, at, printed>>
    BY <1>7 DEF Remove, Detach, memory
  <2>2. /\ pc'["A"] = pc["A"] \/ (pc["A"] = "exit" /\ pc'["A"] = "done")
        /\ pc'["B"] = pc["B"] \/ (pc["B"] = "exit" /\ pc'["B"] = "done")
        /\ pc'["C"] = pc["C"] \/ (pc["C"] = "exit" /\ pc'["C"] = "done")
    BY <1>7 DEF Remove, Detach, Step, TypeOK
  <2>3. FreshInv'
    <3>1. /\ BIsThrough' = BIsThrough /\ CIsThrough' = CIsThrough
          /\ pc'["A"] = "print2" => pc["A"] = "print2"
          /\ \A l \in {"copy1", "copy2", "set"} : pc'["C"] = l => pc["C"] = l
      BY <2>2
    <3> HIDE DEF BIsThrough, CIsThrough
    <3> QED
      BY <1>00, <2>1, <3>1 DEF FreshInv
  <2>4. TurnInv'
    <3>1. /\ AHasSet => AHasSet'
          /\ pc["B"] \in {"attach", "poll"} => pc'["B"] \in {"attach", "poll"}
      BY <2>2
    <3> HIDE DEF AHasSet
    <3> QED
      BY <1>00, <2>1, <3>1 DEF TurnInv
  <2> QED
    BY <2>3, <2>4
<1> QED
  BY <1>0, <1>1, <1>2, <1>3, <1>4, <1>5, <1>6, <1>7 DEF Next, A, B, C

(* The invariant of the three programs.                                    *)
THEOREM HandshakeInv == Spec => [](IInv /\ FreshInv /\ TurnInv)
<1>1. Init => IInv /\ FreshInv /\ TurnInv
  BY InitIInv, InitTurns
<1>2. IInv /\ FreshInv /\ TurnInv /\ [Next]_vars => (IInv /\ FreshInv /\ TurnInv)'
  <2> SUFFICES ASSUME IInv, FreshInv, TurnInv, [Next]_vars
               PROVE  FreshInv' /\ TurnInv'
    BY NextIInv
  <2>1. CASE Next
    BY <2>1, NextTurns
  <2>2. CASE UNCHANGED vars
    <3>1. FreshInv'
      BY <2>2 DEF vars, FreshInv, Fresh, BIsThrough, CIsThrough, CHasTurn
    <3>2. TurnInv'
      BY <2>2 DEF vars, TurnInv, InTurns, Fresh, AHasSet
    <3> QED
      BY <3>1, <3>2
  <2> QED
    BY <2>1, <2>2
<1> QED
  BY <1>1, <1>2, PTL DEF Spec

(* A never prints an unfinished text, whatever killed runs have left, and  *)
(* without one its second text is C's.                                     *)
THEOREM PrintsFinishedText == Spec => []LinesAreWritten
<1>1. IInv /\ FreshInv => LinesAreWritten
  <2> SUFFICES ASSUME IInv, FreshInv PROVE LinesAreWritten
    OBVIOUS
  <2>1. ASSUME NEW n \in 1..2, printed[n] # <<>>, NEW h \in 1..2
        PROVE  printed[n][h] # ""
    <3>1. printed[n][1] # "" /\ printed[n][2] # ""
      BY <2>1 DEF IInv, PrintedInv
    <3>2. h = 1 \/ h = 2
      OBVIOUS
    <3> QED
      BY <3>1, <3>2, Zenon
  <2>2. Fresh /\ printed[2] # <<>> => printed[2] = <<"memory", "memory">>
    BY DEF FreshInv, Memory
  <2> QED
    BY <2>1, <2>2 DEF LinesAreWritten
<1> QED
  BY <1>1, HandshakeInv, PTL

(* The integer that says whose turn it is only grows, in a run that waits  *)
(* its turns and met no segments of a killed one.                          *)
THEOREM TurnsGoForward == Spec => TurnNeverGoesBack
<1>1. ASSUME IInv, FreshInv, TurnInv, [Next]_vars
      PROVE  [InTurns => \A g \in Generations : sharedInt'[g] >= sharedInt[g]]_sharedInt
  <2> SUFFICES ASSUME sharedInt' # sharedInt, InTurns, NEW g \in Generations
               PROVE  sharedInt'[g] >= sharedInt[g]
    OBVIOUS
  <2>1. Set("A", 1, "poll") \/ Set("B", 2, "exit") \/ Set("C", 3, "exit")
    BY <1>1 DEF Next, vars, A, B, C, Restart, AttachA, AttachB, AttachC, Attach,
                Poll, Copy, PrintText, Remove, Detach, memory
  <2>2. sharedInt \in [Generations -> 0..3] /\ Fresh
    BY <1>1 DEF IInv, TypeOK, InTurns
  <2>3. CASE Set("A", 1, "poll")
    <3>1. pc["A"] = "set" /\ sharedInt'[g] \in {1, sharedInt[g]}
      BY <2>2, <2>3 DEF Set, Step
    <3>2. ~AHasSet
      BY <3>1 DEF AHasSet
    <3>3. ~(sharedInt[g] >= 1)
      BY <1>1, <3>2 DEF TurnInv
    <3> QED
      BY <2>2, <3>1, <3>3
  <2>4. CASE Set("B", 2, "exit")
    <3>1. pc["B"] = "set" /\ sharedInt'[g] \in {2, sharedInt[g]}
      BY <2>2, <2>4 DEF Set, Step
    <3>2. ~BIsThrough
      BY <3>1 DEF BIsThrough
    <3>3. sharedInt[g] # 3
      BY <1>1, <2>2, <3>2 DEF FreshInv, CHasTurn
    <3> QED
      BY <2>2, <3>1, <3>3
  <2>5. CASE Set("C", 3, "exit")
    BY <2>2, <2>5 DEF Set
  <2> QED
    BY <2>1, <2>3, <2>4, <2>5
<1> QED
  BY <1>1, HandshakeInv, PTL DEF Spec, TurnNeverGoesBack

-----------------------------------------------------------------------------
(* The programs that fork.                                                 *)

(* The statement of main in the parent, and in its child.                  *)
AtMain == stmt[Parent][Main]
AtChild == stmt[Main][Main]

(* Which program has which statements.                                     *)
FileOfStmt ==
  /\ AtMain = "create" => file \in ThreadPrograms
  /\ AtMain = "fork" => file # "fork-example-new.c"
  /\ AtMain = "join" => file \in ThreadPrograms
  /\ AtMain \in {"open", "sem_wait", "close", "unlink"} => file = "test.c"
  /\ AtChild \in {"open", "print", "post"} => file = "test.c"
  /\ \A w \in Workers :
       /\ stmt[Parent][w] \in {"none", "work", "ending", "done", "fork", "waitpid"}
       /\ stmt[Parent][w] # "none" => file \in ThreadPrograms
       /\ stmt[Parent][w] \in {"fork", "waitpid"} => file = "fork-example-new.c"

(* A child has the one thread that forked it, and a process that ended has *)
(* none.                                                                   *)
OneThread ==
  /\ \A c \in Children, t \in Threads :
       stmt[c][t] # "none" => c = t /\ status[c] = "running"
  /\ status[Parent] \in {"running", "exited"}
  /\ Ended => \A t \in Threads : stmt[Parent][t] = "none"
  /\ ~Ended => AtMain # "none"

(* Where a thread of the parent is tells what became of its child.         *)
ChildOfThread ==
  /\ \A t \in Threads :
       /\ stmt[Parent][t] \in {"create", "fork"} => status[t] = "unborn"
       /\ stmt[Parent][t] = "join" => status[t] # "reaped"
       /\ stmt[Parent][t] \in {"waitpid", "open", "sem_wait", "close", "unlink"} =>
            status[t] \in {"running", "exited"}
       /\ stmt[Parent][t] \in {"work", "ending", "done", "exit", "none"} =>
            status[t] \in {"unborn", "reaped"}
  /\ file = "fork-example-new.c" => status[Main] = "unborn"

NotCreated(w) == AtMain = "create" /\ w >= i[Parent]

(* What the threads have done by the time main joins them.                 *)
Worked ==
  /\ \A w \in Workers :
       /\ NotCreated(w) => stmt[Parent][w] = "none" /\ status[w] = "unborn"
       /\ stmt[Parent][w] \in {"ending", "done"} => out[Parent][w] = 1
       /\ NotCreated(w) \/ stmt[Parent][w] \in {"fork", "waitpid", "work"} =>
            out[Parent][w] # 1
  /\ AtMain = "fork" /\ file \in ThreadPrograms => i[Parent] = 0
  /\ AtMain = "join" =>
       \A w \in Workers : w < i[Parent] => stmt[Parent][w] = "done"
  /\ AtMain \in {"waitpid", "exit"} /\ file \in ThreadPrograms =>
       \A w \in Workers : stmt[Parent][w] = "done"
  /\ Ended /\ file \in ThreadPrograms =>
       \A w \in Workers : out[Parent][w] = 1

(* test.c, in a run that is not disturbed: the permit is the child's, who  *)
(* has then printed and will not open the semaphore any more; and it is    *)
(* gone, with the name, once the parent waits for the child's end.         *)
Handshake ==
  file = "test.c" /\ ~disturbed =>
    /\ AtMain = "fork" => shared = Absent
    /\ AtChild = "post" => childPrinted
    /\ shared > 0 \/ AtMain \in {"close", "unlink", "waitpid"} =>
         childPrinted /\ AtChild \in {"exit", "none"}
    /\ AtMain \in {"waitpid", "exit", "none"} => shared = Absent

ForkInv ==
  ForkTypeOK /\ FileOfStmt /\ OneThread /\ ChildOfThread /\ Worked /\ Handshake /\ ChildSeesThePast

LEMMA ForkNames ==
  ASSUME ForkProgramsAssumption
  PROVE  /\ Main \in Threads /\ Parent \in Procs /\ Main \in Procs
         /\ Main \notin Workers /\ Parent \notin Threads /\ Parent # Main
         /\ Workers \subseteq Threads /\ Threads \subseteq Procs
         /\ Children = Threads /\ Procs = Threads \cup {Parent}
         /\ Threads = Workers \cup {Main}
         /\ Workers = 0..N - 1 /\ N \in Nat
BY DEF ForkProgramsAssumption, Main, Threads, Workers, Parent, Procs, Children

LEMMA StartStmt ==
  ASSUME NEW p \in Procs, NEW t \in Threads
  PROVE  StmtAtStart[p][t] =
           IF p = Parent /\ t = Main
             THEN IF file \in ThreadPrograms THEN "create" ELSE "fork"
             ELSE "none"
BY DEF StmtAtStart

Statements ==
  {"none", "create", "work", "ending", "done", "join", "stuck", "fork", "exec",
   "exit", "waitpid", "open", "sem_wait", "close", "unlink", "print", "post"}

LEMMA StartStmtType == StmtAtStart \in [Procs -> [Threads -> Statements]]
BY DEF StmtAtStart, Statements

LEMMA ForkStarts ==
  ASSUME ForkInit
  PROVE  ForkInv
<1> USE ForkProgramsAssumption, ForkNames
<1>0. /\ stmt = StmtAtStart
      /\ \A p \in Procs, t \in Threads :
           stmt[p][t] = IF p = Parent /\ t = Main
                        THEN IF file \in ThreadPrograms THEN "create" ELSE "fork"
                        ELSE "none"
  BY StartStmt DEF ForkInit
<1>1. ForkTypeOK
  <2>1. stmt \in [Procs -> [Threads -> Statements]]
    BY <1>0, StartStmtType
  <2>2. out \in [Procs -> [Workers -> {-1, 1}]] /\ shared \in Int
    BY DEF ForkInit, Absent
  <2>3. i \in [Procs -> 0..N]
    BY DEF ForkInit
  <2>4. /\ status \in [Procs -> {"unborn", "running", "exited", "reaped"}]
        /\ holds \in [Procs -> {"none", "named", "unlinked", "failed"}]
    BY DEF ForkInit, StatusAtStart, HoldsAtStart
  <2> QED
    BY <2>1, <2>2, <2>3, <2>4 DEF Statements, ForkInit, ForkTypeOK, ThreadPrograms
<1>2. FileOfStmt
  BY <1>0 DEF ForkInit, FileOfStmt, ThreadPrograms, AtMain, AtChild
<1>3. OneThread
  BY <1>0 DEF ForkInit, OneThread, StatusAtStart, AtMain, Ended
<1>4. ChildOfThread
  BY <1>0 DEF ForkInit, ChildOfThread, StatusAtStart
<1>5. Worked
  BY <1>0 DEF ForkInit, Worked, NotCreated, StatusAtStart, ThreadPrograms, AtMain, Ended
<1>6. Handshake
  BY <1>0 DEF ForkInit, Handshake, ThreadPrograms, AtMain, AtChild, Absent
<1>7. ChildSeesThePast
  BY DEF ForkInit, ChildSeesThePast
<1> QED
  BY <1>1, <1>2, <1>3, <1>4, <1>5, <1>6, <1>7 DEF ForkInv

LEMMA ForkSteps ==
  ASSUME ForkInv, [ForkNext]_forkVars
  PROVE  ForkInv'
<1> USE ForkProgramsAssumption, ForkNames
<1> USE DEF ForkInv, ForkTypeOK, FileOfStmt, OneThread, ChildOfThread, Worked, NotCreated,
            Handshake, ChildSeesThePast, AtMain, AtChild, Ended, ThreadPrograms,
            Absent, At, Goto, unchangedButStmt
<1>1. ASSUME NEW w \in Workers, Work(w) PROVE ForkInv'
  BY <1>1 DEF Work
<1>2. ASSUME NEW w \in Workers, EndThread(w) PROVE ForkInv'
  BY <1>2 DEF EndThread
<1>3. CASE CreateThreads
  <2>1. CASE i[Parent] < N
    <3>1. i[Parent] \in Workers
      BY <2>1
    <3>2. \A p \in Procs, t \in Threads :
            stmt'[p][t] = IF p = Parent /\ t = i[Parent]
                          THEN IF file = "fork-example.c" THEN "work" ELSE "fork"
                          ELSE stmt[p][t]
      BY <1>3, <2>1, <3>1 DEF CreateThreads
    <3>3. /\ AtMain = "create" /\ AtMain' = "create"
          /\ i' = [i EXCEPT ![Parent] = @ + 1]
          /\ UNCHANGED <<file, status, out, shared, holds, childPrinted, runs, disturbed>>
      BY <1>3, <2>1, <3>1, <3>2 DEF CreateThreads
    <3>4. stmt' = [stmt EXCEPT ![Parent][i[Parent]] =
                   IF file = "fork-example.c" THEN "work" ELSE "fork"]
      BY <1>3, <2>1 DEF CreateThreads
    <3>5. NotCreated(i[Parent]) /\ i[Parent] \in Threads
      BY <3>1, <3>3
    <3>6. \A w \in Workers : NotCreated(w)' => NotCreated(w) /\ w # i[Parent]
      BY <3>1, <3>3
    <3>7. \A p \in Procs : p # Parent => stmt'[p] = stmt[p]
      BY <3>4
    <3>11. ForkTypeOK'
      BY <2>1, <3>1, <3>3, <3>4
    <3>12. FileOfStmt'
      BY <2>1, <3>1, <3>2, <3>3, <3>5, <3>6, <3>7
    <3>8. /\ \A c \in Children : stmt'[c] = stmt[c]
          /\ status' = status
      BY <3>3, <3>7
    <3>13. OneThread'
      <4>1. ~Ended /\ ~(Ended')
        BY <3>3
      <4> QED
        BY <3>3, <3>8, <4>1
    <3>14. ChildOfThread'
      <4>1. /\ status[i[Parent]] = "unborn"
            /\ \A t \in Threads :
                 \/ stmt'[Parent][t] = stmt[Parent][t]
                 \/ t = i[Parent] /\ stmt'[Parent][t] \in {"work", "fork"}
        BY <3>2, <3>5
      <4> QED
        BY <3>3, <3>8, <4>1
    <3>15. Worked'
      BY <2>1, <3>1, <3>2, <3>3, <3>5, <3>6, <3>7
    <3>16. Handshake'
      BY <2>1, <3>1, <3>2, <3>3, <3>5, <3>6, <3>7
    <3>17. ChildSeesThePast'
      BY <2>1, <3>1, <3>2, <3>3, <3>5, <3>6, <3>7
    <3> QED
      BY <3>11, <3>12, <3>13, <3>14, <3>15, <3>16, <3>17
  <2>2. CASE ~(i[Parent] < N)
    <3>1. i[Parent] = N
      BY <2>2
    <3>2. AtMain = "create" /\ ~Ended
      BY <1>3 DEF CreateThreads
    <3>3. \A w \in Workers : ~NotCreated(w)
      BY <3>1
    <3>4. PICK to \in {"fork", "join"} :
            /\ to = "fork" => file = "fork-example.c"
            /\ to = "join" => file = "fork-example-new.c"
            /\ stmt' = [stmt EXCEPT ![Parent][Main] = to]
      BY <1>3, <2>2 DEF CreateThreads
    <3>5. /\ i' = [i EXCEPT ![Parent] = 0]
          /\ UNCHANGED <<file, status, out, shared, holds, childPrinted, runs, disturbed>>
      BY <1>3, <2>2 DEF CreateThreads
    <3>11. ForkTypeOK'
      BY <3>2, <3>3, <3>4, <3>5
    <3>12. FileOfStmt'
      BY <3>2, <3>3, <3>4, <3>5
    <3>13. OneThread'
      BY <3>2, <3>3, <3>4, <3>5
    <3>14. ChildOfThread'
      BY <3>2, <3>3, <3>4, <3>5
    <3>15. Worked'
      BY <3>2, <3>3, <3>4, <3>5
    <3>16. Handshake'
      BY <3>2, <3>3, <3>4, <3>5
    <3>17. ChildSeesThePast'
      BY <3>2, <3>3, <3>4, <3>5
    <3> QED
      BY <3>11, <3>12, <3>13, <3>14, <3>15, <3>16, <3>17
  <2> QED
    BY <2>1, <2>2
<1>4. CASE Join
  BY <1>4 DEF Join, Joined
<1>5. CASE SemWait
  BY <1>5 DEF SemWait
<1>6. CASE SemClose
  BY <1>6 DEF SemClose
<1>7. CASE SemUnlink
  BY <1>7 DEF SemUnlink
<1>8. ASSUME NEW t \in Threads, Fork(t) PROVE ForkInv'
  <2>1. /\ ParentGoesTo \in {"join", "open", "waitpid"}
        /\ file = "fork-example.c" => ParentGoesTo = "join"
        /\ file = "test.c" => ParentGoesTo = "open"
        /\ file \notin {"fork-example.c", "test.c"} => ParentGoesTo = "waitpid"
    BY DEF ParentGoesTo
  <2>2. /\ ChildGoesTo \in {"join", "exit", "exec", "open"}
        /\ file # "test.c" => ChildGoesTo # "open"
        /\ file = "test.c" => ChildGoesTo = "open"
    BY DEF ChildGoesTo
  <2>3. /\ stmt[Parent][t] = "fork"
        /\ \A p \in Procs, u \in Threads :
             stmt'[p][u] = IF u = t /\ p = Parent THEN ParentGoesTo
                         ELSE IF u = t /\ p = t THEN ChildGoesTo
                         ELSE stmt[p][u]
    BY <1>8 DEF Fork
  <2>4. /\ status' = [status EXCEPT ![t] = "running"]
        /\ out' = [out EXCEPT ![t] = out[Parent]]
        /\ UNCHANGED <<file, i, shared, holds, childPrinted, runs, disturbed>>
    BY <1>8 DEF Fork
  <2>5. stmt' = [stmt EXCEPT ![Parent][t] = ParentGoesTo, ![t][t] = ChildGoesTo]
    BY <1>8 DEF Fork
  <2>6. status[t] = "unborn" /\ t # Parent /\ t \in Procs
    BY <2>3
  <2>7. \/ t = Main
        \/ t \in Workers /\ file = "fork-example-new.c" /\ AtMain' = AtMain
    BY <2>3
  <2>11. ForkTypeOK'
    <3>1. stmt \in [Procs -> [Threads -> Statements]]
          /\ ParentGoesTo \in Statements /\ ChildGoesTo \in Statements
      BY <2>1, <2>2 DEF Statements
    <3>2. stmt' \in [Procs -> [Threads -> Statements]]
      <4> HIDE DEF ForkInv, ForkTypeOK, FileOfStmt, OneThread, ChildOfThread, Worked, Handshake,
                   ChildSeesThePast
      <4> QED
        BY <2>5, <2>6, <3>1
    <3>3. status' \in [Procs -> {"unborn", "running", "exited", "reaped"}]
          /\ out' \in [Procs -> [Workers -> {-1, 1}]]
      BY <2>4, <2>6
    <3> QED
      BY <2>4, <3>2, <3>3 DEF Statements
  <2>12. FileOfStmt'
    <3>1. \A w \in Workers :
            /\ stmt'[Parent][w] = IF w = t THEN ParentGoesTo ELSE stmt[Parent][w]
            /\ w = t => file = "fork-example-new.c"
      BY <2>3, <2>7
    <3>2. \A w \in Workers :
            /\ stmt'[Parent][w] \in {"none", "work", "ending", "done", "fork", "waitpid"}
            /\ stmt'[Parent][w] # "none" => file \in ThreadPrograms
            /\ stmt'[Parent][w] \in {"fork", "waitpid"} => file = "fork-example-new.c"
      BY <2>1, <3>1
    <3>3. /\ AtMain' = IF t = Main THEN ParentGoesTo ELSE AtMain
          /\ AtChild' = IF t = Main THEN ChildGoesTo ELSE AtChild
      BY <2>3
    <3>4. /\ AtMain' = "create" => file \in ThreadPrograms
          /\ AtMain' = "fork" => file # "fork-example-new.c"
          /\ AtMain' = "join" => file \in ThreadPrograms
          /\ AtMain' \in {"open", "sem_wait", "close", "unlink"} => file = "test.c"
          /\ AtChild' \in {"open", "print", "post"} => file = "test.c"
      BY <2>1, <2>2, <3>3
    <3> QED
      BY <2>4, <3>2, <3>4
  <2>13. OneThread'
    <3>1. \A c \in Children, u \in Threads :
            stmt'[c][u] = IF c = t /\ u = t THEN ChildGoesTo ELSE stmt[c][u]
      BY <2>3, <2>6
    <3>2. \A c \in Procs : status'[c] = IF c = t THEN "running" ELSE status[c]
      BY <2>4, <2>6
    <3>3. AtMain' = IF t = Main THEN ParentGoesTo ELSE AtMain
      BY <2>3
    <3> QED
      BY <2>1, <2>3, <2>6, <3>1, <3>2, <3>3
  <2>14. ChildOfThread'
    BY <2>1, <2>2, <2>3, <2>4
  <2>15. Worked'
    <3>1. /\ out'[Parent] = out[Parent]
          /\ \A c \in Procs : status'[c] = IF c = t THEN "running" ELSE status[c]
      BY <2>4, <2>6
    <3>2. CASE t = Main
      BY <2>1, <2>3, <2>4, <2>6, <3>1, <3>2
    <3>3. CASE t # Main
      <4>1. t \in Workers /\ ~NotCreated(t) /\ ~Ended /\ ~(Ended')
        BY <2>3, <2>4, <2>7, <3>3
      <4>2. /\ file = "fork-example-new.c" /\ AtMain' = AtMain
            /\ \A u \in Workers :
                 stmt'[Parent][u] = IF u = t THEN "waitpid" ELSE stmt[Parent][u]
        BY <2>1, <2>3, <2>7, <3>3, <4>1
      <4>3. ASSUME NEW u \in Workers
            PROVE  /\ NotCreated(u)' => stmt'[Parent][u] = "none" /\ status'[u] = "unborn"
                   /\ stmt'[Parent][u] \in {"ending", "done"} => out'[Parent][u] = 1
                   /\ NotCreated(u)' \/ stmt'[Parent][u] \in {"fork", "waitpid", "work"} =>
                        out'[Parent][u] # 1
        <5>1. NotCreated(u)' <=> NotCreated(u)
          BY <2>4, <4>2
        <5>2. u \in Procs /\ status'[u] = IF u = t THEN "running" ELSE status[u]
          BY <3>1
        <5>3. CASE u = t
          BY <2>3, <3>1, <4>1, <4>2, <5>1, <5>2, <5>3
        <5>4. CASE u # t
          BY <3>1, <4>2, <5>1, <5>2, <5>4
        <5> QED
          BY <5>3, <5>4
      <4>4. AtMain \notin {"fork", "waitpid", "exit"}
        BY <2>3, <4>1, <4>2
      <4>5. AtMain = "join" =>
              \A w \in Workers : w < i'[Parent] => stmt'[Parent][w] = "done"
        BY <2>3, <2>4, <4>1, <4>2
      <4> QED
        BY <2>4, <4>1, <4>2, <4>3, <4>4, <4>5
    <3> QED
      BY <3>2, <3>3
  <2>16. Handshake'
    <3> SUFFICES ASSUME file = "test.c", ~disturbed PROVE Handshake'
      BY <2>4
    <3>1. t = Main /\ AtMain = "fork" /\ shared = Absent
      BY <2>3, <2>7
    <3>2. AtMain' = "open" /\ AtChild' = "open"
      BY <2>1, <2>2, <2>3, <3>1
    <3> QED
      BY <2>4, <3>1, <3>2
  <2>17. ChildSeesThePast'
    BY <2>1, <2>2, <2>3, <2>4
  <2> QED
    BY <2>11, <2>12, <2>13, <2>14, <2>15, <2>16, <2>17
<1>9. ASSUME NEW t \in Threads, ForkFails(t) PROVE ForkInv'
  <2>1. PICK to \in {"join", "work", "exit"} :
          /\ file = "fork-example.c" => to = "join"
          /\ file = "fork-example-new.c" => to = "work"
          /\ file \notin ThreadPrograms => to = "exit"
          /\ stmt' = [stmt EXCEPT ![Parent][t] = to]
    <3>1. CASE file = "fork-example.c"
      BY <1>9, <3>1 DEF ForkFails
    <3>2. CASE file = "fork-example-new.c"
      BY <1>9, <3>2 DEF ForkFails
    <3>3. CASE file \notin ThreadPrograms
      BY <1>9, <3>3 DEF ForkFails
    <3> QED
      BY <3>1, <3>2, <3>3
  <2>2. /\ stmt[Parent][t] = "fork"
        /\ UNCHANGED <<file, status, i, out, shared, holds, childPrinted, runs, disturbed>>
    BY <1>9 DEF ForkFails
  <2>11. ForkTypeOK'
    BY <2>1, <2>2
  <2>12. FileOfStmt'
    BY <2>1, <2>2
  <2>13. OneThread'
    BY <2>1, <2>2
  <2>14. ChildOfThread'
    BY <2>1, <2>2
  <2>15. Worked'
    <3>1. CASE t = Main
      BY <2>1, <2>2, <3>1
    <3>2. CASE t # Main
      <4>1. t \in Workers /\ to = "work" /\ AtMain' = AtMain /\ ~NotCreated(t)
        BY <2>1, <2>2, <3>2
      <4>2. \A u \in Workers : stmt'[Parent][u] = IF u = t THEN "work" ELSE stmt[Parent][u]
        BY <2>1, <4>1
      <4> QED
        BY <2>2, <4>1, <4>2
    <3> QED
      BY <3>1, <3>2
  <2>16. Handshake'
    BY <2>1, <2>2
  <2>17. ChildSeesThePast'
    BY <2>1, <2>2
  <2> QED
    BY <2>11, <2>12, <2>13, <2>14, <2>15, <2>16, <2>17
<1>10. ASSUME NEW t \in Threads, WaitPid(t) PROVE ForkInv'
  BY <1>10 DEF WaitPid
<1>11. CASE JoinNobody
  <2>1. CASE Joined(Main)
    BY <2>1 DEF Joined
  <2>2. CASE ~Joined(Main)
    <3>1. /\ AtChild = "join"
          /\ stmt' = [stmt EXCEPT ![Main][Main] = "stuck"]
          /\ UNCHANGED <<file, status, i, out, shared, holds, childPrinted, runs, disturbed>>
      BY <1>11, <2>2 DEF JoinNobody
    <3> QED
      BY <3>1
  <2> QED
    BY <2>1, <2>2
<1>12. CASE Exec
  BY <1>12 DEF Exec
<1>13. CASE ChildPrints
  BY <1>13 DEF ChildPrints
<1>14. CASE SemPost
  BY <1>14 DEF SemPost
<1>15. ASSUME NEW p \in {Parent, Main}, AllJoined(p) PROVE ForkInv'
  BY <1>15 DEF AllJoined
<1>16. ASSUME NEW p \in {Parent, Main}, SemOpen(p) PROVE ForkInv'
  BY <1>16 DEF SemOpen
<1>17. ASSUME NEW p \in {Parent, Main}, SemOpenFails(p) PROVE ForkInv'
  BY <1>17 DEF SemOpenFails
<1>18. ASSUME NEW p \in Procs, NEW t \in Threads, Exit(p, t) PROVE ForkInv'
  <2>1. /\ stmt[p][t] = "exit"
        /\ stmt' = [stmt EXCEPT ![p] = [u \in Threads |-> "none"]]
        /\ status' = [status EXCEPT ![p] = "exited"]
        /\ UNCHANGED <<file, i, out, shared, holds, childPrinted, runs, disturbed>>
    BY <1>18 DEF Exit
  <2>2. p = Parent => t = Main
    <3>1. \A w \in Workers : stmt[Parent][w] # "exit"
      OBVIOUS
    <3> QED
      BY <2>1, <3>1
  <2>3. p # Parent => p = t /\ p \in Threads /\ status[p] = "running"
    BY <2>1
  <2>11. ForkTypeOK'
    BY <2>1, <2>2, <2>3
  <2>12. FileOfStmt'
    BY <2>1, <2>2, <2>3
  <2>13. OneThread'
    BY <2>1, <2>2, <2>3
  <2>14. ChildOfThread'
    <3>1. CASE p = Parent
      <4>1. \A u \in Threads : status[u] \in {"unborn", "reaped"}
        BY <2>1, <2>2, <3>1
      <4>2. \A u \in Threads : stmt'[Parent][u] = "none" /\ status'[u] = status[u]
        BY <2>1, <3>1
      <4> QED
        BY <4>1, <4>2, <2>1
    <3>2. CASE p # Parent
      <4>1. p = t /\ p \in Threads /\ status[p] = "running"
        BY <2>3, <3>2
      <4>2. /\ stmt'[Parent] = stmt[Parent]
            /\ \A u \in Threads : status'[u] = IF u = p THEN "exited" ELSE status[u]
        BY <2>1, <3>2, <4>1
      <4> QED
        BY <4>1, <4>2, <2>1
    <3> QED
      BY <3>1, <3>2
  <2>15. Worked'
    BY <2>1, <2>2, <2>3
  <2>16. Handshake'
    BY <2>1, <2>2, <2>3
  <2>17. ChildSeesThePast'
    BY <2>1, <2>2, <2>3
  <2> QED
    BY <2>11, <2>12, <2>13, <2>14, <2>15, <2>16, <2>17
<1>19. CASE StartAgain
  <2>1. \A p \in Procs, t \in Threads :
          stmt'[p][t] = IF p = Parent /\ t = Main THEN "fork" ELSE "none"
    BY <1>19, StartStmt DEF StartAgain
  <2>2. /\ file = "test.c" /\ runs \in Nat /\ runs' = runs + 1
        /\ disturbed' = (shared # Absent)
        /\ status' = StatusAtStart /\ holds' = HoldsAtStart /\ childPrinted' = FALSE
        /\ stmt' = StmtAtStart
        /\ UNCHANGED <<file, i, out, shared>>
    BY <1>19 DEF StartAgain
  <2>3. ~disturbed' => shared' = Absent
    BY <2>2, Zenon
  <2>4. stmt' \in [Procs -> [Threads -> Statements]]
    BY <2>2, StartStmtType
  <2>5. /\ status' \in [Procs -> {"unborn", "running", "exited", "reaped"}]
        /\ holds' \in [Procs -> {"none", "named", "unlinked", "failed"}]
    BY <2>2 DEF StatusAtStart, HoldsAtStart
  <2>6. disturbed' \in BOOLEAN
    BY <2>2, Zenon
  <2>11. ForkTypeOK'
    <3>0. childPrinted' \in BOOLEAN
      BY <2>2, Zenon
    <3>1. runs' \in Nat
      BY <2>2
    <3>2. /\ file' \in ThreadPrograms \cup {"proc1.c", "test.c"}
          /\ i' \in [Procs -> 0..N]
          /\ out' \in [Procs -> [Workers -> {-1, 1}]]
          /\ shared' \in Int
      BY <2>2
    <3> QED
      BY <2>4, <2>5, <2>6, <3>0, <3>1, <3>2 DEF Statements
  <2>12. FileOfStmt'
    BY <2>1, <2>2 DEF StatusAtStart
  <2>13. OneThread'
    BY <2>1, <2>2 DEF StatusAtStart
  <2>14. ChildOfThread'
    BY <2>1, <2>2 DEF StatusAtStart
  <2>15. Worked'
    BY <2>1, <2>2 DEF StatusAtStart
  <2>16. Handshake'
    BY <2>1, <2>2, <2>3 DEF StatusAtStart
  <2>17. ChildSeesThePast'
    BY <2>1, <2>2 DEF StatusAtStart
  <2> QED
    BY <2>11, <2>12, <2>13, <2>14, <2>15, <2>16, <2>17
<1>20. CASE UNCHANGED forkVars
  BY <1>20 DEF forkVars
<1> HIDE DEF ForkInv, At, Goto, unchangedButStmt, Ended
<1> QED
  BY <1>1, <1>2, <1>3, <1>4, <1>5, <1>6, <1>7, <1>8, <1>9, <1>10, <1>11, <1>12,
     <1>13, <1>14, <1>15, <1>16, <1>17, <1>18, <1>19, <1>20
  DEF ForkNext, ThreadStep, Over

(* The return from main cuts nobody off, whatever the order in which the   *)
(* threads and the children end.                                           *)
THEOREM NobodyIsCutOff == ForkSpec => []NobodyCutOff
<1>1. ForkInv => NobodyCutOff
  BY ForkProgramsAssumption, ForkNames DEF ForkInv, NobodyCutOff, OneThread, ChildOfThread, Worked
<1> QED
  BY <1>1, ForkStarts, ForkSteps, PTL DEF ForkSpec

(* A child knows of no work that was done after it was forked.             *)
THEOREM ChildrenSeeThePast == ForkSpec => []ChildSeesThePast
<1>1. ForkInv => ChildSeesThePast
  BY DEF ForkInv
<1> QED
  BY <1>1, ForkStarts, ForkSteps, PTL DEF ForkSpec

(* The parent of test.c reports what its child has done, in every run that *)
(* finds no semaphore behind the name and whose sem_open calls succeed.    *)
THEOREM ParentReportsAfterChild == ForkSpec => []ReportsAfterChild
<1>1. ForkInv => ReportsAfterChild
  BY DEF ForkInv, ReportsAfterChild, Handshake, AtMain
<1> QED
  BY <1>1, ForkStarts, ForkSteps, PTL DEF ForkSpec

(* Such a run, unless it is killed, leaves none for the next.              *)
THEOREM TestRemovesItsName == ForkSpec => []NameIsRemoved
<1>1. ForkInv => NameIsRemoved
  BY ForkProgramsAssumption, ForkNames DEF ForkInv, NameIsRemoved, Handshake, OneThread, AtMain
<1> QED
  BY <1>1, ForkStarts, ForkSteps, PTL DEF ForkSpec
=============================================================================
