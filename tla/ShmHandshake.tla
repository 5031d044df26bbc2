---------------------------- MODULE ShmHandshake ----------------------------
(***************************************************************************)
(* Three processes hand a text to one another through shared memory, with  *)
(* an integer saying whose turn it is.  A (procA.c, or the parent) sets it *)
(* to 1 and prints what the others wrote, B (procB.c, child 1) writes      *)
(* "shared" and sets it to 2, C (procC.c, child 2) writes "memory" and     *)
(* sets it to 3.  Three programs do so, and program says which one runs:   *)
(* "q1" (procA.c, procB.c and procC.c), "child.c", and "childcopy.c",      *)
(* whose child 1 does not wait for the 1.                                  *)
(*                                                                         *)
(* The integer and the text are in two System V segments that are always   *)
(* created, attached and removed together: here, one pair of segments.  A  *)
(* strcpy is two steps, one for each half of the text.  The sleeps between *)
(* the statements order nothing for certain and are left out.              *)
(*                                                                         *)
(* pc[p] names the statement that process p executes next:                 *)
(*   attach                           shmget and shmat                     *)
(*   set                              the store to the integer             *)
(*   poll                             the loop until the integer is right  *)
(*   A: print1, poll3, print2, exit   the two prints, shmdt and IPC_RMID   *)
(*   B, C: copy1, copy2, exit         strcpy, shmdt                        *)
(*   done, crashed                                                         *)
(***************************************************************************)
EXTENDS Integers

CONSTANT Restarts  \* bound on the runs that are killed

ASSUME ShmHandshakeAssumption == Restarts \in Nat

VARIABLES
  program,    \* the program that is running
  restarts,   \* the runs killed so far
  live,       \* the identifier of the existing segments, 0 if none
  created,    \* the segments created so far
  sharedInt,  \* sharedInt[g]: the integer in the segments numbered g
  sharedStr,  \* sharedStr[g]: the two halves of the text in them
  at,         \* at[p]: the segments p is attached to, 0 before
  pc,         \* pc[p]: see above
  printed     \* printed[n]: the n-th text that A printed, <<>> before

vars == <<program, restarts, live, created, sharedInt, sharedStr, at, pc, printed>>

memory == <<live, created, sharedInt, sharedStr, at>>

Programs == {"q1", "child.c", "childcopy.c"}

Processes == {"A", "B", "C"}

(* A run creates segments at most twice: when it starts, and when one of   *)
(* its processes starts after A has removed them.                          *)
Generations == 1..2 + 2 * Restarts

Halves == {"", "shared", "memory"}

Labels == {"attach", "set", "poll", "print1", "poll3", "print2",
           "copy1", "copy2", "exit", "done", "crashed"}

TypeOK ==
  /\ program \in Programs
  /\ restarts \in 0..Restarts
  /\ created \in {0} \cup Generations
  /\ live \in {0} \cup Generations
  /\ sharedInt \in [Generations -> 0..3]
  /\ sharedStr \in [Generations -> Halves \X Halves]
  /\ at \in [Processes -> {0} \cup Generations]
  /\ pc \in [Processes -> Labels]
  /\ printed \in [1..2 -> {<<>>} \cup (Halves \X Halves)]

(* New segments are all zero.                                              *)
Init ==
  /\ program \in Programs
  /\ restarts = 0
  /\ live = 0
  /\ created = 0
  /\ sharedInt = [g \in Generations |-> 0]
  /\ sharedStr = [g \in Generations |-> <<"", "">>]
  /\ at = [p \in Processes |-> 0]
  /\ pc = [p \in Processes |-> "attach"]
  /\ printed = [n \in 1..2 |-> <<>>]

(* Only the end of A removes the segments: a run that is killed before     *)
(* leaves them, as they are, to the next run of any of the programs.       *)
Restart ==
  /\ live # 0
  /\ restarts < Restarts
  /\ restarts' = restarts + 1
  /\ program' \in Programs
  /\ at' = [p \in Processes |-> 0]
  /\ pc' = [p \in Processes |-> "attach"]
  /\ printed' = [n \in 1..2 |-> <<>>]
  /\ UNCHANGED <<live, created, sharedInt, sharedStr>>

Step(p, from, to) ==
  /\ pc[p] = from
  /\ pc' = [pc EXCEPT ![p] = to]
  /\ UNCHANGED <<program, restarts>>

-----------------------------------------------------------------------------
(* shmget(..., IPC_CREAT) and shmat: the existing segments or new ones.    *)
Attach(p) ==
  /\ IF live = 0
       THEN created' = created + 1 /\ live' = created + 1
       ELSE UNCHANGED <<created, live>>
  /\ at' = [at EXCEPT ![p] = live']
  /\ UNCHANGED <<sharedInt, sharedStr, printed>>

AttachA == Attach("A") /\ Step("A", "attach", "set")

(* child 1 of childcopy.c also attaches a segment that it creates with     *)
(* permissions 066: unless it is root's it may not, and semInit crashes.   *)
AttachB ==
  /\ Attach("B")
  /\ IF program = "childcopy.c"
       THEN Step("B", "attach", "copy1") \/ Step("B", "attach", "crashed")
       ELSE Step("B", "attach", "poll")

AttachC == Attach("C") /\ Step("C", "attach", "poll")

Set(p, n, to) ==
  /\ Step(p, "set", to)
  /\ sharedInt' = [sharedInt EXCEPT ![at[p]] = n]
  /\ UNCHANGED <<live, created, sharedStr, at, printed>>

Poll(p, from, n, to) ==
  /\ Step(p, from, to)
  /\ sharedInt[at[p]] = n
  /\ UNCHANGED <<memory, printed>>

Copy(p, from, half, text, to) ==
  /\ Step(p, from, to)
  /\ sharedStr' = [sharedStr EXCEPT ![at[p]][half] = text]
  /\ UNCHANGED <<live, created, sharedInt, at, printed>>

PrintText(n, from, to) ==
  /\ Step("A", from, to)
  /\ printed' = [printed EXCEPT ![n] = sharedStr[at["A"]]]
  /\ UNCHANGED memory

-----------------------------------------------------------------------------
(* shmdt and shmctl(..., IPC_RMID): the segments are nobody's to find any  *)
(* more, and stay with those that are attached.                            *)
Remove ==
  /\ Step("A", "exit", "done")
  /\ live' = 0
  /\ UNCHANGED <<created, sharedInt, sharedStr, at, printed>>

(* The test print and shmdt.                                               *)
Detach(p) ==
  /\ Step(p, "exit", "done")
  /\ UNCHANGED <<memory, printed>>

A ==
  \/ AttachA
  \/ Set("A", 1, "poll")
  \/ Poll("A", "poll", 2, "print1")
  \/ PrintText(1, "print1", "poll3")
  \/ Poll("A", "poll3", 3, "print2")
  \/ PrintText(2, "print2", "exit")
  \/ Remove

(* Mutants: B does not wait, or sets the integer before it has copied.     *)
BNoWait ==
  \/ AttachB
  \/ Step("B", "poll", "copy1") /\ UNCHANGED <<memory, printed>>
  \/ Copy("B", "copy1", 1, "shared", "copy2")
  \/ Copy("B", "copy2", 2, "shared", "set")
  \/ Set("B", 2, "exit")
  \/ Detach("B")

BEarlySet ==
  \/ AttachB
  \/ Poll("B", "poll", 1, "set")
  \/ Set("B", 2, "copy1")
  \/ Copy("B", "copy1", 1, "shared", "copy2")
  \/ Copy("B", "copy2", 2, "shared", "exit")
  \/ Detach("B")

B ==
  \/ AttachB
  \/ Poll("B", "poll", 1, "copy1")
  \/ Copy("B", "copy1", 1, "shared", "copy2")
  \/ Copy("B", "copy2", 2, "shared", "set")
  \/ Set("B", 2, "exit")
  \/ Detach("B")

(* Mutant: C waits for its own 3.                                          *)
CWaitsForThree ==
  \/ AttachC
  \/ Poll("C", "poll", 3, "copy1")
  \/ Copy("C", "copy1", 1, "memory", "copy2")
  \/ Copy("C", "copy2", 2, "memory", "set")
  \/ Set("C", 3, "exit")
  \/ Detach("C")

C ==
  \/ AttachC
  \/ Poll("C", "poll", 2, "copy1")
  \/ Copy("C", "copy1", 1, "memory", "copy2")
  \/ Copy("C", "copy2", 2, "memory", "set")
  \/ Set("C", 3, "exit")
  \/ Detach("C")

Next == A \/ B \/ C \/ Restart

Spec == Init /\ [][Next]_vars

(* Every process that is not waiting for the integer is scheduled sooner   *)
(* or later, and one that is reads it again and again.  The integer may    *)
(* change in between, so a value that does not stay can be missed.         *)
FairSpec == Spec /\ WF_vars(A) /\ WF_vars(B) /\ WF_vars(C)

-----------------------------------------------------------------------------
(* No killed run has left its segments behind.                             *)
Fresh == restarts = 0

(* The program is one whose B waits for the 1.                             *)
InTurns == Fresh /\ program # "childcopy.c"

(* A never prints a text that nobody has finished writing, not even when   *)
(* it meets the segments of a killed run: each half was written by B or by *)
(* C.  Without a killed run the second text is C's, in childcopy.c too;    *)
(* the first need not be B's, since C may be faster than A.                *)
LinesAreWritten ==
  /\ \A n \in 1..2 : printed[n] # <<>> => \A h \in 1..2 : printed[n][h] # ""
  /\ Fresh /\ printed[2] # <<>> => printed[2] = <<"memory", "memory">>

(* The turn never goes back: nobody overwrites a later value of the        *)
(* integer with an earlier one, although nothing protects it.              *)
TurnNeverGoesBack ==
  [][InTurns => \A g \in Generations : sharedInt'[g] >= sharedInt[g]]_sharedInt

(* B and C always finish, and A finishes unless it was too slow to see the *)
(* 2: there is no other way to hang.                                       *)
OnlyAMayHang ==
  InTurns ~>
    \/ ~Fresh
    \/ /\ pc["B"] = "done" /\ pc["C"] = "done"
       /\ \/ pc["A"] = "done"
          \/ pc["A"] = "poll" /\ sharedInt[at["A"]] = 3
=============================================================================
