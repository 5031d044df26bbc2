---------------------------- MODULE ForkPrograms ----------------------------
(***************************************************************************)
(* The programs that fork:                                                 *)
(*   fork-example.c      main creates threads, forks, and joins the        *)
(*                       threads in both processes                         *)
(*   fork-example-new.c  every thread forks, and waits for its child       *)
(*   proc1.c             main forks a child that executes date             *)
(*   test.c              (assignment3) main forks a child and waits for it *)
(*                       on a semaphore that both open by name             *)
(* A fork copies the memory of the process and, of its threads, the one    *)
(* that forks.  Named semaphores are shared, and outlive the processes.    *)
(*                                                                         *)
(* A thread forks at most once and no child does: a child process has the  *)
(* name of the thread that forked it.                                      *)
(***************************************************************************)
EXTENDS Integers, FiniteSets

CONSTANTS
  N,       \* the threads that main creates (2)
  MaxRuns  \* bound on how often test.c is started

ASSUME ForkProgramsAssumption == N \in Nat /\ MaxRuns \in Nat

Workers == 0..N - 1

Main == N  \* the thread that executes main

Threads == Workers \cup {Main}

Parent == N + 1

Children == Threads

Procs == Children \cup {Parent}

Absent == -1  \* no semaphore has the name

VARIABLES
  file,     \* the program that runs
  status,   \* status[p]: "unborn", "running", "exited" or "reaped"
  stmt,     \* stmt[p][t]: the statement t executes next, "none" if p has no t
  i,        \* i[p]: the loop counter of main
  out,      \* out[p][w]: in[w].out in p's memory
  shared,   \* the value of the semaphore that has the name, or Absent
  holds,    \* holds[p]: the semaphore p opened, "none", "named",
            \* "unlinked" or, if sem_open failed, "failed"
  childPrinted,  \* the child of test.c has printed that it is done
  runs,     \* how often test.c was started
  disturbed \* history: this run of test.c found the semaphore of another
            \* behind its name, or a sem_open of it failed

forkVars == <<file, status, stmt, i, out, shared, holds, childPrinted, runs, disturbed>>

ThreadPrograms == {"fork-example.c", "fork-example-new.c"}

StatusAtStart == [p \in Procs |-> IF p = Parent THEN "running" ELSE "unborn"]

StmtAtStart ==
  [p \in Procs |-> [t \in Threads |->
     IF p # Parent \/ t # Main THEN "none"
     ELSE IF file \in ThreadPrograms THEN "create"
     ELSE "fork"]]

HoldsAtStart == [p \in Procs |-> "none"]

ForkInit ==
  /\ file \in ThreadPrograms \cup {"proc1.c", "test.c"}
  /\ status = StatusAtStart
  /\ stmt = StmtAtStart
  /\ i = [p \in Procs |-> 0]
  /\ out = [p \in Procs |-> [w \in Workers |-> -1]]
  /\ holds = HoldsAtStart
  /\ childPrinted = FALSE
  /\ shared = Absent
  /\ runs = 1
  /\ disturbed = FALSE

At(p, t, statement) == stmt[p][t] = statement

Goto(p, t, statement) == stmt' = [stmt EXCEPT ![p][t] = statement]

unchangedButStmt == <<file, status, i, out, shared, holds, childPrinted, runs, disturbed>>

-----------------------------------------------------------------------------
(* Threads                                                                 *)

(* thread_generator: main creates the threads one by one, and goes on to   *)
(* the fork or to the joins.                                               *)
CreateThreads ==
  /\ At(Parent, Main, "create")
  /\ IF i[Parent] < N
       THEN /\ stmt' = [stmt EXCEPT ![Parent][i[Parent]] =
                        IF file = "fork-example.c" THEN "work" ELSE "fork"]
            /\ i' = [i EXCEPT ![Parent] = @ + 1]
       ELSE /\ Goto(Parent, Main,
                    IF file = "fork-example.c" THEN "fork" ELSE "join")
            /\ i' = [i EXCEPT ![Parent] = 0]
  /\ UNCHANGED <<file, status, out, shared, holds, childPrinted, runs, disturbed>>

(* thread_func: p->out = 1, so that one sees that the thread ran.          *)
Work(w) ==
  /\ At(Parent, w, "work")
  /\ out' = [out EXCEPT ![Parent][w] = 1]
  /\ Goto(Parent, w, "ending")
  /\ UNCHANGED <<file, status, i, shared, holds, childPrinted, runs, disturbed>>

(* pthread_exit                                                            *)
EndThread(w) ==
  /\ At(Parent, w, "ending")
  /\ Goto(Parent, w, "done")
  /\ UNCHANGED unchangedButStmt

Joined(p) ==
  /\ At(p, Main, "join") /\ i[p] < N
  /\ i' = [i EXCEPT ![p] = @ + 1]
  /\ UNCHANGED <<file, status, stmt, out, shared, holds, childPrinted, runs, disturbed>>

(* Mutant: thread_collector does not wait.                                 *)
JoinNoWait == Joined(Parent)

(* thread_collector in the process that has the threads.                   *)
Join == Joined(Parent) /\ At(Parent, i[Parent], "done")

(* thread_collector in the child, which has no such threads.  What         *)
(* pthread_join does then is undefined: it returns, with an error or       *)
(* without, or it never does.                                              *)
JoinNobody ==
  \/ Joined(Main)
  \/ /\ At(Main, Main, "join") /\ i[Main] < N
     /\ Goto(Main, Main, "stuck")
     /\ UNCHANGED unchangedButStmt

AllJoined(p) ==
  /\ At(p, Main, "join") /\ i[p] = N
  /\ Goto(p, Main, IF p = Parent /\ status[Main] # "unborn" THEN "waitpid" ELSE "exit")
  /\ UNCHANGED unchangedButStmt

-----------------------------------------------------------------------------
(* Processes                                                               *)

(* What the child, and the parent, do after the fork.                      *)
ChildGoesTo ==
  CASE file = "fork-example.c"     -> "join"
    [] file = "fork-example-new.c" -> "exit"
    [] file = "proc1.c"            -> "exec"
    [] OTHER                          -> "open"

ParentGoesTo ==
  CASE file = "fork-example.c" -> "join"
    [] file = "test.c"         -> "open"
    [] OTHER                      -> "waitpid"

(* Mutant: a thread does its work before it forks.                         *)
ForkAfterWork(t) ==
  /\ At(Parent, t, "fork")
  /\ status' = [status EXCEPT ![t] = "running"]
  /\ stmt' = [stmt EXCEPT ![Parent][t] = ParentGoesTo, ![t][t] = ChildGoesTo]
  /\ out' = [out EXCEPT ![t] = [w \in Workers |-> IF w = t THEN 1 ELSE out[Parent][w]],
                        ![Parent] = [w \in Workers |-> IF w = t THEN 1 ELSE @[w]]]
  /\ UNCHANGED <<file, i, shared, holds, childPrinted, runs, disturbed>>

Fork(t) ==
  /\ At(Parent, t, "fork")
  /\ status' = [status EXCEPT ![t] = "running"]
  /\ stmt' = [stmt EXCEPT ![Parent][t] = ParentGoesTo, ![t][t] = ChildGoesTo]
  /\ out' = [out EXCEPT ![t] = out[Parent]]
  /\ UNCHANGED <<file, i, shared, holds, childPrinted, runs, disturbed>>

(* fork fails: fork-example.c goes on without a child, a thread of         *)
(* fork-example-new.c too, and the other programs exit.                    *)
ForkFails(t) ==
  /\ At(Parent, t, "fork")
  /\ Goto(Parent, t, CASE file = "fork-example.c" -> "join"
                       [] file = "fork-example-new.c" -> "work"
                       [] OTHER -> "exit")
  /\ UNCHANGED unchangedButStmt

(* execlp, and the run of date or, should that fail, the end of main.      *)
Exec ==
  /\ At(Main, Main, "exec")
  /\ Goto(Main, Main, "exit")
  /\ UNCHANGED unchangedButStmt

(* exit, or the return from main, ends all threads of the process.         *)
Exit(p, t) ==
  /\ At(p, t, "exit")
  /\ status' = [status EXCEPT ![p] = "exited"]
  /\ stmt' = [stmt EXCEPT ![p] = [u \in Threads |-> "none"]]
  /\ UNCHANGED <<file, i, out, shared, holds, childPrinted, runs, disturbed>>

(* waitpid, or wait: the child of a thread is the only one it can wait for.*)
WaitPid(t) ==
  /\ At(Parent, t, "waitpid")
  /\ status[t] = "exited"
  /\ status' = [status EXCEPT ![t] = "reaped"]
  /\ Goto(Parent, t, IF t = Main THEN "exit" ELSE "work")
  /\ UNCHANGED <<file, i, out, shared, holds, childPrinted, runs, disturbed>>

-----------------------------------------------------------------------------
(* test.c                                                                  *)

(* Mutant: sem_open creates the semaphore with a permit.                   *)
SemOpenOne(p) ==
  /\ At(p, Main, "open")
  /\ shared' = IF shared = Absent THEN 1 ELSE shared
  /\ holds' = [holds EXCEPT ![p] = "named"]
  /\ Goto(p, Main, IF p = Parent THEN "sem_wait" ELSE "print")
  /\ UNCHANGED <<file, status, i, out, childPrinted, runs, disturbed>>

(* sem_open creates the semaphore, with no permit, if no one has before.   *)
SemOpen(p) ==
  /\ At(p, Main, "open")
  /\ shared' = IF shared = Absent THEN 0 ELSE shared
  /\ holds' = [holds EXCEPT ![p] = "named"]
  /\ Goto(p, Main, IF p = Parent THEN "sem_wait" ELSE "print")
  /\ UNCHANGED <<file, status, i, out, childPrinted, runs, disturbed>>

(* sem_open fails: the parent goes to wait for the child, and the child    *)
(* returns from main without a word.                                       *)
SemOpenFails(p) ==
  /\ At(p, Main, "open")
  /\ holds' = [holds EXCEPT ![p] = "failed"]
  /\ Goto(p, Main, IF p = Parent THEN "waitpid" ELSE "exit")
  /\ disturbed' = TRUE
  /\ UNCHANGED <<file, status, i, out, shared, childPrinted, runs>>

SemWait ==
  /\ At(Parent, Main, "sem_wait")
  /\ shared > 0
  /\ shared' = shared - 1
  /\ Goto(Parent, Main, "close")
  /\ UNCHANGED <<file, status, i, out, holds, childPrinted, runs, disturbed>>

SemClose ==
  /\ At(Parent, Main, "close")
  /\ holds' = [holds EXCEPT ![Parent] = "none"]
  /\ Goto(Parent, Main, "unlink")
  /\ UNCHANGED <<file, status, i, out, shared, childPrinted, runs, disturbed>>

(* Mutant: the name is not removed.                                        *)
SemUnlinkNot ==
  /\ At(Parent, Main, "unlink")
  /\ Goto(Parent, Main, "waitpid")
  /\ UNCHANGED unchangedButStmt

(* The name goes; whoever holds the semaphore keeps it.                    *)
SemUnlink ==
  /\ At(Parent, Main, "unlink")
  /\ shared' = Absent
  /\ holds' = [p \in Procs |-> IF holds[p] = "named" THEN "unlinked" ELSE holds[p]]
  /\ Goto(Parent, Main, "waitpid")
  /\ UNCHANGED <<file, status, i, out, childPrinted, runs, disturbed>>

ChildPrints ==
  /\ At(Main, Main, "print")
  /\ childPrinted' = TRUE
  /\ Goto(Main, Main, "post")
  /\ UNCHANGED <<file, status, i, out, shared, holds, runs, disturbed>>

(* Mutant: the child forgets to post.                                      *)
SemPostNot ==
  /\ At(Main, Main, "post")
  /\ Goto(Main, Main, "exit")
  /\ UNCHANGED unchangedButStmt

(* Nobody waits on a semaphore whose name is gone, whose value is left     *)
(* out.                                                                    *)
SemPost ==
  /\ At(Main, Main, "post")
  /\ shared' = IF holds[Main] = "named" THEN shared + 1 ELSE shared
  /\ Goto(Main, Main, "exit")
  /\ UNCHANGED <<file, status, i, out, holds, childPrinted, runs, disturbed>>

Ended == status[Parent] = "exited"

(* test.c is started again, after it ended or after its processes were     *)
(* killed at whatever they did.                                            *)
StartAgain ==
  /\ file = "test.c" /\ runs < MaxRuns
  /\ runs' = runs + 1
  /\ disturbed' = (shared # Absent)
  /\ status' = StatusAtStart
  /\ stmt' = StmtAtStart
  /\ holds' = HoldsAtStart
  /\ childPrinted' = FALSE
  /\ UNCHANGED <<file, i, out, shared>>

-----------------------------------------------------------------------------
ThreadStep(p, t) ==
  \/ p = Parent /\ t \in Workers /\ (Work(t) \/ EndThread(t))
  \/ p = Parent /\ t = Main /\ (CreateThreads \/ Join \/ SemWait \/ SemClose \/ SemUnlink)
  \/ p = Parent /\ (Fork(t) \/ ForkFails(t) \/ WaitPid(t))
  \/ p = Main /\ t = Main /\ (JoinNobody \/ Exec \/ ChildPrints \/ SemPost)
  \/ p \in {Parent, Main} /\ t = Main /\ (AllJoined(p) \/ SemOpen(p) \/ SemOpenFails(p))
  \/ Exit(p, t)

Over == Ended /\ UNCHANGED forkVars

ForkNext == (\E p \in Procs, t \in Threads : ThreadStep(p, t)) \/ StartAgain \/ Over

ForkSpec == ForkInit /\ [][ForkNext]_forkVars

(* A thread that is not blocked is scheduled sooner or later.  Nobody has  *)
(* to start test.c again.                                                  *)
FairForkSpec == ForkSpec /\ \A p \in Procs, t \in Threads : WF_forkVars(ThreadStep(p, t))

-----------------------------------------------------------------------------
ForkTypeOK ==
  /\ file \in ThreadPrograms \cup {"proc1.c", "test.c"}
  /\ status \in [Procs -> {"unborn", "running", "exited", "reaped"}]
  /\ stmt \in [Procs -> [Threads -> {"none", "create", "work", "ending", "done",
       "join", "stuck", "fork", "exec", "exit", "waitpid", "open", "sem_wait",
       "close", "unlink", "print", "post"}]]
  /\ i \in [Procs -> 0..N]
  /\ out \in [Procs -> [Workers -> {-1, 1}]]
  /\ shared \in Int
  /\ holds \in [Procs -> {"none", "named", "unlinked", "failed"}]
  /\ childPrinted \in BOOLEAN /\ runs \in Nat /\ disturbed \in BOOLEAN

(* The return from main cuts nobody off: every thread did its work, and    *)
(* every child was waited for, so that none is an orphan or a zombie.      *)
NobodyCutOff ==
  Ended =>
    /\ \A c \in Children : status[c] \in {"unborn", "reaped"}
    /\ file \in ThreadPrograms => \A w \in Workers : out[Parent][w] = 1

(* What a child reports of the threads is what had happened when it was    *)
(* forked: it never shows work the parent's thread has not done, and a     *)
(* thread that forks has not done its own.                                 *)
ChildSeesThePast ==
  \A c \in Children, w \in Workers : out[c][w] = 1 =>
    out[Parent][w] = 1 /\ c # w

(* The parent of test.c reports that its child has printed only after it   *)
(* has, in every run whose sem_open calls succeed and that finds nothing   *)
(* behind the name, whatever became of the runs before.                    *)
ReportsAfterChild ==
  file = "test.c" /\ stmt[Parent][Main] \in {"close", "unlink"} =>
    childPrinted \/ disturbed

(* Such a run, if it is not killed, leaves no semaphore for the next one   *)
(* to find.                                                                *)
NameIsRemoved ==
  file = "test.c" /\ Ended /\ ~disturbed => shared = Absent

(* Every run of every program ends or is killed, unless the child of       *)
(* fork-example.c never returns from a join with a thread that it has not, *)
(* or that of test.c cannot open the semaphore, and lets its parent wait   *)
(* for ever.  Parent and child of test.c open the name in any order, which *)
(* may have the semaphore of another run, and the parent may have removed  *)
(* the name in between: the permit it waits for always comes.              *)
Ends ==
  \A r \in 1..MaxRuns : runs = r ~>
    Ended \/ At(Main, Main, "stuck") \/ holds[Main] = "failed" \/ runs > r
=============================================================================
