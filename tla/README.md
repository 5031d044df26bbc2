# Verification of urban-fiesta

urban-fiesta is a collection of C programs of an operating-systems course: threads
that share a buffer or a counter, processes that share memory or a message queue
or a named semaphore, a monitor, and a small remote procedure. Most of them are
short, and what is hard about them is concurrency: every program below is a few
statements per thread, and the question is always what happens in the
interleavings nobody tried.

This directory holds TLA+ modules that model these programs statement by
statement, TLC configurations that check them on small instances, and proofs,
checked by TLAPS, of what matters most for any number of threads. `PROJECT.json`
is the machine-readable index: components, runs, the mutant that shows what each
property can catch, the source lines of every definition, hazards and theorems.

    tlc -workers 2 -config prodcon.cfg MCProdCon     # any run of the table below
    tlapm ChopsticksProofs.tla                       # any module named ...Proofs

## 1. Inventory

Paths are relative to `src/`.

| component | state | operations | what is hard | what makes it correct |
|---|---|---|---|---|
| Counting semaphores: `assignment2/correct.h` (and `assignment3/correct1.h`, the same with other names), `assignment2/incorrect.h`, `assignment3/correct.h`, and `initSem`, `myWait`, `myPost` in `assignment3/correctQ1.c` | `struct CS`: `val`, the gate `B1`, the mutex `B2` | `semInit`, `semWait`, `semPost` | several statements per call, callers anywhere between them, threads blocked inside | no more waits than permits, no permit lost, indistinguishable from an indivisible semaphore |
| Bounded buffer: `assignment2/prod_con.c`, `prod_con1.c`, `assignment3/prodcon.c`, `prod_con.c` on `sem_t`; `assignment2/correctQ1.c`, `incorrectQ1.c` on the counting semaphores | buffer and index, a mutex, two semaphores, a loop counter per thread | `producer`, `consumer`, `insertbuffer`, `dequeuebuffer`, `main` | between a semaphore and the mutex others run | no overflow or underflow, no value lost or read twice, nobody waits for ever or needlessly |
| Readers and writers: `assignment2/reader-writer2.c`, `reader-writer1.c`; with limited readers `reader-writer-correct.c`, `reader-writer-incorrect.c` | `wrt`, `mutex`, `cnt`, `numreader`, `countSem`, whom `main` has joined | `reader`, `writer`, `main` | one thread takes a lock that another gives back, three locks in a row; `reader-writer1.c` destroys its locks under five readers | exclusion, no lost update, termination, at most `numCount` readers |
| Monitor: `chopsticks/chopsticks0.c` | a state per philosopher, a mutex, a condition variable each | `chopsticks_init`, `_take`, `_put` | signals sent for others, spurious wakeups | neighbours never eat together, nobody is forgotten |
| Message queue: `assignment1/q3/kirk.c`, `spock.c` | a System V queue, a `msqid` per process | `msgget`, `msgsnd`, `msgrcv`, `msgctl` | the queue is removed under its users; processes are killed | each item delivered at most once and in order, spocks stop |
| Shared-memory handshake: `assignment1/q1/*.c`, `q2/child.c`, `assignment3/childcopy.c` | an integer and a text in shared segments | set, poll, copy, print | busy waiting, and segments that survive a killed run | only finished texts are printed, nobody hangs |
| RPC average: `assignment1/q4`, `assignment1/ravg.c`; the same server in `q5` | the array of the request and the static result; datagrams under way; the portmapper's registry | `average_1`; `clnt_create` and the call; `svc_register` and the dispatch | truncation, and numbers that no `int` holds; lost, repeated and late datagrams, the timeout, a server that dies | each client prints the median of its own numbers, and every call returns |
| Programs that fork: `fork-example.c` (twice), `fork-example-new.c`, `proc1.c`, `assignment3/test.c` | the processes and their threads, `in[]` in each memory, a semaphore with a name | `fork`, `exec`, `waitpid`, `pthread_create`, `_join`, `exit`; `sem_open`, `_wait`, `_post`, `_unlink` | what a fork copies, an exit beside running threads, a name that outlives a killed run | nobody is cut off, children are waited for, the parent waits for its child |
| Print spooler: `assignment3/correctQ1.c`, `assignment.c` | a ring of slots in shared memory | producer processes, consumer threads | neither program can be run as it is | a job is printed once |
| Linked list: `linked_list.c` | nodes on the heap, `head` | `insert` (`add`, `addafter`, `append`), `delete`, `count`, `display` | pointers that are right only if the list is sorted; freed nodes | a sorted list, no node lost or dangling |
| Shared-memory server and client, token client, unfinished variants, rpcgen's data conversion, language exercises | | | | |

The components are separate programs. They interact where one includes another:
`correctQ1.c`, `incorrectQ1.c` and the two limited reader-writer programs are
clients of the counting semaphores, and that is where the modules compose.

## 2. Modules

    AbstractSem  <--refines--  SemClient --extends--> CountingSem
                                (MCSemClient, CountingSemProofs)      ^       ^
                                                                      |       |  INSTANCE
    BufferProgram <--extends-- ProdConPosix  <--refines-- ProdCon ----+       |
                                (ProdConPosixProofs)      (MCProdCon,         |
                                                           ProdConProofs)     |
    ReadersWriters <--extends, refines-- CountedReaders ----------------------+
                                (ReadersWritersProofs)
    ChopsticksContract <--refines-- Chopsticks (ChopsticksProofs)
    SortedList <--refines-- LinkedList ------------------+
    Average <--extends-- AverageCall (MCAverageCall) ----+-- (SortingProofs)
    ShmHandshake, ForkPrograms (ProcessProofs)      Mailbox (MailboxProofs)

Two modules that one proof module extends name their variables and actions apart:
those of `LinkedList`, `AverageCall` and `ForkPrograms` have `ListInit`,
`CallNext`, `ForkSpec` and the like.

How all of them are read:

- A thread has a program counter (`pc`, or `at` inside the library) naming the
  statement it executes next. An action is one statement, and a statement that
  reads and writes shared data in several steps (`cnt = cnt*2`,
  `buffer[buffer_index++] = v`, `strcpy`) is several actions.
- A POSIX semaphore is a number: `sem_wait` is enabled when it is positive. A
  mutex is `"locked"` or `"unlocked"`.
- Sleeps order nothing and are left out, and so is printing, except in
  `ShmHandshake`, `Mailbox`, `AverageCall` and `ForkPrograms`, where what is printed,
  or that it is, is the result.
- *History variables* (`credit`, `taken`, `accepted`, `refused`, `disturbed`, and
  `printed`, `childPrinted`, which stand for output) record what happened and are read by no
  action.
- What the C and POSIX standards leave undefined is a choice among what a build
  can do: the locks that `reader-writer1.c` destroys, the join of threads that a
  child does not have, the null pointer of a failed call, the conversion of a double
  that no `int` holds.
- Definitions marked *Mutant* are not part of the model. Each is a plausible
  mistake in the definition that follows it and is there to show that a property
  notices.

**CountingSem** is the library. `val`, `B1`, `B2` are the members of `struct CS`;
`Lib[s]` says which of the four versions semaphore `s` is compiled with, so that
the versions share every statement they have in common: `WaitTest`,
`IncorrectWaitTest` and the four `...PostTest` actions are where they differ.
`credit[s]` is `k`, plus the posts, minus the waits granted. **SemClient** lets
any thread call anything in any order: the most general client. **AbstractSem** is
a semaphore whose wait and post are indivisible.

**BufferProgram** has what the buffer programs share: buffer, mutex and loops.
**ProdConPosix** adds `full_sem` and `empty_sem` (`prod_con.c`), **ProdCon** adds
`fs` and `es`, two instances of the library, and the header the program was
compiled with (`correctQ1.c`: assignment2's `correct.h`; `incorrectQ1.c`:
`incorrect.h`; the same program with assignment3's corrected header is checked
along with them).

**ReadersWriters** is `reader-writer2.c` and `reader-writer1.c`, which differ in
the readers that `main` joins: `JoinSets` has one set per program. When all it
joins are done, `MainDestroys` destroys `mutex` and `wrt`; from there `RunsOn`
lets a reader that was not joined execute its statements in any order, since
destroyed locks promise nothing, until `MainReturns` ends the process. No
statement of a reader assigns anything but the locks and `numreader`, and nothing
reads these afterwards. **CountedReaders** extends it to all four programs:
`header` is the one the program was compiled with, or `"none"` for the two without
`countSem`. It uses the statements of `ReadersWriters` and adds the calls of
`countSem` and the second read of `cnt`.

**Chopsticks** is the monitor: the mutex `M`, `state`, and a label `blocked` for a
philosopher asleep in `pthread_cond_wait`. `UpdateState(j, i, ...)` is
`update_state(j)` executed by `i`, signal included. **ChopsticksContract** is what
`chopsticks.h` says: both chopsticks are taken in one step.

**Mailbox** is the queue and any number of kirks and spocks. Queues are numbered
in the order they are created, so that a stale `msqid` is a number other than
`live`. `Kill` is a signal at any moment.

**ShmHandshake** is procA/procB/procC, `child.c` and `childcopy.c`, which differ
in one statement of B. `Restart` kills all processes of a run and starts one of
the three programs again on the segments that are left.

**LinkedList** is the heap: `data` and `next` of every node, `head`, and which
nodes are allocated. `Nth[n]` is a walk of n steps. **SortedList** is what the
user of the menu sees.

**Average** is `average_1` one comparison at a time. Doubles are multiples of 1/U.
`ToInt` is what `tmp` may be in an exchange: the number without its fraction
(`Truncate`), or any `int` if none holds that (`IntMax` is the largest). **AverageCall** puts
it into a server and gives it clients. `Call`, `SendAgain`, `PrintMedian` and
`TimeOut` are `ravg.c` and the stub `avg_clnt.c`; `Start`, `Register`, `Dispatch`,
`Compute` and `SendReply` are `avg_svc.c`. Requests and replies are sets of
datagrams: one that is received may stay and be received again, in any order, and
`Lose` drops it. A reply carries the transaction id of its call, and is modelled
by whom it answers, as a client calls once. `ServerDies` may happen in the middle
of a request and leaves the registration, which a new server unsets before it
registers.

**ForkPrograms** is four programs in one module. `file` is the one that runs,
`stmt[p][t]` is where thread `t` of process `p` is, `out[p]` is `in[]` in the memory
of `p`, and `Fork` copies both as fork does: all of the memory, one of the threads.
`shared` is the semaphore that has the name of `test.c`; `SemUnlink` takes the name
and leaves the semaphore to those who hold it. `StartAgain` starts `test.c` again,
after its end or after a kill; `disturbed` is true in a run that finds a semaphore
behind the name, or whose `sem_open` fails.

## 3. Runs

All runs use 2 workers and finish within three minutes.

| run | bounds | what it shows |
|---|---|---|
| `sem_library` | 3 threads, 3 calls each, six semaphores (a version and `k` 0 or 2) | mutual exclusion on `val`, never more waits than permits in any version; no permit lost in assignment3's `correct.h` and in `incorrect.h`; refinement of `AbstractSem` with its liveness |
| `prodcon_posix` | 2+2 threads, 2 slots, 2 iterations | no overflow or underflow, conservation of values, the accounting of slots, termination |
| `prodcon` | 2+2 threads, 2 slots, 2 iterations, three headers, symmetry of producers and of consumers | `ProdCon` implements `ProdConPosix`; only a full (empty) buffer keeps a producer (consumer) waiting; never do all wait |
| `correctQ1` | 2+2 threads, 3 slots, assignment2's `correct.h` | **violated**: see Findings |
| `readers_writers` | 3 readers, 2 writers, `main` joins one reader or all; without `countSem`, and with `numCount` 2 and three headers | exclusion, no lost update, `wrt` comes back, at most and as many as `numCount` readers, refinement of `ReadersWriters`, termination |
| `chopsticks` | 4 philosophers, 2 meals each, 1 spurious wakeup | neighbours do not dine, nobody is forgotten, `take` returns, refinement of the contract with its liveness |
| `mailbox` | 2 kirks, 2 spocks, 2 lines each, 2 messages of room, 1 kill | no item twice, typing order, nothing lost while the queue lives, end of input stops spocks |
| `two_kirks` | 2 kirks, 1 spock | **violated**: see Findings |
| `shm_handshake` | 2 killed runs | only finished texts are printed, the turn never goes back, only A may hang and only by missing the 2 |
| `linked_list` | 4 nodes, numbers 1 to 3 | no node is lost, none dangles; refinement of a sorted list |
| `average` | ints from -2 to 1; 2 clients, up to 3 numbers between -3/2 and 3/2 for one and two pairs of lists for both, one of them with a 2; 2 starts of the server | the sort sorts the integer parts; a client prints the median of its own numbers, off by less than one and exact for whole numbers, whatever the network does and the other client sends; a server that starts is found; every call returns |
| `fork_programs` | 2 threads, 3 runs of `test.c` | nobody is cut off or left unwaited for, a child sees what was before the fork, the parent reports after the child and the name is removed, in each run that finds no name, every run of every program ends but for two named ways |

A module's `TypeOK` (`ForkTypeOK`, `ListTypeOK`) says what its variables hold. It is
part of the invariants that section 4 proves and not among the runs' properties;
`ListTypeOK` is implied by the invariant of the list and documents.

Why the bounds are enough for the interesting cases. Three threads on one
semaphore give one inside the mutex, one at the gate, and one in the window
between the two; with `k` 2 and three calls the semaphore goes through empty, one,
two and more permits. Two producers and two consumers on two slots fill and empty
the buffer while two threads are between their semaphore and the mutex. The
`correctQ1` run needs three slots because the lost permits show only when two
posts precede a wait. Three readers are the first, the last, and one in between;
three against a `numCount` of 2 make one wait, and two of them are not joined by
the `main` that joins one (with three writers, 632246 states, it was checked as
well). On a table of four, two non-neighbours eat while both others wait for both
of them. Five philosophers (the code's `NTHREADS`) with one meal and two spurious
wakeups were checked as well; four with two meals are kept because a second meal
starts from more states. Two kirks and a kill reach a queue that is removed,
created again and removed by a process that still holds the old identifier. The
second killed run of `shm_handshake` can start on what a killed run left of what a
killed run left; a third adds no state of the segments. Four nodes and three
numbers put a new number before, between, among equals and after, and let `malloc`
hand out freed addresses again. Numbers between -3/2 and 3/2 have three integer
parts, 0 with both signs among them, and the fraction that exchanges drop; the 2
does not fit the largest int, 1, and makes what one client prints arbitrary while
the other's median must not be touched. Lists of four between -4/3 and 4/3 were
checked as well, with one client and no faults.
Two clients are enough for one to get the other's answer, and two starts for a
registration that a dead server left. Two threads let one fork, or end, before,
between and after the steps of the other; four were checked as well. In three runs
of `test.c` a killed one can leave a permit to the second, whose child leaves
another to the third, or which removes the name, so that the third works again.

`CHECK_DEADLOCK FALSE` is in the runs whose system may really stop: `sem_library`
(clients stop calling, or wait for a post that nobody makes), `chopsticks` (all
meals eaten), `mailbox` (nobody types, or all exit), `shm_handshake` (A may hang),
`average` (the clients are done, and no server is started any more),
`fork_programs` (a child may hang in a join of no thread, a parent wait for a
child that could not open the semaphore). The others check deadlock, and those
that end stutter only when `main` has returned. None of the model's programs waits
in a loop but `ShmHandshake`'s and the RPC library's, so that a thread executes a
bounded number of statements; where that is so, deadlock freedom is termination,
and `ProdCon`, which is too large for a liveness run, has `NotAllWait` for it.

### Fairness

- Buffers, readers and writers: weak fairness of each thread's next step, and of
  `main`'s, which is the scheduler's promise that a thread that can run does. It
  is enough because no one waits for a semaphore for ever against an endless
  stream of others: all threads have a bounded number of iterations, as in the
  code.
- Counting semaphores: weak fairness of each thread's steps inside the library;
  clients may stop calling. `AbstractSem!FairSpec` promises progress of *some*
  waiter, not of each, and none of the versions gives more.
- Chopsticks: the same, and every meal ends. Nobody has to get hungry, and
  spurious wakeups need not happen. `TakeReturns` is claimed for a bounded number
  of meals: with endless meals two neighbours can starve a philosopher eating in
  turns, and POSIX promises no order on the mutex.
- Mailbox: kirk's send and removal and all of spock are fair; typing is not, nor
  is being killed.
- ShmHandshake: each process is fair, including one that polls. Weak fairness lets
  a poller miss a value that does not stay, as sleeping programs may.
- ForkPrograms: each thread of each process. Nobody has to start `test.c` again,
  and whether a call fails is left open, never promised.
- AverageCall: a client calls or exits, and its 25 seconds pass; the server goes
  on with a request it has. Nobody has to start a server, no datagram has to
  arrive, and no client has to send again.

### Findings

- `correctQ1`: `semPost` in `assignment2/correct.h:33` tests `val = 1`, an
  assignment. After two posts `val` is 1 and one permit is forgotten, so that a
  producer is kept waiting beside a buffer with free slots. In this program it
  costs concurrency and not progress: `NotAllWait` holds of it, because a post
  always leaves `val` at 1 and the gate open. The file of that name in assignment3
  has `==`, and all the properties hold of it; `correct1.h` beside it has the assignment
  again (line 33) and forgets permits as this one does.
- `two_kirks`: `prompt.txt:8` says two copies of kirk work; the first to end
  removes the queue and the other's next `msgsnd` is refused.

Smaller observations, checked on the way. `GateIsBinary`, which is proved of
assignment3's `correct.h`, is false of assignment2's (every post opens the gate) and
of `incorrect.h` (there B1 counts the waiters to be woken). `NoPermitLost` is false
of assignment2's `correct.h` and of `myPost` in `correctQ1.c`, which opens the gate
when `val` is 0 after the increment. The comment at `prod_con.c:57` fears that a
producer between `sem_wait` and the lock could overflow the buffer;
`NoOverflowOrUnderflow` excludes it. In the handshake the first text A prints need
not be B's, since C may be faster than A. `average_1` exchanges doubles through an
`int`, and `SortsWholeParts` and `PrintsOwnMedian` say how far that goes: the order
survives, since an exchange drops the fraction but keeps the integer part of the
larger number, and fractions do not. Of a number whose integer part no `int` holds
an exchange leaves nothing, so that the properties exempt lists that have one.
`avg.x:3` and the client's name promise the average; the procedure returns the
median. After a failed call `ravg.c:82` prints the result all the same, through a
null pointer: `TimeOut` is a crash. `reader-writer1.c` uses a mutex and a semaphore
that `main` has destroyed, which is undefined and, since its readers assign nothing
that is read, changes no result. `TurnNeverGoesBack` and `OnlyAMayHang` are false of
`childcopy.c` and of runs that follow a killed one, and are stated of the others. In
`childcopy.c` child 1 attaches a segment made with mode 066, so that it crashes
unless it runs as root: both are modelled. The child of `fork-example.c` joins
threads that only its parent has, and may take the parent with it into waiting for
ever. A killed `test.c`, or one whose `sem_open` failed, leaves a permit behind the
name, and the parent of the next run reports before its child has printed:
`ReportsAfterChild` and `NameIsRemoved` are stated of the runs that find no name,
whatever ran before them.

## 4. Proofs

Every assumption is a named `ASSUME` on constants: which sets are finite and
disjoint, which numbers are positive, that there are as many producers as
consumers, which headers exist. Two theorems have a hypothesis: `A3GateIsBinary`
speaks of clients all of whose semaphores are assignment3's, `NobodyWaitsForEver` of
the headers and not of the functions that `assignment3/correctQ1.c` defines, with
which one producer and one consumer do wait for each other. Nothing is assumed
about the number of threads, slots, iterations, calls, philosophers, spurious
wakeups, killed runs, nodes, clients or servers, nor about the numbers of a list.
For the average service `IntMax` is any number, and what is proved of a list of
numbers has the condition that an `int` holds the integer part of each.

The library's induction theorems take an operator as a parameter and cannot be
used. Where a proof needs induction it is in the state (an invariant of the passes
of the sort, of a count, of the nodes a walk has passed) or comes from the finite
sets: a smallest subset with a property, a cardinality that grows by one.

**CountingSemProofs.** The library is proved one call and one
step at a time, so that other clients can cite the lemmas, and three of them do:
`SemClient`, `ProdCon` and `CountedReaders`. Its invariant `LibInv` has four parts
beside mutual exclusion.

- `MutualExclusionOnVal`: in all four versions, one thread at a time is between
  the two `B2` statements. Invariant (`MutexInv`): whoever is there has `B2 = 0`,
  and two threads there are one. It is not inductive for what the gate does, as
  `B1` and `val` are changed in different statements.
- `GrantInv`, for all four versions: `credit` covers what is in `B1`, the threads
  that came through it and have not decremented `val` (`Holders`), the thread that
  is about to post it (`Opening`), and what `val` still promises beside that
  (`Spare`). The versions differ in which of the four a statement moves a permit
  from or to, and can forget one but never make one. Hence `NoVersionOverGrants`,
  not even the one whose `semPost` assigns to `val`, and, since a semWait that is
  granted is one of those covered, `EveryVersionImplementsSem`: every step is a
  step of `AbstractSem` or a stutter when `credit` is read as the semaphore's value.
- `GateInv`, for `assignment3/correct.h`: `B1`, plus a thread past the gate that
  has not tested, plus a thread about to open it, is one token exactly if there is
  a permit left, and never more than one. Hence `GateInvariant`, `A3GateIsBinary`.
- `WakeInv`, for `incorrect.h`: the threads that found `val` negative (`Sleepers`)
  are as many as `val` still owes, plus those that were woken, by a post of `B1`
  that was made or is about to be. With `GateInv` it gives `NoPermitIsLost`.
- `PostInv`, for all versions: `B2` is not taken without a thread that is going to
  post it (`MutexHeld`), so that a thread can be blocked for good only in a gate;
  and for assignment2's `correct.h`, whose every post opens the gate, what is
  posted and not taken can be seen in the gate or with a thread at it (`Shown`).
  What that header forgets is at most `k` - 1 of the first `k` permits.

**ProdConPosixProofs.** `SlotsAreAccountedFor`: each semaphore plus the threads on
their way is the number of free slots, or of values. It is nearly inductive; it
needs that producers and consumers stay in their code and that the loop counter is
bounded. The counting lemmas (`StepCount`, `StepCounts`) say how a step changes
the cardinality of the set of threads at given labels. `BufferStaysInBounds`
follows: a producer at its store is one of the threads counted, so a slot is free.
`NoValueIsLost` is `Conservation`, which speaks of the moments at which the mutex
is free. In between a value may be in a slot that the index does not count yet, or
does not count any more: `Ledger` says, at every moment, how many values of each
producer are in the slots, in the hands of the consumer that is fetching, and
taken; `OneInMutex` (one thread at a time has the mutex) keeps it. `TallyInv` is for the
programs that build on this one: a taken mutex has a holder, and the index is the
number of times that producers advanced it less the number of times that consumers
retreated it. As there are as many producers as consumers, and all make the same
number of turns, a side that is through has counted more than one that is not
(`OneSideIsThrough`), so that a consumer who is left over finds a value and no
producer is left over (`NobodyIsLeftOver`).

**ProdConProofs.** `HandMadeStandsIn`: with any header a step of `ProdCon` is a step
of `ProdConPosix` or a stutter. Through the instance `P` of `CountingSemProofs` the
calls and statements of a thread are those the library's lemmas speak of
(`SameStep`, `SameCalls`, `SameInit`), and `StepEffect` says which of them take a
permit or add one; `LinkInv` says which call a thread in the library is in. The
theorems of `ProdConPosixProofs` then hold under the mapping (instance `Q`), and
seen from the concrete program they are `HandMadeStaysInBounds` and
`HandMadeLosesNoValue`. `BlockedOnlyAtLimits` combines two of them: when nothing is
under way `NoPermitIsLost` makes a blocked thread's semaphore zero, and the slot
accounting makes that a full or an empty buffer.

`NobodyWaitsForEver` is `NotAllWait`. If nobody can go on, nobody has a mutex, so
that everybody is blocked in a gate or is done (`OnlyGatesBlock`) and the slot
accounting is at rest: the permits of `fs` and `es` are the free slots and the
values. A blocked consumer then means an empty buffer, whichever the header: `es`
starts at 0, of which assignment2's `correct.h` forgets nothing. A blocked producer
means a full buffer with the two other headers; with this one, which may forget
`SIZE` - 1 permits, it means that the buffer is not empty (`BlockedPermits`). So
producers and consumers do not both wait, and when one side is through,
`NobodyIsLeftOver` says that the other is not waiting.

**ReadersWritersProofs.** `Exclusion` is not inductive, as the reader that gives
`wrt` back need not be the one that took it. `LockInv` says who holds what:
`MutexInv` (one reader at a time between lock and unlock, with `mutex` locked);
`CountInv` (`numreader` is the number of the readers in `Counted`, the first is
alone among them, and the last leaves nobody behind); `WrtInv` (`wrt` is taken
exactly once, by one writer or by the readers as a `Group`). It holds until `main`
destroys the locks, and from then on all that is left, and needed, is that no
writer still runs: `Inv`. Then `ReadersAndWritersExclude` and `WrtComesBack`
follow since someone reads exactly if the group holds `wrt` (`ReadingInGroup`).
`NoUpdateIsLost`: `cnt` is two to the number of the writers that stored it, and what
a writer loaded is `cnt` until it stores (`CntInv`), which `Exclusion` keeps while
the locks exist, and the end of all writers afterwards. That 2^(n+1) is 2 * 2^n,
which no prover knows, is taken from the number of subsets of a set of n + 1
(`NextPower`).

For the programs with `countSem`, `CountingIsARestriction`: every step of
theirs, in any version of the library, is a step of `ReadersWriters` or a stutter,
so that `AllProgramsExclude` carries the three theorems over to all four. The
library's lemmas are used through an instance `P` as above.
`LimitInv` says that `credit` and the number of admitted readers make `numCount`,
which needs that a reader is in the call its stage says it is in (`InCall`).
`LimitHolds` follows for every header, as `credit` is never negative, and
`LimitIsReached` for the two that lose no permit.

**MailboxProofs.** `OrderInv`: the lines of a kirk are in order: first those a
spock took, in the order it took them, then those in the queue, then the one about
to be sent (`Ordered`; `OrderedSend`, `OrderedReceive` and `OrderedLess` say how
sending, receiving, and removing a queue or killing a spock keep it).
`EachLineGoesToOneSpock` and `LinesKeepTheirOrder` follow: two places that held
the same line would be before each other. `QueuesInv` says that a queue is created
by a kirk that creates no other, so that identifiers do not come back, and with it
`KeptInv` gives `NothingIsLostInAQueue`: what a queue accepted is in it or with a
spock that took it. `MailboxTypes` needs both.

**ProcessProofs.** The handshake first. `IInv` says that the integer passes 1 only in segments
whose text is written to its end (`TextInv`), and that there are as many segments
as `Generations` has (`SegmentsInv`); it holds of runs that meet what killed ones
left. `FreshInv` adds who is behind a value when no run was killed: a 2 is B's and
a 3 is C's, who are through with the text, and C's turn begins after B's ended.
`TurnInv` adds, for the programs whose B waits, that nothing happens in segments
whose integer A has not set. `PrintsFinishedText` follows from the first two,
`TurnsGoForward` from all.

The programs that fork: `ForkInv` says what the place of one thread tells about the
others. `FileOfStmt` (which program has which statements) and `OneThread` (a child
has the thread that forked it, an ended process has none) are what a reader takes
for granted. `ChildOfThread`: whoever is past its `waitpid` has reaped its child, or
fork failed. `Worked`: main joins the threads in order, and those it has joined have
done their work. These give `NobodyIsCutOff`, and `ChildrenSeeThePast` needs of them
that a thread which forks has not worked. `Handshake`, in a run of `test.c` that
finds no name and opens the semaphore twice: a permit is there only after the child
has printed, and it and the name are gone when the parent waits for the child. It is
kept by the next start, since only a run that finds the name is exempt.
`ParentReportsAfterChild` and `TestRemovesItsName` follow.

**ChopsticksProofs.** `Inv` has four parts: types; `Alone` (whoever is in the
monitor has the mutex and is the only one); `StateOfPc` (which states each label
allows: a philosopher that ate has EATING, one that tests may have either);
`NeighboursDontEat` on `state`. `NeighboursNeverDine` follows as dining implies
EATING. `PutForgetsNobody` adds `HungryAreUpdated`: a philosopher that may eat is
about to be updated by the thread in the monitor. `MonitorKeepsContract`: every
step is a step of the contract or changes nothing it sees. The arithmetic of
`LEFT` and `RIGHT` modulo N is the lemma `Neighbours`.

**SortingProofs.** `average_1` first. The exchanges change the numbers they sort, so
that neither order nor rank is kept by the usual argument. The invariant `Sorting`
has types, and, for numbers that fit an `int`, three parts (`OnItsWay`).

- `OrderKept`: places that a pass has settled are in order where they are not whole
  numbers. An exchange can put a number in front of one that was larger only by
  its fraction, and then that number has lost its own.
- `RankKept`: for every whole w, how many numbers greater than w are still in front
  of one that is not. Each pass takes one away (`RankStep`, `RankPass`), and after as
  many passes as there are numbers none is left, so that the whole parts are in
  order. With `OrderKept` the array is sorted (`SortedAtLast`).
- `NumbersKept`: a set of integers that truncation does not leave has as many
  members in the array at least as it had in the request, and one that truncation
  does not enter as many at most. From it, and the order, every place has the
  integer part and the sign of the number that belongs there
  (`PlaceKept`), and the result is the median but for less than one (`MedianKept`).
  From it, too, all numbers fit an `int` as long as the sort lasts (`FittingKept`),
  so that no exchange is undefined.

`SortingWorks` follows for any multiples of 1/`U` that fit, and any length. The service adds
`OwnNumbers` (the datagrams under way and the array of the procedure are made of
the numbers of the client they are from or for) and `Registered` (between
`pmap_unset` and `svc_register` no port is registered), and gives
`ClientsPrintTheirMedian` and `ServerIsFound`.

The linked list: `ListInv` says that there is a path, a sequence of different nodes
that `next` leads through from `head` to its end, that it has all allocated nodes,
and that the numbers along it are in order. `NthOfPath` shows that the walks of the
program are walks along it, so that there is one such path only, and `NoNodeIsLost`.
A new number goes where as many nodes are smaller as `Smaller` counts, which is the
place that `insert`, `addafter`, `add` and `append` choose between them; `PathInsert`
and `PathDelete` say what the path is afterwards, `Inserted` and `Removed` that its
numbers are those that the abstract list has. Hence `ListIsSorted`, the refinement
of `SortedList`.

**What the proofs changed.** Two mistakes of the models came to light when a lemma
would not be proved: `Truncate` rounded negative fractions away from zero, since
`-x \div U` is `-(x \div U)`, and now has the parentheses it needs; and the first
statements of the fork programs were chosen by a CASE whose arms overlapped. The
invariants that TLC can evaluate (`PostInv`, `TallyInv`, `CntInv` and `ForkInv` among
them) hold on the runs' small instances as well.

**Only model-checked.** Every invariant and every action property that a passing
run checks is a theorem. What is left to TLC is liveness, which is out of the
prover's reach: `Termination` of `ProdConPosix` and of `CountedReaders`,
`TakeReturns`, `EndOfInputStopsSpocks`, `OnlyAMayHang`, `CallReturns` and `Ends`; and
of the two fair refinements, `ImplementsFairSem` and `ImplementsContract`, the
fairness (their steps are `EveryVersionImplementsSem` and `MonitorKeepsContract`).

## 5. What is left out, and the plan

Not modelled, for good:

- the print spooler's ring: `assignment3/correctQ1.c` does not compile, and
  `assignment.c` takes addresses for counts;
- `assignment3/task1.c`: each of its producers reads its first number through a
  pointer it never set, and nothing after that is defined; `assignment2/test.c`
  waits on an empty semaphore, alone;
- what differs in `assignment1/q5` (a sort that is not called, a client without
  its call) and `assignment1/avg_proc.c`, a sum without a server in the
  repository;
- rpcgen's data conversion (generated, one library call each) and `m-rusers.c`;
- the token client, whose server is missing, and the one-shot shared-memory server
  and client, which repeat the pattern of `ShmHandshake`;
- `testCode/test.c` and `plusplus.cpp`, which are sequential.

Left out of the modelled programs: return codes of calls that fail only for lack of
resources, but for `fork` and `sem_open` in the programs of `ForkPrograms` (so a
`pthread_create` that fails there, after which the thread that was not created is
joined, and a `fork` that fails in `child.c` and `childcopy.c`, after which A polls
for ever); the rounding of doubles, and those that are no numbers; a second average
server beside one that runs; and `sem_destroy` of uninitialised semaphores after the
last join in `assignment2/correctQ1.c`.

What could still be proved: for the steps that liveness rests on, that a thread
executes a bounded number of statements (a number that every step of `ProdConPosix`
and of `CountedReaders` decreases), so that deadlock freedom is termination; and
deadlock freedom itself of `ProdConPosix` and of `ReadersWriters`, as `NotAllWait` is
of `ProdCon`.
