--------------------------- MODULE ProdConProofs ---------------------------
(***************************************************************************)
(* Theorems about correctQ1.c and incorrectQ1.c, with any of the headers,  *)
(* for any number of threads, any SIZE and any PRODUCER_LOOPS: they do     *)
(* nothing that prod_con.c could not do, and what is proved of prod_con.c  *)
(* is therefore true of them.                                              *)
(***************************************************************************)
EXTENDS ProdCon, FiniteSetTheorems, TLAPS

(* What the library's proofs say of fs and es.  They end with a client     *)
(* that makes at most MaxCalls calls, which is not this program.           *)
P == INSTANCE CountingSemProofs WITH
  Threads <- Workers,
  K <- [s \in Sems |-> IF s[1] = "fs" THEN SIZE ELSE 0],
  Lib <- [s \in Sems |-> s[2]],
  MaxCalls <- 0, calls <- [t \in Workers |-> 0]

LEMMA AssumptionOfP == P!CountingSemAssumption /\ P!SemClientAssumption
<1>1. IsFiniteSet(Workers)
  BY BufferAssumption, FS_Union DEF Workers
<1>2. [s \in Sems |-> IF s[1] = "fs" THEN SIZE ELSE 0] \in [Sems -> Nat]
  BY BufferAssumption
<1>3. [s \in Sems |-> s[2]]
        \in [Sems -> {P!A2Correct, P!A2Incorrect, P!A3Correct, P!A3Main}]
  BY HeadersAssumption
  DEF Sems, P!A2Correct, P!A2Incorrect, P!A3Correct, P!A3Main,
      A2Correct, A2Incorrect, A3Correct, A3Main
<1> QED
  BY <1>1, <1>2, <1>3 DEF P!CountingSemAssumption, P!SemClientAssumption, IsFiniteSet, P!IsFiniteSet

LEMMA SameStep == ASSUME NEW t \in Workers PROVE SemStep(t) <=> P!SemStep(t)
BY DEF
  SemStep, MutexWait, MutexPost, GateWait, Decrement, WaitTest, IncorrectDecrement,
  IncorrectWaitTest, IncorrectRelease, IncorrectGateWait, Increment,
  A2CorrectPostTest, A2IncorrectPostTest, A3CorrectPostTest, A3MainPostTest,
  OpenGate, Goto, GateFirst, A2Correct, A2Incorrect, A3Correct, A3Main,
  P!SemStep, P!MutexWait, P!MutexPost, P!GateWait, P!Decrement, P!WaitTest,
  P!IncorrectDecrement, P!IncorrectWaitTest, P!IncorrectRelease,
  P!IncorrectGateWait, P!Increment, P!A2CorrectPostTest,
  P!A2IncorrectPostTest, P!A3CorrectPostTest, P!A3MainPostTest, P!OpenGate,
  P!Goto, P!GateFirst, P!A2Correct, P!A2Incorrect, P!A3Correct, P!A3Main

LEMMA SameCalls ==
  ASSUME NEW t \in Workers, NEW s \in Sems
  PROVE  /\ CallSemWait(t, s) <=> P!CallSemWait(t, s)
         /\ CallSemPost(t, s) <=> P!CallSemPost(t, s)
BY DEF CallSemWait, CallSemPost, Enter, GateFirst, A2Incorrect,
       P!CallSemWait, P!CallSemPost, P!Enter, P!GateFirst, P!A2Incorrect

LEMMA SameStatus ==
  ASSUME NEW t \in Workers
  PROVE  /\ Waiting(t) <=> P!Waiting(t)
         /\ Waiting(t)' <=> P!Waiting(t)'
         /\ Posting(t) <=> P!Posting(t)
         /\ Posting(t)' <=> P!Posting(t)'
BY DEF Waiting, Posting, GateFirst, A2Incorrect,
       P!Waiting, P!Posting, P!GateFirst, P!A2Incorrect

LEMMA SameInit == SemInit <=> P!SemInit
BY DEF SemInit, GateFirst, A2Incorrect, P!SemInit, P!GateFirst, P!A2Incorrect

-----------------------------------------------------------------------------
WaitStatements == {"w_gate", "w_mutex", "w_dec", "w_test", "w_exit", "w_block"}

PostStatements == {"p_mutex", "p_inc", "p_test", "p_exit"}

(* A thread in the library is in the call that it has just made.           *)
InCall(t) ==
  at[t] # "out" =>
    \/ pc[t] = "lock" /\ at[t] \in WaitStatements /\ givenSem[t] = WaitsOn(t)
    \/ pc[t] = "loop" /\ at[t] \in PostStatements /\ givenSem[t] = PostsOn(t)

LinkInv ==
  /\ header \in Headers
  /\ pc \in [Workers -> Labels]
  /\ P!LibInv
  /\ \A t \in Workers : InCall(t)

LEMMA LinkTypes ==
  ASSUME LinkInv
  PROVE  /\ fs \in Sems /\ es \in Sems /\ fs # es
         /\ \A t \in Workers : WaitsOn(t) \in {fs, es} /\ PostsOn(t) \in {fs, es}
         /\ at \in [Workers -> P!Statements] /\ givenSem \in [Workers -> Sems]
         /\ credit \in [Sems -> Int]
         /\ P!LibInv /\ P!GrantInv /\ P!MutexInv
BY DEF LinkInv, fs, es, Sems, WaitsOn, PostsOn, P!LibInv, P!GrantInv, P!MutexInv, P!SemTypeOK

LEMMA InitLink == Init => LinkInv
<1> SUFFICES ASSUME Init PROVE LinkInv
  OBVIOUS
<1>1. givenSem \in [Workers -> Sems]
  BY DEF Init, WaitsOn, Sems, fs, es
<1>2. P!LibInv
  BY <1>1, AssumptionOfP, SameInit, P!InitLibInv DEF Init
<1> QED
  BY <1>2 DEF Init, LinkInv, InCall, SemInit, BufferInit, Labels

(* What a thread does is a statement of its own.                           *)
LEMMA BufferStepIsLocal ==
  ASSUME NEW t \in Workers, BufferStep(t), pc \in [Workers -> Labels]
  PROVE  \E to \in Labels : pc' = [pc EXCEPT ![t] = to]
BY DEF BufferStep, LoopTest, Lock, InsertStore, InsertAdvance, DequeueRetreat,
       DequeueFetch, Unlock, Step, Labels

LEMMA NextLink == LinkInv /\ [Next]_vars => LinkInv'
<1> SUFFICES ASSUME LinkInv, [Next]_vars PROVE LinkInv'
  OBVIOUS
<1>1. ASSUME NEW t \in Workers, BodyStep(t), header' = header PROVE LinkInv'
  <2>1. at[t] = "out" /\ UNCHANGED <<val, B1, B2, at, givenSem, credit>>
    BY <1>1 DEF BodyStep, libVars
  <2>2. PICK to \in Labels : pc' = [pc EXCEPT ![t] = to]
    BY <1>1, BufferStepIsLocal DEF BodyStep, LinkInv
  <2>3. P!LibInv'
    BY <2>1, AssumptionOfP, P!UnchangedLibInv DEF LinkInv, P!semVars
  <2>4. \A u \in Workers : InCall(u)'
    BY <1>1, <2>1, <2>2 DEF LinkInv, InCall, WaitsOn, PostsOn, fs, es
  <2> QED
    BY <1>1, <2>2, <2>3, <2>4 DEF LinkInv
<1>2. ASSUME NEW t \in Workers, CallWait(t) \/ CallPost(t), header' = header PROVE LinkInv'
  <2>1. PICK s \in {fs, es} :
          \/ /\ s = WaitsOn(t) /\ CallSemWait(t, s)
             /\ pc' = [pc EXCEPT ![t] = "lock"]
          \/ /\ s = PostsOn(t) /\ CallSemPost(t, s)
             /\ pc' = [pc EXCEPT ![t] = "loop"]
    BY <1>2, LinkTypes DEF CallWait, CallPost, Step
  <2>2. P!LibInv'
    BY <2>1, LinkTypes, AssumptionOfP, SameCalls, P!CallLibInv
  <2>3. /\ givenSem' = [givenSem EXCEPT ![t] = s]
        /\ \/ pc'[t] = "lock" /\ s = WaitsOn(t) /\ at'[t] \in WaitStatements
           \/ pc'[t] = "loop" /\ s = PostsOn(t) /\ at'[t] \in PostStatements
        /\ \A u \in Workers : u # t => at'[u] = at[u] /\ pc'[u] = pc[u]
    BY <2>1, LinkTypes DEF LinkInv, CallSemWait, CallSemPost, Enter, WaitStatements, PostStatements
  <2>4. \A u \in Workers : InCall(u)'
    BY <1>2, <2>3, LinkTypes DEF LinkInv, InCall, WaitsOn, PostsOn, fs, es
  <2> QED
    BY <1>2, <2>1, <2>2, <2>4 DEF LinkInv, Labels
<1>3. ASSUME NEW t \in Workers, SemStep(t), UNCHANGED <<bufferVars, header>> PROVE LinkInv'
  <2>1. P!SemStep(t)
    BY <1>3, SameStep
  <2>2. P!LibInv'
    BY <2>1, LinkTypes, AssumptionOfP, P!StepLibInv
  <2>3. givenSem' = givenSem /\ \A u \in Workers : u # t => at'[u] = at[u]
    BY <2>1, LinkTypes, AssumptionOfP, P!StepIsLocal
  <2>4. /\ at[t] # "out"
        /\ at[t] \in WaitStatements => at'[t] \in {"out"} \cup WaitStatements
        /\ at[t] \in PostStatements => at'[t] \in {"out"} \cup PostStatements
    BY <2>1, LinkTypes, AssumptionOfP, P!StepStaysInCall DEF WaitStatements, PostStatements
  <2>5. pc' = pc
    BY <1>3 DEF bufferVars
  <2>6. \A u \in Workers : InCall(u)'
    BY <1>3, <2>3, <2>4, <2>5 DEF LinkInv, InCall, WaitsOn, PostsOn, fs, es
  <2> QED
    BY <1>3, <2>2, <2>5, <2>6 DEF LinkInv
<1>4. CASE UNCHANGED vars
  <2>1. UNCHANGED <<pc, header, val, B1, B2, at, givenSem, credit>>
    BY <1>4 DEF vars, bufferVars, libVars
  <2>2. P!LibInv'
    BY <2>1, AssumptionOfP, P!UnchangedLibInv DEF LinkInv, P!semVars
  <2> QED
    BY <2>1, <2>2 DEF LinkInv, InCall, WaitsOn, PostsOn, fs, es
<1> QED
  BY <1>1, <1>2, <1>3, <1>4 DEF Next, ThreadStep, MainReturns

-----------------------------------------------------------------------------
(* The refinement.                                                         *)

(* A statement outside the library is the same statement of prod_con.c.    *)
LEMMA BodyImplements ==
  ASSUME LinkInv, NEW t \in Workers, BodyStep(t), header' = header
  PROVE  Posix!Next
<1>1. at[t] = "out" /\ UNCHANGED <<val, B1, B2, at, givenSem, credit>> /\ BufferStep(t)
  BY DEF BodyStep, libVars
<1>2. \A u \in Workers : (Waiting(u)' <=> Waiting(u)) /\ (Posting(u)' <=> Posting(u))
  BY <1>1 DEF Waiting, Posting, GateFirst
<1>3. ~Waiting(t) /\ ~Posting(t) /\ pc \in [Workers -> Labels]
  BY <1>1 DEF Waiting, Posting, LinkInv
<1>4. ASSUME NEW from, NEW to, Step(t, from, to) PROVE Posix!Step(t, from, to)
  <2>1. AbstractPc[t] = from
    BY <1>3, <1>4 DEF Step, AbstractPc
  <2>2. AbstractPc' = [AbstractPc EXCEPT ![t] = to]
    BY <1>2, <1>3, <1>4 DEF Step, AbstractPc
  <2> QED
    BY <2>1, <2>2 DEF Posix!Step
<1>5. Posix!BufferStep(t)
  BY <1>1, <1>4
  DEF BufferStep, LoopTest, Lock, InsertStore, InsertAdvance, DequeueRetreat,
      DequeueFetch, Unlock, Posix!BufferStep, Posix!LoopTest, Posix!Lock,
      Posix!InsertStore, Posix!InsertAdvance, Posix!DequeueRetreat,
      Posix!DequeueFetch, Posix!Unlock
<1>6. (credit[fs])' = credit[fs] /\ (credit[es])' = credit[es]
  BY <1>1 DEF fs, es
<1> QED
  BY <1>5, <1>6 DEF Posix!Next, Posix!ThreadStep, Posix!Workers, Workers

(* A call has no effect yet.                                               *)
LEMMA CallStutters ==
  ASSUME LinkInv, NEW t \in Workers, CallWait(t) \/ CallPost(t), header' = header
  PROVE  UNCHANGED Posix!vars
<1>1. PICK s \in {fs, es} :
        \/ Step(t, "wait", "lock") /\ CallSemWait(t, s)
        \/ Step(t, "post", "loop") /\ CallSemPost(t, s)
  BY LinkTypes DEF CallWait, CallPost
<1>2. P!CallSemWait(t, s) <=> CallSemWait(t, s)
  BY LinkTypes, SameCalls
<1>3. P!CallSemPost(t, s) <=> CallSemPost(t, s)
  BY LinkTypes, SameCalls
<1>4. AbstractPc' = AbstractPc
  <2>1. CASE Step(t, "wait", "lock") /\ CallSemWait(t, s)
    <3>1. /\ ~P!Waiting(t) /\ ~P!Posting(t) /\ P!Waiting(t)'
          /\ \A u \in Workers \ {t} : /\ P!Waiting(u)' <=> P!Waiting(u)
                                      /\ P!Posting(u)' <=> P!Posting(u)
      BY <1>2, <2>1, LinkTypes, AssumptionOfP, P!CallEffect
    <3> QED
      BY <2>1, <3>1, SameStatus DEF AbstractPc, Step, LinkInv
  <2>2. CASE Step(t, "post", "loop") /\ CallSemPost(t, s)
    <3>1. /\ ~P!Waiting(t) /\ ~P!Posting(t) /\ ~P!Waiting(t)' /\ P!Posting(t)'
          /\ \A u \in Workers \ {t} : /\ P!Waiting(u)' <=> P!Waiting(u)
                                      /\ P!Posting(u)' <=> P!Posting(u)
      BY <1>3, <2>2, LinkTypes, AssumptionOfP, P!CallEffect
    <3> QED
      BY <2>2, <3>1, SameStatus DEF AbstractPc, Step, LinkInv
  <2> QED
    BY <1>1, <2>1, <2>2
<1>5. UNCHANGED <<buffer, buffer_index, buffer_mutex, i, taken, credit>>
  BY DEF CallWait, CallPost, DataUnchanged, CallSemWait, CallSemPost, Enter
<1> QED
  BY <1>4, <1>5 DEF Posix!vars, Posix!bufferVars, fs, es

(* A statement of the library is the sem_wait or the sem_post of           *)
(* prod_con.c, if credit moves, or nothing.                                *)
LEMMA LibraryImplements ==
  ASSUME LinkInv, NEW t \in Workers, SemStep(t), UNCHANGED <<bufferVars, header>>
  PROVE  Posix!Next \/ UNCHANGED Posix!vars
<1> DEFINE s == givenSem[t]
<1>1. P!SemStep(t) /\ UNCHANGED <<buffer, buffer_index, buffer_mutex, pc, i, taken>>
  BY SameStep DEF bufferVars
<1>2. fs' = fs /\ es' = es
  BY DEF fs, es
<1>3. ASSUME NEW u \in Workers \ {t} PROVE AbstractPc'[u] = AbstractPc[u]
  <2>1. (P!Waiting(u)' <=> P!Waiting(u)) /\ (P!Posting(u)' <=> P!Posting(u))
    BY <1>1, LinkTypes, AssumptionOfP, P!OthersGoOn
  <2> QED
    BY <1>1, <2>1, SameStatus DEF AbstractPc
<1>4. at[t] # "out" /\ InCall(t)
  BY <1>1, LinkTypes, AssumptionOfP, P!StepStaysInCall DEF LinkInv
<1>5. /\ AbstractPc[t] = (IF P!Waiting(t) THEN "wait" ELSE IF P!Posting(t) THEN "post" ELSE pc[t])
      /\ AbstractPc'[t] = (IF P!Waiting(t)' THEN "wait"
                           ELSE IF P!Posting(t)' THEN "post" ELSE pc[t])
  BY <1>1, SameStatus DEF AbstractPc
<1>6. ASSUME NEW from, NEW to, AbstractPc[t] = from, AbstractPc'[t] = to
      PROVE  Posix!Step(t, from, to)
  BY <1>3, <1>6 DEF Posix!Step, AbstractPc
<1>7. CASE /\ credit' = credit /\ (P!Waiting(t)' <=> P!Waiting(t))
           /\ (P!Posting(t)' <=> P!Posting(t))
  <2>1. AbstractPc' = AbstractPc
    BY <1>3, <1>5, <1>7 DEF AbstractPc
  <2> QED
    BY <1>1, <1>2, <1>7, <2>1 DEF Posix!vars, Posix!bufferVars
<1>8. CASE /\ P!Waiting(t) /\ ~P!Waiting(t)' /\ ~P!Posting(t)' /\ credit[s] > 0
           /\ credit' = [credit EXCEPT ![s] = @ - 1]
  <2>1. pc[t] = "lock" /\ s = WaitsOn(t)
    BY <1>4, <1>8 DEF InCall, P!Waiting, WaitStatements, PostStatements
  <2>2. Posix!Step(t, "wait", "lock")
    BY <1>5, <1>6, <1>8, <2>1
  <2>3. CASE t \in Producers
    <3>1. s = fs /\ credit'[fs] = credit[fs] - 1 /\ credit'[es] = credit[es]
      BY <1>8, <2>1, <2>3, LinkTypes DEF WaitsOn
    <3>2. Posix!ProducerWait(t)
      BY <1>1, <1>2, <1>8, <2>2, <2>3, <3>1 DEF Posix!ProducerWait
    <3> QED
      BY <3>2 DEF Posix!Next, Posix!ThreadStep, Posix!Workers, Workers
  <2>4. CASE t \notin Producers
    <3>1. /\ t \in Consumers /\ s = es
          /\ credit'[es] = credit[es] - 1 /\ credit'[fs] = credit[fs]
      BY <1>8, <2>1, <2>4, LinkTypes DEF WaitsOn, Workers
    <3>2. Posix!ConsumerWait(t)
      BY <1>1, <1>2, <1>8, <2>2, <3>1 DEF Posix!ConsumerWait
    <3> QED
      BY <3>2 DEF Posix!Next, Posix!ThreadStep, Posix!Workers, Workers
  <2> QED
    BY <2>3, <2>4
<1>9. CASE /\ P!Posting(t) /\ ~P!Posting(t)' /\ ~P!Waiting(t) /\ ~P!Waiting(t)'
           /\ credit' = [credit EXCEPT ![s] = @ + 1]
  <2>1. pc[t] = "loop" /\ s = PostsOn(t)
    BY <1>4, <1>9 DEF InCall, P!Posting, WaitStatements, PostStatements
  <2>2. Posix!Step(t, "post", "loop")
    BY <1>5, <1>6, <1>9, <2>1
  <2>3. CASE t \in Producers
    <3>1. s = es /\ credit'[es] = credit[es] + 1 /\ credit'[fs] = credit[fs]
      BY <1>9, <2>1, <2>3, LinkTypes DEF PostsOn
    <3>2. Posix!ProducerPost(t)
      BY <1>1, <1>2, <2>2, <2>3, <3>1 DEF Posix!ProducerPost
    <3> QED
      BY <3>2 DEF Posix!Next, Posix!ThreadStep, Posix!Workers, Workers
  <2>4. CASE t \notin Producers
    <3>1. /\ t \in Consumers /\ s = fs
          /\ credit'[fs] = credit[fs] + 1 /\ credit'[es] = credit[es]
      BY <1>9, <2>1, <2>4, LinkTypes DEF PostsOn, Workers
    <3>2. Posix!ConsumerPost(t)
      BY <1>1, <1>2, <2>2, <3>1 DEF Posix!ConsumerPost
    <3> QED
      BY <3>2 DEF Posix!Next, Posix!ThreadStep, Posix!Workers, Workers
  <2> QED
    BY <2>3, <2>4
<1> QED
  BY <1>1, <1>7, <1>8, <1>9, LinkTypes, AssumptionOfP, P!StepEffect

(* Compiled with any of the headers, the program on fs and es does nothing *)
(* that prod_con.c on two sem_t could not do.                              *)
THEOREM HandMadeStandsIn == Spec => ImplementsPosix
<1>1. Init => Posix!Init
  <2> SUFFICES ASSUME Init PROVE Posix!Init
    OBVIOUS
  <2>1. AbstractPc = pc
    BY DEF Init, SemInit, BufferInit, AbstractPc, Waiting, Posting
  <2>2. credit[fs] = SIZE /\ credit[es] = 0
    BY DEF Init, SemInit, fs, es, Sems
  <2> QED
    BY <2>1, <2>2 DEF Init, BufferInit, Posix!Init, Posix!BufferInit, Posix!Workers, Workers
<1>2. LinkInv /\ [Next]_vars => [Posix!Next]_(Posix!vars)
  <2> SUFFICES ASSUME LinkInv, [Next]_vars PROVE Posix!Next \/ UNCHANGED Posix!vars
    OBVIOUS
  <2>1. ASSUME NEW t \in Workers, ThreadStep(t) PROVE Posix!Next \/ UNCHANGED Posix!vars
    BY <2>1, BodyImplements, CallStutters, LibraryImplements DEF ThreadStep
  <2>2. CASE UNCHANGED vars
    <3>1. UNCHANGED <<buffer, buffer_index, buffer_mutex, pc, i, taken,
                      val, at, givenSem, credit, header>>
      BY <2>2 DEF vars, bufferVars, libVars
    <3>2. AbstractPc' = AbstractPc
      BY <3>1 DEF AbstractPc, Waiting, Posting, GateFirst
    <3> QED
      BY <3>1, <3>2 DEF Posix!vars, Posix!bufferVars, fs, es
  <2> QED
    BY <2>1, <2>2 DEF Next, MainReturns
<1> QED
  BY <1>1, <1>2, InitLink, NextLink, PTL DEF Spec, ImplementsPosix, Posix!Spec
-----------------------------------------------------------------------------
(* What is proved of prod_con.c, seen from here.                           *)
Q == INSTANCE ProdConPosixProofs WITH
  pc <- AbstractPc, full_sem <- credit[fs], empty_sem <- credit[es]

LEMMA AssumptionOfQ == Q!BufferAssumption
BY BufferAssumption DEF Q!BufferAssumption, IsFiniteSet, Q!IsFiniteSet, Cardinality, Q!Cardinality

LEMMA SameNext == Posix!Next <=> Q!Next
BY DEF Posix!Next, Posix!ThreadStep, Posix!BufferStep, Posix!LoopTest, Posix!Lock,
       Posix!InsertStore, Posix!InsertAdvance, Posix!DequeueRetreat, Posix!DequeueFetch,
       Posix!Unlock, Posix!ProducerWait, Posix!ProducerPost, Posix!ConsumerWait,
       Posix!ConsumerPost, Posix!MainReturns, Posix!Finished, Posix!vars,
       Posix!bufferVars, Posix!Step, Posix!Workers,
       Q!Next, Q!ThreadStep, Q!BufferStep, Q!LoopTest, Q!Lock,
       Q!InsertStore, Q!InsertAdvance, Q!DequeueRetreat, Q!DequeueFetch,
       Q!Unlock, Q!ProducerWait, Q!ProducerPost, Q!ConsumerWait,
       Q!ConsumerPost, Q!MainReturns, Q!Finished, Q!vars,
       Q!bufferVars, Q!Step, Q!Workers

LEMMA ImplementsQ == Spec => Q!Spec
<1>1. Posix!Init => Q!Init
  BY DEF Posix!Init, Posix!BufferInit, Posix!Workers, Q!Init, Q!BufferInit, Q!Workers
<1>2. [Posix!Next]_(Posix!vars) => [Q!Next]_(Q!vars)
  BY SameNext DEF Posix!vars, Posix!bufferVars, Q!vars, Q!bufferVars
<1> QED
  BY <1>1, <1>2, HandMadeStandsIn, PTL DEF ImplementsPosix, Posix!Spec, Q!Spec

(* insertbuffer and dequeuebuffer of correctQ1.c and incorrectQ1.c never   *)
(* take their error branches, whichever header is included, the one that   *)
(* forgets permits among them.                                             *)
THEOREM HandMadeStaysInBounds == Spec => []NoOverflowOrUnderflow
<1>1. LinkInv /\ Q!NoOverflowOrUnderflow => NoOverflowOrUnderflow
  <2> SUFFICES ASSUME LinkInv, Q!NoOverflowOrUnderflow, NEW t \in Workers
               PROVE  /\ pc[t] = "insert" => buffer_index < SIZE
                      /\ pc[t] = "dequeue" => buffer_index > 0
    BY DEF NoOverflowOrUnderflow
  <2>1. pc[t] \in {"insert", "dequeue"} => AbstractPc[t] = pc[t]
    BY DEF LinkInv, InCall, AbstractPc, Waiting, Posting
  <2> QED
    BY <2>1 DEF Q!NoOverflowOrUnderflow, Q!Workers, Workers
<1> QED
  BY <1>1, InitLink, NextLink, ImplementsQ, AssumptionOfQ, Q!BufferStaysInBounds, PTL DEF Spec

(* No value is lost, overwritten or read twice in them either.             *)
THEOREM HandMadeLosesNoValue == Spec => []Conservation
<1>1. LinkInv /\ Q!Conservation => Conservation
  <2> SUFFICES ASSUME LinkInv, Q!Conservation, buffer_mutex = "unlocked", NEW p \in Producers
               PROVE  Stored(p) =
                        taken[p] + Cardinality({n \in 0..buffer_index - 1 : buffer[n] = p})
    BY DEF Conservation
  <2>1. p \in Workers /\ InCall(p)
    BY DEF LinkInv, Workers
  <2>2. pc[p] \in {"wait", "lock", "done"} <=> AbstractPc[p] \in {"wait", "lock", "done"}
    BY <2>1 DEF InCall, AbstractPc, Waiting, Posting, WaitStatements, PostStatements
  <2>3. Q!Stored(p) = Stored(p)
    BY <2>2 DEF Stored, Q!Stored
  <2> QED
    BY <2>3 DEF Q!Conservation, Cardinality, Q!Cardinality
<1> QED
  BY <1>1, InitLink, NextLink, ImplementsQ, AssumptionOfQ, Q!NoValueIsLost, PTL DEF Spec

-----------------------------------------------------------------------------
(* When nothing is under way, everybody is between two iterations or       *)
(* blocked, and the semaphores count the slots.                            *)
LEMMA QuietCounts ==
  ASSUME LinkInv, Q!SlotAccounting, Q!TypeOK, Quiet
  PROVE  credit[fs] + buffer_index = SIZE /\ credit[es] = buffer_index
<1>1. \A t \in Workers : AbstractPc[t] \in {"loop", "wait", "done"}
  BY DEF Quiet, Blocked, LinkInv, InCall, AbstractPc, Waiting, Posting
<1>2. Q!Claiming = {} /\ Q!Announcing = {} /\ Q!Reading = {} /\ Q!Vacating = {}
  BY <1>1 DEF Q!Claiming, Q!Announcing, Q!Reading, Q!Vacating, Q!At, Workers
<1>3. Cardinality({}) = 0 /\ Q!Cardinality({}) = Cardinality({})
  BY FS_EmptySet DEF Cardinality, Q!Cardinality
<1>4. credit[fs] \in Nat /\ credit[es] \in Nat /\ buffer_index \in Nat /\ SIZE \in Nat
  BY BufferAssumption DEF Q!TypeOK, Q!BufferTypeOK
<1> QED
  BY <1>2, <1>3, <1>4 DEF Q!SlotAccounting

(* "when 0, buffer is full", "when 0, buffer is empty": in the programs    *)
(* compiled with a header that loses no permit a producer is kept waiting  *)
(* only by a full buffer, a consumer only by an empty one.                 *)
THEOREM BlockedOnlyAtLimits == Spec => []OthersBlockOnlyAtLimits
<1>1. LinkInv /\ Q!SlotAccounting /\ Q!TypeOK => OthersBlockOnlyAtLimits
  <2> SUFFICES ASSUME LinkInv, Q!SlotAccounting, Q!TypeOK, Quiet,
                      header \in {A2Incorrect, A3Correct}
               PROVE  /\ (\E t \in Producers : Blocked(t)) => buffer_index = SIZE
                      /\ (\E t \in Consumers : Blocked(t)) => buffer_index = 0
    BY DEF OthersBlockOnlyAtLimits, BlocksOnlyAtLimits
  <2>1. P!NoPermitLost /\ P!NeverOverGranted
    BY LinkTypes, AssumptionOfP, P!NoPermitLostHolds, P!GrantInvExcludes DEF P!LibInv
  <2>2. ASSUME NEW t \in Workers, Blocked(t) PROVE credit[WaitsOn(t)] = 0
    <3>1. givenSem[t] = WaitsOn(t) /\ WaitsOn(t) \in Sems
      BY <2>2, LinkTypes DEF LinkInv, InCall, Blocked, PostStatements
    <3>2. P!AtRest(WaitsOn(t))
      BY <2>2, <3>1 DEF P!AtRest, Quiet, Blocked
    <3>3. WaitsOn(t)[2] \in {P!A3Correct, P!A2Incorrect}
      BY DEF WaitsOn, fs, es, P!A3Correct, P!A2Incorrect, A3Correct, A2Incorrect
    <3>4. credit[WaitsOn(t)] <= 0
      BY <2>1, <2>2, <3>1, <3>2, <3>3 DEF P!NoPermitLost, Blocked
    <3>5. credit[WaitsOn(t)] >= 0 /\ credit[WaitsOn(t)] \in Int
      BY <2>1, <3>1, LinkTypes DEF P!NeverOverGranted
    <3> QED
      BY <3>4, <3>5
  <2>3. credit[fs] + buffer_index = SIZE /\ credit[es] = buffer_index /\ buffer_index \in Nat
    BY QuietCounts DEF Q!TypeOK, Q!BufferTypeOK
  <2>4. ASSUME NEW t \in Producers, Blocked(t) PROVE buffer_index = SIZE
    BY <2>2, <2>3, <2>4 DEF WaitsOn, Workers
  <2>5. ASSUME NEW t \in Consumers, Blocked(t) PROVE buffer_index = 0
    BY <2>2, <2>3, <2>5, BufferAssumption DEF WaitsOn, Workers
  <2> QED
    BY <2>4, <2>5
<1> QED
  BY <1>1, InitLink, NextLink, ImplementsQ, AssumptionOfQ, Q!SlotsAreAccountedFor, PTL DEF Spec
-----------------------------------------------------------------------------
(* A blocked thread tells how many permits there are.                      *)
LEMMA BlockedPermits ==
  ASSUME LinkInv, Quiet, header # A3Main, NEW t \in Workers, Blocked(t)
  PROVE  credit[WaitsOn(t)] <= (IF t \in Producers THEN SIZE - 1 ELSE 0)
<1> DEFINE s == WaitsOn(t)
<1>1. givenSem[t] = s /\ s \in Sems /\ at[t] # "out" /\ at[t] = "w_gate"
  BY LinkTypes DEF LinkInv, InCall, Blocked, PostStatements
<1>2. P!AtRest(s)
  BY <1>1 DEF P!AtRest, Quiet, Blocked
<1>3. s[2] = header /\ s[1] = (IF t \in Producers THEN "fs" ELSE "es")
  BY DEF WaitsOn, fs, es
<1>4. SIZE \in Nat \ {0} /\ credit[s] \in Int
  BY <1>1, BufferAssumption, LinkTypes
<1> HIDE DEF s
<1>5. CASE header \in {A2Incorrect, A3Correct}
  <2>1. P!NoPermitLost
    BY LinkTypes, AssumptionOfP, P!NoPermitLostHolds DEF P!LibInv
  <2>2. credit[s] <= 0
    BY <1>1, <1>2, <1>3, <1>5, <2>1
    DEF P!NoPermitLost, P!A3Correct, P!A2Incorrect, A3Correct, A2Incorrect
  <2> QED
    BY <1>4, <2>2 DEF s
<1>6. CASE header = A2Correct
  <2> DEFINE k == [r \in Sems |-> IF r[1] = "fs" THEN SIZE ELSE 0]
  <2>1. P!PostInv
    BY LinkTypes DEF P!LibInv
  <2>2. credit[s] <= k[s] - (IF k[s] >= 1 THEN 1 ELSE 0)
    <3>1. [r \in Sems |-> r[2]][s] = P!A2Correct
      BY <1>1, <1>3, <1>6 DEF P!A2Correct, A2Correct
    <3> QED
      BY <1>1, <1>2, <2>1, <3>1, AssumptionOfP, P!AtRestShown
  <2>3. k[s] = IF t \in Producers THEN SIZE ELSE 0
    BY <1>1, <1>3
  <2> HIDE DEF k
  <2> QED
    BY <1>4, <2>2, <2>3 DEF s
<1> QED
  BY <1>5, <1>6, HeadersAssumption DEF LinkInv

(* When nobody can go on, everybody is blocked in semWait or has finished: *)
(* a mutex that is waited for is held by a thread that can go on.          *)
LEMMA OnlyGatesBlock ==
  ASSUME LinkInv, Q!TallyInv, ~NotAllWait
  PROVE  /\ Quiet /\ \E t \in Workers : Blocked(t)
         /\ \A t \in Workers : IF Blocked(t) THEN AbstractPc[t] = "wait"
                                             ELSE AbstractPc[t] = "done"
<1>1. \A t \in Workers : Stuck(t) \/ (at[t] = "out" /\ pc[t] = "done")
  BY DEF NotAllWait
<1>2. ASSUME NEW t \in Workers, at[t] \in {"w_mutex", "p_mutex"}, B2[givenSem[t]] = 0
      PROVE  FALSE
  <2>1. P!MutexHeld /\ givenSem[t] \in Sems
    BY LinkTypes DEF P!LibInv, P!PostInv
  <2>2. PICK u \in Workers : P!InCritical(u)
    BY <1>2, <2>1 DEF P!MutexHeld
  <2> QED
    BY <1>1, <2>2 DEF P!InCritical, Stuck, Blocked
<1>3. ASSUME buffer_mutex = "locked" PROVE FALSE
  <2>1. PICK u \in Workers : Q!InMutex(u)
    BY <1>3 DEF Q!TallyInv, Q!MutexInUse, Q!Workers, Workers
  <2>2. pc[u] \in {"insert", "advance", "dequeue", "fetch", "unlock"}
    BY <2>1 DEF Q!InMutex, AbstractPc
  <2>3. at[u] = "out"
    BY <2>2 DEF LinkInv, InCall
  <2> QED
    BY <1>1, <2>2, <2>3 DEF Stuck, Blocked
<1>4. \A t \in Workers : Blocked(t) \/ (at[t] = "out" /\ pc[t] = "done")
  BY <1>1, <1>2, <1>3 DEF Stuck
<1>5. \E t \in Workers : Blocked(t)
  <2>1. PICK u \in Workers : pc[u] # "done"
    BY DEF NotAllWait, Finished
  <2> QED
    BY <1>4, <2>1
<1>6. \A t \in Workers : IF Blocked(t) THEN AbstractPc[t] = "wait" ELSE AbstractPc[t] = "done"
  BY <1>4 DEF AbstractPc, Blocked, Waiting, Posting
<1> QED
  BY <1>4, <1>5, <1>6 DEF Quiet

(* Compiled with assignment2's or assignment3's headers, producers and     *)
(* consumers never all wait for one another, although assignment2's        *)
(* correct.h forgets permits: it keeps one, which wakes a producer when    *)
(* the buffer is not empty, and a consumer always finds the permit that    *)
(* belongs to a value.  (The functions that correctQ1.c defines for itself *)
(* are left out: their post does not open a gate that was shut.)           *)
THEOREM NobodyWaitsForEver ==
  ASSUME A3Main \notin Headers
  PROVE  Spec => []NotAllWait
<1>1. ASSUME LinkInv, Q!CountInv, Q!TallyInv, ~NotAllWait PROVE FALSE
  <2>1. /\ Quiet
        /\ \A t \in Workers : IF Blocked(t) THEN AbstractPc[t] = "wait"
                                            ELSE AbstractPc[t] = "done"
    BY <1>1, OnlyGatesBlock
  <2>2. header # A3Main
    BY <1>1 DEF LinkInv
  <2>3. /\ credit[fs] + buffer_index = SIZE /\ credit[es] = buffer_index
        /\ buffer_index \in Nat /\ credit[fs] \in Nat /\ SIZE \in Nat
    BY <1>1, <2>1, QuietCounts, BufferAssumption DEF Q!CountInv, Q!TypeOK, Q!BufferTypeOK
  <2>4. ASSUME NEW c \in Consumers, Blocked(c) PROVE buffer_index = 0
    <3>1. c \notin Producers /\ c \in Workers
      BY BufferAssumption DEF Workers
    <3>2. credit[es] <= 0
      BY <1>1, <2>1, <2>2, <2>4, <3>1, BlockedPermits DEF WaitsOn
    <3> QED
      BY <2>3, <3>2
  <2>5. ASSUME NEW p \in Producers, Blocked(p) PROVE buffer_index > 0
    <3>1. credit[fs] <= SIZE - 1
      BY <1>1, <2>1, <2>2, <2>5, BlockedPermits DEF WaitsOn, Workers
    <3> QED
      BY <2>3, <3>1
  <2>6. /\ (\A p \in Producers : AbstractPc[p] = "done")
             /\ (\E c \in Consumers : AbstractPc[c] = "wait") => buffer_index > 0
        /\ (\A c \in Consumers : AbstractPc[c] = "done") =>
             \A p \in Producers : AbstractPc[p] # "wait"
    BY <1>1, AssumptionOfQ, Q!NobodyIsLeftOver
  <2>7. PICK t \in Workers : Blocked(t)
    BY <1>1, OnlyGatesBlock
  <2>8. CASE t \in Producers
    <3>1. \A c \in Consumers : ~Blocked(c)
      BY <2>4, <2>5, <2>7, <2>8
    <3>2. \A c \in Consumers : AbstractPc[c] = "done"
      BY <2>1, <3>1 DEF Workers
    <3> QED
      BY <2>1, <2>6, <2>7, <2>8, <3>2
  <2>9. CASE t \in Consumers
    <3>1. \A p \in Producers : ~Blocked(p)
      BY <2>4, <2>5, <2>7, <2>9
    <3>2. \A p \in Producers : AbstractPc[p] = "done"
      BY <2>1, <3>1 DEF Workers
    <3> QED
      BY <2>1, <2>4, <2>6, <2>7, <2>9, <3>2
  <2> QED
    BY <2>7, <2>8, <2>9 DEF Workers
<1> QED
  BY <1>1, InitLink, NextLink, ImplementsQ, AssumptionOfQ, Q!TallyHolds, PTL DEF Spec
=============================================================================
