------------------------- MODULE CountingSemProofs -------------------------
(***************************************************************************)
(* Proofs about the library of CountingSem, one call or one step at a      *)
(* time, so that every client module can cite them.  MutexInv and GrantInv *)
(* hold for all four versions, GateInv says more of the semaphores that    *)
(* belong to assignment3/correct.h, A3Sems, whatever the others belong to, *)
(* WakeInv of those of incorrect.h and PostInv of those of assignment2's   *)
(* correct.h.                                                              *)
(* The theorems at the end are about every behaviour of SemClient, for any *)
(* threads, any semaphores, any initial values and any number of calls.    *)
(***************************************************************************)
EXTENDS SemClient, FiniteSetTheorems, TLAPS

(* B2 is taken while somebody executes the statements between the          *)
(* sem_wait(&B2) and the sem_post(&B2) of either routine.                  *)
MutexTaken ==
  \A t \in Threads : InCritical(t) => B2[givenSem[t]] = 0

MutexInv == SemTypeOK /\ MutexTaken /\ ValProtected

LEMMA InitMutexInv ==
  ASSUME SemInit, givenSem \in [Threads -> Sems]
  PROVE  MutexInv
  BY CountingSemAssumption
  DEF SemInit, MutexInv, SemTypeOK, MutexTaken, ValProtected, InCritical,
      Statements

LEMMA CallMutexInv ==
  ASSUME MutexInv, NEW t \in Threads, NEW s \in Sems,
         CallSemWait(t, s) \/ CallSemPost(t, s)
  PROVE  MutexInv'
<1>1. PICK x \in {"w_gate", "w_mutex", "p_mutex"} : Enter(t, s, x)
  BY DEF CallSemWait, CallSemPost
<1> QED
  BY <1>1 DEF Enter, MutexInv, SemTypeOK, MutexTaken, ValProtected,
     InCritical, Statements

LEMMA StepMutexInv ==
  ASSUME MutexInv, NEW t \in Threads, SemStep(t)
  PROVE  MutexInv'
<1> USE DEF MutexInv, SemTypeOK, MutexTaken, ValProtected, InCritical,
            Statements, Goto
<1>1. CASE MutexWait(t)
  BY <1>1 DEF MutexWait
<1>2. CASE MutexPost(t)
  BY <1>2 DEF MutexPost
<1>3. CASE GateWait(t) \/ IncorrectGateWait(t)
  BY <1>3 DEF GateWait, IncorrectGateWait
<1>4. CASE Decrement(t) \/ IncorrectDecrement(t)
  BY <1>4 DEF Decrement, IncorrectDecrement
<1>5. CASE WaitTest(t) \/ IncorrectWaitTest(t)
  BY <1>5 DEF WaitTest, IncorrectWaitTest
<1>6. CASE IncorrectRelease(t)
  BY <1>6 DEF IncorrectRelease
<1>7. CASE Increment(t)
  BY <1>7 DEF Increment
<1>8. CASE A2CorrectPostTest(t) \/ A2IncorrectPostTest(t)
  BY <1>8 DEF A2CorrectPostTest, A2IncorrectPostTest, OpenGate
<1>9. CASE A3CorrectPostTest(t) \/ A3MainPostTest(t)
  BY <1>9 DEF A3CorrectPostTest, A3MainPostTest, OpenGate
<1> QED
  BY <1>1, <1>2, <1>3, <1>4, <1>5, <1>6, <1>7, <1>8, <1>9 DEF SemStep

-----------------------------------------------------------------------------
(* A step of t touches its own semaphore and its own control only.         *)
LEMMA StepIsLocal ==
  ASSUME MutexInv, NEW t \in Threads, SemStep(t)
  PROVE  /\ givenSem' = givenSem
         /\ \A u \in Threads \ {t} : at'[u] = at[u]
         /\ \A s \in Sems \ {givenSem[t]} :
              val'[s] = val[s] /\ B1'[s] = B1[s] /\ credit'[s] = credit[s]
<1> USE DEF MutexInv, SemTypeOK, Goto
<1>1. CASE MutexWait(t) \/ MutexPost(t) \/ IncorrectRelease(t)
  BY <1>1 DEF MutexWait, MutexPost, IncorrectRelease
<1>2. CASE GateWait(t) \/ IncorrectGateWait(t)
  BY <1>2 DEF GateWait, IncorrectGateWait
<1>3. CASE Decrement(t) \/ IncorrectDecrement(t) \/ Increment(t)
  BY <1>3 DEF Decrement, IncorrectDecrement, Increment
<1>4. CASE WaitTest(t) \/ IncorrectWaitTest(t)
  BY <1>4 DEF WaitTest, IncorrectWaitTest
<1>5. CASE A2CorrectPostTest(t) \/ A2IncorrectPostTest(t)
  BY <1>5 DEF A2CorrectPostTest, A2IncorrectPostTest, OpenGate
<1>6. CASE A3CorrectPostTest(t) \/ A3MainPostTest(t)
  BY <1>6 DEF A3CorrectPostTest, A3MainPostTest, OpenGate
<1> QED
  BY <1>1, <1>2, <1>3, <1>4, <1>5, <1>6 DEF SemStep

-----------------------------------------------------------------------------
(* assignment3/correct.h.  Its gate B1 is a token: it is in B1, or with    *)
(* one thread that has to put it back or to use up the last permit.        *)

A3Sems == {s \in Sems : Lib[s] = A3Correct}

HasToken(t) ==
  /\ givenSem[t] \in A3Sems
  /\ \/ at[t] \in {"w_mutex", "w_dec"}
     \/ at[t] = "w_test" /\ val[givenSem[t]] > 0
     \/ at[t] = "p_test" /\ val[givenSem[t]] = 1

(* No token exists, in B1 or with a thread, while there is no permit.      *)
TokenMeansPermit ==
  /\ \A s \in A3Sems : B1[s] = 1 => val[s] > 0
  /\ \A t \in Threads : HasToken(t) => val[givenSem[t]] > 0

(* There is at most one token.                                             *)
OneToken ==
  /\ \A s \in A3Sems : B1[s] \in {0, 1}
  /\ \A t \in Threads : HasToken(t) => B1[givenSem[t]] = 0
  /\ \A t, u \in Threads :
       HasToken(t) /\ HasToken(u) /\ givenSem[t] = givenSem[u] => t = u

(* While there is a permit, there is a token.                              *)
PermitMeansToken ==
  \A s \in A3Sems :
    val[s] > 0 =>
      B1[s] = 1 \/ \E t \in Threads : HasToken(t) /\ givenSem[t] = s

ValIsCredit ==
  \A s \in A3Sems : val[s] >= 0 /\ credit[s] = val[s]

NeverAtBlock ==
  \A t \in Threads : givenSem[t] \in A3Sems => at[t] # "w_block"

GateInv ==
  /\ MutexInv /\ NeverAtBlock
  /\ TokenMeansPermit /\ OneToken /\ PermitMeansToken /\ ValIsCredit

LEMMA A3GateFirst == \A s \in A3Sems : s \in Sems /\ GateFirst(s)
  BY DEF A3Sems, GateFirst, A3Correct, A2Incorrect

LEMMA InitGateInv ==
  ASSUME SemInit, givenSem \in [Threads -> Sems]
  PROVE  GateInv
<1>1. MutexInv
  BY InitMutexInv
<1> QED
  BY <1>1, A3GateFirst, CountingSemAssumption
  DEF SemInit, GateInv, TokenMeansPermit, OneToken, PermitMeansToken,
      ValIsCredit, HasToken, NeverAtBlock

LEMMA CallGateInv ==
  ASSUME GateInv, NEW t \in Threads, NEW s \in Sems,
         CallSemWait(t, s) \/ CallSemPost(t, s)
  PROVE  GateInv'
<1>1. PICK x \in {"w_gate", "w_mutex", "p_mutex"} :
        Enter(t, s, x) /\ (x = "w_mutex" => s \notin A3Sems)
  BY A3GateFirst DEF CallSemWait, CallSemPost
<1>2. MutexInv'
  BY CallMutexInv DEF GateInv
<1>3. /\ ~HasToken(t) /\ ~HasToken(t)'
      /\ \A u \in Threads \ {t} : /\ HasToken(u)' <=> HasToken(u)
                                  /\ givenSem'[u] = givenSem[u]
  BY <1>1 DEF Enter, HasToken, GateInv, MutexInv, SemTypeOK
<1>4. UNCHANGED <<val, B1, credit>>
  BY <1>1 DEF Enter
<1>5. NeverAtBlock'
  BY <1>1 DEF Enter, GateInv, NeverAtBlock, MutexInv, SemTypeOK
<1>6. givenSem \in [Threads -> Sems] /\ givenSem' \in [Threads -> Sems]
  BY <1>2 DEF GateInv, MutexInv, SemTypeOK
<1>7. TokenMeansPermit' /\ OneToken' /\ ValIsCredit'
  BY <1>3, <1>4, <1>6 DEF GateInv, TokenMeansPermit, OneToken, ValIsCredit
<1>8. PermitMeansToken'
  BY <1>3, <1>4, <1>6 DEF GateInv, PermitMeansToken
<1> QED
  BY <1>2, <1>5, <1>7, <1>8 DEF GateInv

(* The steps that a thread takes on a semaphore of assignment3/correct.h.  *)
LEMMA A3Steps ==
  ASSUME GateInv, NEW t \in Threads, SemStep(t), givenSem[t] \in A3Sems
  PROVE  \/ MutexWait(t) \/ MutexPost(t) \/ GateWait(t) \/ Decrement(t)
         \/ WaitTest(t) \/ Increment(t) \/ A3CorrectPostTest(t)
BY DEF SemStep, GateFirst, A2Correct, A2Incorrect, A3Correct, A3Main, A3Sems,
   IncorrectDecrement, IncorrectWaitTest, IncorrectRelease, GateInv,
   IncorrectGateWait, A2CorrectPostTest, A2IncorrectPostTest,
   A3MainPostTest, NeverAtBlock

(* A step of t leaves the tokens of the other threads alone: val moves     *)
(* only while t holds B2, so nobody else is at a test of it.               *)
LEMMA OthersKeepTokens ==
  ASSUME GateInv, NEW t \in Threads, SemStep(t), givenSem[t] \in A3Sems
  PROVE  /\ givenSem' = givenSem
         /\ \A u \in Threads \ {t} : HasToken(u)' <=> HasToken(u)
<1> USE DEF GateInv, MutexInv, SemTypeOK, HasToken, Goto
<1>1. CASE MutexWait(t)
  BY <1>1 DEF MutexWait
<1>2. CASE MutexPost(t)
  BY <1>2 DEF MutexPost
<1>3. CASE GateWait(t)
  BY <1>3 DEF GateWait
<1>4. CASE Decrement(t)
  BY <1>4 DEF Decrement, ValProtected, InCritical
<1>5. CASE WaitTest(t)
  BY <1>5 DEF WaitTest
<1>6. CASE Increment(t)
  BY <1>6 DEF Increment, ValProtected, InCritical
<1>7. CASE A3CorrectPostTest(t)
  BY <1>7 DEF A3CorrectPostTest, OpenGate
<1> QED
  BY <1>1, <1>2, <1>3, <1>4, <1>5, <1>6, <1>7, A3Steps

(* A step on a semaphore of another version disturbs nothing.              *)
LEMMA ForeignStepGateInv ==
  ASSUME GateInv, NEW t \in Threads, SemStep(t), givenSem[t] \notin A3Sems
  PROVE  GateInv'
<1>1. MutexInv'
  BY StepMutexInv DEF GateInv
<1>2. /\ givenSem' = givenSem /\ givenSem \in [Threads -> Sems]
      /\ \A u \in Threads \ {t} : at'[u] = at[u]
      /\ \A s \in A3Sems : /\ val'[s] = val[s] /\ B1'[s] = B1[s]
                           /\ credit'[s] = credit[s]
  BY StepIsLocal, A3GateFirst DEF GateInv, MutexInv, SemTypeOK
<1>3. \A u \in Threads : HasToken(u)' <=> HasToken(u)
  BY <1>2 DEF HasToken
<1> QED
  BY <1>1, <1>2, <1>3
  DEF GateInv, TokenMeansPermit, OneToken, PermitMeansToken, ValIsCredit,
      NeverAtBlock, HasToken

LEMMA StepGateInv ==
  ASSUME GateInv, NEW t \in Threads, SemStep(t), givenSem[t] \in A3Sems
  PROVE  GateInv'
<1> DEFINE s == givenSem[t]
<1>1. MutexInv' /\ A3Sems \subseteq Sems
  BY StepMutexInv, A3GateFirst DEF GateInv
<1>2. /\ givenSem' = givenSem /\ givenSem \in [Threads -> Sems]
      /\ \A u \in Threads \ {t} : HasToken(u)' <=> HasToken(u)
  BY OthersKeepTokens DEF GateInv, MutexInv, SemTypeOK
<1> USE DEF GateInv
<1>3. NeverAtBlock'
  <2>1. at'[t] # "w_block"
    BY A3Steps, A3GateFirst
    DEF MutexWait, MutexPost, GateWait, Decrement, WaitTest, Increment,
        A3CorrectPostTest, OpenGate, Goto, MutexInv, SemTypeOK
  <2> QED
    BY <1>2, <2>1, StepIsLocal DEF NeverAtBlock
<1>4. CASE MutexWait(t) \/ MutexPost(t)
  <2>1. /\ UNCHANGED <<val, B1, credit>>
        /\ HasToken(t)' <=> HasToken(t)
    BY <1>4 DEF MutexWait, MutexPost, Goto, HasToken, MutexInv, SemTypeOK
  <2> QED
    BY <1>1, <1>2, <1>3, <2>1
    DEF TokenMeansPermit, OneToken, PermitMeansToken, ValIsCredit
<1>5. CASE GateWait(t)
  <2>1. /\ UNCHANGED <<val, credit>> /\ B1 \in [Sems -> Nat]
        /\ B1[s] > 0 /\ B1' = [B1 EXCEPT ![s] = @ - 1]
        /\ ~HasToken(t)
        /\ HasToken(t)'
    BY <1>5 DEF GateWait, Goto, HasToken, MutexInv, SemTypeOK
  <2>2. B1[s] = 1 /\ B1'[s] = 0
    BY <1>1, <2>1 DEF OneToken
  <2> QED
    BY <1>1, <1>2, <1>3, <2>1, <2>2
    DEF TokenMeansPermit, OneToken, PermitMeansToken, ValIsCredit
<1>6. CASE Decrement(t)
  <2>1. /\ B1' = B1
        /\ val' = [val EXCEPT ![s] = @ - 1]
        /\ credit' = [credit EXCEPT ![s] = @ - 1]
        /\ val \in [Sems -> Int] /\ credit \in [Sems -> Int]
        /\ HasToken(t) /\ val[s] > 0
        /\ HasToken(t)' <=> val'[s] > 0
    BY <1>6 DEF Decrement, Goto, HasToken, TokenMeansPermit, MutexInv,
       SemTypeOK
  <2>2. TokenMeansPermit'
    BY <1>1, <1>2, <2>1 DEF TokenMeansPermit, OneToken
  <2>3. OneToken'
    BY <1>1, <1>2, <2>1 DEF TokenMeansPermit, OneToken, ValIsCredit
  <2>4. PermitMeansToken'
    BY <1>1, <1>2, <2>1 DEF PermitMeansToken, ValIsCredit
  <2>5. ValIsCredit'
    BY <1>1, <1>2, <2>1 DEF ValIsCredit
  <2> QED
    BY <1>1, <1>3, <2>2, <2>3, <2>4, <2>5
<1>7. CASE WaitTest(t)
  <2>1. /\ UNCHANGED <<val, credit>> /\ B1 \in [Sems -> Nat]
        /\ B1' = IF val[s] > 0 THEN [B1 EXCEPT ![s] = @ + 1] ELSE B1
        /\ HasToken(t) <=> val[s] > 0
        /\ ~HasToken(t)'
    BY <1>7 DEF WaitTest, Goto, HasToken, MutexInv, SemTypeOK
  <2> QED
    BY <1>1, <1>2, <1>3, <2>1
    DEF TokenMeansPermit, OneToken, PermitMeansToken, ValIsCredit
<1>8. CASE Increment(t)
  <2>1. /\ B1' = B1
        /\ val' = [val EXCEPT ![s] = @ + 1]
        /\ credit' = [credit EXCEPT ![s] = @ + 1]
        /\ val \in [Sems -> Int] /\ credit \in [Sems -> Int]
        /\ ~HasToken(t)
        /\ HasToken(t)' <=> val[s] = 0
    BY <1>8 DEF Increment, Goto, HasToken, MutexInv, SemTypeOK
  <2>2. TokenMeansPermit'
    BY <1>1, <1>2, <2>1 DEF TokenMeansPermit, OneToken, ValIsCredit
  <2>3. OneToken'
    BY <1>1, <1>2, <2>1 DEF TokenMeansPermit, OneToken, ValIsCredit
  <2>4. PermitMeansToken'
    BY <1>1, <1>2, <2>1 DEF PermitMeansToken, ValIsCredit
  <2>5. ValIsCredit'
    BY <1>1, <1>2, <2>1 DEF ValIsCredit
  <2> QED
    BY <1>1, <1>3, <2>2, <2>3, <2>4, <2>5
<1>9. CASE A3CorrectPostTest(t)
  <2>1. /\ UNCHANGED <<val, credit>> /\ B1 \in [Sems -> Nat]
        /\ B1' = IF val[s] = 1 THEN [B1 EXCEPT ![s] = @ + 1] ELSE B1
        /\ HasToken(t) <=> val[s] = 1
        /\ ~HasToken(t)'
    BY <1>9 DEF A3CorrectPostTest, OpenGate, Goto, HasToken, MutexInv,
       SemTypeOK
  <2> QED
    BY <1>1, <1>2, <1>3, <2>1
    DEF TokenMeansPermit, OneToken, PermitMeansToken, ValIsCredit
<1> QED
  BY <1>4, <1>5, <1>6, <1>7, <1>8, <1>9, A3Steps

-----------------------------------------------------------------------------
(* All four versions.  What credit has to cover on a semaphore: the gate,  *)
(* the threads that came through it and did not decrement val yet, the     *)
(* thread that is about to open it, and what val still promises.           *)
Holders(s) ==
  {t \in Threads : givenSem[t] = s /\ GateFirst(s) /\ at[t] \in {"w_mutex", "w_dec"}}

OpensGate(t) ==
  \/ at[t] = "w_test" /\ GateFirst(givenSem[t]) /\ val[givenSem[t]] > 0
  \/ at[t] = "p_test" /\ val[givenSem[t]] <= (IF GateFirst(givenSem[t]) THEN 1 ELSE 0)

Opening(s) ==
  IF \E t \in Threads : givenSem[t] = s /\ OpensGate(t) THEN 1 ELSE 0

Spare(s) ==
  IF GateFirst(s)
    THEN IF val[s] > 1 THEN val[s] - 1 ELSE 0
    ELSE IF val[s] > 0 THEN val[s] ELSE 0

Covered(s) == credit[s] >= B1[s] + Cardinality(Holders(s)) + Opening(s) + Spare(s)

GrantInv == MutexInv /\ \A s \in Sems : Covered(s)

LEMMA HoldersAreFinite ==
  ASSUME NEW s PROVE IsFiniteSet(Holders(s)) /\ Cardinality(Holders(s)) \in Nat
<1>1. IsFiniteSet(Holders(s))
  BY FS_Subset, CountingSemAssumption DEF Holders
<1> QED
  BY <1>1, FS_CardinalityType

LEMMA GrantInvExcludes == GrantInv => NeverOverGranted
<1> SUFFICES ASSUME GrantInv, NEW s \in Sems PROVE credit[s] >= 0
  BY DEF NeverOverGranted
<1>1. Cardinality(Holders(s)) \in Nat
  BY HoldersAreFinite
<1>2. /\ credit[s] \in Int /\ B1[s] \in Nat /\ val[s] \in Int /\ Covered(s)
  BY DEF GrantInv, MutexInv, SemTypeOK
<1>3. Opening(s) \in {0, 1} /\ Spare(s) \in Nat
  BY <1>2 DEF Opening, Spare
<1> QED
  BY <1>1, <1>2, <1>3 DEF Covered

LEMMA InitGrantInv ==
  ASSUME SemInit, givenSem \in [Threads -> Sems]
  PROVE  GrantInv
<1>1. MutexInv
  BY InitMutexInv
<1>2. ASSUME NEW s \in Sems PROVE Covered(s)
  <2>1. Holders(s) = {} /\ Opening(s) = 0
    BY DEF SemInit, Holders, Opening, OpensGate
  <2>2. Cardinality(Holders(s)) = 0
    BY <2>1, FS_EmptySet
  <2>3. val[s] = K[s] /\ credit[s] = K[s] /\ K[s] \in Nat
        /\ B1[s] = (IF GateFirst(s) /\ K[s] >= 1 THEN 1 ELSE 0)
    BY CountingSemAssumption DEF SemInit
  <2> QED
    BY <2>1, <2>2, <2>3 DEF Covered, Spare
<1> QED
  BY <1>1, <1>2 DEF GrantInv

LEMMA CallGrantInv ==
  ASSUME GrantInv, NEW t \in Threads, NEW s \in Sems,
         CallSemWait(t, s) \/ CallSemPost(t, s)
  PROVE  GrantInv'
<1>1. PICK x \in {"w_gate", "w_mutex", "p_mutex"} :
        Enter(t, s, x) /\ (x = "w_mutex" => ~GateFirst(s))
  BY DEF CallSemWait, CallSemPost
<1>2. MutexInv'
  BY CallMutexInv DEF GrantInv
<1>3. /\ UNCHANGED <<val, B1, credit>>
      /\ at[t] = "out" /\ at'[t] = x /\ givenSem'[t] = s
      /\ \A u \in Threads \ {t} : at'[u] = at[u] /\ givenSem'[u] = givenSem[u]
  BY <1>1 DEF Enter, GrantInv, MutexInv, SemTypeOK
<1>4. ASSUME NEW r \in Sems PROVE Covered(r)'
  <2>1. Holders(r)' = Holders(r)
    BY <1>1, <1>3 DEF Holders
  <2>2. Opening(r)' = Opening(r)
    <3>1. \A u \in Threads : givenSem'[u] = r /\ OpensGate(u)' <=> givenSem[u] = r /\ OpensGate(u)
      BY <1>1, <1>3 DEF OpensGate
    <3> QED
      BY <3>1 DEF Opening
  <2> QED
    BY <1>3, <2>1, <2>2 DEF GrantInv, Covered, Spare
<1> QED
  BY <1>2, <1>4 DEF GrantInv

(* A step of t on r: how many hold a place in r's library afterwards.      *)
LEMMA StepHolders ==
  ASSUME NEW t \in Threads, NEW r, UNCHANGED givenSem,
         \A u \in Threads \ {t} : at'[u] = at[u]
  PROVE  /\ Cardinality(Holders(r)) \in Nat
         /\ (t \in Holders(r)' <=> t \in Holders(r)) =>
               Cardinality(Holders(r)') = Cardinality(Holders(r))
         /\ t \in Holders(r)' /\ t \notin Holders(r) =>
               Cardinality(Holders(r)') = Cardinality(Holders(r)) + 1
         /\ t \notin Holders(r)' /\ t \in Holders(r) =>
               Cardinality(Holders(r)') = Cardinality(Holders(r)) - 1
<1>1. CASE t \in Holders(r)' <=> t \in Holders(r)
  <2>1. Holders(r)' = Holders(r)
    BY <1>1 DEF Holders
  <2> QED
    BY <1>1, <2>1, HoldersAreFinite
<1>2. CASE t \in Holders(r)' /\ t \notin Holders(r)
  <2>1. Holders(r)' = Holders(r) \cup {t}
    BY <1>2 DEF Holders
  <2> QED
    BY <1>2, <2>1, HoldersAreFinite, FS_AddElement
<1>3. CASE t \notin Holders(r)' /\ t \in Holders(r)
  <2>1. Holders(r)' = Holders(r) \ {t}
    BY <1>3 DEF Holders
  <2> QED
    BY <1>3, <2>1, HoldersAreFinite, FS_RemoveElement
<1> QED
  BY <1>1, <1>2, <1>3, HoldersAreFinite

LEMMA StepGrantInv ==
  ASSUME GrantInv, NEW t \in Threads, SemStep(t)
  PROVE  GrantInv'
<1> DEFINE s == givenSem[t]
<1>1. MutexInv /\ MutexInv'
  BY StepMutexInv DEF GrantInv
<1>2. /\ givenSem' = givenSem /\ givenSem \in [Threads -> Sems] /\ s \in Sems
      /\ \A u \in Threads \ {t} : at'[u] = at[u]
      /\ \A r \in Sems \ {s} : val'[r] = val[r] /\ B1'[r] = B1[r] /\ credit'[r] = credit[r]
      /\ at \in [Threads -> Statements]
      /\ val[s] \in Int /\ credit[s] \in Int /\ B1[s] \in Nat
  BY <1>1, StepIsLocal DEF MutexInv, SemTypeOK
<1>3. ASSUME NEW r \in Sems, r # s PROVE Covered(r)'
  <2>1. Holders(r)' = Holders(r)
    BY <1>2, <1>3 DEF Holders
  <2>2. \A u \in Threads : givenSem'[u] = r /\ OpensGate(u)' <=> givenSem[u] = r /\ OpensGate(u)
    BY <1>2, <1>3 DEF OpensGate
  <2>3. Opening(r)' = Opening(r)
    BY <2>2 DEF Opening
  <2> QED
    BY <1>2, <1>3, <2>1, <2>3 DEF GrantInv, Covered, Spare
<1> DEFINE h == Cardinality(Holders(s))
           h2 == Cardinality(Holders(s)')
<1>4. /\ h \in Nat
      /\ (t \in Holders(s)' <=> t \in Holders(s)) => h2 = h
      /\ t \in Holders(s)' /\ t \notin Holders(s) => h2 = h + 1
      /\ t \notin Holders(s)' /\ t \in Holders(s) => h2 = h - 1
  BY <1>2, StepHolders
<1>5. /\ t \in Holders(s) <=> GateFirst(s) /\ at[t] \in {"w_mutex", "w_dec"}
      /\ t \in Holders(s)' <=> GateFirst(s) /\ at'[t] \in {"w_mutex", "w_dec"}
  BY <1>2 DEF Holders, GateFirst
<1>6. credit[s] >= B1[s] + h + Opening(s) + Spare(s)
  BY <1>2 DEF GrantInv, Covered
<1>7. Opening(s) \in {0, 1} /\ Opening(s)' \in {0, 1}
  BY DEF Opening
<1>8. ASSUME InCritical(t)
      PROVE  /\ Opening(s) = (IF OpensGate(t) THEN 1 ELSE 0)
             /\ Opening(s)' = (IF OpensGate(t)' THEN 1 ELSE 0)
  <2>1. \A u \in Threads : u # t /\ givenSem[u] = s => ~InCritical(u)
    BY <1>1, <1>2, <1>8 DEF MutexInv, ValProtected
  <2>2. \A u \in Threads : u # t /\ givenSem[u] = s => ~OpensGate(u) /\ ~OpensGate(u)'
    BY <1>2, <2>1 DEF InCritical, OpensGate
  <2> QED
    BY <1>2, <2>2 DEF Opening
<1>9. ASSUME ~OpensGate(t), ~OpensGate(t)', val'[s] = val[s] PROVE Opening(s)' = Opening(s)
  <2>1. \A u \in Threads : givenSem[u] = s => (OpensGate(u)' <=> OpensGate(u))
    BY <1>2, <1>9 DEF OpensGate
  <2> QED
    BY <1>2, <2>1 DEF Opening
<1>10. ASSUME credit'[s] >= B1'[s] + h2 + Opening(s)' + Spare(s)'
       PROVE  GrantInv'
  <2>1. Covered(s)'
    BY <1>2, <1>10 DEF Covered
  <2>2. ASSUME NEW r \in Sems PROVE Covered(r)'
    <3>1. CASE r = s
      BY <1>2, <2>1, <3>1
    <3>2. CASE r # s
      BY <1>3, <3>2
    <3> QED
      BY <3>1, <3>2
  <2> QED
    BY <1>1, <2>2 DEF GrantInv
<1> DEFINE g == GateFirst(s)
<1>11. /\ g \in BOOLEAN
       /\ Spare(s) = (IF g THEN IF val[s] > 1 THEN val[s] - 1 ELSE 0
                           ELSE IF val[s] > 0 THEN val[s] ELSE 0)
       /\ Spare(s)' = (IF g THEN IF val'[s] > 1 THEN val'[s] - 1 ELSE 0
                            ELSE IF val'[s] > 0 THEN val'[s] ELSE 0)
  BY <1>2 DEF Spare, GateFirst
<1>12. OpensGate(t) <=> \/ at[t] = "w_test" /\ g /\ val[s] > 0
                        \/ at[t] = "p_test" /\ val[s] <= (IF g THEN 1 ELSE 0)
  BY DEF OpensGate
<1>13. OpensGate(t)' <=> \/ at'[t] = "w_test" /\ g /\ val'[s] > 0
                         \/ at'[t] = "p_test" /\ val'[s] <= (IF g THEN 1 ELSE 0)
  BY <1>2, <1>11 DEF OpensGate, GateFirst
<1>14. InCritical(t) <=> at[t] \in {"w_dec", "w_test", "w_exit", "w_block",
                                   "p_inc", "p_test", "p_exit"}
  BY DEF InCritical
<1> USE DEF Goto
<1>15. CASE MutexWait(t) \/ MutexPost(t) \/ IncorrectRelease(t)
  <2>1. /\ \/ at[t] = "w_mutex" /\ at'[t] = "w_dec"
           \/ at[t] = "p_mutex" /\ at'[t] = "p_inc"
           \/ at[t] \in {"w_exit", "p_exit"} /\ at'[t] = "out"
           \/ at[t] = "w_block" /\ at'[t] = "w_gate"
        /\ UNCHANGED <<val, B1, credit>>
    BY <1>2, <1>15 DEF MutexWait, MutexPost, IncorrectRelease
  <2>2. ~OpensGate(t) /\ ~OpensGate(t)'
    BY <1>12, <1>13, <2>1
  <2> HIDE DEF s, h, h2, g
  <2> QED
    BY <1>4, <1>5, <1>6, <1>9, <1>10, <1>11, <2>1, <2>2
<1>16. CASE GateWait(t) \/ IncorrectGateWait(t)
  <2>1. /\ at[t] = "w_gate" /\ at'[t] = (IF g THEN "w_mutex" ELSE "out")
        /\ val' = val /\ B1'[s] = B1[s] - 1
        /\ credit'[s] = (IF g THEN credit[s] ELSE credit[s] - 1)
    BY <1>1, <1>2, <1>16 DEF GateWait, IncorrectGateWait, MutexInv, SemTypeOK
  <2>2. ~OpensGate(t) /\ ~OpensGate(t)'
    BY <1>12, <1>13, <2>1
  <2>3. Opening(s)' = Opening(s) /\ Spare(s)' = Spare(s)
    BY <1>9, <1>11, <2>1, <2>2
  <2>4. h2 = (IF g THEN h + 1 ELSE h)
    BY <1>4, <1>5, <1>11, <2>1
  <2>5. Spare(s) \in Int
    BY <1>2, <1>11
  <2> HIDE DEF s, h, h2, g
  <2> QED
    BY <1>2, <1>4, <1>6, <1>7, <1>10, <1>11, <2>1, <2>3, <2>4, <2>5
<1>17. CASE Decrement(t) \/ IncorrectDecrement(t)
  <2>1. /\ at[t] = "w_dec" /\ at'[t] = "w_test"
        /\ B1' = B1 /\ val'[s] = val[s] - 1
        /\ credit'[s] = (IF g \/ val[s] > 0 THEN credit[s] - 1 ELSE credit[s])
    BY <1>1, <1>2, <1>17 DEF Decrement, IncorrectDecrement, MutexInv, SemTypeOK
  <2>2. h2 = (IF g THEN h - 1 ELSE h)
    BY <1>4, <1>5, <1>11, <2>1
  <2>3. Opening(s) = 0 /\ Opening(s)' = (IF g /\ val[s] > 1 THEN 1 ELSE 0)
    <3>1. ~OpensGate(t)
      BY <1>12, <2>1
    <3>2. OpensGate(t)' <=> g /\ val[s] > 1
      BY <1>2, <1>11, <1>13, <2>1
    <3> QED
      BY <1>8, <1>14, <2>1, <3>1, <3>2
  <2> HIDE DEF s, h, h2, g
  <2> QED
    BY <1>2, <1>4, <1>6, <1>10, <1>11, <2>1, <2>2, <2>3
<1>18. CASE WaitTest(t) \/ IncorrectWaitTest(t)
  <2>1. /\ at[t] = "w_test" /\ at'[t] \in {"w_exit", "w_block"}
        /\ val' = val /\ credit' = credit
        /\ B1'[s] = (IF g /\ val[s] > 0 THEN B1[s] + 1 ELSE B1[s])
    BY <1>1, <1>2, <1>18 DEF WaitTest, IncorrectWaitTest, MutexInv, SemTypeOK
  <2>2. h2 = h
    BY <1>4, <1>5, <1>11, <2>1
  <2>3. Opening(s) = (IF g /\ val[s] > 0 THEN 1 ELSE 0) /\ Opening(s)' = 0
    <3> HIDE DEF s, g
    <3>1. ~OpensGate(t)'
      BY <1>13, <2>1
    <3>2. OpensGate(t) <=> g /\ val[s] > 0
      BY <1>12, <2>1
    <3> QED
      BY <1>8, <1>14, <2>1, <3>1, <3>2
  <2> HIDE DEF s, h, h2, g
  <2> QED
    BY <1>2, <1>4, <1>6, <1>10, <1>11, <2>1, <2>2, <2>3
<1>19. CASE Increment(t)
  <2>1. /\ at[t] = "p_inc" /\ at'[t] = "p_test"
        /\ B1' = B1 /\ val'[s] = val[s] + 1 /\ credit'[s] = credit[s] + 1
    BY <1>1, <1>2, <1>19 DEF Increment, MutexInv, SemTypeOK
  <2>2. h2 = h
    BY <1>4, <1>5, <1>11, <2>1
  <2>3. /\ Opening(s) = 0
        /\ Opening(s)' = (IF val[s] + 1 <= (IF g THEN 1 ELSE 0) THEN 1 ELSE 0)
    BY <1>2, <1>8, <1>11, <1>14, <1>12, <1>13, <2>1
  <2> HIDE DEF s, h, h2, g
  <2> QED
    BY <1>2, <1>4, <1>6, <1>10, <1>11, <2>1, <2>2, <2>3
<1>20. CASE A2CorrectPostTest(t) \/ A2IncorrectPostTest(t)
              \/ A3CorrectPostTest(t) \/ A3MainPostTest(t)
  <2>1. /\ at[t] = "p_test" /\ at'[t] = "p_exit" /\ credit' = credit
        /\ \/ g /\ val'[s] = 1 /\ B1'[s] = B1[s] + 1
           \/ /\ val' = val
              /\ B1'[s] \in {B1[s], B1[s] + 1}
              /\ B1'[s] # B1[s] => val[s] <= (IF g THEN 1 ELSE 0)
    BY <1>1, <1>2, <1>20
    DEF A2CorrectPostTest, A2IncorrectPostTest, A3CorrectPostTest, A3MainPostTest,
        OpenGate, MutexInv, SemTypeOK, GateFirst, A2Correct, A2Incorrect, A3Correct, A3Main
  <2>2. h2 = h
    BY <1>4, <1>5, <1>11, <2>1
  <2>3. /\ Opening(s) = (IF val[s] <= (IF g THEN 1 ELSE 0) THEN 1 ELSE 0)
        /\ Opening(s)' = 0
    BY <1>2, <1>8, <1>11, <1>14, <1>12, <1>13, <2>1
  <2> HIDE DEF s, h, h2, g
  <2> QED
    BY <1>2, <1>4, <1>6, <1>10, <1>11, <2>1, <2>2, <2>3
<1> QED
  BY <1>15, <1>16, <1>17, <1>18, <1>19, <1>20 DEF SemStep
-----------------------------------------------------------------------------
(* incorrect.h.  Whoever found val negative is asleep, or about to be.     *)
(* Each of them is still counted by val, or was woken: by a B1 that is     *)
(* posted or by the thread that is about to post it.                       *)
Asleep(t) ==
  \/ at[t] \in {"w_block", "w_gate"}
  \/ at[t] = "w_test" /\ val[givenSem[t]] < 0

Sleepers(s) == {t \in Threads : givenSem[t] = s /\ Asleep(t)}

Owed(s) == IF val[s] < 0 THEN -val[s] ELSE 0

Accounted(s) ==
  /\ Cardinality(Sleepers(s)) = B1[s] + Opening(s) + Owed(s)
  /\ credit[s] = val[s] + Cardinality(Sleepers(s))

WakeInv == MutexInv /\ \A s \in Sems : ~GateFirst(s) => Accounted(s)

LEMMA SleepersAreFinite ==
  ASSUME NEW s PROVE IsFiniteSet(Sleepers(s)) /\ Cardinality(Sleepers(s)) \in Nat
<1>1. IsFiniteSet(Sleepers(s))
  BY FS_Subset, CountingSemAssumption DEF Sleepers
<1> QED
  BY <1>1, FS_CardinalityType

LEMMA InitWakeInv ==
  ASSUME SemInit, givenSem \in [Threads -> Sems]
  PROVE  WakeInv
<1>1. MutexInv
  BY InitMutexInv
<1>2. ASSUME NEW s \in Sems, ~GateFirst(s) PROVE Accounted(s)
  <2>1. Sleepers(s) = {} /\ Opening(s) = 0
    BY DEF SemInit, Sleepers, Asleep, Opening, OpensGate
  <2>2. Cardinality(Sleepers(s)) = 0
    BY <2>1, FS_EmptySet
  <2>3. val[s] = K[s] /\ credit[s] = K[s] /\ K[s] \in Nat /\ B1[s] = 0
    BY <1>2, CountingSemAssumption DEF SemInit
  <2> QED
    BY <2>1, <2>2, <2>3 DEF Accounted, Owed
<1> QED
  BY <1>1, <1>2 DEF WakeInv

LEMMA CallWakeInv ==
  ASSUME WakeInv, NEW t \in Threads, NEW s \in Sems,
         CallSemWait(t, s) \/ CallSemPost(t, s)
  PROVE  WakeInv'
<1>1. PICK x \in {"w_gate", "w_mutex", "p_mutex"} :
        Enter(t, s, x) /\ (x = "w_gate" => GateFirst(s))
  BY DEF CallSemWait, CallSemPost
<1>2. MutexInv'
  BY CallMutexInv DEF WakeInv
<1>3. /\ UNCHANGED <<val, B1, credit>>
      /\ at[t] = "out" /\ at'[t] = x /\ givenSem'[t] = s
      /\ \A u \in Threads \ {t} : at'[u] = at[u] /\ givenSem'[u] = givenSem[u]
  BY <1>1 DEF Enter, WakeInv, MutexInv, SemTypeOK
<1>4. ASSUME NEW r \in Sems, ~GateFirst(r) PROVE Accounted(r)'
  <2>1. Sleepers(r)' = Sleepers(r)
    <3>1. ASSUME NEW u \in Threads
          PROVE  givenSem'[u] = r /\ Asleep(u)' <=> givenSem[u] = r /\ Asleep(u)
      BY <1>1, <1>3, <1>4 DEF Asleep
    <3> QED
      BY <3>1 DEF Sleepers
  <2>2. Opening(r)' = Opening(r)
    <3>1. \A u \in Threads : givenSem'[u] = r /\ OpensGate(u)' <=> givenSem[u] = r /\ OpensGate(u)
      BY <1>1, <1>3 DEF OpensGate
    <3> QED
      BY <3>1 DEF Opening
  <2>3. Accounted(r)
    BY <1>4 DEF WakeInv
  <2> QED
    BY <1>3, <2>1, <2>2, <2>3 DEF Accounted, Owed
<1> QED
  BY <1>2, <1>4 DEF WakeInv, GateFirst

(* A step that puts no other thread to sleep on r and wakes none.          *)
LEMMA StepSleepers ==
  ASSUME NEW t \in Threads, NEW r, Sleepers(r)' \ {t} = Sleepers(r) \ {t}
  PROVE  /\ (t \in Sleepers(r)' <=> t \in Sleepers(r)) =>
               Cardinality(Sleepers(r)') = Cardinality(Sleepers(r))
         /\ t \in Sleepers(r)' /\ t \notin Sleepers(r) =>
               Cardinality(Sleepers(r)') = Cardinality(Sleepers(r)) + 1
         /\ t \notin Sleepers(r)' /\ t \in Sleepers(r) =>
               Cardinality(Sleepers(r)') = Cardinality(Sleepers(r)) - 1
<1>1. CASE t \in Sleepers(r)' <=> t \in Sleepers(r)
  <2>1. Sleepers(r)' = Sleepers(r)
    BY <1>1
  <2> QED
    BY <1>1, <2>1, SleepersAreFinite
<1>2. CASE t \in Sleepers(r)' /\ t \notin Sleepers(r)
  <2>1. Sleepers(r)' = Sleepers(r) \cup {t}
    BY <1>2
  <2> QED
    BY <1>2, <2>1, SleepersAreFinite, FS_AddElement
<1>3. CASE t \notin Sleepers(r)' /\ t \in Sleepers(r)
  <2>1. Sleepers(r)' = Sleepers(r) \ {t}
    BY <1>3
  <2> QED
    BY <1>3, <2>1, SleepersAreFinite, FS_RemoveElement
<1> QED
  BY <1>1, <1>2, <1>3

LEMMA StepWakeInv ==
  ASSUME WakeInv, NEW t \in Threads, SemStep(t)
  PROVE  WakeInv'
<1> DEFINE s == givenSem[t]
<1>1. MutexInv /\ MutexInv'
  BY StepMutexInv DEF WakeInv
<1>2. /\ givenSem' = givenSem /\ givenSem \in [Threads -> Sems] /\ s \in Sems
      /\ \A u \in Threads \ {t} : at'[u] = at[u]
      /\ \A r \in Sems \ {s} : val'[r] = val[r] /\ B1'[r] = B1[r] /\ credit'[r] = credit[r]
      /\ at \in [Threads -> Statements]
      /\ val[s] \in Int /\ credit[s] \in Int /\ B1[s] \in Nat
  BY <1>1, StepIsLocal DEF MutexInv, SemTypeOK
<1>3. ASSUME NEW r \in Sems, r # s, Accounted(r) PROVE Accounted(r)'
  <2>1. \A u \in Threads : givenSem'[u] = r /\ Asleep(u)' <=> givenSem[u] = r /\ Asleep(u)
    BY <1>2, <1>3 DEF Asleep
  <2>2. Sleepers(r)' = Sleepers(r)
    BY <2>1 DEF Sleepers
  <2>3. \A u \in Threads : givenSem'[u] = r /\ OpensGate(u)' <=> givenSem[u] = r /\ OpensGate(u)
    BY <1>2, <1>3 DEF OpensGate
  <2>4. Opening(r)' = Opening(r)
    BY <2>3 DEF Opening
  <2> QED
    BY <1>2, <1>3, <2>2, <2>4 DEF Accounted, Owed
<1>4. ASSUME ~GateFirst(s) => Accounted(s)'
      PROVE  WakeInv'
  <2>1. ASSUME NEW r \in Sems, ~GateFirst(r) PROVE Accounted(r)'
    <3>1. CASE r = s
      BY <1>2, <1>4, <2>1, <3>1
    <3>2. CASE r # s
      BY <1>3, <2>1, <3>2 DEF WakeInv
    <3> QED
      BY <3>1, <3>2
  <2> QED
    BY <1>1, <2>1 DEF WakeInv, GateFirst
<1> SUFFICES ASSUME ~GateFirst(s) PROVE Accounted(s)'
  BY <1>4
<1> DEFINE n == Cardinality(Sleepers(s))
           n2 == Cardinality(Sleepers(s)')
<1>5. n = B1[s] + Opening(s) + Owed(s) /\ credit[s] = val[s] + n /\ n \in Nat
  BY <1>2, SleepersAreFinite DEF WakeInv, Accounted
<1>6. /\ Owed(s) = (IF val[s] < 0 THEN -val[s] ELSE 0)
      /\ Owed(s)' = (IF val'[s] < 0 THEN -val'[s] ELSE 0)
  BY <1>2 DEF Owed
(* The others sleep and wake as before: if t changes val, nobody else is   *)
(* about to test it.                                                       *)
<1>7. \A u \in Threads \ {t} : givenSem[u] = s => (Asleep(u)' <=> Asleep(u))
  <2>1. ASSUME NEW u \in Threads \ {t}, givenSem[u] = s PROVE Asleep(u)' <=> Asleep(u)
    <3>1. CASE at[u] = "w_test"
      <4>1. ~InCritical(t)
        BY <1>1, <1>2, <2>1, <3>1 DEF MutexInv, ValProtected, InCritical
      <4>2. val' = val
        BY <4>1 DEF SemStep, InCritical, MutexWait, MutexPost, GateWait, Decrement, WaitTest,
           IncorrectDecrement, IncorrectWaitTest, IncorrectRelease, IncorrectGateWait,
           Increment, A2CorrectPostTest, A2IncorrectPostTest, A3CorrectPostTest,
           A3MainPostTest, OpenGate
      <4> QED
        BY <1>2, <2>1, <4>2 DEF Asleep
    <3>2. CASE at[u] # "w_test"
      BY <1>2, <2>1, <3>2 DEF Asleep
    <3> QED
      BY <3>1, <3>2
  <2> QED
    BY <2>1
<1>8. /\ t \in Sleepers(s) <=> Asleep(t)
      /\ t \in Sleepers(s)' <=> Asleep(t)'
      /\ Sleepers(s)' \ {t} = Sleepers(s) \ {t}
  BY <1>2, <1>7 DEF Sleepers
<1>9. /\ (Asleep(t)' <=> Asleep(t)) => n2 = n
      /\ Asleep(t)' /\ ~Asleep(t) => n2 = n + 1
      /\ ~Asleep(t)' /\ Asleep(t) => n2 = n - 1
  BY <1>2, <1>8, StepSleepers
<1>10. /\ Asleep(t) <=> (at[t] \in {"w_block", "w_gate"} \/ (at[t] = "w_test" /\ val[s] < 0))
       /\ Asleep(t)' <=> (at'[t] \in {"w_block", "w_gate"} \/ (at'[t] = "w_test" /\ val'[s] < 0))
  BY <1>2 DEF Asleep
<1>11. /\ OpensGate(t) <=> (at[t] = "p_test" /\ val[s] <= 0)
       /\ OpensGate(t)' <=> (at'[t] = "p_test" /\ val'[s] <= 0)
  BY <1>2 DEF OpensGate, GateFirst
<1>12. ASSUME InCritical(t)
       PROVE  /\ Opening(s) = (IF OpensGate(t) THEN 1 ELSE 0)
              /\ Opening(s)' = (IF OpensGate(t)' THEN 1 ELSE 0)
  <2>1. \A u \in Threads : u # t /\ givenSem[u] = s => ~InCritical(u)
    BY <1>1, <1>2, <1>12 DEF MutexInv, ValProtected
  <2>2. \A u \in Threads : u # t /\ givenSem[u] = s => ~OpensGate(u) /\ ~OpensGate(u)'
    BY <1>2, <2>1 DEF InCritical, OpensGate
  <2> QED
    BY <1>2, <2>2 DEF Opening
<1>13. ASSUME ~OpensGate(t), ~OpensGate(t)', val'[s] = val[s] PROVE Opening(s)' = Opening(s)
  <2>1. \A u \in Threads : givenSem[u] = s => (OpensGate(u)' <=> OpensGate(u))
    BY <1>2, <1>13 DEF OpensGate
  <2> QED
    BY <1>2, <2>1 DEF Opening
<1>14. InCritical(t) <=> at[t] \in {"w_dec", "w_test", "w_exit", "w_block",
                                   "p_inc", "p_test", "p_exit"}
  BY DEF InCritical
<1>15. Opening(s) \in {0, 1}
  BY DEF Opening
<1>16. ASSUME n2 = B1'[s] + Opening(s)' + Owed(s)', credit'[s] = val'[s] + n2
       PROVE  Accounted(s)'
  BY <1>2, <1>16 DEF Accounted
<1> USE DEF Goto
<1>17. CASE MutexWait(t) \/ MutexPost(t) \/ IncorrectRelease(t)
  <2>1. /\ \/ at[t] = "w_mutex" /\ at'[t] = "w_dec"
           \/ at[t] = "p_mutex" /\ at'[t] = "p_inc"
           \/ at[t] \in {"w_exit", "p_exit"} /\ at'[t] = "out"
           \/ at[t] = "w_block" /\ at'[t] = "w_gate"
        /\ UNCHANGED <<val, B1, credit>>
    BY <1>2, <1>17 DEF MutexWait, MutexPost, IncorrectRelease
  <2>2. n2 = n /\ ~OpensGate(t) /\ ~OpensGate(t)'
    BY <1>9, <1>10, <1>11, <2>1
  <2> HIDE DEF s, n, n2
  <2> QED
    BY <1>5, <1>6, <1>13, <1>16, <2>1, <2>2
<1>18. CASE GateWait(t) \/ IncorrectGateWait(t)
  <2>1. /\ at[t] = "w_gate" /\ at'[t] = "out"
        /\ val' = val /\ B1'[s] = B1[s] - 1 /\ credit'[s] = credit[s] - 1
    BY <1>1, <1>2, <1>18 DEF GateWait, IncorrectGateWait, MutexInv, SemTypeOK
  <2>2. n2 = n - 1 /\ ~OpensGate(t) /\ ~OpensGate(t)'
    BY <1>9, <1>10, <1>11, <2>1
  <2> HIDE DEF s, n, n2
  <2> QED
    BY <1>2, <1>5, <1>6, <1>13, <1>15, <1>16, <2>1, <2>2
<1>19. CASE Decrement(t) \/ IncorrectDecrement(t)
  <2>1. /\ at[t] = "w_dec" /\ at'[t] = "w_test"
        /\ B1' = B1 /\ val'[s] = val[s] - 1
        /\ credit'[s] = (IF val[s] > 0 THEN credit[s] - 1 ELSE credit[s])
    BY <1>1, <1>2, <1>19 DEF Decrement, IncorrectDecrement, MutexInv, SemTypeOK
  <2>2. n2 = (IF val[s] > 0 THEN n ELSE n + 1)
    BY <1>2, <1>9, <1>10, <2>1
  <2>3. Opening(s) = 0 /\ Opening(s)' = 0
    BY <1>11, <1>12, <1>14, <2>1
  <2> HIDE DEF s, n, n2
  <2> QED
    BY <1>2, <1>5, <1>6, <1>16, <2>1, <2>2, <2>3
<1>20. CASE WaitTest(t) \/ IncorrectWaitTest(t)
  <2>1. /\ at[t] = "w_test" /\ at'[t] = (IF val[s] < 0 THEN "w_block" ELSE "w_exit")
        /\ UNCHANGED <<val, B1, credit>>
    BY <1>1, <1>2, <1>20 DEF WaitTest, IncorrectWaitTest
  <2>2. n2 = n /\ ~OpensGate(t) /\ ~OpensGate(t)'
    BY <1>9, <1>10, <1>11, <2>1
  <2> HIDE DEF s, n, n2
  <2> QED
    BY <1>5, <1>6, <1>13, <1>16, <2>1, <2>2
<1>21. CASE Increment(t)
  <2>1. /\ at[t] = "p_inc" /\ at'[t] = "p_test"
        /\ B1' = B1 /\ val'[s] = val[s] + 1 /\ credit'[s] = credit[s] + 1
    BY <1>1, <1>2, <1>21 DEF Increment, MutexInv, SemTypeOK
  <2>2. n2 = n
    BY <1>9, <1>10, <2>1
  <2>3. Opening(s) = 0 /\ Opening(s)' = (IF val[s] < 0 THEN 1 ELSE 0)
    BY <1>2, <1>11, <1>12, <1>14, <2>1
  <2> HIDE DEF s, n, n2
  <2> QED
    BY <1>2, <1>5, <1>6, <1>16, <2>1, <2>2, <2>3
<1>22. CASE A2CorrectPostTest(t) \/ A2IncorrectPostTest(t)
              \/ A3CorrectPostTest(t) \/ A3MainPostTest(t)
  <2>1. /\ at[t] = "p_test" /\ at'[t] = "p_exit" /\ credit' = credit /\ val' = val
        /\ B1'[s] = (IF val[s] <= 0 THEN B1[s] + 1 ELSE B1[s])
    BY <1>1, <1>2, <1>22
    DEF A2CorrectPostTest, A2IncorrectPostTest, A3CorrectPostTest, A3MainPostTest,
        OpenGate, MutexInv, SemTypeOK, GateFirst, A2Correct, A2Incorrect, A3Correct, A3Main
  <2>2. n2 = n
    BY <1>9, <1>10, <2>1
  <2>3. Opening(s) = (IF val[s] <= 0 THEN 1 ELSE 0) /\ Opening(s)' = 0
    BY <1>11, <1>12, <1>14, <2>1
  <2> HIDE DEF s, n, n2
  <2> QED
    BY <1>2, <1>5, <1>6, <1>16, <2>1, <2>2, <2>3
<1> QED
  BY <1>17, <1>18, <1>19, <1>20, <1>21, <1>22 DEF SemStep

(* What the two arguments are for.                                         *)
LEMMA NoPermitLostHolds ==
  ASSUME GateInv, WakeInv PROVE NoPermitLost
<1> SUFFICES ASSUME NEW s \in Sems, AtRest(s), Lib[s] \in {A3Correct, A2Incorrect},
                    NEW t \in Threads, at[t] # "out", givenSem[t] = s
             PROVE  credit[s] <= 0
  BY DEF NoPermitLost
<1>1. B1[s] = 0 /\ at[t] = "w_gate"
  BY DEF AtRest
<1>2. CASE Lib[s] = A3Correct
  <2>1. \A u \in Threads : givenSem[u] = s => ~HasToken(u)
    BY DEF AtRest, HasToken
  <2>2. ~(val[s] > 0) /\ credit[s] = val[s] /\ val[s] \in Int
    BY <1>1, <1>2, <2>1 DEF GateInv, PermitMeansToken, ValIsCredit, A3Sems, MutexInv, SemTypeOK
  <2> QED
    BY <2>2
<1>3. CASE Lib[s] = A2Incorrect
  <2>1. Accounted(s) /\ val[s] \in Int
    BY <1>3 DEF WakeInv, GateFirst, MutexInv, SemTypeOK
  <2>2. Opening(s) = 0
    BY DEF AtRest, Opening, OpensGate
  <2>3. t \in Sleepers(s)
    BY <1>1 DEF Sleepers, Asleep
  <2>4. Cardinality(Sleepers(s)) # 0
    BY <2>3, SleepersAreFinite, FS_EmptySet
  <2>5. Cardinality(Sleepers(s)) \in Nat
    BY SleepersAreFinite
  <2> QED
    BY <1>1, <2>1, <2>2, <2>4, <2>5 DEF Accounted, Owed
<1> QED
  BY <1>2, <1>3
-----------------------------------------------------------------------------
(* B2 is never taken without somebody who is going to post it.             *)
MutexHeld ==
  \A s \in Sems : B2[s] = 0 => \E t \in Threads : givenSem[t] = s /\ InCritical(t)

(* assignment2/correct.h.  Every post opens the gate once more, so that a  *)
(* permit that has been posted and not taken shows: in the gate, with a    *)
(* thread that came through it, or with one that is about to open it.      *)
(* What the gate forgets is all but one of the first k permits.            *)
Testing(s) ==
  IF \E t \in Threads : givenSem[t] = s /\ at[t] = "p_test" THEN 1 ELSE 0

Shown(s) ==
  B1[s] + Cardinality(Holders(s)) + Testing(s)
    >= credit[s] - K[s] + (IF K[s] >= 1 THEN 1 ELSE 0)

PostInv ==
  MutexInv /\ MutexHeld /\ \A s \in Sems : Lib[s] = A2Correct => Shown(s)

LEMMA InitPostInv ==
  ASSUME SemInit, givenSem \in [Threads -> Sems]
  PROVE  PostInv
<1>1. MutexInv
  BY InitMutexInv
<1>2. MutexHeld
  BY DEF SemInit, MutexHeld
<1>3. ASSUME NEW s \in Sems, Lib[s] = A2Correct PROVE Shown(s)
  <2>1. Holders(s) = {} /\ Testing(s) = 0
    BY DEF SemInit, Holders, Testing
  <2>2. Cardinality(Holders(s)) = 0
    BY <2>1, FS_EmptySet
  <2>3. credit[s] = K[s] /\ K[s] \in Nat /\ B1[s] = (IF K[s] >= 1 THEN 1 ELSE 0)
    BY <1>3, CountingSemAssumption DEF SemInit, GateFirst, A2Correct, A2Incorrect
  <2> QED
    BY <2>1, <2>2, <2>3 DEF Shown
<1> QED
  BY <1>1, <1>2, <1>3 DEF PostInv

LEMMA CallPostInv ==
  ASSUME PostInv, NEW t \in Threads, NEW s \in Sems,
         CallSemWait(t, s) \/ CallSemPost(t, s)
  PROVE  PostInv'
<1>1. PICK x \in {"w_gate", "w_mutex", "p_mutex"} :
        Enter(t, s, x) /\ (x = "w_mutex" => ~GateFirst(s))
  BY DEF CallSemWait, CallSemPost
<1>2. MutexInv'
  BY CallMutexInv DEF PostInv
<1>3. /\ UNCHANGED <<val, B1, B2, credit>>
      /\ at[t] = "out" /\ at'[t] = x /\ givenSem'[t] = s
      /\ \A u \in Threads \ {t} : at'[u] = at[u] /\ givenSem'[u] = givenSem[u]
  BY <1>1 DEF Enter, PostInv, MutexInv, SemTypeOK
<1>4. \A u \in Threads : InCritical(u) => u # t
  BY <1>3 DEF InCritical
<1>5. MutexHeld'
  BY <1>3, <1>4 DEF PostInv, MutexHeld, InCritical
<1>6. ASSUME NEW r \in Sems, Lib[r] = A2Correct PROVE Shown(r)'
  <2>1. Holders(r)' = Holders(r)
    BY <1>1, <1>3 DEF Holders
  <2>2. \A u \in Threads : givenSem'[u] = r /\ at'[u] = "p_test"
                             <=> givenSem[u] = r /\ at[u] = "p_test"
    BY <1>3
  <2>3. Testing(r)' = Testing(r)
    BY <2>2 DEF Testing
  <2> QED
    BY <1>3, <1>6, <2>1, <2>3 DEF PostInv, Shown
<1> QED
  BY <1>2, <1>5, <1>6 DEF PostInv

(* B2 is taken and posted by the thread that is in the statements between. *)
LEMMA StepMutexHeld ==
  ASSUME MutexInv, MutexHeld, NEW t \in Threads, SemStep(t)
  PROVE  MutexHeld'
<1> DEFINE s == givenSem[t]
<1>1. /\ givenSem' = givenSem /\ s \in Sems
      /\ \A u \in Threads \ {t} : at'[u] = at[u]
      /\ at \in [Threads -> Statements] /\ B2 \in [Sems -> {0, 1}]
  BY StepIsLocal DEF MutexInv, SemTypeOK
<1>2. SUFFICES ASSUME NEW r \in Sems, B2'[r] = 0
               PROVE  \E u \in Threads : givenSem'[u] = r /\ InCritical(u)'
  BY DEF MutexHeld
<1>3. CASE r # s
  <2>1. B2'[r] = B2[r]
    BY <1>1, <1>3 DEF SemStep, MutexWait, MutexPost, GateWait, Decrement, WaitTest,
       IncorrectDecrement, IncorrectWaitTest, IncorrectRelease, IncorrectGateWait,
       Increment, A2CorrectPostTest, A2IncorrectPostTest, A3CorrectPostTest,
       A3MainPostTest, OpenGate
  <2>2. PICK u \in Threads : givenSem[u] = r /\ InCritical(u)
    BY <1>2, <2>1 DEF MutexHeld
  <2> QED
    BY <1>1, <1>3, <2>2 DEF InCritical
<1>4. CASE r = s
  <2> USE DEF Goto, InCritical
  <2>1. CASE MutexWait(t)
    BY <1>1, <1>4, <2>1 DEF MutexWait
  <2>2. CASE MutexPost(t) \/ IncorrectRelease(t)
    BY <1>1, <1>2, <1>4, <2>2 DEF MutexPost, IncorrectRelease
  <2>3. CASE GateWait(t) \/ IncorrectGateWait(t)
    <3>1. B2'[r] = B2[r] /\ at[t] = "w_gate"
      BY <2>3 DEF GateWait, IncorrectGateWait
    <3>2. PICK u \in Threads : givenSem[u] = r /\ InCritical(u)
      BY <1>2, <3>1 DEF MutexHeld
    <3> QED
      BY <1>1, <3>1, <3>2
  <2>4. CASE \/ Decrement(t) \/ IncorrectDecrement(t) \/ WaitTest(t) \/ IncorrectWaitTest(t)
             \/ Increment(t)
    BY <1>1, <1>4, <2>4 DEF Decrement, IncorrectDecrement, WaitTest, IncorrectWaitTest, Increment
  <2>5. CASE A2CorrectPostTest(t) \/ A2IncorrectPostTest(t)
               \/ A3CorrectPostTest(t) \/ A3MainPostTest(t)
    BY <1>1, <1>4, <2>5 DEF A2CorrectPostTest, A2IncorrectPostTest, A3CorrectPostTest,
       A3MainPostTest, OpenGate
  <2> QED
    BY <2>1, <2>2, <2>3, <2>4, <2>5 DEF SemStep
<1> QED
  BY <1>3, <1>4

(* The steps that a thread takes on a semaphore of assignment2/correct.h.  *)
LEMMA A2Steps ==
  ASSUME NEW t \in Threads, SemStep(t), Lib[givenSem[t]] = A2Correct
  PROVE  \/ MutexWait(t) \/ MutexPost(t) \/ IncorrectRelease(t) \/ GateWait(t)
         \/ Decrement(t) \/ WaitTest(t) \/ Increment(t) \/ A2CorrectPostTest(t)
BY DEF SemStep, GateFirst, A2Correct, A2Incorrect, A3Correct, A3Main,
   IncorrectDecrement, IncorrectWaitTest, IncorrectGateWait, A2IncorrectPostTest,
   A3CorrectPostTest, A3MainPostTest

LEMMA StepPostInv ==
  ASSUME PostInv, NEW t \in Threads, SemStep(t)
  PROVE  PostInv'
<1> DEFINE s == givenSem[t]
<1>1. MutexInv /\ MutexInv' /\ MutexHeld'
  BY StepMutexInv, StepMutexHeld DEF PostInv
<1>2. /\ givenSem' = givenSem /\ givenSem \in [Threads -> Sems] /\ s \in Sems
      /\ \A u \in Threads \ {t} : at'[u] = at[u]
      /\ \A r \in Sems \ {s} : B1'[r] = B1[r] /\ credit'[r] = credit[r]
      /\ at \in [Threads -> Statements]
      /\ credit \in [Sems -> Int] /\ B1 \in [Sems -> Nat] /\ K[s] \in Nat
  BY <1>1, StepIsLocal, CountingSemAssumption DEF MutexInv, SemTypeOK
<1>3. ASSUME NEW r \in Sems, r # s, Lib[r] = A2Correct PROVE Shown(r)'
  <2>1. Holders(r)' = Holders(r)
    BY <1>2, <1>3 DEF Holders
  <2>2. \A u \in Threads : givenSem'[u] = r /\ at'[u] = "p_test"
                             <=> givenSem[u] = r /\ at[u] = "p_test"
    BY <1>2, <1>3
  <2>3. Testing(r)' = Testing(r)
    BY <2>2 DEF Testing
  <2> QED
    BY <1>2, <1>3, <2>1, <2>3 DEF PostInv, Shown
<1> DEFINE h == Cardinality(Holders(s))
           h2 == Cardinality(Holders(s)')
<1>4. ASSUME Lib[s] = A2Correct PROVE Shown(s)'
  <2>1. GateFirst(s)
    BY <1>4 DEF GateFirst, A2Correct, A2Incorrect
  <2>2. /\ h \in Nat
        /\ (at'[t] \in {"w_mutex", "w_dec"} <=> at[t] \in {"w_mutex", "w_dec"}) => h2 = h
        /\ at'[t] \in {"w_mutex", "w_dec"} /\ at[t] \notin {"w_mutex", "w_dec"} => h2 = h + 1
        /\ at'[t] \notin {"w_mutex", "w_dec"} /\ at[t] \in {"w_mutex", "w_dec"} => h2 = h - 1
    <3>1. /\ t \in Holders(s) <=> at[t] \in {"w_mutex", "w_dec"}
          /\ t \in Holders(s)' <=> at'[t] \in {"w_mutex", "w_dec"}
      BY <1>2, <2>1 DEF Holders, GateFirst
    <3> QED
      BY <1>2, <3>1, StepHolders
  <2>3. B1[s] + h + Testing(s) >= credit[s] - K[s] + (IF K[s] >= 1 THEN 1 ELSE 0)
    BY <1>2, <1>4 DEF PostInv, Shown
  <2>4. Testing(s) \in {0, 1} /\ Testing(s)' \in {0, 1}
    BY DEF Testing
  <2>5. ASSUME at[t] # "p_test", at'[t] # "p_test" PROVE Testing(s)' = Testing(s)
    <3>1. \A u \in Threads : at'[u] = "p_test" <=> at[u] = "p_test"
      BY <1>2, <2>5
    <3> QED
      BY <1>2, <3>1 DEF Testing
  <2>6. ASSUME InCritical(t)
        PROVE  /\ Testing(s) = (IF at[t] = "p_test" THEN 1 ELSE 0)
               /\ Testing(s)' = (IF at'[t] = "p_test" THEN 1 ELSE 0)
    <3>1. \A u \in Threads : u # t /\ givenSem[u] = s => at[u] # "p_test" /\ at'[u] # "p_test"
      BY <1>1, <1>2, <2>6 DEF MutexInv, ValProtected, InCritical
    <3> QED
      BY <1>2, <3>1 DEF Testing
  <2>7. SUFFICES B1'[s] + h2 + Testing(s)'
                   >= credit'[s] - K[s] + (IF K[s] >= 1 THEN 1 ELSE 0)
    BY <1>2 DEF Shown
  <2>8. B1[s] \in Nat /\ credit[s] \in Int
    BY <1>2
  <2> USE DEF Goto
  <2>9. CASE MutexWait(t) \/ MutexPost(t) \/ IncorrectRelease(t)
    <3>1. /\ \/ at[t] = "w_mutex" /\ at'[t] = "w_dec"
             \/ at[t] = "p_mutex" /\ at'[t] = "p_inc"
             \/ at[t] \in {"w_exit", "p_exit"} /\ at'[t] = "out"
             \/ at[t] = "w_block" /\ at'[t] = "w_gate"
          /\ UNCHANGED <<B1, credit>>
      BY <1>2, <2>9 DEF MutexWait, MutexPost, IncorrectRelease
    <3> HIDE DEF s, h, h2
    <3> QED
      BY <2>2, <2>3, <2>5, <3>1
  <2>10. CASE GateWait(t)
    <3>1. /\ at[t] = "w_gate" /\ at'[t] = "w_mutex"
          /\ B1'[s] = B1[s] - 1 /\ credit' = credit
      BY <1>2, <2>10 DEF GateWait
    <3>2. h2 = h + 1 /\ Testing(s)' = Testing(s)
      BY <2>2, <2>5, <3>1
    <3> HIDE DEF s, h, h2
    <3> QED
      BY <1>2, <2>2, <2>3, <2>4, <2>8, <3>1, <3>2
  <2>11. CASE Decrement(t)
    <3>1. /\ at[t] = "w_dec" /\ at'[t] = "w_test"
          /\ B1' = B1 /\ credit'[s] = credit[s] - 1
      BY <1>2, <2>11 DEF Decrement
    <3>2. h2 = h - 1 /\ Testing(s)' = Testing(s)
      BY <2>2, <2>5, <3>1
    <3> HIDE DEF s, h, h2
    <3> QED
      BY <1>2, <2>2, <2>3, <2>4, <2>8, <3>1, <3>2
  <2>12. CASE WaitTest(t)
    <3>1. /\ at[t] = "w_test" /\ at'[t] = "w_exit"
          /\ B1'[s] \in {B1[s], B1[s] + 1} /\ credit' = credit
      BY <1>2, <2>12 DEF WaitTest
    <3>2. h2 = h /\ Testing(s)' = Testing(s)
      BY <2>2, <2>5, <3>1
    <3> HIDE DEF s, h, h2
    <3> QED
      BY <1>2, <2>2, <2>3, <2>4, <2>8, <3>1, <3>2
  <2>13. CASE Increment(t)
    <3>1. /\ at[t] = "p_inc" /\ at'[t] = "p_test"
          /\ B1' = B1 /\ credit'[s] = credit[s] + 1
      BY <1>2, <2>13 DEF Increment
    <3>2. h2 = h /\ Testing(s) = 0 /\ Testing(s)' = 1
      BY <2>2, <2>6, <3>1 DEF InCritical
    <3> HIDE DEF s, h, h2
    <3> QED
      BY <1>2, <2>2, <2>3, <2>8, <3>1, <3>2
  <2>14. CASE A2CorrectPostTest(t)
    <3>1. /\ at[t] = "p_test" /\ at'[t] = "p_exit"
          /\ B1'[s] = B1[s] + 1 /\ credit' = credit
      BY <1>2, <2>14 DEF A2CorrectPostTest, OpenGate
    <3>2. h2 = h /\ Testing(s) = 1 /\ Testing(s)' = 0
      BY <2>2, <2>6, <3>1 DEF InCritical
    <3> HIDE DEF s, h, h2
    <3> QED
      BY <1>2, <2>2, <2>3, <2>8, <3>1, <3>2
  <2> QED
    BY <1>4, <2>9, <2>10, <2>11, <2>12, <2>13, <2>14, A2Steps
<1>5. ASSUME NEW r \in Sems, Lib[r] = A2Correct PROVE Shown(r)'
  <2>1. CASE r = s
    BY <1>2, <1>4, <1>5, <2>1
  <2>2. CASE r # s
    BY <1>3, <1>5, <2>2
  <2> QED
    BY <2>1, <2>2
<1> QED
  BY <1>1, <1>5 DEF PostInv

(* When all the calls on it are blocked, k - 1 of its permits may be lost, *)
(* but no more.                                                            *)
LEMMA AtRestShown ==
  ASSUME PostInv, NEW s \in Sems, Lib[s] = A2Correct, AtRest(s),
         NEW t \in Threads, at[t] # "out", givenSem[t] = s
  PROVE  credit[s] <= K[s] - (IF K[s] >= 1 THEN 1 ELSE 0)
<1>1. B1[s] = 0
  BY DEF AtRest
<1>2. Holders(s) = {} /\ Testing(s) = 0
  BY DEF AtRest, Holders, Testing
<1>3. Cardinality(Holders(s)) = 0
  BY <1>2, FS_EmptySet
<1>4. credit[s] \in Int /\ K[s] \in Nat /\ Shown(s)
  BY CountingSemAssumption DEF PostInv, MutexInv, SemTypeOK
<1> QED
  BY <1>1, <1>2, <1>3, <1>4 DEF Shown

-----------------------------------------------------------------------------
(* All four versions.  A call takes effect when credit moves.  No step of  *)
(* another thread makes it.                                                *)
LEMMA OthersGoOn ==
  ASSUME MutexInv, NEW t \in Threads, SemStep(t), NEW u \in Threads \ {t}
  PROVE  (Waiting(u)' <=> Waiting(u)) /\ (Posting(u)' <=> Posting(u))
<1> DEFINE s == givenSem[u]
<1>1. /\ givenSem' = givenSem /\ at'[u] = at[u] /\ s \in Sems
      /\ givenSem[t] # s => val'[s] = val[s]
  BY StepIsLocal DEF MutexInv, SemTypeOK
<1>2. ASSUME at[u] = "w_test", givenSem[t] = s PROVE val' = val
  <2>1. ~InCritical(t)
    BY <1>2 DEF MutexInv, ValProtected, InCritical
  <2> QED
    BY <2>1 DEF SemStep, InCritical, MutexWait, MutexPost, GateWait, Decrement, WaitTest,
       IncorrectDecrement, IncorrectWaitTest, IncorrectRelease, IncorrectGateWait,
       Increment, A2CorrectPostTest, A2IncorrectPostTest, A3CorrectPostTest,
       A3MainPostTest, OpenGate
<1>3. at[u] = "w_test" => val'[s] = val[s]
  BY <1>1, <1>2
<1> QED
  BY <1>1, <1>3 DEF Waiting, Posting, GateFirst

(* A semWait that is granted finds a permit, a semPost adds one, and every *)
(* other statement leaves the call where it was.                           *)
LEMMA StepEffect ==
  ASSUME GrantInv, NEW t \in Threads, SemStep(t)
  PROVE  \/ credit' = credit /\ (Waiting(t)' <=> Waiting(t)) /\ (Posting(t)' <=> Posting(t))
         \/ /\ Waiting(t) /\ ~Waiting(t)' /\ ~Posting(t) /\ ~Posting(t)'
            /\ at[t] \in {"w_dec", "w_gate"} /\ credit[givenSem[t]] > 0
            /\ credit' = [credit EXCEPT ![givenSem[t]] = @ - 1]
         \/ /\ Posting(t) /\ ~Posting(t)' /\ ~Waiting(t) /\ ~Waiting(t)'
            /\ credit' = [credit EXCEPT ![givenSem[t]] = @ + 1]
<1> DEFINE s == givenSem[t]
<1>1. /\ s \in Sems /\ givenSem' = givenSem
      /\ at \in [Threads -> Statements] /\ val \in [Sems -> Int]
      /\ B1[s] \in Nat /\ credit[s] \in Int
      /\ Cardinality(Holders(s)) \in Nat
  BY StepIsLocal, HoldersAreFinite DEF GrantInv, MutexInv, SemTypeOK
<1>2. /\ Opening(s) \in {0, 1} /\ Spare(s) \in Nat
      /\ credit[s] >= B1[s] + Cardinality(Holders(s)) + Opening(s) + Spare(s)
  BY <1>1 DEF GrantInv, Covered, Opening, Spare
<1> USE DEF Goto, Waiting, Posting, GateFirst
<1>3. CASE MutexWait(t) \/ MutexPost(t) \/ IncorrectRelease(t)
  BY <1>1, <1>3 DEF MutexWait, MutexPost, IncorrectRelease
<1>4. CASE GateWait(t) \/ WaitTest(t)
  BY <1>1, <1>4 DEF GateWait, WaitTest
<1>5. CASE IncorrectWaitTest(t)
  BY <1>1, <1>5 DEF IncorrectWaitTest
<1>6. CASE IncorrectGateWait(t)
  <2>1. credit[s] > 0
    BY <1>1, <1>2, <1>6 DEF IncorrectGateWait
  <2> QED
    BY <1>1, <1>6, <2>1 DEF IncorrectGateWait
<1>7. CASE Decrement(t)
  <2>1. t \in Holders(s)
    BY <1>7 DEF Decrement, Holders
  <2>2. Cardinality(Holders(s)) # 0
    BY <2>1, HoldersAreFinite, FS_EmptySet
  <2>3. credit[s] > 0
    BY <1>1, <1>2, <2>2
  <2> QED
    BY <1>1, <1>7, <2>3 DEF Decrement
<1>8. CASE IncorrectDecrement(t)
  <2>1. val[s] > 0 => credit[s] > 0
    BY <1>1, <1>2, <1>8 DEF IncorrectDecrement, Spare
  <2> QED
    BY <1>1, <1>8, <2>1 DEF IncorrectDecrement
<1>9. CASE Increment(t)
  BY <1>1, <1>9 DEF Increment
<1>10. CASE A2CorrectPostTest(t) \/ A2IncorrectPostTest(t)
              \/ A3CorrectPostTest(t) \/ A3MainPostTest(t)
  BY <1>1, <1>10 DEF A2CorrectPostTest, A2IncorrectPostTest, A3CorrectPostTest,
     A3MainPostTest, OpenGate
<1> QED
  BY <1>3, <1>4, <1>5, <1>6, <1>7, <1>8, <1>9, <1>10 DEF SemStep

LEMMA StepStaysInCall ==
  ASSUME MutexInv, NEW t \in Threads, SemStep(t)
  PROVE  /\ at[t] # "out" /\ at'[t] \in Statements
         /\ at[t] \in {"w_gate", "w_mutex", "w_dec", "w_test", "w_exit", "w_block"} =>
              at'[t] \in {"out", "w_gate", "w_mutex", "w_dec", "w_test", "w_exit", "w_block"}
         /\ at[t] \in {"p_mutex", "p_inc", "p_test", "p_exit"} =>
              at'[t] \in {"out", "p_mutex", "p_inc", "p_test", "p_exit"}
<1> USE DEF MutexInv, SemTypeOK, Goto, Statements
<1>1. CASE MutexWait(t) \/ MutexPost(t) \/ IncorrectRelease(t)
  BY <1>1 DEF MutexWait, MutexPost, IncorrectRelease
<1>2. CASE GateWait(t) \/ IncorrectGateWait(t)
  BY <1>2 DEF GateWait, IncorrectGateWait
<1>3. CASE Decrement(t) \/ IncorrectDecrement(t) \/ Increment(t)
  BY <1>3 DEF Decrement, IncorrectDecrement, Increment
<1>4. CASE WaitTest(t) \/ IncorrectWaitTest(t)
  BY <1>4 DEF WaitTest, IncorrectWaitTest
<1>5. CASE A2CorrectPostTest(t) \/ A2IncorrectPostTest(t)
             \/ A3CorrectPostTest(t) \/ A3MainPostTest(t)
  BY <1>5 DEF A2CorrectPostTest, A2IncorrectPostTest, A3CorrectPostTest, A3MainPostTest,
     OpenGate
<1> QED
  BY <1>1, <1>2, <1>3, <1>4, <1>5 DEF SemStep

LEMMA CallEffect ==
  ASSUME GrantInv, NEW t \in Threads, NEW s \in Sems
  PROVE  /\ CallSemWait(t, s) => /\ ~Waiting(t) /\ ~Posting(t)
                                 /\ Waiting(t)' /\ ~Posting(t)'
         /\ CallSemPost(t, s) => /\ ~Waiting(t) /\ ~Posting(t)
                                 /\ ~Waiting(t)' /\ Posting(t)'
         /\ CallSemWait(t, s) \/ CallSemPost(t, s) =>
              \A u \in Threads \ {t} : /\ Waiting(u)' <=> Waiting(u)
                                       /\ Posting(u)' <=> Posting(u)
BY DEF CallSemWait, CallSemPost, Enter, Waiting, Posting, GrantInv, MutexInv, SemTypeOK,
       GateFirst
-----------------------------------------------------------------------------
(* The four invariants together, for the clients.                          *)
LibInv == GrantInv /\ GateInv /\ WakeInv /\ PostInv

LEMMA InitLibInv ==
  ASSUME SemInit, givenSem \in [Threads -> Sems]
  PROVE  LibInv
BY InitGrantInv, InitGateInv, InitWakeInv, InitPostInv DEF LibInv

LEMMA CallLibInv ==
  ASSUME LibInv, NEW t \in Threads, NEW s \in Sems,
         CallSemWait(t, s) \/ CallSemPost(t, s)
  PROVE  LibInv'
BY CallGrantInv, CallGateInv, CallWakeInv, CallPostInv DEF LibInv

LEMMA StepLibInv ==
  ASSUME LibInv, NEW t \in Threads, SemStep(t)
  PROVE  LibInv'
BY StepGrantInv, StepGateInv, ForeignStepGateInv, StepWakeInv, StepPostInv DEF LibInv

LEMMA UnchangedLibInv ==
  ASSUME LibInv, UNCHANGED semVars
  PROVE  LibInv'
<1>1. GrantInv'
  BY DEF LibInv, semVars, GrantInv, MutexInv, SemTypeOK, MutexTaken, ValProtected, InCritical,
     Covered, Holders, Opening, OpensGate, Spare
<1>2. GateInv'
  BY <1>1 DEF LibInv, semVars, GrantInv, GateInv, TokenMeansPermit, OneToken,
     PermitMeansToken, ValIsCredit, HasToken, NeverAtBlock
<1>3. WakeInv'
  BY <1>1 DEF LibInv, semVars, GrantInv, WakeInv, Accounted, Sleepers, Asleep, Opening,
     OpensGate, Owed, GateFirst
<1>4. PostInv'
  BY <1>1 DEF LibInv, semVars, GrantInv, PostInv, MutexHeld, InCritical, Shown, Holders, Testing
<1> QED
  BY <1>1, <1>2, <1>3, <1>4 DEF LibInv

-----------------------------------------------------------------------------
(* The most general client.                                                *)

(* In all four versions of the library val is touched by one thread at a   *)
(* time: the second sem_t of struct CS is a correct mutex for it.  The     *)
(* variables keep their types.                                             *)
THEOREM MutualExclusionOnVal == Spec => [](TypeOK /\ ValProtected)
<1> DEFINE Inv == TypeOK /\ MutexInv
<1>1. Init => Inv
  BY InitMutexInv, SemClientAssumption DEF Init, TypeOK, MutexInv
<1>2. Inv /\ [Next]_vars => Inv'
  <2> SUFFICES ASSUME Inv, [Next]_vars PROVE Inv'
    OBVIOUS
  <2>1. ASSUME NEW t \in Threads, ClientCall(t) PROVE Inv'
    <3>1. MutexInv'
      BY <2>1, CallMutexInv DEF ClientCall
    <3>2. calls' \in [Threads -> 0..MaxCalls]
      BY <2>1, SemClientAssumption DEF ClientCall, TypeOK
    <3> QED
      BY <3>1, <3>2 DEF TypeOK, MutexInv
  <2>2. ASSUME NEW t \in Threads, LibraryStep(t) PROVE Inv'
    <3>1. MutexInv'
      BY <2>2, StepMutexInv DEF LibraryStep
    <3> QED
      BY <2>2, <3>1 DEF LibraryStep, TypeOK, MutexInv
  <2>3. CASE UNCHANGED vars
    BY <2>3 DEF vars, TypeOK, MutexInv, SemTypeOK, MutexTaken, ValProtected,
       InCritical
  <2> QED
    BY <2>1, <2>2, <2>3 DEF Next
<1>3. Inv => TypeOK /\ ValProtected
  BY DEF MutexInv
<1> QED
  BY <1>1, <1>2, <1>3, PTL DEF Spec

-----------------------------------------------------------------------------
(* What CountingSemProofs says of a call and of a step holds of behaviours.*)
LEMMA LibraryInvariant == Spec => []LibInv
<1>1. Init => LibInv
  BY InitLibInv DEF Init
<1>2. LibInv /\ [Next]_vars => LibInv'
  <2> SUFFICES ASSUME LibInv, [Next]_vars PROVE LibInv'
    OBVIOUS
  <2>1. ASSUME NEW t \in Threads, ClientCall(t) PROVE LibInv'
    BY <2>1, CallLibInv DEF ClientCall
  <2>2. ASSUME NEW t \in Threads, LibraryStep(t) PROVE LibInv'
    BY <2>2, StepLibInv DEF LibraryStep
  <2>3. CASE UNCHANGED vars
    BY <2>3, UnchangedLibInv DEF vars, semVars
  <2> QED
    BY <2>1, <2>2, <2>3 DEF Next
<1> QED
  BY <1>1, <1>2, PTL DEF Spec

(* No version ever lets more callers of semWait through than k plus the    *)
(* posts: what is wrong with those that are wrong is that permits are lost.*)
THEOREM NoVersionOverGrants == Spec => []NeverOverGranted
<1>1. LibInv => NeverOverGranted
  BY GrantInvExcludes DEF LibInv
<1> QED
  BY <1>1, LibraryInvariant, PTL

(* Every version is a counting semaphore as far as safety goes: semWait    *)
(* takes effect at val -= 1, or where it leaves the gate if it had to wait *)
(* in incorrect.h, semPost at val += 1, and no other statement is seen by  *)
(* the callers.  (ImplementsFairSem, which the runs check, adds            *)
(* liveness to this, and there the versions differ.)                       *)
THEOREM EveryVersionImplementsSem == Spec => ImplementsSem
<1> USE DEF Abs!vars
<1>1. Init => Abs!Init
  BY DEF Init, SemInit, Abs!Init, Status, Waiting, Posting
<1>2. GrantInv /\ [Next]_vars => [Abs!Next]_(Abs!vars)
  <2> SUFFICES ASSUME GrantInv, [Next]_vars PROVE [Abs!Next]_(Abs!vars)
    OBVIOUS
  <2>1. ASSUME NEW t \in Threads, ClientCall(t) PROVE Abs!Next
    <3>1. PICK s \in Sems : CallSemWait(t, s) \/ CallSemPost(t, s)
      BY <2>1 DEF ClientCall
    <3>2. givenSem' = [givenSem EXCEPT ![t] = s] /\ UNCHANGED credit
      BY <3>1 DEF CallSemWait, CallSemPost, Enter
    <3>3. CASE CallSemWait(t, s)
      <4>1. Abs!Call(t, s, "waiting")
        BY <3>2, <3>3, CallEffect DEF Abs!Call, Status
      <4> QED
        BY <4>1 DEF Abs!Next
    <3>4. CASE CallSemPost(t, s)
      <4>1. Abs!Call(t, s, "posting")
        BY <3>2, <3>4, CallEffect DEF Abs!Call, Status
      <4> QED
        BY <4>1 DEF Abs!Next
    <3> QED
      BY <3>1, <3>3, <3>4
  <2>2. ASSUME NEW t \in Threads, LibraryStep(t) PROVE [Abs!Next]_(Abs!vars)
    <3>1. SemStep(t) /\ MutexInv
      BY <2>2 DEF LibraryStep, GrantInv
    <3>2. givenSem' = givenSem
      BY <3>1, StepIsLocal
    <3>3. \A u \in Threads \ {t} : Status'[u] = Status[u]
      BY <3>1, OthersGoOn DEF Status
    <3>4. CASE credit' = credit /\ (Waiting(t)' <=> Waiting(t)) /\ (Posting(t)' <=> Posting(t))
      <4>1. Status' = Status
        BY <3>3, <3>4 DEF Status
      <4> QED
        BY <3>2, <3>4, <4>1
    <3>5. CASE /\ Waiting(t) /\ ~Waiting(t)' /\ ~Posting(t)' /\ credit[givenSem[t]] > 0
               /\ credit' = [credit EXCEPT ![givenSem[t]] = @ - 1]
      <4>1. Status[t] = "waiting" /\ Status' = [Status EXCEPT ![t] = "idle"]
        BY <3>3, <3>5 DEF Status
      <4>2. Abs!Acquire(t)
        BY <3>2, <3>5, <4>1 DEF Abs!Acquire
      <4> QED
        BY <4>2 DEF Abs!Next
    <3>6. CASE /\ Posting(t) /\ ~Posting(t)' /\ ~Waiting(t) /\ ~Waiting(t)'
               /\ credit' = [credit EXCEPT ![givenSem[t]] = @ + 1]
      <4>1. Status[t] = "posting" /\ Status' = [Status EXCEPT ![t] = "idle"]
        BY <3>3, <3>6 DEF Status
      <4>2. Abs!Release(t)
        BY <3>2, <3>6, <4>1 DEF Abs!Release
      <4> QED
        BY <4>2 DEF Abs!Next
    <3> QED
      BY <3>1, <3>4, <3>5, <3>6, StepEffect
  <2>3. CASE UNCHANGED vars
    BY <2>3 DEF vars, Status, Waiting, Posting, GateFirst
  <2> QED
    BY <2>1, <2>2, <2>3 DEF Next
<1>3. LibInv => GrantInv
  BY DEF LibInv
<1> QED
  BY <1>1, <1>2, <1>3, LibraryInvariant, PTL DEF Spec, ImplementsSem, Abs!Spec

-----------------------------------------------------------------------------
(* The token argument: the gate B1 is a token that exists exactly while    *)
(* there is a permit.                                                      *)
THEOREM GateInvariant == Spec => []GateInv
<1>1. LibInv => GateInv
  BY DEF LibInv
<1> QED
  BY <1>1, LibraryInvariant, PTL

(* In semWait and semPost of assignment3's correct.h the gate stays a      *)
(* binary semaphore.                                                       *)
THEOREM A3GateIsBinary ==
  ASSUME A3Sems = Sems
  PROVE  Spec => []GateIsBinary
<1>1. GateInv => GateIsBinary
  BY DEF GateInv, OneToken, GateIsBinary
<1> QED
  BY <1>1, GateInvariant, PTL

(* assignment3/correct.h and incorrect.h lose no permit: when all the      *)
(* calls on a semaphore are blocked in its gate, its permits are used up.  *)
THEOREM NoPermitIsLost == Spec => []NoPermitLost
<1>1. LibInv => NoPermitLost
  BY NoPermitLostHolds DEF LibInv
<1> QED
  BY <1>1, LibraryInvariant, PTL
=============================================================================
