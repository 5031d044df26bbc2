---------------------------- MODULE MCSemClient ----------------------------
(***************************************************************************)
(* Instances of SemClient for TLC.  A semaphore is a pair of a version and *)
(* a k.  In one behaviour all the threads use the same semaphore; the      *)
(* behaviours start with each.                                             *)
(***************************************************************************)
EXTENDS SemClient

MCSems ==
  {<<A3Correct, 0>>, <<A3Correct, 2>>, <<A2Incorrect, 0>>, <<A2Incorrect, 2>>,
   <<A2Correct, 2>>, <<A3Main, 2>>}

MCLib == [s \in MCSems |-> s[1]]

MCK == [s \in MCSems |-> s[2]]

MCInit ==
  /\ Init
  /\ \E s \in Sems : givenSem = [t \in Threads |-> s]

MCNext ==
  \E t \in Threads :
    \/ ClientCall(t) /\ UNCHANGED givenSem
    \/ LibraryStep(t)

MCSpec ==
  /\ MCInit /\ [][MCNext]_vars
  /\ \A t \in Threads : WF_vars(LibraryStep(t))
=============================================================================
