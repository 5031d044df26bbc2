----------------------------- MODULE LinkedList -----------------------------
(***************************************************************************)
(* linked_list.c: a list kept sorted in linked nodes of the heap.  One     *)
(* action is one choice from the menu; the walks along the list are        *)
(* expressions over Nth.  Display and Size change nothing and are left     *)
(* out.  malloc returns any address that is not in use, with whatever was  *)
(* last stored there, and does not fail.                                   *)
(***************************************************************************)
EXTENDS Integers, FiniteSets, Sequences, SequencesExt

CONSTANTS
  Addresses,  \* the addresses malloc can return: a bound on the list
  Numbers,    \* the numbers that are typed in
  NULL

ASSUME LinkedListAssumption ==
  /\ IsFiniteSet(Addresses) /\ NULL \notin Addresses
  /\ Numbers \subseteq Int

VARIABLES
  head,      \* the first node, or NULL
  data,      \* data[a], next[a]: the members of the node at a
  next,
  allocated  \* the nodes that malloc returned and free has not taken back

listVars == <<head, data, next, allocated>>

ListTypeOK ==
  /\ head \in Addresses \cup {NULL}
  /\ data \in [Addresses -> Numbers]
  /\ next \in [Addresses -> Addresses \cup {NULL}]
  /\ allocated \in SUBSET Addresses

ListInit ==
  /\ head = NULL
  /\ data \in [Addresses -> {CHOOSE n \in Numbers : TRUE}]
  /\ next = [a \in Addresses |-> NULL]
  /\ allocated = {}

(* The node reached from head by following next n times, NULL past the end.*)
Nth[n \in 0..Cardinality(Addresses)] ==
  IF n = 0 THEN head
  ELSE IF Nth[n - 1] = NULL THEN NULL
  ELSE next[Nth[n - 1]]

Places == {n \in DOMAIN Nth : Nth[n] # NULL}

count == Cardinality(Places)

-----------------------------------------------------------------------------
(* temp is the new node, and holds num.                                    *)

add(temp) ==
  /\ head' = temp
  /\ next' = [next EXCEPT ![temp] = head]

(* Mutant: the walk goes one node too far.                                 *)
addafterNext(temp, loc) ==
  /\ next' = [next EXCEPT ![Nth[loc - 1]] = temp, ![temp] = Nth[loc]]
  /\ UNCHANGED head

(* temp becomes number loc, counted from 1; loc is at least 2.             *)
addafter(temp, loc) ==
  /\ next' = [next EXCEPT ![Nth[loc - 2]] = temp, ![temp] = Nth[loc - 1]]
  /\ UNCHANGED head

append(temp) ==
  /\ next' = [next EXCEPT ![Nth[count - 1]] = temp, ![temp] = NULL]
  /\ UNCHANGED head

insert(num) ==
  \E temp \in Addresses \ allocated :
    LET c == Cardinality({n \in Places : data[Nth[n]] < num}) IN
    /\ allocated' = allocated \cup {temp}
    /\ data' = [data EXCEPT ![temp] = num]
    /\ \/ head = NULL /\ add(temp)
       \/ head # NULL /\ c = 0 /\ add(temp)
       \/ c > 0 /\ c < count /\ addafter(temp, c + 1)
       \/ c > 0 /\ c >= count /\ append(temp)

(* Mutant: the node is freed and stays linked unless it is the first.      *)
deleteUnlinked(num) ==
  \E n \in Places :
    /\ data[Nth[n]] = num
    /\ \A m \in 0..n - 1 : data[Nth[m]] # num
    /\ head' = IF n = 0 THEN next[head] ELSE head
    /\ allocated' = allocated \ {Nth[n]}
    /\ UNCHANGED <<data, next>>

(* The first node that holds num is unlinked and freed.                    *)
delete(num) ==
  \E n \in Places :
    /\ data[Nth[n]] = num
    /\ \A m \in 0..n - 1 : data[Nth[m]] # num
    /\ IF n = 0
         THEN head' = next[head] /\ UNCHANGED next
         ELSE /\ next' = [next EXCEPT ![Nth[n - 1]] = next[Nth[n]]]
              /\ UNCHANGED head
    /\ allocated' = allocated \ {Nth[n]}
    /\ UNCHANGED data

ListNext == \E num \in Numbers : insert(num) \/ delete(num)

ListSpec == ListInit /\ [][ListNext]_listVars

-----------------------------------------------------------------------------
(* The list reaches every node that is allocated, exactly once, and none   *)
(* that was freed: no insertion or deletion loses a node, leaves a pointer *)
(* to freed memory, or ties the list into a ring.                          *)
ReachesWhatIsAllocated ==
  /\ {Nth[n] : n \in Places} = allocated
  /\ count = Cardinality(allocated)

Contents == [n \in 1..count |-> data[Nth[n - 1]]]

Sorted == INSTANCE SortedList WITH list <- Contents

(* The user sees a sorted list in which what was inserted, and not deleted *)
(* again, occurs as often as it was inserted.                              *)
ImplementsSortedList == Sorted!Spec
=============================================================================
