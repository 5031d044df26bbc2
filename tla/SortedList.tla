----------------------------- MODULE SortedList -----------------------------
(***************************************************************************)
(* What the menu of linked_list.c offers its user: a list of numbers kept  *)
(* in ascending order, into which a number can be inserted as often as one *)
(* likes, and from which one occurrence at a time can be deleted.          *)
(***************************************************************************)
EXTENDS Integers, Sequences, SequencesExt

CONSTANT Numbers

VARIABLE list

Init == list = <<>>

Insert(num) ==
  \E n \in 0..Len(list) :
    /\ \A m \in 1..n : list[m] <= num
    /\ \A m \in n + 1..Len(list) : num <= list[m]
    /\ list' = InsertAt(list, n + 1, num)

Delete(num) == list' = RemoveFirst(list, num)

Next == \E num \in Numbers : Insert(num) \/ Delete(num)

Spec == Init /\ [][Next]_list
=============================================================================
