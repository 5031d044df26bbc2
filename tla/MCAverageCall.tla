--------------------------- MODULE MCAverageCall ---------------------------
(* An instance of AverageCall for TLC: one client has any list of the      *)
(* sample and the others have none, or each client has a list of its own,  *)
(* one of them with a number that is too large for an int.                 *)
EXTENDS AverageCall

CONSTANT First  \* the client that has any list

Alone(f) == [c \in Clients |-> IF c = First THEN f ELSE NoNumbers]

(* In halves: whole numbers, and fractions on both sides of 0.             *)
Sample == {-3, -1, 0, 1, 2, 3}

TooLarge == U * (IntMax + 1)

Pairs ==
  {[c \in Clients |-> IF c = First THEN [n \in {0, 1} |-> IF n = 0 THEN x ELSE 0]
                     ELSE [n \in {0} |-> TooLarge - 1]] : x \in {1, TooLarge}}

MCGiven ==
  {Alone(f) : f \in UNION {[0..n - 1 -> Sample] : n \in 0..MaxLen}}
    \cup Pairs
=============================================================================
