------------------------------ MODULE Average ------------------------------
(***************************************************************************)
(* average_1 of q4/avg_proc.c, the remote procedure: it sorts the numbers  *)
(* of the request in place, in as many passes as there are numbers, and    *)
(* returns their median.  An action is one execution of a loop's body.     *)
(*                                                                         *)
(* The numbers are doubles, and tmp, through which two of them are         *)
(* exchanged, is an int: an exchange drops the fraction of the number that *)
(* moves up.  A double is represented by an integer, its multiple of 1/U.  *)
(* Its conversion is undefined if an int cannot hold its integer part: tmp *)
(* is then any int.  Rounding is left out, and so are doubles that are no  *)
(* numbers.                                                                *)
(***************************************************************************)
EXTENDS Integers, FiniteSets

CONSTANTS
  U,        \* the fineness of the numbers
  IntMax,   \* the largest int
  Largest,  \* bound on the numbers sent, as multiples of 1/U
  MaxLen    \* bound on how many are sent (200 in avg.x)

ASSUME AverageAssumption ==
  /\ U \in Nat \ {0}
  /\ IntMax \in Nat
  /\ Largest \in Nat
  /\ MaxLen \in Nat \ {0}

VARIABLES
  sent,     \* the numbers of the request
  dp,       \* the array, at first the same
  i, j,     \* the loop counters
  median,   \* twice the result, as a multiple of 1/U
  returned  \* average_1 has returned

vars == <<sent, dp, i, j, median, returned>>

arrayLen == Cardinality(DOMAIN sent)

(* (int) of a double drops the fraction, whatever the sign.                *)
Truncate(x) == IF x >= 0 THEN U * (x \div U) ELSE -(U * ((-x) \div U))

(* The ints, as doubles.                                                   *)
IntRange == {U * n : n \in -IntMax - 1..IntMax}

FitsInt(x) == Truncate(x) \in IntRange

(* What an int can be after x was assigned to it.                          *)
ToInt(x) == IF FitsInt(x) THEN {Truncate(x)} ELSE IntRange

(* if (dp[j] > dp[j+1]) { tmp = dp[j]; ... }                               *)
CompareExchange ==
  /\ i < arrayLen /\ j < arrayLen - 1
  /\ IF dp[j] > dp[j + 1]
       THEN \E tmp \in ToInt(dp[j]) :
              dp' = [dp EXCEPT ![j] = dp[j + 1], ![j + 1] = tmp]
       ELSE UNCHANGED dp
  /\ j' = j + 1
  /\ UNCHANGED <<sent, i, median, returned>>

(* Mutant: every pass ends one comparison early.                           *)
NextPassEarly ==
  /\ i < arrayLen /\ j >= arrayLen - 2
  /\ i' = i + 1
  /\ j' = 0
  /\ UNCHANGED <<sent, dp, median, returned>>

NextPass ==
  /\ i < arrayLen /\ j >= arrayLen - 1
  /\ i' = i + 1
  /\ j' = 0
  /\ UNCHANGED <<sent, dp, median, returned>>

(* Mutant: the upper of the two middle numbers instead of their mean.      *)
ReturnUpper ==
  /\ i >= arrayLen /\ ~returned
  /\ median' = 2 * dp[arrayLen \div 2]
  /\ returned' = TRUE
  /\ UNCHANGED <<sent, dp, i, j>>

Return ==
  /\ i >= arrayLen /\ ~returned
  /\ median' = IF arrayLen % 2 = 0
                 THEN dp[(arrayLen - 1) \div 2] + dp[arrayLen \div 2]
                 ELSE 2 * dp[arrayLen \div 2]
  /\ returned' = TRUE
  /\ UNCHANGED <<sent, dp, i, j>>

Average1 == CompareExchange \/ NextPass \/ Return

-----------------------------------------------------------------------------
(* The number of rank k among the numbers f: k of them come before it in   *)
(* ascending order.                                                        *)
Ranked(f, k) ==
  CHOOSE x \in {f[n] : n \in DOMAIN f} :
    /\ Cardinality({n \in DOMAIN f : f[n] < x}) <= k
    /\ Cardinality({n \in DOMAIN f : f[n] <= x}) > k

(* Twice the median.                                                       *)
MedianOf(f) ==
  LET len == Cardinality(DOMAIN f)
  IN  Ranked(f, (len - 1) \div 2) + Ranked(f, len \div 2)

(* m differs from the median of f by less than one, and not at all when    *)
(* all the numbers are whole.                                              *)
IsAlmostMedian(m, f) ==
  /\ m - MedianOf(f) \in -(2 * U - 1)..2 * U - 1
  /\ (\A n \in DOMAIN f : f[n] % U = 0) => m = MedianOf(f)

(* The numbers f survive an exchange but for their fractions.              *)
AllFitInt(f) == \A n \in DOMAIN f : FitsInt(f[n])

(* Although exchanges change the numbers they sort, the array ends up in   *)
(* ascending order, and each place holds the integer part, at least, of    *)
(* the number that belongs there, if an int can hold all integer parts.    *)
SortsWholeParts ==
  returned /\ AllFitInt(sent) =>
    \A n \in DOMAIN dp :
      /\ n + 1 \in DOMAIN dp => dp[n] <= dp[n + 1]
      /\ Truncate(dp[n]) = Truncate(Ranked(sent, n))
=============================================================================
