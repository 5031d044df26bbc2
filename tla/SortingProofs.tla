---------------------------- MODULE SortingProofs ----------------------------
(***************************************************************************)
(* The two programs that sort.                                             *)
(*                                                                         *)
(* The average service (AverageCall), for any numbers whose integer parts  *)
(* an int holds, of any fineness, any clients and any number of servers:   *)
(* although the exchanges of its bubble sort drop fractions, average_1     *)
(* sorts what it is sent up to fractions, and every client prints the      *)
(* median of its own numbers, whatever numbers the others have.  A server  *)
(* that runs is the one that is found.                                     *)
(*                                                                         *)
(* The list of linked_list.c (LinkedList), for any number of nodes: it     *)
(* reaches what is allocated, and implements a sorted list.                *)
(***************************************************************************)
EXTENDS AverageCall, LinkedList, FiniteSetTheorems, SequenceTheorems, TLAPS

-----------------------------------------------------------------------------
(* Truncation.                                                             *)

(* Division by U.                                                          *)
LEMMA Quotient ==
  ASSUME NEW x \in Nat
  PROVE  /\ x \div U \in Nat
         /\ U * (x \div U) \in Nat
         /\ U * (x \div U) <= x /\ x < U * (x \div U) + U
BY AverageAssumption, Z3

(* Different multiples of U are at least U apart.                          *)
LEMMA Mono ==
  ASSUME NEW a \in Int, NEW b \in Int, a < b
  PROVE  U * a + U <= U * b
<1>1. PICK d \in Nat : b = a + 1 + d
  <2>1. b - a - 1 \in Nat /\ b = a + 1 + (b - a - 1)
    OBVIOUS
  <2> QED BY <2>1
<1>2. U * b = U * a + U + U * d
  BY <1>1, AverageAssumption, Z3
<1>3. U * d \in Nat /\ U * a \in Int
  BY AverageAssumption, Z3
<1> QED
  BY <1>2, <1>3, AverageAssumption

(* A multiple of U is divided without a rest.                              *)
LEMMA WholeQuotient ==
  ASSUME NEW q \in Nat
  PROVE  (U * q) \div U = q
BY AverageAssumption, Z3

(* Truncate moves a number towards 0, by less than U.                      *)
LEMMA Truncated ==
  ASSUME NEW x \in Int
  PROVE  /\ Truncate(x) \in Int
         /\ x >= 0 => 0 <= Truncate(x) /\ Truncate(x) <= x /\ x < Truncate(x) + U
         /\ x <= 0 => x <= Truncate(x) /\ Truncate(x) <= 0 /\ Truncate(x) - U < x
<1>1. CASE x >= 0
  <2>1. x \in Nat /\ Truncate(x) = U * (x \div U)
    BY <1>1 DEF Truncate
  <2>2. CASE x = 0
    BY <2>1, <2>2, Quotient, AverageAssumption
  <2> QED
    BY <1>1, <2>1, <2>2, Quotient
<1>2. CASE x < 0
  <2>1. -x \in Nat /\ Truncate(x) = -(U * ((-x) \div U))
    BY <1>2 DEF Truncate
  <2>2. /\ U * ((-x) \div U) \in Nat
        /\ U * ((-x) \div U) <= -x /\ -x < U * ((-x) \div U) + U
    BY <2>1, Quotient
  <2> HIDE DEF Truncate
  <2> QED
    BY <1>2, <2>1, <2>2, AverageAssumption
<1> QED
  BY <1>1, <1>2

(* There is nothing left to drop from a truncated number.                  *)
LEMMA TruncatedIsWhole ==
  ASSUME NEW x \in Int
  PROVE  Truncate(Truncate(x)) = Truncate(x)
<1>1. CASE x >= 0
  <2>1. x \in Nat /\ x \div U \in Nat /\ U * (x \div U) \in Nat
    BY <1>1, Quotient
  <2>2. (U * (x \div U)) \div U = x \div U
    BY <2>1, WholeQuotient
  <2> QED
    BY <1>1, <2>1, <2>2 DEF Truncate
<1>2. CASE x < 0
  <2> DEFINE y == -x
  <2>1. y \in Nat /\ y \div U \in Nat /\ U * (y \div U) \in Nat
    BY <1>2, Quotient
  <2>2. (U * (y \div U)) \div U = y \div U
    BY <2>1, WholeQuotient
  <2>3. Truncate(x) = -(U * (y \div U))
    BY <1>2 DEF Truncate
  <2> DEFINE z == U * (y \div U)
  <2>4. Truncate(-z) = -z
    <3> z \in Nat /\ -(-z) = z /\ z \div U = y \div U
      BY <2>1, <2>2
    <3>1. CASE z = 0
      <4>1. Truncate(0) = U * (0 \div U) /\ y \div U = 0 \div U
        BY <3>1, <2>2 DEF Truncate
      <4> QED
        BY <4>1, <3>1, <2>1
    <3>2. CASE z # 0
      <4>1. ~(-z >= 0)
        BY <3>2
      <4>2. Truncate(-z) = -(U * (z \div U))
        BY <4>1 DEF Truncate
      <4> QED
        BY <4>2
    <3> QED BY <3>1, <3>2
  <2> QED
    BY <2>3, <2>4
<1> QED
  BY <1>1, <1>2

(* Rounding to a multiple of U keeps the order of natural numbers.         *)
LEMMA QuotientMono ==
  ASSUME NEW a \in Nat, NEW b \in Nat, a <= b
  PROVE  U * (a \div U) <= U * (b \div U)
<1>1. a \div U <= b \div U
  <2>1. SUFFICES ASSUME b \div U < a \div U PROVE FALSE
    BY Quotient
  <2>2. U * (b \div U) + U <= U * (a \div U)
    BY <2>1, Mono, Quotient
  <2> QED
    BY <2>2, Quotient, AverageAssumption
<1>2. CASE a \div U = b \div U
  BY <1>2, Quotient
<1>3. CASE a \div U < b \div U
  BY <1>3, Mono, Quotient, AverageAssumption
<1> QED
  BY <1>1, <1>2, <1>3, Quotient

(* So does Truncate, on both sides of 0.                                   *)
LEMMA TruncateMono ==
  ASSUME NEW x \in Int, NEW y \in Int, x <= y
  PROVE  Truncate(x) <= Truncate(y)
<1>1. CASE x >= 0
  <2>1. x \in Nat /\ y \in Nat
    BY <1>1
  <2>2. Truncate(x) = U * (x \div U) /\ Truncate(y) = U * (y \div U)
    BY <2>1 DEF Truncate
  <2> QED
    BY <2>1, <2>2, QuotientMono
<1>2. CASE x < 0 /\ y >= 0
  BY <1>2, Truncated
<1>3. CASE y < 0
  <2>1. -x \in Nat /\ -y \in Nat /\ -y <= -x
    BY <1>3
  <2>2. Truncate(x) = -(U * ((-x) \div U)) /\ Truncate(y) = -(U * ((-y) \div U))
    BY <1>3 DEF Truncate
  <2>3. /\ U * ((-y) \div U) <= U * ((-x) \div U)
        /\ U * ((-y) \div U) \in Int /\ U * ((-x) \div U) \in Int
    BY <2>1, QuotientMono, Quotient
  <2> QED
    BY <2>2, <2>3
<1> QED
  BY <1>1, <1>2, <1>3

(* A multiple of U is whole.                                               *)
LEMMA WholeIfMultiple ==
  ASSUME NEW x \in Int, x % U = 0
  PROVE  Truncate(x) = x
<1>1. CASE x >= 0
  <2>1. x = U * (x \div U)
    BY <1>1, AverageAssumption, Z3
  <2> QED
    BY <2>1, <1>1 DEF Truncate
<1>2. CASE x < 0
  <2> DEFINE q == x \div U
  <2>3. q \in Int /\ x = U * q
    BY AverageAssumption, Z3
  <2>4. q <= 0
    BY <2>3, <1>2, AverageAssumption, Z3
  <2>5. -q \in Nat /\ -x = U * (-q)
    BY <2>3, <2>4, AverageAssumption, Z3
  <2>1. -x = U * ((-x) \div U)
    BY <2>5, WholeQuotient
  <2>2. Truncate(x) = -(U * ((-x) \div U))
    BY <1>2 DEF Truncate
  <2> QED
    BY <2>1, <2>2
<1> QED
  BY <1>1, <1>2

(* What a double may become in an int is whole.                            *)
LEMMA ToIntType ==
  ASSUME NEW x \in Int
  PROVE  ToInt(x) \in SUBSET Int
<1>1. Truncate(x) \in Int
  BY Truncated
<1>2. ASSUME NEW n \in -IntMax - 1..IntMax PROVE U * n \in Int
  BY AverageAssumption, Z3
<1> QED
  BY <1>1, <1>2 DEF ToInt, IntRange

-----------------------------------------------------------------------------
(* Counting.                                                               *)

(* The indices of an array of so many numbers.                             *)
Indices(len) == 0..len - 1

(* How many places of S have a number in V.                                *)
Count(f, S, V) == Cardinality({m \in S : f[m] \in V})

(* 1 if x is in V, and 0 if not.                                           *)
One(x, V) == IF x \in V THEN 1 ELSE 0

(* An array has finitely many indices.                                     *)
LEMMA IndicesFinite ==
  ASSUME NEW len \in Nat
  PROVE  IsFiniteSet(Indices(len)) /\ Cardinality(Indices(len)) = len
<1>1. 0..len - 1 = IF 0 <= len - 1 THEN 0..len - 1 ELSE {}
  OBVIOUS
<1> QED
  BY <1>1, FS_Interval, FS_EmptySet DEF Indices

(* A count is a number, and never more than what is counted over.          *)
LEMMA CountType ==
  ASSUME NEW S, IsFiniteSet(S), NEW f, NEW V
  PROVE  /\ IsFiniteSet({m \in S : f[m] \in V})
         /\ Count(f, S, V) \in Nat
         /\ Count(f, S, V) <= Cardinality(S)
<1> DEFINE A == {m \in S : f[m] \in V}
<1>1. A \subseteq S
  OBVIOUS
<1>2. IsFiniteSet(A) /\ Cardinality(A) <= Cardinality(S)
  BY <1>1, FS_Subset
<1>3. Cardinality(A) \in Nat
  BY <1>2, FS_CardinalityType
<1> QED
  BY <1>2, <1>3 DEF Count

(* What is counted over fewer places, by a narrower test, is not more.     *)
LEMMA CountSubset ==
  ASSUME NEW S, IsFiniteSet(S), NEW f, NEW g, NEW V, NEW W, NEW R \in SUBSET S,
         \A m \in R : f[m] \in V => g[m] \in W
  PROVE  Count(f, R, V) <= Count(g, S, W)
<1> DEFINE A == {m \in R : f[m] \in V}
           B == {m \in S : g[m] \in W}
<1>1. A \subseteq B
  OBVIOUS
<1>2. IsFiniteSet(B)
  <2>1. B \subseteq S
    OBVIOUS
  <2> QED
    BY <2>1, FS_Subset
<1>3. Cardinality(A) <= Cardinality(B)
  BY <1>1, <1>2, FS_Subset
<1> QED
  BY <1>3 DEF Count

(* A count depends on nothing but the tests.                               *)
LEMMA CountSame ==
  ASSUME NEW S, NEW f, NEW g, NEW V, \A m \in S : f[m] \in V <=> g[m] \in V
  PROVE  Count(f, S, V) = Count(g, S, V)
<1>1. {m \in S : f[m] \in V} = {m \in S : g[m] \in V}
  OBVIOUS
<1> QED
  BY <1>1 DEF Count

(* One place more.                                                         *)
LEMMA CountAdd ==
  ASSUME NEW S, IsFiniteSet(S), NEW f, NEW V, NEW a, a \notin S
  PROVE  Count(f, S \cup {a}, V) = Count(f, S, V) + One(f[a], V)
<1> DEFINE A == {m \in S : f[m] \in V}
           B == {m \in S \cup {a} : f[m] \in V}
<1>1. IsFiniteSet(A) /\ Cardinality(A) \in Nat
  BY CountType, FS_CardinalityType
<1>2. CASE f[a] \in V
  <2>1. B = A \cup {a} /\ a \notin A
    BY <1>2
  <2>2. Cardinality(A \cup {a}) = Cardinality(A) + 1
    BY <1>1, <2>1, FS_AddElement
  <2> QED
    BY <2>1, <2>2, <1>2 DEF Count, One
<1>3. CASE f[a] \notin V
  <2>1. B = A
    BY <1>3
  <2>2. Count(f, S \cup {a}, V) = Count(f, S, V)
    BY <2>1 DEF Count
  <2>3. Count(f, S, V) \in Nat
    BY CountType
  <2> QED
    BY <2>2, <2>3, <1>3 DEF One
<1> QED
  BY <1>2, <1>3

(* Counting what is everywhere.                                            *)
LEMMA CountAll ==
  ASSUME NEW S, IsFiniteSet(S), NEW f, NEW V, \A m \in S : f[m] \in V
  PROVE  Count(f, S, V) = Cardinality(S)
<1>1. {m \in S : f[m] \in V} = S
  OBVIOUS
<1> QED
  BY <1>1 DEF Count

(* The first q numbers, and one more.                                      *)
LEMMA CountNext ==
  ASSUME NEW q \in Nat, NEW f, NEW V
  PROVE  /\ Count(f, Indices(q), V) \in Nat
         /\ Count(f, Indices(q), V) <= q
         /\ Count(f, Indices(q + 1), V) = Count(f, Indices(q), V) + One(f[q], V)
<1>1. Indices(q + 1) = Indices(q) \cup {q} /\ q \notin Indices(q)
  BY DEF Indices
<1>2. IsFiniteSet(Indices(q)) /\ Cardinality(Indices(q)) = q
  BY IndicesFinite
<1>3. Count(f, Indices(q), V) \in Nat /\ Count(f, Indices(q), V) <= q
  BY <1>2, CountType
<1>4. Count(f, Indices(q) \cup {q}, V)
        = Count(f, Indices(q), V) + One(f[q], V)
  BY <1>1, <1>2, CountAdd
<1> QED
  BY <1>1, <1>3, <1>4

(* g is f with f[b] in place a, and anything in place b.                   *)
AgreeBut(f, g, S, a, b) == g[a] = f[b] /\ \A m \in S \ {a, b} : g[m] = f[m]

(* An exchange in which one number is changed moves a count by what that   *)
(* number counts before and after.                                         *)
LEMMA CountExchange ==
  ASSUME NEW S, IsFiniteSet(S), NEW f, NEW g, NEW V, NEW a \in S, NEW b \in S, a # b,
         AgreeBut(f, g, S, a, b)
  PROVE  Count(g, S, V) = (Count(f, S, V) - One(f[a], V))
                            + One(g[b], V)
<1> DEFINE R == S \ {a, b}
           Q == R \cup {a}
<1>1. IsFiniteSet(R) /\ IsFiniteSet(Q) /\ a \notin R /\ b \notin Q /\ S = Q \cup {b}
  <2>1. R \subseteq S /\ Q \subseteq S
    OBVIOUS
  <2> QED BY <2>1, FS_Subset
<1>6. One(f[a], V) \in Nat /\ One(f[b], V) \in Nat /\ One(g[b], V) \in Nat
  BY DEF One
<1>2. Count(f, R, V) \in Nat
  BY <1>1, CountType
<1>5. Count(g, R, V) = Count(f, R, V)
  BY CountSame DEF AgreeBut
<1>3. /\ Count(f, Q, V) = Count(f, R, V) + One(f[a], V)
      /\ Count(g, Q, V) = Count(g, R, V) + One(g[a], V)
  BY <1>1, CountAdd
<1>4. /\ Count(f, S, V) = Count(f, Q, V) + One(f[b], V)
      /\ Count(g, S, V) = Count(g, Q, V) + One(g[b], V)
  BY <1>1, CountAdd
<1> QED
  BY <1>2, <1>5, <1>6, <1>3, <1>4 DEF AgreeBut

-----------------------------------------------------------------------------
(* The passes of the sort, for an array d of len numbers.                  *)

(* A number without a fraction.                                            *)
Whole(x) == Truncate(x) = x

Above(w) == {x \in Int : x > w}

(* How many of the first q numbers are greater than w.                     *)
Higher(d, w, q) == Count(d, Indices(q), Above(w))

(* Place q is in order with the place before it, or has lost its fraction. *)
InOrder(d, q) == Whole(d[q]) \/ d[q - 1] <= d[q]

(* After a passes and b comparisons of the next: the places that the last  *)
(* a passes have settled are in order where they are not whole. The number *)
(* in place b is on its way up; at place b + 1, it may take its            *)
(* predecessor's place only if it is whole itself.                         *)
OrderKept(len, d, a, b) ==
  /\ \A q \in 1..b - 1 : q >= len - a - 1 => InOrder(d, q)
  /\ b >= 1 => InOrder(d, b)
  /\ \A q \in b + 2..len - 1 : q >= len - a => InOrder(d, q)
  /\ b + 1 < len /\ b + 1 >= len - a =>
       InOrder(d, b + 1) \/ (b >= 1 /\ Whole(d[b]) /\ d[b - 1] <= d[b + 1])

(* A whole number w, and the numbers that are not greater: after a passes  *)
(* at most len - a greater ones are still in front of any of them, and one *)
(* less where the present pass has been.                                   *)
RankKept(len, d, a, b, w) ==
  /\ a < len => \A q \in 0..b : d[q] <= w => Higher(d, w, q) <= len - a - 1
  /\ \A q \in b + 1..len - 1 : d[q] <= w =>
       /\ Higher(d, w, q) <= len - a
       /\ d[b] <= w => Higher(d, w, q) <= len - a - 1 \/ Higher(d, w, b + 1) = 0

RanksKept(len, d, a, b) == \A w \in Int : Whole(w) => RankKept(len, d, a, b, w)

(* The array after a comparison of the places b and b + 1.                 *)
Compared(d, b) ==
  IF d[b] > d[b + 1] THEN [d EXCEPT ![b] = d[b + 1], ![b + 1] = Truncate(d[b])] ELSE d

(* What CompareExchange does to the array.                                 *)
LEMMA ComparedNumbers ==
  ASSUME NEW len \in Nat, NEW d \in [Indices(len) -> Int], NEW b \in Nat, b < len - 1
  PROVE  /\ b \in Indices(len) /\ b + 1 \in Indices(len) /\ b # b + 1
         /\ Compared(d, b) \in [Indices(len) -> Int]
         /\ d[b] <= d[b + 1] => Compared(d, b) = d
         /\ d[b] > d[b + 1] =>
              /\ Compared(d, b)[b] = d[b + 1]
              /\ Compared(d, b)[b + 1] = Truncate(d[b])
         /\ \A m \in Indices(len) \ {b, b + 1} : Compared(d, b)[m] = d[m]
<1>1. b \in Indices(len) /\ b + 1 \in Indices(len) /\ b # b + 1
  BY DEF Indices
<1>2. d[b] \in Int /\ d[b + 1] \in Int /\ Truncate(d[b]) \in Int
  BY <1>1, Truncated
<1>3. CASE d[b] <= d[b + 1]
  <2>1. Compared(d, b) = d
    BY <1>2, <1>3 DEF Compared
  <2> QED
    BY <1>1, <1>2, <1>3, <2>1
<1>4. CASE d[b] > d[b + 1]
  <2>1. Compared(d, b) = [d EXCEPT ![b] = d[b + 1], ![b + 1] = Truncate(d[b])]
    BY <1>4 DEF Compared
  <2>2. Compared(d, b) \in [Indices(len) -> Int]
    BY <1>1, <1>2, <2>1
  <2>3. \A m \in Indices(len) :
          Compared(d, b)[m] = IF m = b + 1 THEN Truncate(d[b])
                              ELSE IF m = b THEN d[b + 1] ELSE d[m]
    BY <1>1, <2>1
  <2> QED
    BY <1>1, <1>2, <1>4, <2>2, <2>3
<1> QED
  BY <1>2, <1>3, <1>4

(* A comparison keeps OrderKept.                                           *)
LEMMA OrderStep ==
  ASSUME NEW len \in Nat, NEW d \in [Indices(len) -> Int],
         NEW a \in Nat, NEW b \in Nat, a < len, b < len - 1,
         OrderKept(len, d, a, b)
  PROVE  OrderKept(len, Compared(d, b), a, b + 1)
<1> DEFINE e == Compared(d, b)
<1>1. CASE d[b] <= d[b + 1]
  <2>1. e = d
    BY <1>1, ComparedNumbers
  <2>2. InOrder(d, b + 1)
    BY <1>1 DEF InOrder
  <2> HIDE DEF e
  <2> SUFFICES OrderKept(len, d, a, b + 1)
    BY <2>1 DEF e
  <2> QED
    BY <2>2 DEF OrderKept
<1>2. CASE d[b] > d[b + 1]
  <2>1. /\ e \in [Indices(len) -> Int]
        /\ e[b] = d[b + 1] /\ e[b + 1] = Truncate(d[b])
        /\ \A m \in Indices(len) \ {b, b + 1} : e[m] = d[m]
    BY <1>2, ComparedNumbers
  <2> HIDE DEF e
  <2>2. Whole(e[b + 1])
    <3>1. d[b] \in Int
      BY DEF Indices
    <3> QED
      BY <3>1, <2>1, TruncatedIsWhole DEF Whole
  <2>3. ASSUME NEW q \in 1..b, q >= len - a - 1
        PROVE  InOrder(e, q)
    <3>1. CASE q < b
      <4>1. InOrder(d, q)
        BY <3>1, <2>3 DEF OrderKept
      <4>2. e[q] = d[q] /\ e[q - 1] = d[q - 1]
        BY <2>1, <3>1 DEF Indices
      <4> QED
        BY <4>1, <4>2 DEF InOrder
    <3>2. CASE q = b
      <4>1. InOrder(d, b + 1) \/ d[b - 1] <= d[b + 1]
        BY <3>2, <2>3 DEF OrderKept
      <4>2. ~(d[b] <= d[b + 1])
        <5>1. d[b] \in Int /\ d[b + 1] \in Int
          BY DEF Indices
        <5> QED
          BY <5>1, <1>2
      <4>3. Whole(d[b + 1]) \/ d[b - 1] <= d[b + 1]
        BY <4>1, <4>2 DEF InOrder
      <4>4. e[b - 1] = d[b - 1]
        BY <2>1, <3>2 DEF Indices
      <4> QED
        BY <4>3, <4>4, <2>1, <3>2 DEF InOrder
    <3> QED
      BY <3>1, <3>2
  <2>4. ASSUME NEW q \in b + 2..len - 1, q >= len - a
        PROVE  InOrder(d, q)
    BY <2>4 DEF OrderKept
  <2>5. ASSUME NEW q \in b + 3..len - 1, q >= len - a
        PROVE  InOrder(e, q)
    <3>1. InOrder(d, q)
      BY <2>4, <2>5
    <3>2. e[q] = d[q] /\ e[q - 1] = d[q - 1]
      BY <2>1 DEF Indices
    <3> QED
      BY <3>1, <3>2 DEF InOrder
  <2>6. ASSUME b + 2 < len, b + 2 >= len - a
        PROVE  InOrder(e, b + 2) \/ e[b] <= e[b + 2]
    <3>1. InOrder(d, b + 2)
      BY <2>4, <2>6
    <3>2. e[b + 2] = d[b + 2] /\ (b + 2) - 1 = b + 1
      BY <2>1, <2>6 DEF Indices
    <3> QED
      BY <3>1, <3>2, <2>1 DEF InOrder
  <2> QED
    <3>1. (b + 1) - 1 = b /\ (b + 1) + 2 = b + 3 /\ (b + 1) + 1 = b + 2
      OBVIOUS
    <3>2. InOrder(e, b + 1)
      BY <2>2 DEF InOrder
    <3> SUFFICES OrderKept(len, e, a, b + 1)
      BY DEF e
    <3> QED
      BY <3>1, <3>2, <2>2, <2>3, <2>5, <2>6 DEF OrderKept
<1>3. d[b] \in Int /\ d[b + 1] \in Int
  BY ComparedNumbers
<1> QED
  BY <1>1, <1>2, <1>3

(* So does the end of a pass.                                              *)
LEMMA OrderPass ==
  ASSUME NEW len \in Nat, NEW d, NEW a \in Nat, NEW b \in Nat, a < len, b = len - 1,
         OrderKept(len, d, a, b)
  PROVE  OrderKept(len, d, a + 1, 0)
<1>1. \A q \in 1..len - 1 : q >= len - (a + 1) => InOrder(d, q)
  <2> TAKE q \in 1..len - 1
  <2> HAVE q >= len - (a + 1)
  <2>1. CASE q < b
    BY <2>1 DEF OrderKept
  <2>2. CASE q = b
    BY <2>2 DEF OrderKept
  <2> QED BY <2>1, <2>2
<1> QED
  BY <1>1 DEF OrderKept

(* Higher, one number further.                                             *)
LEMMA HigherNext ==
  ASSUME NEW d, NEW w \in Int, NEW q \in Nat, d[q] \in Int
  PROVE  /\ Higher(d, w, q) \in Nat
         /\ Higher(d, w, q) <= q
         /\ Higher(d, w, q + 1) = Higher(d, w, q) + (IF d[q] > w THEN 1 ELSE 0)
<1>1. d[q] \in Above(w) <=> d[q] > w
  BY DEF Above
<1> QED
  BY <1>1, CountNext DEF Higher, One

(* A comparison keeps RankKept. The one case in which the numbers above w  *)
(* grow in front of place b + 1 is that both compared numbers are above w  *)
(* and the upper one is cut to w; it is excluded near the end of the       *)
(* array, where OrderKept says that they are whole or in order.            *)
LEMMA RankStep ==
  ASSUME NEW len \in Nat, NEW d \in [Indices(len) -> Int],
         NEW a \in Nat, NEW b \in Nat, a < len, b < len - 1,
         OrderKept(len, d, a, b),
         NEW w \in Int, Whole(w), RankKept(len, d, a, b, w)
  PROVE  RankKept(len, Compared(d, b), a, b + 1, w)
<1> DEFINE e == Compared(d, b)
<1>0. \A q \in 0..len - 1 : d[q] \in Int
  BY DEF Indices
<1>1. \A q \in 0..len - 1 :
        /\ Higher(d, w, q) \in Nat
        /\ Higher(d, w, q) <= q
        /\ Higher(d, w, q + 1) = Higher(d, w, q) + (IF d[q] > w THEN 1 ELSE 0)
  BY <1>0, HigherNext
<1>2. /\ d[b] \in Int /\ d[b + 1] \in Int
      /\ Higher(d, w, b) \in Nat /\ Higher(d, w, b) <= b
      /\ Higher(d, w, b + 1) = Higher(d, w, b) + (IF d[b] > w THEN 1 ELSE 0)
      /\ Higher(d, w, b + 2) = Higher(d, w, b + 1) + (IF d[b + 1] > w THEN 1 ELSE 0)
  <2>1. b \in 0..len - 1 /\ b + 1 \in 0..len - 1 /\ (b + 1) + 1 = b + 2
    OBVIOUS
  <2> QED
    BY <1>0, <1>1, <2>1
<1>3. d[b] <= w => Higher(d, w, b) <= len - a - 1
  BY DEF RankKept
<1>4. \A q \in 0..b : d[q] <= w => Higher(d, w, q) <= len - a - 1
  BY DEF RankKept
<1>5. \A q \in b + 1..len - 1 : d[q] <= w =>
        /\ Higher(d, w, q) <= len - a
        /\ d[b] <= w => Higher(d, w, q) <= len - a - 1 \/ Higher(d, w, b + 1) = 0
  BY DEF RankKept
<1>6. CASE d[b] <= d[b + 1]
  <2>1. e = d
    BY <1>6, ComparedNumbers
  <2>2. ASSUME NEW q \in 0..b + 1, d[q] <= w
        PROVE  Higher(d, w, q) <= len - a - 1
    <3>1. CASE q \in 0..b
      BY <3>1, <2>2, <1>4
    <3>2. CASE q = b + 1
      <4>1. d[b] <= w
        BY <3>2, <2>2, <1>6, <1>2
      <4> QED
        BY <4>1, <1>2, <1>3, <3>2
    <3> QED BY <3>1, <3>2
  <2>3. ASSUME NEW q \in b + 2..len - 1, d[q] <= w
        PROVE  /\ Higher(d, w, q) <= len - a
               /\ d[b + 1] <= w => Higher(d, w, q) <= len - a - 1 \/ Higher(d, w, b + 2) = 0
    <3>1. q \in b + 1..len - 1
      OBVIOUS
    <3>2. /\ Higher(d, w, q) <= len - a
          /\ d[b] <= w => Higher(d, w, q) <= len - a - 1 \/ Higher(d, w, b + 1) = 0
      BY <3>1, <2>3, <1>5
    <3>3. d[b + 1] <= w => d[b] <= w /\ Higher(d, w, b + 2) = Higher(d, w, b + 1)
      BY <1>2, <1>6
    <3> QED
      BY <3>2, <3>3
  <2> HIDE DEF e
  <2>4. (b + 1) + 1 = b + 2
    OBVIOUS
  <2> SUFFICES RankKept(len, d, a, b + 1, w)
    BY <2>1 DEF e
  <2> QED
    BY <2>2, <2>3, <2>4 DEF RankKept
<1>7. CASE d[b] > d[b + 1]
  <2> DEFINE x == d[b]
             y == d[b + 1]
  <2>1. /\ e \in [Indices(len) -> Int]
        /\ e[b] = y /\ e[b + 1] = Truncate(x)
        /\ \A m \in Indices(len) \ {b, b + 1} : e[m] = d[m]
    BY <1>7, ComparedNumbers
  <2> HIDE DEF e
  <2>2. /\ Truncate(x) \in Int
        /\ x <= w => Truncate(x) <= w
        /\ x > w => Truncate(x) >= w
    BY <1>2, Truncated, TruncateMono DEF Whole
  <2>3. \A q \in 0..b : Higher(e, w, q) = Higher(d, w, q)
    <3> TAKE q \in 0..b
    <3>1. \A m \in Indices(q) : e[m] = d[m]
      BY <2>1 DEF Indices
    <3> QED
      BY <3>1, CountSame DEF Higher
  <2>4. /\ Higher(e, w, b) = Higher(d, w, b)
        /\ Higher(e, w, b + 1) = Higher(d, w, b) + (IF y > w THEN 1 ELSE 0)
        /\ Higher(e, w, b + 2) = Higher(e, w, b + 1) + (IF Truncate(x) > w THEN 1 ELSE 0)
    <3>1. Higher(e, w, b) = Higher(d, w, b)
      BY <2>3
    <3>2. (b + 1) + 1 = b + 2
      OBVIOUS
    <3>3. Higher(e, w, b + 1) = Higher(e, w, b) + (IF e[b] > w THEN 1 ELSE 0)
      BY <2>1, <1>2, HigherNext
    <3>4. Higher(e, w, b + 2) = Higher(e, w, b + 1) + (IF e[b + 1] > w THEN 1 ELSE 0)
      BY <2>1, <2>2, <3>2, HigherNext
    <3> QED
      BY <3>1, <3>3, <3>4, <2>1
  <2>5. ASSUME NEW q \in b + 2..len - 1
        PROVE  /\ Higher(d, w, q) \in Nat /\ Higher(e, w, q) <= Higher(d, w, q)
               /\ x > w /\ Truncate(x) <= w => Higher(e, w, q) = Higher(d, w, q) - 1
    <3>1. IsFiniteSet(Indices(q)) /\ b \in Indices(q) /\ b + 1 \in Indices(q)
      <4>1. q \in Nat /\ b \in Indices(q) /\ b + 1 \in Indices(q)
        BY DEF Indices
      <4> QED
        BY <4>1, IndicesFinite
    <3>2. \A m \in Indices(q) \ {b, b + 1} : e[m] = d[m]
      BY <2>1 DEF Indices
    <3>3. Higher(e, w, q) = (Higher(d, w, q) - (IF d[b] \in Above(w) THEN 1 ELSE 0))
                               + (IF e[b + 1] \in Above(w) THEN 1 ELSE 0)
      <4>1. b # b + 1 /\ e[b] = d[b + 1]
        BY <2>1
      <4>2. Count(e, Indices(q), Above(w))
              = (Count(d, Indices(q), Above(w)) - One(d[b], Above(w)))
                  + One(e[b + 1], Above(w))
        <5>1. PICK f, g, k, c, S, V :
                /\ f = d /\ g = e /\ k = b /\ c = b + 1 /\ S = Indices(q) /\ V = Above(w)
          OBVIOUS
        <5>2. AgreeBut(f, g, S, k, c) /\ IsFiniteSet(S) /\ k \in S /\ c \in S /\ k # c
          BY <3>1, <3>2, <4>1, <5>1 DEF AgreeBut
        <5>3. Count(g, S, V) = (Count(f, S, V) - One(f[k], V)) + One(g[c], V)
          BY <5>2, CountExchange, SMTT(30)
        <5> QED
          BY <5>1, <5>3
      <4> QED
        BY <4>2 DEF Higher, One
    <3>4. /\ d[b] \in Above(w) <=> x > w
          /\ e[b + 1] \in Above(w) <=> Truncate(x) > w
      BY <1>2, <2>1, <2>2 DEF Above
    <3>5. Higher(d, w, q) \in Nat
      BY <1>1
    <3> HIDE DEF x
    <3> QED
      BY <3>3, <3>4, <3>5, <2>2, <1>2 DEF x
  <2>6. y <= w => Higher(d, w, b) <= len - a - 1
    <3>1. CASE x <= w
      BY <3>1, <1>3
    <3>2. CASE x > w
      <4>1. y <= w => Higher(d, w, b + 1) <= len - a
        <5>1. b + 1 \in b + 1..len - 1
          OBVIOUS
        <5> QED
          BY <5>1, <1>5
      <4> QED
        BY <4>1, <3>2, <1>2
    <3> QED BY <3>1, <3>2, <1>2
  <2>7. ASSUME Truncate(x) <= w
        PROVE  Higher(e, w, b + 1) <= len - a - 1
    <3>1. CASE y <= w
      BY <3>1, <2>6, <2>4, <1>2
    <3>2. CASE y > w
      <4>1. x > w /\ Truncate(x) = w
        BY <3>2, <1>7, <1>2, <2>2, <2>7
      <4>2. ~Whole(x) /\ ~Whole(y)
        <5>1. Truncate(y) <= Truncate(x)
          BY <1>2, <1>7, TruncateMono
        <5>2. Truncate(y) \in Int
          BY <1>2, Truncated
        <5> QED
          BY <5>1, <5>2, <4>1, <3>2, <1>2 DEF Whole
      <4>3. ~(b + 1 >= len - a)
        <5>1. ~InOrder(d, b + 1)
          BY <4>2, <1>2, <1>7 DEF InOrder
        <5> QED
          BY <5>1, <4>2 DEF OrderKept
      <4> QED
        BY <4>3, <3>2, <2>4, <1>2
    <3> QED BY <3>1, <3>2, <1>2
  <2>8. ASSUME NEW q \in 0..b + 1, e[q] <= w
        PROVE  Higher(e, w, q) <= len - a - 1
    <3>1. CASE q < b
      <4>1. q \in 0..b /\ q \in Indices(len) \ {b, b + 1}
        BY <3>1 DEF Indices
      <4>2. e[q] = d[q] /\ Higher(e, w, q) = Higher(d, w, q)
        BY <4>1, <2>1, <2>3
      <4> QED
        BY <4>1, <4>2, <2>8, <1>4
    <3>2. CASE q = b
      BY <3>2, <2>8, <2>1, <2>4, <2>6
    <3>3. CASE q = b + 1
      BY <3>3, <2>8, <2>1, <2>7
    <3> QED BY <3>1, <3>2, <3>3
  <2>9. ASSUME NEW q \in b + 2..len - 1, e[q] <= w
        PROVE  /\ Higher(e, w, q) <= len - a
               /\ e[b + 1] <= w => Higher(e, w, q) <= len - a - 1 \/ Higher(e, w, b + 2) = 0
    <3>1. e[q] = d[q] /\ q \in b + 1..len - 1
      BY <2>1 DEF Indices
    <3>2. /\ Higher(d, w, q) <= len - a
          /\ x <= w => Higher(d, w, q) <= len - a - 1 \/ Higher(d, w, b + 1) = 0
      BY <3>1, <2>9, <1>5
    <3>3. /\ Higher(d, w, q) \in Nat /\ Higher(e, w, q) <= Higher(d, w, q)
          /\ x > w /\ Truncate(x) <= w => Higher(e, w, q) = Higher(d, w, q) - 1
          /\ Higher(e, w, q) \in Nat
      <4>1. Higher(e, w, q) \in Nat
        <5>1. e[q] \in Int
          BY <2>1 DEF Indices
        <5> QED BY <5>1, HigherNext
      <4> QED BY <4>1, <2>5
    <3>4. CASE x > w
      BY <3>4, <3>2, <3>3, <2>1
    <3>5. CASE x <= w
      <4>1. ~(y > w) /\ ~(Truncate(x) > w) /\ ~(x > w)
        BY <3>5, <1>2, <1>7, <2>2
      <4>2. Higher(e, w, b + 2) = Higher(d, w, b + 1)
        BY <4>1, <2>4, <1>2
      <4> QED
        BY <3>2, <3>3, <3>5, <4>2
    <3> QED BY <3>4, <3>5, <1>2
  <2>10. (b + 1) + 1 = b + 2
    OBVIOUS
  <2> SUFFICES RankKept(len, e, a, b + 1, w)
    BY DEF e
  <2> QED
    BY <2>8, <2>9, <2>10 DEF RankKept
<1> QED
  BY <1>6, <1>7, <1>2

(* So does the end of a pass, which leaves one number less to pass by.     *)
LEMMA RankPass ==
  ASSUME NEW len \in Nat, NEW d \in [Indices(len) -> Int],
         NEW a \in Nat, NEW b \in Nat, a < len, b = len - 1,
         NEW w \in Int, RankKept(len, d, a, b, w)
  PROVE  RankKept(len, d, a + 1, 0, w)
<1>1. d[0] \in Int
  BY DEF Indices
<1>2. /\ Higher(d, w, 0) = 0
      /\ Higher(d, w, 0 + 1) = Higher(d, w, 0) + (IF d[0] > w THEN 1 ELSE 0)
  BY <1>1, HigherNext
<1>3. d[0] <= w => Higher(d, w, 0 + 1) = 0
  BY <1>1, <1>2
<1>4. \A q \in 0..len - 1 : d[q] <= w => Higher(d, w, q) <= len - (a + 1)
  BY DEF RankKept
<1> QED
  BY <1>2, <1>3, <1>4 DEF RankKept

(* What is left when all passes are done: the array is in order.           *)
LEMMA SortedAtLast ==
  ASSUME NEW len \in Nat, NEW d \in [Indices(len) -> Int],
         OrderKept(len, d, len, 0), RanksKept(len, d, len, 0),
         NEW q \in 1..len - 1
  PROVE  d[q - 1] <= d[q]
<1>1. d[q] \in Int /\ d[q - 1] \in Int /\ q - 1 \in Indices(q) /\ q - 1 \in Nat
  BY DEF Indices
<1>2. InOrder(d, q)
  <2>1. CASE q = 1
    BY <2>1 DEF OrderKept
  <2>2. CASE q >= 2
    BY <2>2 DEF OrderKept
  <2> QED BY <2>1, <2>2
<1>3. SUFFICES ASSUME Whole(d[q]), d[q - 1] > d[q] PROVE FALSE
  BY <1>1, <1>2 DEF InOrder
<1>4. Higher(d, d[q], q) <= 0
  BY <1>1, <1>3 DEF RanksKept, RankKept
<1>5. /\ Higher(d, d[q], q - 1) \in Nat
      /\ Higher(d, d[q], (q - 1) + 1) = Higher(d, d[q], q - 1) + 1
  BY <1>1, <1>3, HigherNext
<1>6. (q - 1) + 1 = q
  OBVIOUS
<1> QED
  BY <1>4, <1>5, <1>6

-----------------------------------------------------------------------------
(* Ranks.                                                                  *)

(* Among subsets of a finite set there is one that contains no other.      *)
LEMMA Minimal ==
  ASSUME NEW S, IsFiniteSet(S), NEW F, F # {}, F \subseteq SUBSET S
  PROVE  \E B \in F : \A C \in F : C \subseteq B => C = B
<1>1. F \subseteq FiniteSubsetsOf(S)
  <2>1. ASSUME NEW B \in F PROVE B \subseteq S /\ IsFiniteSet(B)
    BY FS_Subset
  <2> QED
    BY <2>1 DEF FiniteSubsetsOf
<1>2. PICK B \in F : \A C \in F : <<C, B>> \notin StrictSubsetOrdering(S)
  BY <1>1, FS_StrictSubsetOrderingWellFounded, WFMin
<1>3. \A C \in F : C \subseteq B => C = B
  BY <1>2 DEF StrictSubsetOrdering
<1> QED
  BY <1>3

(* Finitely many numbers have a greatest.                                  *)
LEMMA Greatest ==
  ASSUME NEW S, IsFiniteSet(S), S # {}, NEW f, \A m \in S : f[m] \in Int
  PROVE  \E m \in S : \A r \in S : f[r] <= f[m]
<1> DEFINE Beyond(m) == {r \in S : f[r] > f[m]}
           F == {Beyond(m) : m \in S}
<1>1. F # {} /\ F \subseteq SUBSET S
  OBVIOUS
<1>2. PICK B \in F : \A C \in F : C \subseteq B => C = B
  <2> HIDE DEF F
  <2> QED
    BY <1>1, Minimal
<1>3. PICK m \in S : B = Beyond(m)
  OBVIOUS
<1>4. ASSUME NEW r \in S, f[r] > f[m] PROVE FALSE
  <2>1. Beyond(r) \subseteq Beyond(m)
    BY <1>4
  <2>2. r \in Beyond(m) /\ r \notin Beyond(r)
    BY <1>4
  <2> QED
    BY <2>1, <2>2, <1>2, <1>3
<1> QED
  BY <1>4

Least(x) == {y \in Int : y <= x}
Less(x) == {y \in Int : y < x}

(* There is a number of every rank.                                        *)
LEMMA RankedIsAmong ==
  ASSUME NEW len \in Nat, NEW f \in [Indices(len) -> Int], NEW k \in Indices(len)
  PROVE  /\ \E m \in Indices(len) : Ranked(f, k) = f[m]
         /\ Ranked(f, k) \in Int
         /\ Count(f, Indices(len), Less(Ranked(f, k))) <= k
         /\ Count(f, Indices(len), Least(Ranked(f, k))) > k
<1> DEFINE D == Indices(len)
           UpTo(m) == {r \in D : f[r] <= f[m]}
           F == {B \in {UpTo(m) : m \in D} : Cardinality(B) > k}
<1>1. IsFiniteSet(D) /\ Cardinality(D) = len /\ k \in Nat /\ k < len
  BY IndicesFinite DEF Indices
<1>2. \A B \in SUBSET D : IsFiniteSet(B) /\ Cardinality(B) \in Nat
  BY <1>1, FS_Subset, FS_CardinalityType
<1>3. F # {} /\ F \subseteq SUBSET D
  <2>1. PICK m \in D : \A r \in D : f[r] <= f[m]
    <3>1. D # {} /\ \A m \in D : f[m] \in Int
      OBVIOUS
    <3> HIDE DEF D
    <3> QED
      BY <1>1, <3>1, Greatest
  <2>2. UpTo(m) = D
    BY <2>1
  <2> QED
    BY <1>1, <2>2
<1>4. PICK B \in F : \A C \in F : C \subseteq B => C = B
  <2> HIDE DEF F, D
  <2> QED
    BY <1>1, <1>3, Minimal
<1>5. PICK m \in D : B = UpTo(m) /\ Cardinality(B) > k
  OBVIOUS
<1> DEFINE M == {r \in D : f[r] < f[m]}
<1>6. Cardinality(M) <= k
  <2>1. SUFFICES ASSUME Cardinality(M) > k PROVE FALSE
    BY <1>1, <1>2
  <2>2. M # {}
    BY <2>1, <1>1, FS_EmptySet
  <2>3. PICK r \in M : \A p \in M : f[p] <= f[r]
    <3>1. IsFiniteSet(M) /\ \A p \in M : f[p] \in Int
      BY <1>2
    <3> HIDE DEF M
    <3> QED
      BY <2>2, <3>1, Greatest
  <2>4. UpTo(r) = M
    <3>1. ASSUME NEW p \in D PROVE f[p] <= f[r] <=> f[p] < f[m]
      <4>1. f[p] \in Int /\ f[r] \in Int /\ f[m] \in Int /\ f[r] < f[m]
        BY <2>3
      <4>2. f[p] < f[m] => f[p] <= f[r]
        BY <2>3
      <4> QED
        BY <4>1, <4>2
    <3> QED
      BY <3>1
  <2>5. M \in F /\ M \subseteq B
    <3>1. M \subseteq UpTo(m)
      OBVIOUS
    <3> QED
      BY <2>1, <2>3, <2>4, <1>5, <3>1
  <2>6. m \in B /\ m \notin M
    BY <1>5
  <2> QED
    BY <2>5, <2>6, <1>4
<1>7. /\ f[m] \in {f[r] : r \in DOMAIN f}
      /\ Cardinality({r \in DOMAIN f : f[r] < f[m]}) <= k
      /\ Cardinality({r \in DOMAIN f : f[r] <= f[m]}) > k
  BY <1>5, <1>6
<1>8. /\ Ranked(f, k) \in {f[r] : r \in DOMAIN f}
      /\ Cardinality({r \in DOMAIN f : f[r] < Ranked(f, k)}) <= k
      /\ Cardinality({r \in DOMAIN f : f[r] <= Ranked(f, k)}) > k
  <2> HIDE DEF D
  <2> QED
    BY <1>7 DEF Ranked
<1>9. PICK r \in D : Ranked(f, k) = f[r]
  BY <1>8
<1>10. /\ {p \in DOMAIN f : f[p] < f[r]} = {p \in D : f[p] \in Less(f[r])}
       /\ {p \in DOMAIN f : f[p] <= f[r]} = {p \in D : f[p] \in Least(f[r])}
  BY DEF Less, Least
<1> QED
  BY <1>8, <1>9, <1>10 DEF Count

(* A set of numbers below a line.                                          *)
DownClosed(V) == \A x \in V, y \in Int : y <= x => y \in V

(* The number of rank k is below a line that more than k numbers are       *)
(* below.                                                                  *)
LEMMA RankedInDownClosed ==
  ASSUME NEW len \in Nat, NEW f \in [Indices(len) -> Int], NEW k \in Indices(len),
         NEW V \in SUBSET Int, DownClosed(V)
  PROVE  Ranked(f, k) \in V <=> Count(f, Indices(len), V) > k
<1> DEFINE s == Ranked(f, k)
           D == Indices(len)
<1>1. /\ s \in Int
      /\ Count(f, D, Less(s)) <= k
      /\ Count(f, D, Least(s)) > k
  BY RankedIsAmong
<1>2. IsFiniteSet(D) /\ D \in SUBSET D /\ k \in Int
  <2>1. k \in Int
    BY DEF Indices
  <2> QED
    BY <2>1, IndicesFinite
<1>3. /\ Count(f, D, V) \in Nat
      /\ Count(f, D, Less(s)) \in Nat
      /\ Count(f, D, Least(s)) \in Nat
  BY <1>2, CountType
<1>4. CASE s \in V
  <2>1. \A m \in D : f[m] \in Least(s) => f[m] \in V
    BY <1>4 DEF Least, DownClosed
  <2>2. Count(f, D, Least(s)) <= Count(f, D, V)
    <3> HIDE DEF D, s
    <3> QED
      BY <1>2, <2>1, CountSubset
  <2> QED
    BY <2>2, <1>1, <1>2, <1>3, <1>4
<1>5. CASE s \notin V
  <2>1. \A m \in D : f[m] \in V => f[m] \in Less(s)
    BY <1>1, <1>5 DEF Less, DownClosed
  <2>2. Count(f, D, V) <= Count(f, D, Less(s))
    <3> HIDE DEF D, s
    <3> QED
      BY <1>2, <2>1, CountSubset
  <2> QED
    BY <2>2, <1>1, <1>2, <1>3, <1>5
<1> QED
  BY <1>4, <1>5

Ascending(len, g) == \A q \in 1..len - 1 : g[q - 1] <= g[q]

(* Neighbours in order put all numbers in order.                           *)
LEMMA SortedThroughout ==
  ASSUME NEW len \in Nat, NEW g \in [Indices(len) -> Int], Ascending(len, g),
         NEW p \in Indices(len), NEW q \in Indices(len), p <= q
  PROVE  g[p] <= g[q]
<1> DEFINE S == {r \in Indices(len) : p <= r /\ g[r] < g[p]}
<1>1. SUFFICES ASSUME S # {} PROVE FALSE
  OBVIOUS
<1>2. S \subseteq Indices(len) /\ IsFiniteSet(Indices(len)) /\ IsFiniteSet(S)
  BY IndicesFinite, FS_Subset
<1> DEFINE below == [r \in S |-> -r]
<1>3. PICK r \in S : \A o \in S : below[o] <= below[r]
  <2>1. \A o \in S : below[o] \in Int
    BY DEF Indices
  <2> HIDE DEF S, below
  <2> QED
    BY <1>1, <1>2, <2>1, Greatest
<1>4. r \in Indices(len) /\ p <= r /\ g[r] < g[p] /\ r # p
  OBVIOUS
<1>5. r - 1 \in Indices(len) /\ p <= r - 1 /\ r \in 1..len - 1
  BY <1>4 DEF Indices
<1>6. g[r - 1] <= g[r]
  BY <1>5 DEF Ascending
<1>7. r - 1 \notin S
  <2>1. r \in Int /\ r - 1 \in Int
    BY <1>4, <1>5 DEF Indices
  <2> QED
    BY <1>3, <2>1
<1>8. g[r - 1] \in Int /\ g[r] \in Int /\ g[p] \in Int
  BY <1>4, <1>5
<1> QED
  BY <1>4, <1>5, <1>6, <1>7, <1>8

(* In a sorted array it is the number at place k that has rank k.          *)
LEMMA SortedInDownClosed ==
  ASSUME NEW len \in Nat, NEW g \in [Indices(len) -> Int], Ascending(len, g),
         NEW k \in Indices(len), NEW V \in SUBSET Int, DownClosed(V)
  PROVE  g[k] \in V <=> Count(g, Indices(len), V) > k
<1> DEFINE D == Indices(len)
<1>1. /\ IsFiniteSet(D) /\ k \in Nat /\ k + 1 \in Nat
      /\ Indices(k) \in SUBSET D /\ Indices(k + 1) \in SUBSET D
  BY IndicesFinite DEF Indices
<1>2. Count(g, D, V) \in Nat /\ IsFiniteSet(Indices(k)) /\ IsFiniteSet(Indices(k + 1))
  BY <1>1, CountType, IndicesFinite
<1>3. CASE g[k] \in V
  <2>1. \A m \in Indices(k + 1) : g[m] \in V
    <3> TAKE m \in Indices(k + 1)
    <3>1. m \in Indices(len) /\ m <= k
      BY <1>1 DEF Indices
    <3>2. g[m] <= g[k]
      BY <3>1, SortedThroughout
    <3> QED
      BY <1>3, <3>1, <3>2 DEF DownClosed
  <2>2. Count(g, Indices(k + 1), V) = k + 1
    BY <1>1, <1>2, <2>1, CountAll, IndicesFinite
  <2>3. Count(g, Indices(k + 1), V) <= Count(g, D, V)
    <3> HIDE DEF D
    <3> QED
      BY <1>1, CountSubset
  <2> QED
    BY <2>2, <2>3, <1>1, <1>2, <1>3
<1>4. CASE g[k] \notin V
  <2>1. \A m \in D : g[m] \in V => m \in Indices(k)
    <3> TAKE m \in D
    <3> HAVE g[m] \in V
    <3>1. ~(k <= m)
      <4>1. k <= m => g[k] <= g[m]
        BY SortedThroughout
      <4>2. g[k] \in Int
        OBVIOUS
      <4> QED
        BY <4>1, <4>2, <1>4 DEF DownClosed
    <3> QED
      BY <3>1, <1>1 DEF Indices
  <2>2. {m \in D : g[m] \in V} \subseteq Indices(k)
    BY <2>1
  <2>3. Count(g, D, V) <= k
    <3> HIDE DEF D
    <3> QED
      BY <2>2, <1>1, IndicesFinite, FS_Subset DEF Count
  <2> QED
    BY <2>3, <1>1, <1>2, <1>4
<1> QED
  BY <1>3, <1>4

-----------------------------------------------------------------------------
(* What exchanges keep of the numbers.                                     *)

(* An exchange keeps the number of those in V if truncation neither leaves *)
(* nor enters V; and whole numbers stay whole.                             *)
NumbersKept(len, s, d) ==
  /\ \A V \in SUBSET Int :
       /\ (\A x \in Int : Truncate(x) \in V => x \in V)
            => Count(d, Indices(len), V) <= Count(s, Indices(len), V)
       /\ (\A x \in V : Truncate(x) \in V)
            => Count(s, Indices(len), V) <= Count(d, Indices(len), V)
  /\ (\A m \in Indices(len) : Whole(s[m])) => (\A m \in Indices(len) : Whole(d[m]))

(* A comparison keeps NumbersKept.                                         *)
LEMMA NumbersStep ==
  ASSUME NEW len \in Nat, NEW s \in [Indices(len) -> Int], NEW d \in [Indices(len) -> Int],
         NEW b \in Nat, b < len - 1, NumbersKept(len, s, d)
  PROVE  NumbersKept(len, s, Compared(d, b))
<1> DEFINE e == Compared(d, b)
           D == Indices(len)
<1>1. CASE d[b] <= d[b + 1]
  BY <1>1, ComparedNumbers
<1>2. CASE d[b] > d[b + 1]
  <2>1. /\ e \in [D -> Int]
        /\ b \in D /\ b + 1 \in D /\ b # b + 1
        /\ e[b] = d[b + 1] /\ e[b + 1] = Truncate(d[b])
        /\ \A m \in D \ {b, b + 1} : e[m] = d[m]
    BY <1>2, ComparedNumbers
  <2>2. IsFiniteSet(D) /\ d[b] \in Int /\ Truncate(d[b]) \in Int
    BY <2>1, IndicesFinite, Truncated
  <2> HIDE DEF e
  <2>3. ASSUME NEW V \in SUBSET Int
        PROVE  /\ Count(e, D, V) = (Count(d, D, V) - One(d[b], V)) + One(Truncate(d[b]), V)
               /\ Count(d, D, V) \in Nat
    <3> HIDE DEF D
    <3>1. PICK f, g, k, c : f = d /\ g = e /\ k = b /\ c = b + 1
      OBVIOUS
    <3>2. AgreeBut(f, g, D, k, c) /\ IsFiniteSet(D) /\ k \in D /\ c \in D /\ k # c
      BY <2>1, <2>2, <3>1 DEF AgreeBut
    <3>3. Count(g, D, V) = (Count(f, D, V) - One(f[k], V)) + One(g[c], V)
      BY <3>2, CountExchange, SMTT(30)
    <3>4. Count(d, D, V) \in Nat
      BY <2>2, CountType
    <3> QED
      BY <3>1, <3>3, <3>4, <2>1
  <2>4. ASSUME NEW V \in SUBSET Int, \A x \in Int : Truncate(x) \in V => x \in V
        PROVE  Count(e, D, V) <= Count(s, D, V)
    <3>1. Count(d, D, V) <= Count(s, D, V) /\ Count(s, D, V) \in Nat
      BY <2>4, <2>2, CountType DEF NumbersKept
    <3>2. One(Truncate(d[b]), V) <= One(d[b], V) /\ One(Truncate(d[b]), V) \in Nat
            /\ One(d[b], V) \in Nat
      BY <2>4, <2>2 DEF One
    <3> QED
      BY <3>1, <3>2, <2>3
  <2>5. ASSUME NEW V \in SUBSET Int, \A x \in V : Truncate(x) \in V
        PROVE  Count(s, D, V) <= Count(e, D, V)
    <3>1. Count(s, D, V) <= Count(d, D, V) /\ Count(s, D, V) \in Nat
      BY <2>5, <2>2, CountType DEF NumbersKept
    <3>2. One(d[b], V) <= One(Truncate(d[b]), V) /\ One(Truncate(d[b]), V) \in Nat
            /\ One(d[b], V) \in Nat
      BY <2>5, <2>2 DEF One
    <3> QED
      BY <3>1, <3>2, <2>3
  <2>6. ASSUME \A m \in D : Whole(s[m]), NEW m \in D
        PROVE  Whole(e[m])
    <3>1. \A r \in D : Whole(d[r])
      BY <2>6 DEF NumbersKept
    <3>2. CASE m = b + 1
      BY <3>2, <2>1, <2>2, TruncatedIsWhole DEF Whole
    <3>3. CASE m = b
      BY <3>3, <2>1, <3>1
    <3>4. CASE m \notin {b, b + 1}
      BY <3>4, <2>1, <3>1
    <3> QED
      BY <3>2, <3>3, <3>4
  <2> SUFFICES NumbersKept(len, s, e)
    BY DEF e
  <2> QED
    BY <2>4, <2>5, <2>6 DEF NumbersKept
<1>3. d[b] \in Int /\ d[b + 1] \in Int
  BY ComparedNumbers
<1> QED
  BY <1>1, <1>2, <1>3

(* A line that truncation does not cross separates what was sent as it     *)
(* separates the sorted array.                                             *)
LEMMA RankedKept ==
  ASSUME NEW len \in Nat, NEW s \in [Indices(len) -> Int], NEW g \in [Indices(len) -> Int],
         Ascending(len, g), NumbersKept(len, s, g), NEW k \in Indices(len),
         NEW V \in SUBSET Int, DownClosed(V)
  PROVE  /\ (\A x \in Int : Truncate(x) \in V => x \in V) => (g[k] \in V => Ranked(s, k) \in V)
         /\ (\A x \in V : Truncate(x) \in V) => (Ranked(s, k) \in V => g[k] \in V)
<1> DEFINE D == Indices(len)
<1>1. /\ g[k] \in V <=> Count(g, D, V) > k
      /\ Ranked(s, k) \in V <=> Count(s, D, V) > k
  BY SortedInDownClosed, RankedInDownClosed
<1>2. Count(g, D, V) \in Nat /\ Count(s, D, V) \in Nat /\ k \in Int
  <2>1. k \in Int
    BY DEF Indices
  <2> QED
    BY <2>1, IndicesFinite, CountType
<1>3. /\ (\A x \in Int : Truncate(x) \in V => x \in V) => Count(g, D, V) <= Count(s, D, V)
      /\ (\A x \in V : Truncate(x) \in V) => Count(s, D, V) <= Count(g, D, V)
  BY DEF NumbersKept
<1> HIDE DEF D
<1> QED
  BY <1>1, <1>2, <1>3

(* So place k of the sorted array holds the number of rank k, but for its  *)
(* fraction: the two have the same integer part and the same sign.         *)
LEMMA PlaceKept ==
  ASSUME NEW len \in Nat, NEW s \in [Indices(len) -> Int], NEW g \in [Indices(len) -> Int],
         Ascending(len, g), NumbersKept(len, s, g), NEW k \in Indices(len)
  PROVE  /\ g[k] \in Int /\ Ranked(s, k) \in Int
         /\ Truncate(g[k]) = Truncate(Ranked(s, k))
         /\ g[k] - Ranked(s, k) < U /\ Ranked(s, k) - g[k] < U
         /\ (\A m \in Indices(len) : Whole(s[m])) => g[k] = Ranked(s, k)
<1> DEFINE x == g[k]
           y == Ranked(s, k)
           UpTo(t) == {z \in Int : Truncate(z) <= t}
<1>1. x \in Int /\ y \in Int
  BY RankedIsAmong
<1>2. ASSUME NEW t \in Int
      PROVE  /\ DownClosed(UpTo(t)) /\ UpTo(t) \in SUBSET Int
             /\ \A z \in Int : Truncate(z) \in UpTo(t) <=> z \in UpTo(t)
  <2>1. ASSUME NEW v \in Int, NEW z \in Int, Truncate(v) <= t, z <= v
        PROVE  Truncate(z) <= t
    BY <2>1, Truncated, TruncateMono
  <2>2. \A z \in Int : Truncate(z) \in Int /\ Truncate(Truncate(z)) = Truncate(z)
    BY Truncated, TruncatedIsWhole
  <2> QED
    BY <2>1, <2>2 DEF DownClosed
<1>3. ASSUME NEW t \in Int PROVE x \in UpTo(t) <=> y \in UpTo(t)
  <2> HIDE DEF UpTo
  <2>1. \A z \in UpTo(t) : z \in Int
    BY <1>2
  <2> QED
    BY <1>2, <2>1, RankedKept
<1>4. Truncate(x) \in Int /\ Truncate(y) \in Int
  BY <1>1, Truncated
<1>5. Truncate(x) = Truncate(y)
  <2>1. x \in UpTo(Truncate(x)) /\ y \in UpTo(Truncate(y))
    BY <1>1, <1>4
  <2>2. y \in UpTo(Truncate(x)) /\ x \in UpTo(Truncate(y))
    <3> HIDE DEF UpTo, x, y
    <3> QED
      BY <2>1, <1>3, <1>4
  <2> QED
    BY <2>2, <1>4
<1>6. (x < 0 => y < 0) /\ (y <= 0 => x <= 0)
  <2>1. /\ DownClosed(Less(0)) /\ Less(0) \in SUBSET Int
        /\ DownClosed(Least(0)) /\ Least(0) \in SUBSET Int
    BY DEF DownClosed, Less, Least
  <2>2. \A z \in Int : Truncate(z) \in Less(0) => z \in Less(0)
    BY Truncated DEF Less
  <2>3. \A z \in Least(0) : Truncate(z) \in Least(0)
    BY Truncated DEF Least
  <2>4. x \in Less(0) => y \in Less(0)
    BY <2>1, <2>2, RankedKept
  <2>5. y \in Least(0) => x \in Least(0)
    BY <2>1, <2>3, RankedKept
  <2> QED
    BY <2>4, <2>5, <1>1 DEF Less, Least
<1>7. x - y < U /\ y - x < U
  <2> HIDE DEF x, y
  <2>1. /\ x >= 0 => Truncate(x) <= x /\ x < Truncate(x) + U
        /\ x <= 0 => x <= Truncate(x) /\ Truncate(x) - U < x
        /\ y >= 0 => Truncate(y) <= y /\ y < Truncate(y) + U
        /\ y <= 0 => y <= Truncate(y) /\ Truncate(y) - U < y
    BY <1>1, Truncated
  <2> QED
    BY <2>1, <1>1, <1>4, <1>5, <1>6, AverageAssumption
<1>8. ASSUME \A m \in Indices(len) : Whole(s[m])
      PROVE  x = y
  <2>1. Whole(x)
    BY <1>8 DEF NumbersKept
  <2>2. Whole(y)
    BY <1>8, RankedIsAmong
  <2> QED
    BY <2>1, <2>2, <1>5 DEF Whole
<1> HIDE DEF UpTo
<1> QED
  BY <1>1, <1>5, <1>7, <1>8

-----------------------------------------------------------------------------
(* average_1.                                                              *)

(* The median of the sorted array is almost the median of what was sent.   *)
LEMMA MedianKept ==
  ASSUME NEW len \in Nat \ {0}, NEW s \in [Indices(len) -> Int], NEW g \in [Indices(len) -> Int],
         Ascending(len, g), NumbersKept(len, s, g),
         NEW m, m = IF len % 2 = 0 THEN g[(len - 1) \div 2] + g[len \div 2] ELSE 2 * g[len \div 2]
  PROVE  m \in Int /\ IsAlmostMedian(m, s)
<1> DEFINE lower == (len - 1) \div 2
           upper == len \div 2
           x == g[lower]
           y == g[upper]
           v == Ranked(s, lower)
           z == Ranked(s, upper)
<1>1. lower \in Indices(len) /\ upper \in Indices(len) /\ (len % 2 # 0 => lower = upper)
  BY DEF Indices
<1>2. Cardinality(DOMAIN s) = len
  BY IndicesFinite
<1>3. MedianOf(s) = v + z
  BY <1>2 DEF MedianOf
<1>4. /\ x \in Int /\ v \in Int /\ x - v < U /\ v - x < U
      /\ (\A r \in Indices(len) : Whole(s[r])) => x = v
  BY <1>1, PlaceKept
<1>5. /\ y \in Int /\ z \in Int /\ y - z < U /\ z - y < U
      /\ (\A r \in Indices(len) : Whole(s[r])) => y = z
  BY <1>1, PlaceKept
<1>6. m = x + y
  <2>1. len % 2 # 0 => x = y
    BY <1>1
  <2> HIDE DEF x, y
  <2>2. m = IF len % 2 = 0 THEN x + y ELSE 2 * y
    BY DEF x, y
  <2> QED
    BY <2>1, <2>2, <1>4, <1>5
<1>7. (\A r \in DOMAIN s : s[r] % U = 0) => (\A r \in Indices(len) : Whole(s[r]))
  <2>1. \A r \in Indices(len) : s[r] \in Int
    OBVIOUS
  <2> QED
    BY <2>1, WholeIfMultiple DEF Whole
<1> HIDE DEF x, y, v, z
<1>8. m - (v + z) \in -(2 * U - 1)..2 * U - 1
  BY <1>4, <1>5, <1>6, AverageAssumption
<1> QED
  BY <1>3, <1>4, <1>5, <1>6, <1>7, <1>8 DEF IsAlmostMedian

(* Numbers that fit an int when they are sent fit it throughout the sort:  *)
(* truncation does not lead from those that fit to others.                 *)
LEMMA FittingKept ==
  ASSUME NEW len \in Nat, NEW s \in [Indices(len) -> Int], NEW d \in [Indices(len) -> Int],
         NumbersKept(len, s, d), AllFitInt(s), NEW k \in Indices(len)
  PROVE  FitsInt(d[k])
<1> DEFINE D == Indices(len)
           V == {x \in Int : ~FitsInt(x)}
<1>1. ASSUME NEW x \in Int, Truncate(x) \in V PROVE x \in V
  BY <1>1, TruncatedIsWhole DEF FitsInt
<1>2. V \in SUBSET Int
  OBVIOUS
<1>3. \A m \in D : s[m] \notin V
  BY DEF AllFitInt
<1>4. d[k] \in V => k \in {m \in D : d[m] \in V}
  OBVIOUS
<1> HIDE DEF V
<1>5. Count(d, D, V) <= Count(s, D, V)
  BY <1>1, <1>2 DEF NumbersKept
<1> HIDE DEF D
<1>6. Count(s, D, V) = 0
  <2>1. {m \in D : s[m] \in V} = {}
    BY <1>3
  <2> QED
    BY <2>1, FS_EmptySet DEF Count
<1>7. IsFiniteSet({m \in D : d[m] \in V}) /\ Count(d, D, V) \in Nat
  <2>1. IsFiniteSet(D)
    BY IndicesFinite DEF D
  <2> QED
    BY <2>1, CountType
<1>8. {m \in D : d[m] \in V} = {}
  <2>1. Cardinality({m \in D : d[m] \in V}) = 0
    BY <1>5, <1>6, <1>7 DEF Count
  <2> QED
    BY <2>1, <1>7, FS_EmptySet
<1> QED
  BY <1>4, <1>8 DEF V

(* The array d is on its way to being s in ascending order, and m the      *)
(* result.                                                                 *)
OnItsWay(len, s, d, a, b, m, r) ==
  /\ OrderKept(len, d, a, b)
  /\ RanksKept(len, d, a, b)
  /\ NumbersKept(len, s, d)
  /\ r /\ len > 0 => IsAlmostMedian(m, s)

(* The invariant of average_1: len numbers s were sent, d is the array     *)
(* after a passes and b comparisons of the next, m the result once r.      *)
SortingOf(len, s, d, a, b, m, r) ==
  /\ len \in Nat
  /\ s \in [Indices(len) -> Int] /\ d \in [Indices(len) -> Int]
  /\ a \in 0..len /\ b \in Nat
  /\ b = 0 \/ b < len
  /\ a = len => b = 0
  /\ len > 0 => m \in Int
  /\ r => a = len
  /\ AllFitInt(s) => OnItsWay(len, s, d, a, b, m, r)

Sorting == SortingOf(arrayLen, sent, dp, i, j, median, returned)

(* What average_1 is called with.                                          *)
LEMMA SortingStarts ==
  ASSUME NEW len \in Nat, NEW s \in [Indices(len) -> Int]
  PROVE  SortingOf(len, s, s, 0, 0, 0, FALSE)
<1>1. \A q \in 0..len - 1, w \in Int :
        Higher(s, w, q) \in Nat /\ Higher(s, w, q) <= q
  <2> TAKE q \in 0..len - 1, w \in Int
  <2>1. q \in Nat /\ s[q] \in Int
    BY DEF Indices
  <2> QED
    BY <2>1, HigherNext
<1>2. \A w \in Int : 0 < len => Higher(s, w, 0) = 0
  BY <1>1
<1>3. RanksKept(len, s, 0, 0)
  BY <1>1, <1>2 DEF RanksKept, RankKept
<1>4. OrderKept(len, s, 0, 0)
  BY DEF OrderKept
<1>5. NumbersKept(len, s, s)
  <2>1. ASSUME NEW V PROVE Count(s, Indices(len), V) \in Nat
    BY IndicesFinite, CountType
  <2> QED
    BY <2>1 DEF NumbersKept
<1> QED
  BY <1>3, <1>4, <1>5 DEF SortingOf, OnItsWay

(* What it has at the end of its passes.                                   *)
LEMMA SortingSorts ==
  ASSUME NEW len, NEW s, NEW d, NEW b, NEW m, NEW r,
         SortingOf(len, s, d, len, b, m, r), AllFitInt(s)
  PROVE  Ascending(len, d)
BY SortedAtLast DEF SortingOf, OnItsWay, Ascending

(* Every step of average_1 keeps the invariant.                            *)
LEMMA SortingNext ==
  ASSUME Sorting, Average1
  PROVE  Sorting'
<1> DEFINE len == arrayLen
<1>1. len' = len /\ sent' = sent
  BY DEF Average1, CompareExchange, NextPass, Return, arrayLen
<1>2. /\ len \in Nat
      /\ sent \in [Indices(len) -> Int] /\ dp \in [Indices(len) -> Int]
      /\ i \in 0..len /\ j \in Nat
      /\ j = 0 \/ j < len
      /\ i = len => j = 0
      /\ len > 0 => median \in Int
      /\ returned => i = len
  BY DEF Sorting, SortingOf
<1>3. ASSUME AllFitInt(sent)
      PROVE  /\ OrderKept(len, dp, i, j)
             /\ RanksKept(len, dp, i, j)
             /\ NumbersKept(len, sent, dp)
             /\ returned /\ len > 0 => IsAlmostMedian(median, sent)
  BY <1>3 DEF Sorting, SortingOf, OnItsWay
<1>4. CASE CompareExchange
  <2>1. /\ i < len /\ j < len - 1
        /\ i' = i /\ j' = j + 1
        /\ median' = median /\ returned' = returned
        /\ IF dp[j] > dp[j + 1]
             THEN \E tmp \in ToInt(dp[j]) :
                    dp' = [dp EXCEPT ![j] = dp[j + 1], ![j + 1] = tmp]
             ELSE dp' = dp
    BY <1>4 DEF CompareExchange
  <2> HIDE DEF len
  <2>2. /\ j \in Indices(len) /\ j + 1 \in Indices(len)
        /\ dp[j] \in Int /\ dp[j + 1] \in Int
        /\ ToInt(dp[j]) \in SUBSET Int
    <3>1. j \in Indices(len) /\ j + 1 \in Indices(len)
      BY <2>1, <1>2 DEF Indices
    <3> QED
      BY <3>1, <1>2, ToIntType
  <2>3. dp' \in [Indices(len) -> Int]
    BY <2>1, <2>2, <1>2
  <2>4. ASSUME AllFitInt(sent)
        PROVE  OnItsWay(len, sent, dp', i, j + 1, median, returned)
    <3>1. dp' = Compared(dp, j)
      <4>1. FitsInt(dp[j])
        BY <2>2, <2>4, <1>2, <1>3, FittingKept
      <4> QED
        BY <4>1, <2>1 DEF ToInt, Compared
    <3>2. OrderKept(len, Compared(dp, j), i, j + 1)
      BY <2>1, <2>4, <1>2, <1>3, OrderStep
    <3>3. RanksKept(len, Compared(dp, j), i, j + 1)
      <4>1. ASSUME NEW w \in Int, Whole(w)
            PROVE  RankKept(len, Compared(dp, j), i, j + 1, w)
        <5>1. RankKept(len, dp, i, j, w)
          BY <4>1, <2>4, <1>3 DEF RanksKept
        <5> QED
          BY <5>1, <4>1, <2>1, <2>4, <1>2, <1>3, RankStep
      <4> QED
        BY <4>1 DEF RanksKept
    <3>4. NumbersKept(len, sent, Compared(dp, j))
      BY <2>1, <2>4, <1>2, <1>3, NumbersStep
    <3> QED
      BY <3>1, <3>2, <3>3, <3>4, <2>4, <1>3 DEF OnItsWay
  <2>5. SortingOf(len, sent, dp', i, j + 1, median, returned)
    BY <2>1, <2>3, <2>4, <1>2 DEF SortingOf
  <2> QED
    BY <1>1, <2>1, <2>5 DEF Sorting, len
<1>5. CASE NextPass
  <2>1. /\ i < len /\ j >= len - 1
        /\ dp' = dp /\ i' = i + 1 /\ j' = 0
        /\ median' = median /\ returned' = returned
    BY <1>5 DEF NextPass
  <2> HIDE DEF len
  <2>2. j = len - 1
    BY <2>1, <1>2
  <2>3. ASSUME AllFitInt(sent) PROVE OrderKept(len, dp, i + 1, 0)
    BY <2>1, <2>2, <2>3, <1>2, <1>3, OrderPass
  <2>4. ASSUME AllFitInt(sent) PROVE RanksKept(len, dp, i + 1, 0)
    <3>1. ASSUME NEW w \in Int, Whole(w)
          PROVE  RankKept(len, dp, i + 1, 0, w)
      <4>1. RankKept(len, dp, i, j, w)
        BY <3>1, <2>4, <1>3 DEF RanksKept
      <4> QED
        BY <4>1, <3>1, <2>1, <2>2, <1>2, RankPass
    <3> QED
      BY <3>1 DEF RanksKept
  <2>5. SortingOf(len, sent, dp, i + 1, 0, median, returned)
    BY <2>1, <2>3, <2>4, <1>2, <1>3 DEF SortingOf, OnItsWay
  <2> QED
    BY <1>1, <2>1, <2>5 DEF Sorting, len
<1>6. CASE Return
  <2>1. /\ i >= len
        /\ median' = IF len % 2 = 0 THEN dp[(len - 1) \div 2] + dp[len \div 2]
                     ELSE 2 * dp[len \div 2]
        /\ returned' = TRUE /\ dp' = dp /\ i' = i /\ j' = j
    BY <1>6 DEF Return
  <2> HIDE DEF len
  <2>2. i = len
    BY <2>1, <1>2
  <2>3. ASSUME len > 0 PROVE median' \in Int
    <3>1. (len - 1) \div 2 \in Indices(len) /\ len \div 2 \in Indices(len)
      BY <2>3, <1>2 DEF Indices
    <3> QED
      BY <3>1, <2>1, <1>2
  <2>4. ASSUME AllFitInt(sent), len > 0 PROVE IsAlmostMedian(median', sent)
    <3>1. Ascending(len, dp)
      BY <2>2, <2>4, SortingSorts DEF Sorting, len
    <3> QED
      BY <3>1, <2>1, <2>4, <1>2, <1>3, MedianKept
  <2>5. SortingOf(len, sent, dp, len, j, median', TRUE)
    BY <2>2, <2>3, <2>4, <1>2, <1>3 DEF SortingOf, OnItsWay
  <2> QED
    BY <1>1, <2>1, <2>2, <2>5 DEF Sorting, len
<1> QED
  BY <1>4, <1>5, <1>6 DEF Average1

IsList(f) ==
  LET len == Cardinality(DOMAIN f)
  IN  len \in Nat /\ f \in [Indices(len) -> Int]

(* The clients are given lists of numbers.                                 *)
LEMMA GivenAreLists ==
  ASSUME NEW f \in Given, NEW c \in Clients
  PROVE  IsList(f[c])
<1>1. PICK len \in 0..MaxLen : f[c] \in [0..len - 1 -> -Largest..Largest]
  BY AverageCallAssumption
<1>2. len \in Nat /\ f[c] \in [Indices(len) -> Int]
  BY <1>1, AverageAssumption DEF Indices
<1>3. Cardinality(DOMAIN f[c]) = len
  BY <1>2, IndicesFinite
<1> QED
  BY <1>2, <1>3 DEF IsList

(* The empty list is one.                                                  *)
LEMMA NoNumbersIsList == IsList(NoNumbers) /\ Cardinality(DOMAIN NoNumbers) = 0
<1>1. DOMAIN NoNumbers = {} /\ Indices(0) = {}
  BY DEF NoNumbers, Indices
<1>2. Cardinality(DOMAIN NoNumbers) = 0
  BY <1>1, FS_EmptySet
<1> QED
  BY <1>1, <1>2 DEF IsList, NoNumbers

(* A list that is not empty has a length.                                  *)
LEMMA SomeNumbers ==
  ASSUME NEW f, IsList(f), f # NoNumbers
  PROVE  Cardinality(DOMAIN f) > 0
<1> DEFINE len == Cardinality(DOMAIN f)
<1>1. SUFFICES ASSUME len = 0 PROVE FALSE
  BY DEF IsList
<1>2. f \in [{} -> Int]
  BY <1>1 DEF IsList, Indices
<1> QED
  BY <1>2 DEF NoNumbers

-----------------------------------------------------------------------------
(* The service.                                                            *)

(* The types of the variables of AverageCall.                              *)
CallTypeOK ==
  /\ \A c \in Clients : IsList(numbers[c])
  /\ client \in [Clients -> {"start", "calling", "exited", "printed", "crashed"}]
  /\ port \in [Clients -> Nat]
  /\ printed \in [Clients -> Int]
  /\ requests \in SUBSET [from : Clients, to : Nat]
  /\ replies \in SUBSET [to : Clients, median : Int]
  /\ server \in {"down", "unset", "up", "refused"}
  /\ starts \in Nat /\ registry \in Nat
  /\ serving \in Clients \cup {Nobody}

(* Who calls has numbers, and the request, the array and the reply that    *)
(* answer a client are made of them.                                       *)
OwnNumbers ==
  /\ \A c \in Clients : client[c] = "calling" => numbers[c] # NoNumbers
  /\ \A r \in requests : numbers[r.from] # NoNumbers
  /\ serving # Nobody => sent = numbers[serving] /\ sent # NoNumbers
  /\ \A r \in replies : AllFitInt(numbers[r.to]) => IsAlmostMedian(r.median, numbers[r.to])

(* Between pmap_unset and svc_register no port is registered.              *)
Registered ==
  /\ FoundWhenUp
  /\ server = "unset" => registry = 0

(* The inductive invariant.                                                *)
CallInv ==
  /\ CallTypeOK
  /\ Sorting
  /\ OwnNumbers
  /\ PrintsOwnMedian
  /\ Registered

(* The invariant of the service holds at first.                            *)
LEMMA CallInitInv == CallInit => CallInv
<1> SUFFICES ASSUME CallInit PROVE CallInv
  OBVIOUS
<1>1. CallTypeOK
  BY GivenAreLists DEF CallInit, CallTypeOK
<1>2. Sorting
  <2>1. /\ arrayLen \in Nat /\ NoNumbers \in [Indices(arrayLen) -> Int]
    BY NoNumbersIsList DEF CallInit, IsList, arrayLen
  <2> QED
    BY <2>1, SortingStarts DEF CallInit, Sorting
<1>3. OwnNumbers /\ PrintsOwnMedian /\ Registered
  BY DEF CallInit, OwnNumbers, PrintsOwnMedian, Registered, FoundWhenUp
<1> QED
  BY <1>1, <1>2, <1>3 DEF CallInv

(* What touches no variable of average_1 keeps its invariant.              *)
LEMMA SortingKept ==
  ASSUME Sorting, UNCHANGED vars
  PROVE  Sorting'
BY DEF Sorting, vars, arrayLen

(* Every step keeps the invariant, whatever becomes of datagrams and       *)
(* servers.                                                                *)
LEMMA CallNextInv ==
  ASSUME CallInv, CallNext
  PROVE  CallInv'
<1> USE DEF CallInv
<1>1. ASSUME NEW c \in Clients, ExitEarly(c) PROVE CallInv'
  <2> USE <1>1 DEF ExitEarly, BecomesClient
  <2>1. CallTypeOK'
    BY DEF CallTypeOK
  <2>2. Sorting'
    BY SortingKept
  <2>3. OwnNumbers'
    BY DEF OwnNumbers, CallTypeOK, vars
  <2>4. PrintsOwnMedian' /\ Registered'
    BY DEF PrintsOwnMedian, CallTypeOK, Registered, FoundWhenUp
  <2> QED
    BY <2>1, <2>2, <2>3, <2>4
<1>2. ASSUME NEW c \in Clients, Call(c) PROVE CallInv'
  <2> USE <1>2 DEF Call, BecomesClient
  <2>1. CallTypeOK'
    BY DEF CallTypeOK
  <2>2. Sorting'
    BY SortingKept
  <2>3. OwnNumbers'
    BY DEF OwnNumbers, CallTypeOK, vars
  <2>4. PrintsOwnMedian' /\ Registered'
    BY DEF PrintsOwnMedian, CallTypeOK, Registered, FoundWhenUp
  <2> QED
    BY <2>1, <2>2, <2>3, <2>4
<1>3. ASSUME NEW c \in Clients, SendAgain(c) PROVE CallInv'
  <2> USE <1>3 DEF SendAgain, BecomesClient
  <2>1. CallTypeOK'
    BY DEF CallTypeOK
  <2>2. Sorting'
    BY SortingKept
  <2>3. OwnNumbers'
    BY DEF OwnNumbers, CallTypeOK, vars
  <2>4. PrintsOwnMedian' /\ Registered'
    BY DEF PrintsOwnMedian, CallTypeOK, Registered, FoundWhenUp
  <2> QED
    BY <2>1, <2>2, <2>3, <2>4
<1>4. ASSUME NEW c \in Clients, PrintMedian(c) PROVE CallInv'
  <2> USE DEF BecomesClient
  <2>1. PICK r \in replies : r.to = c /\ printed' = [printed EXCEPT ![c] = r.median]
    BY <1>4 DEF PrintMedian
  <2> USE <1>4 DEF PrintMedian
  <2>2. r.median \in Int
    BY DEF CallTypeOK
  <2>3. CallTypeOK'
    BY <2>1, <2>2 DEF CallTypeOK
  <2>4. Sorting'
    BY SortingKept
  <2>5. OwnNumbers'
    BY DEF OwnNumbers, CallTypeOK, vars
  <2>6. PrintsOwnMedian'
    <3>1. AllFitInt(numbers[c]) => IsAlmostMedian(r.median, numbers[c])
      BY <2>1 DEF OwnNumbers
    <3>2. ASSUME NEW k \in Clients, client'[k] = "printed", AllFitInt(numbers[k])
          PROVE  IsAlmostMedian(printed'[k], numbers[k])
      <4>1. CASE k = c
        BY <4>1, <3>1, <3>2, <2>1 DEF CallTypeOK
      <4>2. CASE k # c
        BY <4>2, <3>2, <2>1 DEF CallTypeOK, PrintsOwnMedian
      <4> QED
        BY <4>1, <4>2
    <3> QED
      BY <3>2 DEF PrintsOwnMedian
  <2>7. Registered'
    BY DEF Registered, FoundWhenUp
  <2> QED
    BY <2>3, <2>4, <2>5, <2>6, <2>7
<1>5. ASSUME NEW c \in Clients, TimeOut(c) PROVE CallInv'
  <2> USE <1>5 DEF TimeOut, BecomesClient
  <2>1. CallTypeOK'
    BY DEF CallTypeOK
  <2>2. Sorting'
    BY SortingKept
  <2>3. OwnNumbers'
    BY DEF OwnNumbers, CallTypeOK, vars
  <2>4. PrintsOwnMedian' /\ Registered'
    BY DEF PrintsOwnMedian, CallTypeOK, Registered, FoundWhenUp
  <2> QED
    BY <2>1, <2>2, <2>3, <2>4
<1>6. ASSUME NEW c \in Clients, Dispatch(c) PROVE CallInv'
  <2>1. PICK r \in requests : ReceiveRequest(c, r)
    BY <1>6 DEF Dispatch
  <2> USE <1>6, <2>1 DEF Dispatch, ReceiveRequest, unchangedByServer
  <2>2. CallTypeOK'
    BY DEF CallTypeOK
  <2>3. Sorting'
    <3>1. IsList(numbers[c])
      BY DEF CallTypeOK
    <3>2. arrayLen' \in Nat /\ numbers[c] \in [Indices(arrayLen') -> Int]
      BY <3>1 DEF IsList, arrayLen
    <3>3. SortingOf(arrayLen', numbers[c], numbers[c], 0, 0, 0, FALSE)
      BY <3>2, SortingStarts
    <3> QED
      BY <3>3 DEF Sorting
  <2>4. OwnNumbers'
    BY DEF OwnNumbers, CallTypeOK
  <2>5. PrintsOwnMedian' /\ Registered'
    BY DEF PrintsOwnMedian, CallTypeOK, Registered, FoundWhenUp
  <2> QED
    BY <2>2, <2>3, <2>4, <2>5
<1>7. ASSUME Lose PROVE CallInv'
  <2> USE <1>7 DEF Lose
  <2>0. requests' \subseteq requests /\ replies' \subseteq replies
    OBVIOUS
  <2>1. CallTypeOK'
    BY <2>0 DEF CallTypeOK
  <2>2. Sorting'
    BY SortingKept
  <2>3. OwnNumbers'
    BY <2>0 DEF OwnNumbers, CallTypeOK, vars
  <2>4. PrintsOwnMedian' /\ Registered'
    BY DEF PrintsOwnMedian, CallTypeOK, Registered, FoundWhenUp
  <2> QED
    BY <2>1, <2>2, <2>3, <2>4
<1>8. ASSUME Start PROVE CallInv'
  <2> USE <1>8 DEF Start, unchangedByServer
  <2>1. CallTypeOK'
    BY DEF CallTypeOK
  <2>2. Sorting'
    BY SortingKept
  <2>3. OwnNumbers'
    BY DEF OwnNumbers, CallTypeOK, vars
  <2>4. PrintsOwnMedian' /\ Registered'
    BY DEF PrintsOwnMedian, CallTypeOK, Registered, FoundWhenUp
  <2> QED
    BY <2>1, <2>2, <2>3, <2>4
<1>9. ASSUME Register PROVE CallInv'
  <2> USE <1>9 DEF Register, unchangedByServer
  <2>0. registry' = starts /\ server' = "up"
    BY DEF Registered
  <2>1. CallTypeOK'
    BY <2>0 DEF CallTypeOK
  <2>2. Sorting'
    BY SortingKept
  <2>3. OwnNumbers'
    BY DEF OwnNumbers, CallTypeOK, vars
  <2>4. PrintsOwnMedian' /\ Registered'
    BY <2>0 DEF PrintsOwnMedian, CallTypeOK, Registered, FoundWhenUp
  <2> QED
    BY <2>1, <2>2, <2>3, <2>4
<1>10. ASSUME Compute PROVE CallInv'
  <2> USE <1>10 DEF Compute, callVars
  <2>0. sent' = sent
    BY DEF Average1, CompareExchange, NextPass, Return
  <2>1. CallTypeOK'
    BY DEF CallTypeOK
  <2>2. Sorting'
    BY SortingNext
  <2>3. OwnNumbers'
    BY <2>0 DEF OwnNumbers
  <2>4. PrintsOwnMedian' /\ Registered'
    BY DEF PrintsOwnMedian, CallTypeOK, Registered, FoundWhenUp
  <2> QED
    BY <2>1, <2>2, <2>3, <2>4
<1>11. ASSUME SendReply PROVE CallInv'
  <2> USE <1>11 DEF SendReply, unchangedByServer
  <2>0. /\ serving \in Clients
        /\ median \in Int
        /\ AllFitInt(numbers[serving]) => IsAlmostMedian(median, numbers[serving])
    <3>1. serving \in Clients /\ sent = numbers[serving] /\ sent # NoNumbers
      BY DEF OwnNumbers, CallTypeOK
    <3>2. arrayLen > 0
      BY <3>1, SomeNumbers DEF CallTypeOK, arrayLen
    <3> QED
      BY <3>1, <3>2 DEF Sorting, SortingOf, OnItsWay
  <2>1. CallTypeOK'
    BY <2>0 DEF CallTypeOK
  <2>2. Sorting'
    BY SortingKept
  <2>3. OwnNumbers'
    BY <2>0 DEF OwnNumbers, CallTypeOK
  <2>4. PrintsOwnMedian' /\ Registered'
    BY DEF PrintsOwnMedian, CallTypeOK, Registered, FoundWhenUp
  <2> QED
    BY <2>1, <2>2, <2>3, <2>4
<1>12. ASSUME ServerDies PROVE CallInv'
  <2> USE <1>12 DEF ServerDies, unchangedByServer
  <2>1. CallTypeOK'
    BY DEF CallTypeOK
  <2>2. Sorting'
    BY SortingKept
  <2>3. OwnNumbers'
    BY DEF OwnNumbers, CallTypeOK, vars
  <2>4. PrintsOwnMedian' /\ Registered'
    BY DEF PrintsOwnMedian, CallTypeOK, Registered, FoundWhenUp
  <2> QED
    BY <2>1, <2>2, <2>3, <2>4
<1> QED
  BY <1>1, <1>2, <1>3, <1>4, <1>5, <1>6, <1>7, <1>8, <1>9, <1>10, <1>11, <1>12
     DEF CallNext, ServerStep

(* So does a step of something else.                                       *)
LEMMA CallStutters ==
  ASSUME CallInv, UNCHANGED allVars
  PROVE  CallInv'
BY SortingKept DEF CallInv, CallTypeOK, OwnNumbers, PrintsOwnMedian, Registered, FoundWhenUp,
   allVars, callVars, vars

(* The inductive invariant of the service: the types, the invariant of the *)
(* sort, whose numbers are where, and the registration.                    *)
THEOREM CallInvariant == CallSpec => []CallInv
<1>1. CallInv /\ [CallNext]_allVars => CallInv'
  BY CallNextInv, CallStutters
<1> QED
  BY <1>1, CallInitInv, PTL DEF CallSpec

(* The invariant of the sort is what SortsWholeParts follows from.         *)
LEMMA SortingHolds == CallInv => SortsWholeParts
<1> SUFFICES ASSUME CallInv, returned, AllFitInt(sent) PROVE
      \A n \in DOMAIN dp :
        /\ n + 1 \in DOMAIN dp => dp[n] <= dp[n + 1]
        /\ Truncate(dp[n]) = Truncate(Ranked(sent, n))
  BY DEF SortsWholeParts
<1> DEFINE len == arrayLen
<1>1. SortingOf(len, sent, dp, len, j, median, TRUE)
  BY DEF CallInv, Sorting, SortingOf
<1> HIDE DEF len
<1>2. /\ len \in Nat
      /\ sent \in [Indices(len) -> Int] /\ dp \in [Indices(len) -> Int]
      /\ NumbersKept(len, sent, dp)
      /\ Ascending(len, dp)
  BY <1>1, SortingSorts DEF SortingOf, OnItsWay
<1> TAKE n \in DOMAIN dp
<1>3. n + 1 \in DOMAIN dp => dp[n] <= dp[n + 1]
  <2>1. SUFFICES ASSUME n + 1 \in Indices(len), n \in Indices(len) PROVE dp[n] <= dp[n + 1]
    BY <1>2
  <2>2. n + 1 \in 1..len - 1 /\ (n + 1) - 1 = n
    BY <2>1, <1>2 DEF Indices
  <2> QED
    BY <2>2, <1>2 DEF Ascending
<1>4. Truncate(dp[n]) = Truncate(Ranked(sent, n))
  BY <1>2, PlaceKept
<1> QED
  BY <1>3, <1>4

(* For any numbers that an int holds but for their fractions, in any       *)
(* order: although exchanges change the numbers they sort, average_1 ends  *)
(* with a sorted array in which every place holds the integer part, at     *)
(* least, of the number that belongs there.                                *)
THEOREM SortingWorks == CallSpec => []SortsWholeParts
BY CallInvariant, SortingHolds, PTL

(* For any number of clients, requests and servers: what a client prints   *)
(* is almost the median of its own numbers, if an int holds their integer  *)
(* parts, whatever numbers the other clients send.                         *)
THEOREM ClientsPrintTheirMedian == CallSpec => []PrintsOwnMedian
<1>1. CallInv => PrintsOwnMedian
  BY DEF CallInv
<1> QED
  BY <1>1, CallInvariant, PTL

(* For any number of servers one after another: a server that runs is the  *)
(* one the portmapper names.                                               *)
THEOREM ServerIsFound == CallSpec => []FoundWhenUp
<1>1. CallInv => FoundWhenUp
  BY DEF CallInv, Registered
<1> QED
  BY <1>1, CallInvariant, PTL

-----------------------------------------------------------------------------
(* linked_list.c.                                                          *)

(* InsertAt puts e after the first c members of s.                         *)
LEMMA Inserted ==
  ASSUME NEW S, NEW s \in Seq(S), NEW e \in S, NEW c \in 0..Len(s)
  PROVE  Sorted!InsertAt(s, c + 1, e) =
           [m \in 1..Len(s) + 1 |-> IF m <= c THEN s[m] ELSE IF m = c + 1 THEN e ELSE s[m - 1]]
<1>1. c \in Nat /\ Len(s) \in Nat
  OBVIOUS
<1> DEFINE a == SubSeq(s, 1, (c + 1) - 1)
           b == SubSeq(s, c + 1, Len(s))
           q == a \o <<e>>
           f == [m \in 1..Len(s) + 1 |->
                   IF m <= c THEN s[m] ELSE IF m = c + 1 THEN e ELSE s[m - 1]]
<1>2. a \in Seq(S) /\ Len(a) = c /\ \A m \in 1..c : a[m] = s[m]
  OBVIOUS
<1>3. b \in Seq(S) /\ Len(b) = Len(s) - c /\ \A m \in 1..Len(s) - c : b[m] = s[m + c]
  OBVIOUS
<1> HIDE DEF a, b
<1>4. /\ q \in Seq(S) /\ Len(q) = c + 1
      /\ \A m \in 1..c + 1 : q[m] = IF m <= c THEN s[m] ELSE e
  BY <1>1, <1>2
<1> HIDE DEF q
<1>5. /\ q \o b \in Seq(S) /\ Len(q \o b) = Len(s) + 1
      /\ \A m \in 1..Len(s) + 1 : (q \o b)[m] = IF m <= c + 1 THEN q[m] ELSE b[m - (c + 1)]
  <2>1. /\ q \o b \in Seq(S) /\ Len(q \o b) = Len(q) + Len(b)
        /\ \A m \in 1..Len(q) + Len(b) :
             (q \o b)[m] = IF m <= Len(q) THEN q[m] ELSE b[m - Len(q)]
    BY <1>3, <1>4, ConcatProperties
  <2>2. Len(q) + Len(b) = Len(s) + 1
    BY <1>1, <1>3, <1>4
  <2> QED
    BY <2>1, <2>2, <1>4
<1>6. ASSUME NEW m \in 1..Len(s) + 1
      PROVE  (q \o b)[m] = f[m]
  <2>1. CASE m <= c + 1
    BY <2>1, <1>1, <1>4, <1>5
  <2>2. CASE m > c + 1
    <3>1. m - (c + 1) \in 1..Len(s) - c /\ (m - (c + 1)) + c = m - 1
      BY <2>2, <1>1
    <3>2. b[m - (c + 1)] = s[m - 1]
      BY <3>1, <1>3
    <3> QED
      BY <3>2, <2>2, <1>1, <1>5
  <2>3. m <= c + 1 \/ m > c + 1
    BY <1>1
  <2> HIDE DEF f
  <2> QED BY <2>1, <2>2, <2>3
<1>7. q \o b = f
  <2>1. DOMAIN f = 1..Len(s) + 1 /\ f = [m \in 1..Len(s) + 1 |-> f[m]]
    OBVIOUS
  <2> HIDE DEF f
  <2>2. PICK r : r = q \o b
    OBVIOUS
  <2>3. r \in Seq(S) /\ DOMAIN f = 1..Len(r) /\ f = [m \in 1..Len(r) |-> f[m]]
          /\ \A m \in 1..Len(r) : r[m] = f[m]
    BY <2>1, <2>2, <1>5, <1>6
  <2>4. r \in [1..Len(r) -> S]
    BY <2>3, LenProperties
  <2>5. r = f
    BY <2>3, <2>4
  <2> QED
    BY <2>2, <2>5
<1> QED
  BY <1>7 DEF Sorted!InsertAt, q, a, b

(* RemoveFirst takes out the member at n, if that is the first e.          *)
LEMMA Removed ==
  ASSUME NEW S, NEW s \in Seq(S), NEW e, NEW n \in 1..Len(s), s[n] = e, \A m \in 1..n - 1 : s[m] # e
  PROVE  Sorted!RemoveFirst(s, e) =
           [m \in 1..Len(s) - 1 |-> IF m < n THEN s[m] ELSE s[m + 1]]
<1>1. Sorted!SelectInSeq(s, LAMBDA v : v = e) = n
  <2> DEFINE I == {m \in 1..Len(s) : s[m] = e}
  <2>1. n \in I /\ \A m \in I : n <= m
    OBVIOUS
  <2>2. Sorted!Min(I) = n
    <3> HIDE DEF I
    <3>1. \A m \in I : n <= m
      BY <2>1
    <3>3. I \subseteq Int
      BY DEF I
    <3>2. \A x \in I : (\A y \in I : x <= y) => x = n
      BY <2>1, <3>3
    <3> QED
      BY <2>1, <3>2 DEF Sorted!Min
  <2> QED
    BY <2>1, <2>2 DEF Sorted!SelectInSeq
<1>2. Sorted!RemoveFirst(s, e) = Sorted!RemoveAt(s, n)
  BY <1>1 DEF Sorted!RemoveFirst
<1> DEFINE a == SubSeq(s, 1, n - 1)
           b == SubSeq(s, n + 1, Len(s))
<1>3. a \in Seq(S) /\ Len(a) = n - 1 /\ \A m \in 1..n - 1 : a[m] = s[m]
  OBVIOUS
<1>4. b \in Seq(S) /\ Len(b) = Len(s) - n /\ \A m \in 1..Len(s) - n : b[m] = s[m + n]
  OBVIOUS
<1> HIDE DEF a, b
<1>5. /\ a \o b \in Seq(S) /\ Len(a \o b) = Len(s) - 1
      /\ \A m \in 1..Len(s) - 1 : (a \o b)[m] = IF m <= n - 1 THEN a[m] ELSE b[m - (n - 1)]
  <2>1. Len(s) \in Nat /\ (n - 1) + (Len(s) - n) = Len(s) - 1
    OBVIOUS
  <2>2. /\ a \o b \in Seq(S) /\ Len(a \o b) = Len(a) + Len(b)
        /\ \A m \in 1..Len(a) + Len(b) : (a \o b)[m] = IF m <= Len(a) THEN a[m] ELSE b[m - Len(a)]
    BY <1>3, <1>4, ConcatProperties
  <2> QED
    BY <2>1, <2>2, <1>3, <1>4
<1> DEFINE f == [m \in 1..Len(s) - 1 |-> IF m < n THEN s[m] ELSE s[m + 1]]
<1>6. ASSUME NEW m \in 1..Len(s) - 1
      PROVE  (a \o b)[m] = f[m]
  <2>1. CASE m < n
    BY <2>1, <1>3, <1>5
  <2>2. CASE m >= n
    <3>1. m - (n - 1) \in 1..Len(s) - n /\ (m - (n - 1)) + n = m + 1
      BY <2>2
    <3>2. b[m - (n - 1)] = s[m + 1]
      BY <3>1, <1>4
    <3> QED
      BY <3>2, <2>2, <1>5
  <2>3. m < n \/ m >= n
    OBVIOUS
  <2> HIDE DEF f
  <2> QED BY <2>1, <2>2, <2>3
<1>7. a \o b = f
  <2>1. DOMAIN f = 1..Len(s) - 1 /\ f = [m \in 1..Len(s) - 1 |-> f[m]]
    OBVIOUS
  <2> HIDE DEF f
  <2>2. PICK r : r = a \o b
    OBVIOUS
  <2>3. r \in Seq(S) /\ DOMAIN f = 1..Len(r) /\ f = [m \in 1..Len(r) |-> f[m]]
          /\ \A m \in 1..Len(r) : r[m] = f[m]
    BY <2>1, <2>2, <1>5, <1>6
  <2>4. r \in [1..Len(r) -> S]
    BY <2>3, LenProperties
  <2>5. r = f
    BY <2>3, <2>4
  <2> QED
    BY <2>2, <2>5
<1> QED
  BY <1>2, <1>7 DEF Sorted!RemoveAt, a, b

(* How many nodes there can be.                                            *)
Nodes == Cardinality(Addresses)

(* From h, the pointers x lead through the k nodes p[0], ..., p[k - 1] and *)
(* end; these are all different, they are the nodes in al, and the numbers *)
(* d are in order along them.                                              *)
PathOf(h, d, x, al, k, p) ==
  /\ k \in Nat
  /\ p \in [Indices(k) -> Addresses]
  /\ \A m, n \in Indices(k) : p[m] = p[n] => m = n
  /\ {p[n] : n \in Indices(k)} = al
  /\ h = IF k = 0 THEN NULL ELSE p[0]
  /\ \A n \in Indices(k) : x[p[n]] = IF n = k - 1 THEN NULL ELSE p[n + 1]
  /\ \A n \in 1..k - 1 : d[p[n - 1]] <= d[p[n]]

Path(k, p) == PathOf(head, data, next, allocated, k, p)

(* What Nth is along such a path.                                          *)
PathFrom(k, p) == [n \in 0..Nodes |-> IF n < k THEN p[n] ELSE NULL]

(* A path has no more nodes than there are.                                *)
LEMMA PathFits ==
  ASSUME NEW k \in Nat, NEW p \in [Indices(k) -> Addresses],
         \A m, n \in Indices(k) : p[m] = p[n] => m = n
  PROVE  /\ Nodes \in Nat /\ k <= Nodes
         /\ Cardinality({p[n] : n \in Indices(k)}) = k
<1>1. IsFiniteSet(Addresses)
  BY LinkedListAssumption DEF LinkedListAssumption
<1>2. Nodes \in Nat
  BY <1>1, FS_CardinalityType DEF Nodes
<1> DEFINE R == {p[n] : n \in Indices(k)}
<1>3. p \in [Indices(k) -> R] /\ R = {p[n] : n \in Indices(k)}
  OBVIOUS
<1>4. IsFiniteSet(Indices(k)) /\ Cardinality(Indices(k)) = k
  BY IndicesFinite
<1>5. IsFiniteSet(R) /\ Cardinality(R) = k
  <2> HIDE DEF R
  <2>1. p \in Bijection(Indices(k), R)
    BY <1>3 DEF Bijection, Injection, Surjection, IsInjective
  <2> QED
    BY <2>1, <1>4, FS_Bijection DEF ExistsBijection
<1>6. R \subseteq Addresses
  OBVIOUS
<1>7. Cardinality(R) <= Nodes
  BY <1>1, <1>6, FS_Subset DEF Nodes
<1> QED
  BY <1>2, <1>5, <1>7

(* Nth follows the path, and is NULL past its end. That a recursive        *)
(* function has a value, and only one, is proved from a least place at     *)
(* which another would differ.                                             *)
LEMMA NthOfPath ==
  ASSUME NEW k, NEW p, Path(k, p)
  PROVE  Nth = PathFrom(k, p)
<1> DEFINE K == Cardinality(Addresses)
           Walks(g) == g = [n \in 0..K |-> IF n = 0 THEN head
                                           ELSE IF g[n - 1] = NULL THEN NULL
                                           ELSE next[g[n - 1]]]
           g0 == PathFrom(k, p)
<1>1. K = Nodes /\ K \in Nat /\ k \in Nat /\ k <= K /\ NULL \notin Addresses
  <2>1. K = Nodes /\ NULL \notin Addresses
    BY LinkedListAssumption DEF LinkedListAssumption, Nodes
  <2>2. Nodes \in Nat /\ k \in Nat /\ k <= Nodes
    BY PathFits DEF Path, PathOf
  <2> QED
    BY <2>1, <2>2
<1>2. Walks(g0)
  <2> HIDE DEF K
  <2> SUFFICES ASSUME NEW n \in 0..K
               PROVE  g0[n] = IF n = 0 THEN head
                              ELSE IF g0[n - 1] = NULL THEN NULL ELSE next[g0[n - 1]]
    BY <1>1 DEF PathFrom
  <2>1. \A m \in 0..K : g0[m] = IF m < k THEN p[m] ELSE NULL
    BY <1>1 DEF PathFrom
  <2>2. \A m \in Indices(k) : p[m] # NULL /\ p[m] \in Addresses
    BY <1>1 DEF Path, PathOf
  <2> HIDE DEF g0
  <2>3. CASE n = 0
    BY <2>1, <2>3, <1>1 DEF Path, PathOf
  <2>4. CASE n > 0 /\ n - 1 < k
    <3>1. n - 1 \in 0..K /\ n - 1 \in Indices(k) /\ g0[n - 1] = p[n - 1]
      BY <2>1, <2>4, <1>1 DEF Indices
    <3>2. next[p[n - 1]] = IF n - 1 = k - 1 THEN NULL ELSE p[(n - 1) + 1]
      BY <3>1 DEF Path, PathOf
    <3> QED
      BY <3>1, <3>2, <2>1, <2>2, <2>4, <1>1
  <2>5. CASE n > 0 /\ n - 1 >= k
    BY <2>1, <2>5, <1>1
  <2> QED
    BY <2>3, <2>4, <2>5, <1>1
<1>3. Nth = CHOOSE g : Walks(g)
  BY DEF Nth
<1>4. Walks(Nth)
  <2> HIDE DEF Walks, g0
  <2> QED
    BY <1>2, <1>3
<1>5. ASSUME NEW g, Walks(g)
      PROVE  g = g0
  <2> HIDE DEF K
  <2> DEFINE S == {n \in 0..K : g[n] # g0[n]}
  <2>1. SUFFICES S = {}
    <3>1. g = [n \in 0..K |-> g[n]]
      BY <1>5
    <3>2. g0 = [n \in 0..K |-> g0[n]]
      BY <1>1 DEF PathFrom
    <3> HIDE DEF g0
    <3> QED
      BY <3>1, <3>2
  <2>2. SUFFICES ASSUME S # {} PROVE FALSE
    OBVIOUS
  <2> DEFINE below == [n \in S |-> -n]
  <2>3. PICK n \in S : \A m \in S : below[m] <= below[n]
    <3>1. IsFiniteSet(S) /\ \A m \in S : below[m] \in Int
      <4>1. 0..K = Indices(K + 1) /\ K + 1 \in Nat
        BY <1>1 DEF Indices
      <4>2. IsFiniteSet(0..K)
        BY <4>1, IndicesFinite
      <4>3. S \subseteq 0..K
        OBVIOUS
      <4> HIDE DEF S
      <4>4. IsFiniteSet(S)
        BY <4>2, <4>3, FS_Subset
      <4>5. \A m \in S : below[m] \in Int
        BY <4>3, <1>1
      <4> QED
        BY <4>4, <4>5
    <3> HIDE DEF S, below
    <3> QED
      BY <2>2, <3>1, Greatest
  <2>4. n \in 0..K /\ g[n] # g0[n]
    OBVIOUS
  <2>5. n # 0 /\ g[n - 1] # g0[n - 1]
    BY <2>4, <1>5, <1>2, <1>1
  <2>6. n - 1 \in S
    BY <2>4, <2>5, <1>1
  <2> QED
    BY <2>3, <2>6, <1>1
<1> QED
  BY <1>4, <1>5

(* In a sorted array, the c numbers that are smaller than num are the      *)
(* first c.                                                                *)
LEMMA Smaller ==
  ASSUME NEW len \in Nat, NEW g \in [Indices(len) -> Int], Ascending(len, g), NEW num \in Int,
         NEW c, c = Cardinality({n \in Indices(len) : g[n] < num})
  PROVE  /\ c \in 0..len
         /\ \A n \in 0..c - 1 : n \in Indices(len) /\ g[n] < num
         /\ \A n \in c..len - 1 : n \in Indices(len) /\ num <= g[n]
<1> DEFINE S == {n \in Indices(len) : g[n] < num}
<1>1. CASE S = {}
  <2>1. c = 0
    BY <1>1, FS_EmptySet
  <2>2. \A n \in Indices(len) : g[n] \in Int /\ ~(g[n] < num)
    BY <1>1
  <2>3. \A n \in 0..len - 1 : n \in Indices(len)
    BY DEF Indices
  <2>4. \A n \in 0..len - 1 : num <= g[n]
    BY <2>2, <2>3
  <2>5. 0 \in 0..len /\ \A n \in 0..0 - 1 : FALSE
    OBVIOUS
  <2> QED
    BY <2>1, <2>3, <2>4, <2>5, Zenon
<1>2. CASE S # {}
  <2> DEFINE same == [n \in S |-> n]
  <2>1. PICK m \in S : \A n \in S : same[n] <= same[m]
    <3>1. S \subseteq Indices(len) /\ \A n \in S : same[n] \in Int
      BY DEF Indices
    <3>2. IsFiniteSet(Indices(len))
      BY IndicesFinite
    <3> HIDE DEF S, same
    <3>3. IsFiniteSet(S)
      BY <3>1, <3>2, FS_Subset
    <3> QED
      BY <1>2, <3>1, <3>3, Greatest
  <2>2. S = Indices(m + 1)
    <3>1. ASSUME NEW n \in Indices(m + 1) PROVE n \in S
      <4>1. n \in Indices(len) /\ m \in Indices(len) /\ n <= m
        BY DEF Indices
      <4>2. g[n] <= g[m] /\ g[m] < num
        BY <4>1, SortedThroughout
      <4> QED
        BY <4>1, <4>2
    <3>2. ASSUME NEW n \in S PROVE n \in Indices(m + 1)
      BY <2>1 DEF Indices
    <3> HIDE DEF S
    <3> QED
      BY <3>1, <3>2
  <2>3. c = m + 1
    <3>1. m + 1 \in Nat
      BY DEF Indices
    <3> QED
      BY <3>1, <2>2, IndicesFinite
  <2>4. \A n \in Indices(len) : g[n] \in Int /\ (g[n] < num <=> n \in Indices(m + 1))
    BY <2>2
  <2>5. m \in 0..len - 1 /\ \A n \in 0..len - 1 : n \in Indices(len)
    BY DEF Indices
  <2>6. \A n \in 0..len - 1 : n \in Indices(m + 1) <=> n <= m
    BY <2>5 DEF Indices
  <2> HIDE DEF S
  <2>7. \A n \in 0..len - 1 : g[n] \in Int /\ (g[n] < num <=> n <= m)
    BY <2>4, <2>5, <2>6
  <2>8. c \in 0..len /\ c - 1 = m
    BY <2>3, <2>5
  <2>9. \A n \in 0..c - 1 : n \in 0..len - 1 /\ n <= m
    BY <2>8
  <2>10. \A n \in c..len - 1 : n \in 0..len - 1 /\ ~(n <= m)
    BY <2>3, <2>5
  <2> QED
    BY <2>5, <2>7, <2>8, <2>9, <2>10
<1> QED
  BY <1>1, <1>2

(* temp, which holds num, becomes the node after the first c, and q the    *)
(* path.                                                                   *)
PutIn(h, d, x, al, k, p, num, temp, c, h2, d2, x2, q) ==
  /\ temp \in Addresses \ al /\ c \in 0..k
  /\ (\A n \in 0..c - 1 : d[p[n]] <= num) /\ (\A n \in c..k - 1 : num <= d[p[n]])
  /\ h2 = IF c = 0 THEN temp ELSE h
  /\ \A a \in Addresses : d2[a] = IF a = temp THEN num ELSE d[a]
  /\ \A a \in Addresses :
       x2[a] = IF a = temp THEN IF c < k THEN p[c] ELSE NULL
               ELSE IF c > 0 /\ a = p[c - 1] THEN temp
               ELSE x[a]
  /\ q = [n \in Indices(k + 1) |->
            IF n < c THEN p[n] ELSE IF n = c THEN temp ELSE p[n - 1]]

(* Putting a node in between smaller numbers and others gives a path.      *)
LEMMA PathInsert ==
  ASSUME NEW h, NEW d, NEW x, NEW al, NEW k, NEW p, PathOf(h, d, x, al, k, p),
         NEW num, NEW temp, NEW c, NEW h2, NEW d2, NEW x2, NEW q,
         PutIn(h, d, x, al, k, p, num, temp, c, h2, d2, x2, q)
  PROVE  PathOf(h2, d2, x2, al \cup {temp}, k + 1, q)
<1> USE DEF PutIn
<1>1. /\ k \in Nat /\ c \in Nat /\ c <= k
      /\ \A n \in Indices(k) : p[n] \in al /\ p[n] \in Addresses /\ p[n] # temp
  BY DEF PathOf
<1>2. /\ \A n \in Indices(c) : q[n] = p[n] /\ n \in Indices(k)
      /\ q[c] = temp /\ c \in Indices(k + 1)
      /\ \A n \in c + 1..k : q[n] = p[n - 1] /\ n - 1 \in Indices(k)
      /\ \A n \in Indices(k + 1) : n \in Indices(c) \/ n = c \/ n \in c + 1..k
  BY <1>1 DEF Indices
<1>3. q \in [Indices(k + 1) -> Addresses]
  <2>1. \A n \in Indices(k + 1) : q[n] \in Addresses
    BY <1>1, <1>2
  <2> QED
    BY <2>1
<1>4. ASSUME NEW m \in Indices(k + 1), NEW n \in Indices(k + 1), q[m] = q[n]
      PROVE  m = n
  <2>1. \A r, o \in Indices(k) : p[r] = p[o] => r = o
    BY DEF PathOf
  <2>2. m \in Int /\ n \in Int
    BY DEF Indices
  <2> QED
    BY <1>1, <1>2, <1>4, <2>1, <2>2 DEF Indices
<1>5. {q[n] : n \in Indices(k + 1)} = al \cup {temp}
  <2>1. ASSUME NEW n \in Indices(k + 1) PROVE q[n] \in al \cup {temp}
    BY <1>1, <1>2
  <2>2. ASSUME NEW a \in al PROVE \E n \in Indices(k + 1) : q[n] = a
    <3>1. PICK m \in Indices(k) : p[m] = a
      BY DEF PathOf
    <3>2. CASE m < c
      BY <3>1, <3>2, <1>1, <1>2 DEF Indices
    <3>3. CASE m >= c
      <4>1. m + 1 \in c + 1..k /\ m + 1 \in Indices(k + 1) /\ (m + 1) - 1 = m
        BY <3>3, <1>1 DEF Indices
      <4> QED
        BY <4>1, <3>1, <1>2
    <3> QED
      BY <3>2, <3>3, <1>1 DEF Indices
  <2> QED
    BY <2>1, <2>2, <1>2
<1>6. h2 = IF k + 1 = 0 THEN NULL ELSE q[0]
  BY <1>1, <1>2 DEF Indices, PathOf
<1>7. ASSUME NEW n \in Indices(k + 1)
      PROVE  x2[q[n]] = IF n = (k + 1) - 1 THEN NULL ELSE q[n + 1]
  <2>1. n \in Int /\ 0 <= n /\ n <= k
    BY <1>1 DEF Indices
  <2>2. CASE n = c
    <3>1. x2[q[n]] = IF c < k THEN p[c] ELSE NULL
      BY <2>2, <1>2
    <3>2. c < k => n + 1 \in c + 1..k /\ (n + 1) - 1 = c
      BY <2>2, <1>1
    <3> QED
      BY <3>1, <3>2, <2>2, <1>1, <1>2
  <2>3. CASE n < c
    <3>1. n \in Indices(c) /\ n \in Indices(k) /\ q[n] = p[n] /\ p[n] # temp /\ p[n] \in Addresses
      BY <2>1, <2>3, <1>1, <1>2 DEF Indices
    <3>2. CASE n = c - 1
      <4>1. c > 0 /\ n + 1 = c /\ n # k
        BY <3>2, <2>1, <1>1
      <4>2. x2[q[n]] = temp
        BY <3>1, <3>2, <4>1
      <4> QED
        BY <4>1, <4>2, <1>1, <1>2
    <3>3. CASE n < c - 1
      <4>1. p[n] # p[c - 1]
        <5>1. c - 1 \in Indices(k) /\ n # c - 1
          BY <3>3, <1>1, <2>1 DEF Indices
        <5> QED
          BY <5>1, <3>1 DEF PathOf
      <4>2. x2[p[n]] = x[p[n]]
        BY <3>1, <4>1
      <4>3. x[p[n]] = p[n + 1] /\ n # k
        BY <3>1, <3>3, <1>1, <2>1 DEF PathOf
      <4>4. q[n + 1] = p[n + 1]
        BY <3>3, <2>1, <1>1, <1>2 DEF Indices
      <4> QED
        BY <3>1, <4>2, <4>3, <4>4, <1>1, <2>1
    <3> QED
      BY <3>2, <3>3, <2>1, <2>3, <1>1
  <2>4. CASE n > c
    <3> DEFINE m == n - 1
    <3>1. /\ m \in Indices(k) /\ q[n] = p[m] /\ p[m] # temp /\ p[m] \in Addresses
          /\ c <= m /\ n \in c + 1..k
      BY <2>1, <2>4, <1>1, <1>2 DEF Indices
    <3>2. c > 0 => p[m] # p[c - 1]
      <4>1. c > 0 => c - 1 \in Indices(k) /\ m # c - 1
        BY <3>1, <1>1 DEF Indices
      <4> QED
        BY <4>1, <3>1 DEF PathOf
    <3>3. x2[p[m]] = x[p[m]]
      BY <3>1, <3>2
    <3>4. x[p[m]] = IF m = k - 1 THEN NULL ELSE p[m + 1]
      BY <3>1 DEF PathOf
    <3>5. n < k => q[n + 1] = p[m + 1]
      <4>1. n < k => n + 1 \in c + 1..k /\ (n + 1) - 1 = m + 1
        BY <2>1, <2>4, <1>1
      <4> QED
        BY <4>1, <1>2
    <3> QED
      BY <3>1, <3>3, <3>4, <3>5, <2>1, <1>1
  <2> QED
    BY <2>1, <2>2, <2>3, <2>4, <1>1
<1>8. ASSUME NEW n \in 1..(k + 1) - 1
      PROVE  d2[q[n - 1]] <= d2[q[n]]
  <2>1. \A m \in Indices(k) : d2[p[m]] = d[p[m]]
    BY <1>1
  <2>2. d2[temp] = num
    OBVIOUS
  <2>3. \A m \in 1..k - 1 : d[p[m - 1]] <= d[p[m]]
    BY DEF PathOf
  <2>4. CASE n < c
    <3>1. /\ n \in Indices(k) /\ n - 1 \in Indices(k) /\ n \in 1..k - 1
          /\ q[n] = p[n] /\ q[n - 1] = p[n - 1]
      BY <2>4, <1>1, <1>2 DEF Indices
    <3> QED
      BY <3>1, <2>1, <2>3
  <2>5. CASE n = c
    <3>1. n - 1 \in 0..c - 1 /\ n - 1 \in Indices(k) /\ q[n - 1] = p[n - 1] /\ q[n] = temp
      BY <2>5, <1>1, <1>2 DEF Indices
    <3> QED
      BY <3>1, <2>1, <2>2
  <2>6. CASE n = c + 1
    <3>1. c \in c..k - 1 /\ c \in Indices(k) /\ q[n - 1] = temp /\ q[n] = p[c]
      BY <2>6, <1>1, <1>2 DEF Indices
    <3> QED
      BY <3>1, <2>1, <2>2
  <2>7. CASE n > c + 1
    <3>1. /\ n \in c + 1..k /\ n - 1 \in c + 1..k
          /\ n - 1 \in Indices(k) /\ (n - 1) - 1 \in Indices(k) /\ n - 1 \in 1..k - 1
      BY <2>7, <1>1 DEF Indices
    <3>2. q[n] = p[n - 1] /\ q[n - 1] = p[(n - 1) - 1]
      BY <3>1, <1>2
    <3> QED
      BY <3>1, <3>2, <2>1, <2>3
  <2> QED
    BY <2>4, <2>5, <2>6, <2>7, <1>1
<1> QED
  BY <1>1, <1>3, <1>4, <1>5, <1>6, <1>7, <1>8 DEF PathOf

(* The node at n is taken out, and q is the path without it.               *)
TakenOut(h, d, x, k, p, n, h2, x2, q) ==
  /\ n \in Indices(k)
  /\ \A m \in Indices(k) : d[p[m]] \in Int
  /\ h2 = IF n = 0 THEN x[p[0]] ELSE h
  /\ \A a \in Addresses : x2[a] = IF n > 0 /\ a = p[n - 1] THEN x[p[n]] ELSE x[a]
  /\ q = [m \in Indices(k - 1) |-> IF m < n THEN p[m] ELSE p[m + 1]]

(* So does taking a node out.                                              *)
LEMMA PathDelete ==
  ASSUME NEW h, NEW d, NEW x, NEW al, NEW k, NEW p, PathOf(h, d, x, al, k, p),
         NEW n, NEW h2, NEW x2, NEW q, TakenOut(h, d, x, k, p, n, h2, x2, q)
  PROVE  PathOf(h2, d, x2, al \ {p[n]}, k - 1, q)
<1> USE DEF TakenOut
<1>1. /\ k \in Nat /\ k - 1 \in Nat /\ n \in Nat /\ n <= k - 1
      /\ \A m \in Indices(k) : p[m] \in al /\ p[m] \in Addresses
      /\ \A m, o \in Indices(k) : p[m] = p[o] => m = o
  <2>1. k \in Nat
    BY DEF PathOf
  <2>2. k - 1 \in Nat /\ n \in Nat /\ n <= k - 1
    BY <2>1 DEF Indices
  <2> QED
    BY <2>1, <2>2 DEF PathOf
<1>2. \A m \in Indices(k - 1) :
        /\ m \in Indices(k) /\ m + 1 \in Indices(k)
        /\ m < n => q[m] = p[m]
        /\ m >= n => q[m] = p[m + 1]
  BY <1>1 DEF Indices
<1>3. q \in [Indices(k - 1) -> Addresses]
  <2>1. \A m \in Indices(k - 1) : m < n \/ m >= n
    BY <1>1 DEF Indices
  <2>2. \A m \in Indices(k - 1) : q[m] \in Addresses
    BY <1>1, <1>2, <2>1
  <2> QED
    BY <2>2
<1>4. ASSUME NEW m \in Indices(k - 1), NEW o \in Indices(k - 1), q[m] = q[o]
      PROVE  m = o
  <2>1. m \in Int /\ o \in Int
    BY DEF Indices
  <2> QED
    BY <2>1, <1>1, <1>2, <1>4
<1>5. {q[m] : m \in Indices(k - 1)} = al \ {p[n]}
  <2>1. ASSUME NEW m \in Indices(k - 1) PROVE q[m] \in al \ {p[n]}
    <3>1. m \in Int
      BY DEF Indices
    <3> QED
      BY <3>1, <1>1, <1>2
  <2>2. ASSUME NEW a \in al, a # p[n] PROVE \E m \in Indices(k - 1) : q[m] = a
    <3>1. PICK m \in Indices(k) : p[m] = a
      BY DEF PathOf
    <3>2. m \in Int /\ m # n
      BY <3>1, <2>2 DEF Indices
    <3>3. CASE m < n
      <4>1. m \in Indices(k - 1)
        BY <3>3, <1>1 DEF Indices
      <4> QED
        BY <4>1, <3>1, <3>3, <1>2
    <3>4. CASE m > n
      <4>1. m - 1 \in Indices(k - 1) /\ m - 1 >= n /\ (m - 1) + 1 = m
        BY <3>4, <1>1 DEF Indices
      <4> QED
        BY <4>1, <3>1, <1>2
    <3> QED
      BY <3>2, <3>3, <3>4, <1>1
  <2> QED
    BY <2>1, <2>2
<1>6. h2 = IF k - 1 = 0 THEN NULL ELSE q[0]
  <2>1. 0 \in Indices(k) /\ (k - 1 # 0 => 0 \in Indices(k - 1))
    BY <1>1 DEF Indices
  <2>2. x[p[0]] = IF 0 = k - 1 THEN NULL ELSE p[0 + 1]
    BY <2>1 DEF PathOf
  <2>3. h = p[0]
    BY <2>1, <1>1 DEF PathOf
  <2> QED
    BY <2>1, <2>2, <2>3, <1>1, <1>2
<1>7. ASSUME NEW m \in Indices(k - 1)
      PROVE  x2[q[m]] = IF m = (k - 1) - 1 THEN NULL ELSE q[m + 1]
  <2>1. m \in Int /\ 0 <= m /\ m <= (k - 1) - 1
    BY <1>1 DEF Indices
  <2>2. m # (k - 1) - 1 => m + 1 \in Indices(k - 1)
    BY <2>1, <1>1 DEF Indices
  <2>3. \A o \in Indices(k) : x[p[o]] = IF o = k - 1 THEN NULL ELSE p[o + 1]
    BY DEF PathOf
  <2>4. CASE m >= n
    <3>1. q[m] = p[m + 1] /\ m + 1 \in Indices(k)
      BY <2>4, <1>2
    <3>2. n > 0 => p[m + 1] # p[n - 1]
      <4>1. n > 0 => n - 1 \in Indices(k) /\ n - 1 # m + 1
        BY <1>1, <2>1, <2>4 DEF Indices
      <4> QED
        BY <4>1, <3>1, <1>1
    <3>3. x2[q[m]] = x[p[m + 1]]
      BY <3>1, <3>2, <1>1
    <3>4. x[p[m + 1]] = IF m + 1 = k - 1 THEN NULL ELSE p[(m + 1) + 1]
      BY <3>1, <2>3
    <3>5. m # (k - 1) - 1 => q[m + 1] = p[(m + 1) + 1]
      BY <2>1, <2>2, <2>4, <1>1, <1>2
    <3> QED
      BY <3>3, <3>4, <3>5, <2>1, <1>1
  <2>5. CASE m = n - 1
    <3>1. q[m] = p[n - 1] /\ p[n - 1] \in Addresses /\ n > 0
      BY <2>5, <2>1, <1>1, <1>2
    <3>2. x2[q[m]] = IF n = k - 1 THEN NULL ELSE p[n + 1]
      BY <3>1, <2>3
    <3>3. m # (k - 1) - 1 => q[m + 1] = p[(m + 1) + 1]
      BY <2>1, <2>2, <2>5, <1>1, <1>2
    <3> QED
      BY <3>2, <3>3, <2>5, <2>1, <1>1
  <2>6. CASE m < n - 1
    <3>1. q[m] = p[m] /\ m \in Indices(k) /\ p[m] \in Addresses
      BY <2>1, <2>6, <1>1, <1>2
    <3>2. p[m] # p[n - 1]
      <4>1. n - 1 \in Indices(k) /\ n - 1 # m
        BY <1>1, <2>1, <2>6 DEF Indices
      <4> QED
        BY <4>1, <3>1, <1>1
    <3>3. x2[q[m]] = p[m + 1]
      BY <3>1, <3>2, <2>3, <2>6, <2>1, <1>1
    <3>4. m # (k - 1) - 1 /\ q[m + 1] = p[m + 1]
      BY <2>1, <2>2, <2>6, <1>1, <1>2
    <3> QED
      BY <3>3, <3>4
  <2> QED
    BY <2>1, <2>4, <2>5, <2>6, <1>1
<1>8. ASSUME NEW m \in 1..(k - 1) - 1
      PROVE  d[q[m - 1]] <= d[q[m]]
  <2>1. \A o \in 1..k - 1 : d[p[o - 1]] <= d[p[o]]
    BY DEF PathOf
  <2>2. m \in Indices(k - 1) /\ m - 1 \in Indices(k - 1)
    BY <1>1 DEF Indices
  <2>3. CASE m < n
    BY <2>1, <2>2, <2>3, <1>1, <1>2
  <2>4. CASE m > n
    <3>1. q[m] = p[m + 1] /\ q[m - 1] = p[(m - 1) + 1]
      BY <2>2, <2>4, <1>1, <1>2
    <3>2. m + 1 \in 1..k - 1 /\ (m + 1) - 1 = m /\ (m - 1) + 1 = m
      BY <1>1
    <3> QED
      BY <3>1, <3>2, <2>1
  <2>5. CASE m = n
    <3>1. q[m] = p[m + 1] /\ q[m - 1] = p[m - 1]
      BY <2>2, <2>5, <1>1, <1>2
    <3>2. m + 1 \in 1..k - 1 /\ m \in 1..k - 1 /\ (m + 1) - 1 = m
      BY <1>1
    <3>3. d[p[m - 1]] <= d[p[m]] /\ d[p[m]] <= d[p[m + 1]]
      BY <3>2, <2>1
    <3>4. d[p[m - 1]] \in Int /\ d[p[m]] \in Int /\ d[p[m + 1]] \in Int
      BY <2>2, <1>2
    <3> QED
      BY <3>1, <3>3, <3>4
  <2> QED
    BY <2>3, <2>4, <2>5, <1>1
<1> QED
  BY <1>1, <1>3, <1>4, <1>5, <1>6, <1>7, <1>8 DEF PathOf

(* The inductive invariant: there is a path, through what is allocated, of *)
(* numbers that were typed in.                                             *)
ListInv ==
  /\ \E D : data \in [Addresses -> D]
  /\ next \in [Addresses -> Addresses \cup {NULL}]
  /\ \A a \in allocated : data[a] \in Numbers
  /\ \E k, p : Path(k, p)

(* What LinkedList's expressions are in terms of a path.                   *)
OnPath(k, p) ==
  /\ Places = Indices(k)
  /\ \A n \in Indices(k) : Nth[n] = p[n]
  /\ count = k
  /\ Contents = [n \in 1..k |-> data[p[n - 1]]]

(* On a path, the walks of linked_list.c see its nodes in order.           *)
LEMMA PathIsSeen ==
  \A k, p : Path(k, p) => OnPath(k, p)
<1> SUFFICES ASSUME NEW k, NEW p, Path(k, p)
             PROVE  OnPath(k, p)
  OBVIOUS
<1>1. /\ k \in Nat /\ Nodes \in Nat /\ k <= Nodes
      /\ NULL \notin Addresses
      /\ \A n \in Indices(k) : p[n] \in Addresses
  BY PathFits, LinkedListAssumption DEF Path, PathOf, LinkedListAssumption
<1>2. Nth = [n \in 0..Nodes |-> IF n < k THEN p[n] ELSE NULL]
  BY NthOfPath DEF PathFrom
<1>3. \A n \in 0..Nodes : Nth[n] = IF n < k THEN p[n] ELSE NULL
  BY <1>2
<1>4. DOMAIN Nth = 0..Nodes
  BY <1>2
<1>5. \A n \in Indices(k) : n \in 0..Nodes /\ n < k
  BY <1>1 DEF Indices
<1>6. \A n \in 0..Nodes : n \notin Indices(k) => ~(n < k)
  BY <1>1 DEF Indices
<1>7. \A n \in Indices(k) : Nth[n] = p[n]
  BY <1>3, <1>5
<1>8. Places = Indices(k)
  BY <1>1, <1>3, <1>4, <1>5, <1>6, <1>7 DEF Places
<1>9. count = k
  BY <1>1, <1>8, IndicesFinite DEF count
<1>10. Contents = [n \in 1..k |-> data[p[n - 1]]]
  <2>1. \A n \in 1..k : n - 1 \in Indices(k)
    BY <1>1 DEF Indices
  <2>2. Contents = [n \in 1..k |-> data[Nth[n - 1]]]
    BY <1>9 DEF Contents
  <2> QED
    BY <2>1, <2>2, <1>7
<1> QED
  BY <1>7, <1>8, <1>9, <1>10 DEF OnPath

Seen == \A k, p : Path(k, p) => OnPath(k, p)

(* This is so in every state,                                              *)
LEMMA PathsAreSeen ==
  Seen
BY PathIsSeen DEF Seen

(* so it is in the next.                                                   *)
LEMMA PathIsSeenNext ==
  Seen'
BY PathsAreSeen, PTL

(* A path reaches what is allocated.                                       *)
LEMMA ListReaches ==
  ASSUME ListInv
  PROVE  ReachesWhatIsAllocated
<1>1. PICK k, p : Path(k, p)
  BY DEF ListInv
<1>2. OnPath(k, p)
  BY <1>1, PathIsSeen
<1>3. {Nth[n] : n \in Places} = allocated
  BY <1>1, <1>2 DEF OnPath, Path, PathOf
<1>4. count = Cardinality(allocated)
  BY <1>1, <1>2, PathFits DEF OnPath, Path, PathOf
<1> QED
  BY <1>3, <1>4 DEF ReachesWhatIsAllocated

(* The empty list is a path.                                               *)
LEMMA ListStarts ==
  ASSUME ListInit
  PROVE  ListInv /\ Sorted!Init
<1>1. Path(0, <<>>)
  <2>1. Indices(0) = {} /\ 1..0 - 1 = {}
    BY DEF Indices
  <2>2. head = NULL /\ allocated = {}
    BY DEF ListInit
  <2> QED
    BY <2>1, <2>2 DEF Path, PathOf
<1>2. ListInv
  BY <1>1 DEF ListInv, ListInit
<1>3. Contents = <<>>
  BY <1>1, PathIsSeen DEF OnPath
<1> QED
  BY <1>2, <1>3 DEF Sorted!Init

(* The list a path shows to the user.                                      *)
LEMMA ContentsOf ==
  ASSUME ListInv, NEW k, NEW p, Path(k, p)
  PROVE  /\ k \in Nat
         /\ \A n \in Indices(k) : /\ data[p[n]] \in Numbers /\ data[p[n]] \in Int
                                  /\ p[n] \in allocated /\ p[n] \in Addresses
         /\ Contents \in Seq(Numbers) /\ Len(Contents) = k
         /\ \A m \in 1..k : Contents[m] = data[p[m - 1]] /\ m - 1 \in Indices(k)
<1>1. k \in Nat /\ \A n \in Indices(k) : p[n] \in allocated /\ p[n] \in Addresses
  BY DEF Path, PathOf
<1>2. \A n \in Indices(k) : data[p[n]] \in Numbers /\ data[p[n]] \in Int
  BY <1>1, LinkedListAssumption DEF ListInv, LinkedListAssumption
<1>3. Contents = [n \in 1..k |-> data[p[n - 1]]]
  BY PathIsSeen DEF OnPath
<1>4. \A m \in 1..k : m - 1 \in Indices(k)
  BY <1>1 DEF Indices
<1>5. Contents \in [1..k -> Numbers]
  BY <1>2, <1>3, <1>4
<1> QED
  BY <1>1, <1>2, <1>3, <1>4, <1>5

(* insert, by any of its four ways, leaves a path, and inserts num into    *)
(* the list that the user sees.                                            *)
LEMMA InsertKeeps ==
  ASSUME ListInv, NEW num \in Numbers, insert(num)
  PROVE  ListInv' /\ Sorted!Insert(num)
<1>1. PICK k, p : Path(k, p)
  BY DEF ListInv
<1>2. OnPath(k, p)
  BY <1>1, PathIsSeen
<1>3. /\ k \in Nat /\ num \in Int /\ NULL \notin Addresses
      /\ \A n \in Indices(k) : /\ data[p[n]] \in Numbers /\ data[p[n]] \in Int
                               /\ p[n] \in allocated /\ p[n] \in Addresses
      /\ Contents \in Seq(Numbers) /\ Len(Contents) = k
      /\ \A m \in 1..k : Contents[m] = data[p[m - 1]] /\ m - 1 \in Indices(k)
  BY <1>1, ContentsOf, LinkedListAssumption DEF LinkedListAssumption
<1>0. PICK c : c = Cardinality({n \in Indices(k) : data[p[n]] < num})
  OBVIOUS
<1> DEFINE Smalls == {n \in Places : data[Nth[n]] < num}
<1>4. Cardinality(Smalls) = c
  <2>1. Smalls = {n \in Indices(k) : data[p[n]] < num}
    BY <1>2 DEF OnPath
  <2> QED
    BY <2>1, <1>0
<1>5. PICK temp \in Addresses \ allocated :
        /\ allocated' = allocated \cup {temp}
        /\ data' = [data EXCEPT ![temp] = num]
        /\ \/ head = NULL /\ add(temp)
           \/ head # NULL /\ c = 0 /\ add(temp)
           \/ c > 0 /\ c < k /\ addafter(temp, c + 1)
           \/ c > 0 /\ c >= k /\ append(temp)
  <2>1. count = k
    BY <1>2 DEF OnPath
  <2> QED
    BY <2>1, <1>4 DEF insert
<1>6. /\ c \in 0..k
      /\ \A n \in 0..c - 1 : n \in Indices(k) /\ data[p[n]] < num
      /\ \A n \in c..k - 1 : n \in Indices(k) /\ num <= data[p[n]]
  <2> DEFINE g == [n \in Indices(k) |-> data[p[n]]]
  <2>1. g \in [Indices(k) -> Int]
    BY <1>3
  <2>2. Ascending(k, g)
    <3>1. \A q \in 1..k - 1 : data[p[q - 1]] <= data[p[q]]
      BY <1>1 DEF Path, PathOf
    <3>2. \A q \in 1..k - 1 : q \in Indices(k) /\ q - 1 \in Indices(k)
      BY <1>3 DEF Indices
    <3> QED
      BY <3>1, <3>2 DEF Ascending
  <2>3. c = Cardinality({n \in Indices(k) : g[n] < num})
    <3>1. {n \in Indices(k) : data[p[n]] < num} = {n \in Indices(k) : g[n] < num}
      OBVIOUS
    <3> QED
      BY <3>1, <1>0
  <2>4. \A n \in Indices(k) : g[n] = data[p[n]]
    OBVIOUS
  <2> HIDE DEF g
  <2>5. /\ c \in 0..k
        /\ \A n \in 0..c - 1 : n \in Indices(k) /\ g[n] < num
        /\ \A n \in c..k - 1 : n \in Indices(k) /\ num <= g[n]
    <3>1. PICK f, u, e, t : f = g /\ u = k /\ e = num /\ t = c
      OBVIOUS
    <3>2. /\ u \in Nat /\ f \in [Indices(u) -> Int] /\ Ascending(u, f) /\ e \in Int
          /\ t = Cardinality({n \in Indices(u) : f[n] < e})
      BY <3>1, <2>1, <2>2, <2>3, <1>3
    <3>3. /\ t \in 0..u
          /\ \A n \in 0..t - 1 : n \in Indices(u) /\ f[n] < e
          /\ \A n \in t..u - 1 : n \in Indices(u) /\ e <= f[n]
      BY <3>2, Smaller
    <3> QED
      BY <3>1, <3>3
  <2> QED
    BY <2>4, <2>5
<1>11. PICK q : q = [n \in Indices(k + 1) |->
                      IF n < c THEN p[n] ELSE IF n = c THEN temp ELSE p[n - 1]]
  OBVIOUS
<1>7. PathOf(head', data', next', allocated \cup {temp}, k + 1, q)
  <2>1. /\ head = IF k = 0 THEN NULL ELSE p[0]
        /\ k # 0 => p[0] # NULL /\ 0 \in Indices(k)
        /\ \A n \in Indices(k) : next[p[n]] = IF n = k - 1 THEN NULL ELSE p[n + 1]
        /\ \A m, n \in Indices(k) : p[m] = p[n] => m = n
        /\ \A n \in Indices(k) : Nth[n] = p[n] /\ p[n] # temp
        /\ count = k
    <3>1. k # 0 => 0 \in Indices(k)
      BY <1>3 DEF Indices
    <3> QED
      BY <3>1, <1>1, <1>2, <1>3 DEF Path, PathOf, OnPath
  <2>2. head' = IF c = 0 THEN temp ELSE head
    BY <1>3, <1>5, <1>6, <2>1 DEF add, addafter, append
  <2>3. \A a \in Addresses :
          next'[a] = IF a = temp THEN IF c < k THEN p[c] ELSE NULL
                     ELSE IF c > 0 /\ a = p[c - 1] THEN temp
                     ELSE next[a]
    <3>0. DOMAIN next = Addresses /\ next = [a \in Addresses |-> next[a]]
      BY DEF ListInv
    <3>1. CASE c = 0
      <4>1. next' = [next EXCEPT ![temp] = head]
        BY <3>1, <1>5, <1>6, <2>1 DEF add, addafter, append
      <4> QED
        BY <4>1, <3>0, <3>1, <1>3, <2>1
    <3>2. CASE c > 0 /\ c < k
      <4>1. addafter(temp, c + 1)
        BY <3>2, <1>3, <1>5, <1>6, <2>1
      <4>2. (c + 1) - 2 = c - 1 /\ (c + 1) - 1 = c /\ c - 1 \in Indices(k) /\ c \in Indices(k)
        BY <3>2, <1>3, <1>6 DEF Indices
      <4>3. next' = [next EXCEPT ![p[c - 1]] = temp, ![temp] = p[c]]
        BY <4>1, <4>2, <2>1 DEF addafter
      <4> QED
        BY <4>2, <4>3, <3>0, <3>2, <1>3, <2>1
    <3>3. CASE c > 0 /\ c >= k
      <4>1. append(temp) /\ c = k
        BY <3>3, <1>3, <1>5, <1>6, <2>1
      <4>2. k - 1 \in Indices(k)
        BY <3>3, <4>1, <1>3 DEF Indices
      <4>3. next' = [next EXCEPT ![p[k - 1]] = temp, ![temp] = NULL]
        BY <4>1, <4>2, <2>1 DEF append
      <4> QED
        BY <4>1, <4>2, <4>3, <3>0, <3>3, <1>3, <2>1
    <3> QED
      BY <3>1, <3>2, <3>3, <1>3, <1>6
  <2>4. \A a \in Addresses : data'[a] = IF a = temp THEN num ELSE data[a]
    BY <1>5 DEF ListInv
  <2>5. PathOf(head, data, next, allocated, k, p)
    BY <1>1 DEF Path
  <2>6. (\A n \in 0..c - 1 : data[p[n]] <= num) /\ (\A n \in c..k - 1 : num <= data[p[n]])
    BY <1>3, <1>6
  <2>7. PICK h, d, x, al, h2, d2, x2, u, e :
          /\ h = head /\ d = data /\ x = next /\ al = allocated
          /\ h2 = head' /\ d2 = data' /\ x2 = next' /\ u = k /\ e = num
    OBVIOUS
  <2>8. PathOf(h, d, x, al, u, p)
    BY <2>5, <2>7
  <2>9. PutIn(h, d, x, al, u, p, e, temp, c, h2, d2, x2, q)
    BY <2>2, <2>3, <2>4, <2>6, <2>7, <1>5, <1>6, <1>11 DEF PutIn
  <2>10. PathOf(h2, d2, x2, al \cup {temp}, u + 1, q)
    BY <2>8, <2>9, PathInsert
  <2> QED
    BY <2>7, <2>10
<1>8. Path(k + 1, q)'
  <2> QED
    BY <1>5, <1>7 DEF Path
<1>9. ListInv'
  <2>1. \E D : data' \in [Addresses -> D]
    <3>1. PICK D : data \in [Addresses -> D]
      BY DEF ListInv
    <3>2. data' \in [Addresses -> D \cup {num}]
      BY <3>1, <1>5
    <3> QED
      BY <3>2
  <2>2. next' \in [Addresses -> Addresses \cup {NULL}]
    <3>1. /\ head \in Addresses \cup {NULL}
          /\ \A n \in Indices(k) : Nth[n] \in Addresses
          /\ c < k => c \in Indices(k)
      <4>1. k # 0 => 0 \in Indices(k)
        BY <1>3 DEF Indices
      <4> QED
        BY <4>1, <1>1, <1>2, <1>3, <1>6 DEF Path, PathOf, OnPath, Indices
    <3>2. next \in [Addresses -> Addresses \cup {NULL}] /\ (c + 1) - 1 = c
      BY <1>6 DEF ListInv
    <3> QED
      BY <3>1, <3>2, <1>5 DEF add, addafter, append
  <2>3. \A a \in allocated' : data'[a] \in Numbers
    BY <1>5 DEF ListInv
  <2> QED
    BY <2>1, <2>2, <2>3, <1>8 DEF ListInv
<1>10. Sorted!Insert(num)
  <2> DEFINE s == Contents
  <2>1. s' = [n \in 1..k + 1 |-> data'[q[n - 1]]]
    <3>1. OnPath(k + 1, q)'
      <4>1. Seen'
        BY PathIsSeenNext
      <4> QED
        BY <4>1, <1>8 DEF Seen
    <3> QED
      BY <3>1 DEF OnPath
  <2>2. \A a \in allocated : data'[a] = data[a]
    BY <1>5 DEF ListInv
  <2>3. data'[temp] = num
    BY <1>5 DEF ListInv
  <2>4. s' = [m \in 1..k + 1 |-> IF m <= c THEN s[m] ELSE IF m = c + 1 THEN num ELSE s[m - 1]]
    <3>1. ASSUME NEW m \in 1..k + 1
          PROVE  data'[q[m - 1]] = IF m <= c THEN s[m] ELSE IF m = c + 1 THEN num ELSE s[m - 1]
      <4>0. m - 1 \in Indices(k + 1)
        BY <1>3 DEF Indices
      <4>1. CASE m <= c
        <5>1. m \in 1..k /\ q[m - 1] = p[m - 1]
          BY <4>0, <4>1, <1>3, <1>6, <1>11
        <5> QED
          BY <5>1, <4>1, <1>3, <2>2
      <4>2. CASE m = c + 1
        <5>1. q[m - 1] = temp
          BY <4>0, <4>2, <1>3, <1>6, <1>11
        <5> QED
          BY <5>1, <4>2, <2>3, <1>6
      <4>3. CASE m > c + 1
        <5>1. m - 1 \in 1..k /\ q[m - 1] = p[(m - 1) - 1]
          BY <4>0, <4>3, <1>3, <1>6, <1>11
        <5> QED
          BY <5>1, <4>3, <1>3, <1>6, <2>2
      <4> QED
        BY <4>1, <4>2, <4>3, <1>3, <1>6
    <3> HIDE DEF s
    <3> QED
      BY <3>1, <2>1
  <2>5. s' = Sorted!InsertAt(s, c + 1, num)
    <3> HIDE DEF s
    <3>1. s \in Seq(Numbers) /\ Len(s) = k /\ c \in 0..Len(s)
      BY <1>3, <1>6 DEF s
    <3>2. PICK r, e, t : r = s /\ e = num /\ t = c
      OBVIOUS
    <3>3. Sorted!InsertAt(r, t + 1, e) =
            [m \in 1..Len(r) + 1 |->
               IF m <= t THEN r[m] ELSE IF m = t + 1 THEN e ELSE r[m - 1]]
      BY <3>1, <3>2, Inserted
    <3> QED
      BY <3>1, <3>2, <3>3, <2>4
  <2>6. \A m \in 1..c : s[m] <= num
    <3>1. \A m \in 1..c : m \in 1..k /\ m - 1 \in 0..c - 1
      BY <1>3, <1>6
    <3> QED
      BY <3>1, <1>3, <1>6
  <2>7. \A m \in c + 1..Len(s) : num <= s[m]
    <3>1. \A m \in c + 1..k : m \in 1..k /\ m - 1 \in c..k - 1
      BY <1>3, <1>6
    <3> QED
      BY <3>1, <1>3, <1>6
  <2> HIDE DEF s
  <2>8. c \in 0..Len(s)
    BY <1>3, <1>6 DEF s
  <2> QED
    BY <2>5, <2>6, <2>7, <2>8 DEF Sorted!Insert, s
<1> QED
  BY <1>9, <1>10

(* delete leaves a path, and deletes the first num.                        *)
LEMMA DeleteKeeps ==
  ASSUME ListInv, NEW num \in Numbers, delete(num)
  PROVE  ListInv' /\ Sorted!Delete(num)
<1>1. PICK k, p : Path(k, p)
  BY DEF ListInv
<1>2. OnPath(k, p)
  BY <1>1, PathIsSeen
<1>3. /\ k \in Nat /\ num \in Int
      /\ \A n \in Indices(k) : /\ data[p[n]] \in Numbers /\ data[p[n]] \in Int
                               /\ p[n] \in allocated /\ p[n] \in Addresses
      /\ Contents \in Seq(Numbers) /\ Len(Contents) = k
      /\ \A m \in 1..k : Contents[m] = data[p[m - 1]] /\ m - 1 \in Indices(k)
  BY <1>1, ContentsOf, LinkedListAssumption DEF LinkedListAssumption
<1>4. PICK n \in Indices(k) :
        /\ data[p[n]] = num
        /\ \A m \in 0..n - 1 : data[Nth[m]] # num
        /\ IF n = 0
             THEN head' = next[head] /\ UNCHANGED next
             ELSE /\ next' = [next EXCEPT ![Nth[n - 1]] = next[p[n]]]
                  /\ UNCHANGED head
        /\ allocated' = allocated \ {p[n]}
        /\ UNCHANGED data
  BY <1>2 DEF delete, OnPath
<1>5. /\ n \in Nat /\ n <= k - 1 /\ k - 1 \in Nat
      /\ 0 \in Indices(k) /\ (n > 0 => n - 1 \in Indices(k))
      /\ \A m \in 0..n - 1 : m \in Indices(k) /\ data[p[m]] # num
  <2>1. /\ n \in Nat /\ n <= k - 1 /\ k - 1 \in Nat
        /\ 0 \in Indices(k) /\ (n > 0 => n - 1 \in Indices(k))
        /\ \A m \in 0..n - 1 : m \in Indices(k)
    BY <1>3 DEF Indices
  <2> QED
    BY <2>1, <1>2, <1>4 DEF OnPath
<1>6. PICK q : q = [m \in Indices(k - 1) |-> IF m < n THEN p[m] ELSE p[m + 1]]
  OBVIOUS
<1>7. Path(k - 1, q)'
  <2>1. head = p[0]
    BY <1>1, <1>5 DEF Path, PathOf
  <2>2. head' = IF n = 0 THEN next[p[0]] ELSE head
    BY <2>1, <1>4
  <2>3. \A a \in Addresses :
          next'[a] = IF n > 0 /\ a = p[n - 1] THEN next[p[n]] ELSE next[a]
    <3>1. DOMAIN next = Addresses
      BY DEF ListInv
    <3>2. CASE n = 0
      BY <3>2, <1>4
    <3>3. CASE n > 0
      <4>1. next' = [next EXCEPT ![p[n - 1]] = next[p[n]]]
        BY <3>3, <1>2, <1>4, <1>5 DEF OnPath
      <4> QED
        BY <4>1, <3>1, <3>3
    <3> QED
      BY <3>2, <3>3, <1>5
  <2>4. TakenOut(head, data, next, k, p, n, head', next', q)
    BY <2>2, <2>3, <1>3, <1>4, <1>6 DEF TakenOut
  <2>5. PICK h, d, x, al, h2, x2, u :
          /\ h = head /\ d = data /\ x = next /\ al = allocated
          /\ h2 = head' /\ x2 = next' /\ u = k
    OBVIOUS
  <2>6. PathOf(h, d, x, al, u, p) /\ TakenOut(h, d, x, u, p, n, h2, x2, q)
    BY <2>4, <2>5, <1>1 DEF Path
  <2>7. PathOf(h2, d, x2, al \ {p[n]}, u - 1, q)
    BY <2>6, PathDelete
  <2> QED
    BY <2>5, <2>7, <1>4 DEF Path
<1>8. ListInv'
  <2>1. next' \in [Addresses -> Addresses \cup {NULL}]
    BY <1>2, <1>3, <1>4, <1>5 DEF ListInv, OnPath
  <2>2. \A a \in allocated' : data'[a] \in Numbers
    BY <1>4 DEF ListInv
  <2>3. \E D : data' \in [Addresses -> D]
    BY <1>4 DEF ListInv
  <2> QED
    BY <2>1, <2>2, <2>3, <1>7 DEF ListInv
<1>9. Sorted!Delete(num)
  <2> DEFINE s == Contents
  <2>1. s' = [m \in 1..k - 1 |-> data[q[m - 1]]]
    <3>1. OnPath(k - 1, q)'
      <4>1. Seen'
        BY PathIsSeenNext
      <4> QED
        BY <4>1, <1>7 DEF Seen
    <3> QED
      BY <3>1, <1>4 DEF OnPath
  <2>2. s' = [m \in 1..k - 1 |-> IF m < n + 1 THEN s[m] ELSE s[m + 1]]
    <3>1. ASSUME NEW m \in 1..k - 1
          PROVE  data[q[m - 1]] = IF m < n + 1 THEN s[m] ELSE s[m + 1]
      <4>1. m - 1 \in Indices(k - 1) /\ m \in 1..k /\ m + 1 \in 1..k /\ (m + 1) - 1 = m
        BY <1>3 DEF Indices
      <4>2. s[m] = data[p[m - 1]] /\ s[m + 1] = data[p[m]]
        BY <4>1, <1>3
      <4> HIDE DEF s
      <4>3. q[m - 1] = IF m - 1 < n THEN p[m - 1] ELSE p[m]
        BY <4>1, <1>6
      <4> QED
        BY <4>1, <4>2, <4>3, <1>5
    <3> HIDE DEF s
    <3> QED
      BY <3>1, <2>1
  <2>3. s[n + 1] = num /\ \A m \in 1..n : s[m] # num
    <3>1. n + 1 \in 1..k /\ (n + 1) - 1 = n /\ \A m \in 1..n : m \in 1..k /\ m - 1 \in 0..n - 1
      BY <1>3, <1>5
    <3>2. s[n + 1] = num
      BY <3>1, <1>3, <1>4
    <3>3. ASSUME NEW m \in 1..n PROVE s[m] # num
      <4>1. m \in 1..k /\ s[m] = data[p[m - 1]]
        BY <3>1, <1>3
      <4> QED
        BY <4>1, <3>1, <1>5
    <3> QED
      BY <3>2, <3>3
  <2>4. s \in Seq(Numbers) /\ Len(s) = k
    BY <1>3
  <2> HIDE DEF s
  <2>5. PICK r, e, o : r = s /\ e = num /\ o = n + 1
    OBVIOUS
  <2>6. r \in Seq(Numbers) /\ o \in 1..Len(r) /\ r[o] = e /\ \A m \in 1..o - 1 : r[m] # e
    BY <2>3, <2>4, <2>5, <1>3, <1>5
  <2>7. Sorted!RemoveFirst(r, e) = [m \in 1..Len(r) - 1 |-> IF m < o THEN r[m] ELSE r[m + 1]]
    BY <2>6, Removed
  <2>8. s' = Sorted!RemoveFirst(s, num)
    BY <2>2, <2>4, <2>5, <2>7
  <2> QED
    BY <2>8 DEF Sorted!Delete, s
<1> QED
  BY <1>8, <1>9

(* What changes no variable leaves the path and the list.                  *)
LEMMA ListStutters ==
  ASSUME ListInv, UNCHANGED listVars
  PROVE  ListInv' /\ UNCHANGED Contents
<1>1. PICK k, p : Path(k, p)
  BY DEF ListInv
<1>2. Path(k, p)'
  BY <1>1 DEF listVars, Path
<1>3. ListInv'
  BY <1>2 DEF listVars, ListInv
<1>4. Contents = [n \in 1..k |-> data[p[n - 1]]]
  BY <1>1, PathIsSeen DEF OnPath
<1>5. Contents' = [n \in 1..k |-> data'[p[n - 1]]]
  <2>1. Seen'
    BY PathIsSeenNext
  <2> QED
    BY <2>1, <1>2 DEF Seen, OnPath
<1> QED
  BY <1>3, <1>4, <1>5 DEF listVars

(* The inductive invariant of the linked list.                             *)
THEOREM ListInvariant ==
  ListSpec => []ListInv
<1>1. ListInit => ListInv
  BY ListStarts
<1>2. ListInv /\ [ListNext]_listVars => ListInv'
  BY InsertKeeps, DeleteKeeps, ListStutters DEF ListNext
<1> QED
  BY <1>1, <1>2, PTL DEF ListSpec

(* For any number of nodes: the list reaches every node that malloc        *)
(* returned and that was not freed, once, and no other.                    *)
THEOREM NoNodeIsLost ==
  ListSpec => []ReachesWhatIsAllocated
<1>1. ListInv => ReachesWhatIsAllocated
  BY ListReaches
<1> QED
  BY <1>1, ListInvariant, PTL

(* The linked nodes implement a sorted list (SortedList), for any numbers: *)
(* its first state is the empty list, and every step inserts the number in *)
(* order, deletes its first occurrence, or changes nothing the user sees.  *)
THEOREM ListIsSorted ==
  ListSpec => ImplementsSortedList
<1>1. ListInit => Sorted!Init
  BY ListStarts
<1>2. ListInv /\ [ListNext]_listVars => [Sorted!Next]_(Contents)
  BY InsertKeeps, DeleteKeeps, ListStutters DEF ListNext, Sorted!Next
<1> QED
  BY <1>1, <1>2, ListInvariant, PTL DEF ListSpec, ImplementsSortedList, Sorted!Spec
=============================================================================
