------------------------ MODULE RegressionGate_proofs ------------------------
(***************************************************************************)
(* Proofs about the hardware gate: the types of its state, what a pass is  *)
(* backed by, and what the comparator's answers are about, for every       *)
(* number of runs, every sequence of samples and every command line.       *)
(*                                                                         *)
(* The first half is about the statistics the answers rest on, percentile  *)
(* and summarize: what they say of the samples, and that smaller samples   *)
(* have smaller statistics.                                                *)
(***************************************************************************)
EXTENDS RegressionGate, DataLemmas

-----------------------------------------------------------------------------
(* Counting.                                                               *)

LEMMA Positions ==
  ASSUME NEW n \in Nat
  PROVE  IsFiniteSet(1 .. n) /\ Cardinality(1 .. n) = n
<1>1. 1 \in Int /\ n \in Int
  OBVIOUS
<1>2. IsFiniteSet(1 .. n) /\ Cardinality(1 .. n) = IF 1 > n THEN 0 ELSE n - 1 + 1
  BY <1>1, FS_Interval
<1>3. (IF 1 > n THEN 0 ELSE n - 1 + 1) = n
  OBVIOUS
<1> QED  BY <1>2, <1>3

LEMMA CountsOfPositions ==
  ASSUME NEW n \in Nat, NEW A, NEW B, A \subseteq B, B \subseteq 1 .. n
  PROVE  /\ IsFiniteSet(A) /\ IsFiniteSet(B)
         /\ Cardinality(A) \in Nat /\ Cardinality(B) \in Nat
         /\ Cardinality(A) <= Cardinality(B) /\ Cardinality(B) <= n
<1>1. IsFiniteSet(1 .. n) /\ Cardinality(1 .. n) = n
  BY Positions
<1>2. IsFiniteSet(B) /\ Cardinality(B) <= n
  <2>1. IsFiniteSet(B) /\ Cardinality(B) <= Cardinality(1 .. n)
    BY <1>1, FS_Subset, ZenonT(60)
  <2> QED  BY <1>1, <2>1
<1>3. IsFiniteSet(A) /\ Cardinality(A) <= Cardinality(B)
  BY <1>2, FS_Subset
<1> QED  BY <1>2, <1>3, FS_CardinalityType

\* What is not below v is at least v.
LEMMA CountsAddUp ==
  ASSUME NEW n \in Nat, NEW A, NEW B, A \cap B = {}, A \cup B = 1 .. n
  PROVE  Cardinality(A) + Cardinality(B) = n
<1>1. IsFiniteSet(1 .. n) /\ Cardinality(1 .. n) = n
  BY Positions
<1>2. IsFiniteSet(A) /\ IsFiniteSet(B)
  BY <1>1, FS_Subset
<1>3. Cardinality(A \cup B) = Cardinality(A) + Cardinality(B) - Cardinality(A \cap B)
  BY <1>2, FS_Union
<1>4. Cardinality(A \cap B) = 0
  BY FS_EmptySet
<1>5. Cardinality(A) \in Nat /\ Cardinality(B) \in Nat
  BY <1>2, FS_CardinalityType
<1>6. Cardinality(A \cup B) = n
  BY <1>1
<1> QED  BY <1>3, <1>4, <1>5, <1>6

LEMMA Counts ==
  ASSUME NEW values \in Seq(Nat), NEW v
  PROVE  /\ Below(values, v) \in Nat /\ UpTo(values, v) \in Nat
         /\ Below(values, v) <= Len(values) /\ UpTo(values, v) <= Len(values)
<1>1. Len(values) \in Nat /\ DOMAIN values = 1 .. Len(values)
  OBVIOUS
<1> DEFINE A == {k \in DOMAIN values : values[k] < v}
           B == {k \in DOMAIN values : values[k] <= v}
<1>2. A \subseteq 1 .. Len(values) /\ B \subseteq 1 .. Len(values)
  BY <1>1
<1> HIDE DEF A, B
<1>3. Cardinality(A) \in Nat /\ Cardinality(A) <= Len(values)
  BY <1>1, <1>2, CountsOfPositions
<1>4. Cardinality(B) \in Nat /\ Cardinality(B) <= Len(values)
  BY <1>1, <1>2, CountsOfPositions
<1> QED  BY <1>3, <1>4 DEF Below, UpTo, A, B

LEMMA UpToLess ==
  ASSUME NEW values \in Seq(Nat), NEW v \in Nat, NEW w \in Nat, v < w
  PROVE  UpTo(values, v) <= Below(values, w)
<1>1. Len(values) \in Nat /\ DOMAIN values = 1 .. Len(values) /\ \A k \in DOMAIN values : values[k] \in Nat
  OBVIOUS
<1> DEFINE A == {k \in DOMAIN values : values[k] <= v}
           B == {k \in DOMAIN values : values[k] < w}
<1>2. A \subseteq B /\ B \subseteq 1 .. Len(values)
  BY <1>1
<1> HIDE DEF A, B
<1>3. Cardinality(A) <= Cardinality(B)
  BY <1>1, <1>2, CountsOfPositions
<1> QED  BY <1>3 DEF Below, UpTo, A, B

-----------------------------------------------------------------------------
(* The samples in order.                                                   *)

LEMMA GreatestValue ==
  ASSUME NEW values \in Seq(Nat), values # <<>>
  PROVE  \E j \in DOMAIN values : \A i \in DOMAIN values : values[i] <= values[j]
<1> DEFINE n == Len(values)
           P == {m \in Nat : m + 1 <= n =>
                   \E j \in 1 .. m + 1 : \A i \in 1 .. m + 1 : values[i] <= values[j]}
<1>1. n \in Nat \ {0} /\ DOMAIN values = 1 .. n /\ \A i \in 1 .. n : values[i] \in Nat
  OBVIOUS
<1> HIDE DEF n
<1>2. 0 \in P
  BY <1>1
<1>3. ASSUME NEW m \in Nat, m \in P PROVE m + 1 \in P
  <2> SUFFICES ASSUME m + 2 <= n
               PROVE  \E j \in 1 .. m + 2 : \A i \in 1 .. m + 2 : values[i] <= values[j]
    OBVIOUS
  <2>1. PICK j \in 1 .. m + 1 : \A i \in 1 .. m + 1 : values[i] <= values[j]
    BY <1>1, <1>3
  <2>2. \A i \in 1 .. m + 2 : i \in 1 .. m + 1 \/ i = m + 2
    OBVIOUS
  <2>3. values[j] \in Nat /\ values[m + 2] \in Nat /\ \A i \in 1 .. m + 2 : values[i] \in Nat
    BY <1>1
  <2>4. CASE values[m + 2] <= values[j]
    <3>1. \A i \in 1 .. m + 2 : values[i] <= values[j]
      BY <2>1, <2>2, <2>4
    <3>2. j \in 1 .. m + 2
      OBVIOUS
    <3> QED  BY <3>1, <3>2
  <2>5. CASE values[j] < values[m + 2]
    <3>1. \A i \in 1 .. m + 2 : values[i] <= values[m + 2]
      BY <2>1, <2>2, <2>3, <2>5
    <3> QED  BY <3>1
  <2>6. values[m + 2] <= values[j] \/ values[j] < values[m + 2]
    BY <2>3
  <2> QED  BY <2>4, <2>5, <2>6
<1>4. n - 1 \in P
  <2> HIDE DEF P
  <2>1. Nat \subseteq P
    BY <1>2, <1>3, SetInduction
  <2>2. n - 1 \in Nat
    BY <1>1
  <2> QED  BY <2>1, <2>2
<1>5. n - 1 + 1 = n /\ n <= n
  BY <1>1
<1>6. \E j \in 1 .. n : \A i \in 1 .. n : values[i] <= values[j]
  BY <1>4, <1>5
<1> QED  BY <1>1, <1>6

LEMMA PositionExists ==
  ASSUME NEW values \in Seq(Nat), NEW k \in DOMAIN values
  PROVE  \E v \in Range(values) : Below(values, v) < k /\ k <= UpTo(values, v)
<1> DEFINE n == Len(values)
           S == {v \in Range(values) : k <= UpTo(values, v)}
<1>1. n \in Nat /\ DOMAIN values = 1 .. n /\ Range(values) \subseteq Nat /\ k \in 1 .. n
  BY DEF Range
<1>2. S # {}
  <2>1. PICK j \in DOMAIN values : \A i \in DOMAIN values : values[i] <= values[j]
    <3>1. values # <<>>
      BY <1>1
    <3> QED  BY <3>1, GreatestValue
  <2>2. {i \in DOMAIN values : values[i] <= values[j]} = 1 .. n
    BY <1>1, <2>1
  <2>3. UpTo(values, values[j]) = n
    <3>1. Cardinality(1 .. n) = n
      <4> HIDE DEF n
      <4> QED  BY <1>1, FS_Interval
    <3> QED  BY <2>2, <3>1 DEF UpTo
  <2> QED  BY <1>1, <2>3 DEF Range
<1>3. PICK v \in S : \A w \in S : v <= w
  BY <1>1, <1>2, LeastNumber
<1>4. Below(values, v) < k
  <2> DEFINE W == {w \in Range(values) : w < v}
             A == {i \in DOMAIN values : values[i] < v}
  <2>1. Below(values, v) = Cardinality(A) /\ A \subseteq 1 .. n /\ v \in Nat
    BY <1>1 DEF Below
  <2>2. CASE W = {}
    <3>1. A = {}
      BY <2>2 DEF Range
    <3>2. Cardinality({}) = 0
      BY FS_EmptySet
    <3> HIDE DEF A, n
    <3> QED  BY <1>1, <2>1, <3>1, <3>2
  <2>3. CASE W # {}
    <3>1. W \in SUBSET Nat /\ \A w \in W : w <= v
      BY <1>1
    <3>2. PICK w \in W : \A x \in W : x <= w
      <4> HIDE DEF W
      <4> QED  BY <2>1, <2>3, <3>1, GreatestNumber
    <3>3. w \in Range(values) /\ w \notin S
      BY <1>1, <1>3, <2>1
    <3>4. UpTo(values, w) < k
      BY <1>1, <3>3, Counts
    <3> DEFINE B == {i \in DOMAIN values : values[i] <= w}
    <3>5. A \subseteq B /\ B \subseteq 1 .. n
      BY <1>1, <3>2 DEF Range
    <3> HIDE DEF A, B, n
    <3>6. Cardinality(A) <= Cardinality(B) /\ Cardinality(A) \in Nat /\ Cardinality(B) \in Nat
      BY <1>1, <3>5, CountsOfPositions
    <3>7. UpTo(values, w) = Cardinality(B)
      BY DEF UpTo, B
    <3> QED  BY <1>1, <2>1, <3>4, <3>6, <3>7
  <2> QED  BY <2>2, <2>3
<1> QED  BY <1>3, <1>4

\* The k-th of the values in order.
LEMMA SortedPosition ==
  ASSUME NEW values \in Seq(Nat), NEW k \in DOMAIN values
  PROVE  /\ Sorted(values)[k] \in Range(values) /\ Sorted(values)[k] \in Nat
         /\ Below(values, Sorted(values)[k]) < k
         /\ k <= UpTo(values, Sorted(values)[k])
<1>1. \E v \in Range(values) : Below(values, v) < k /\ k <= UpTo(values, v)
  BY PositionExists
<1>2. Range(values) \subseteq Nat
  BY DEF Range
<1>3. Sorted(values)[k] =
        CHOOSE v \in Range(values) : Below(values, v) < k /\ k <= UpTo(values, v)
  BY DEF Sorted
<1> QED  BY <1>1, <1>2, <1>3

LEMMA SortedIsSequence ==
  ASSUME NEW values \in Seq(Nat)
  PROVE  Sorted(values) \in Seq(Nat) /\ Len(Sorted(values)) = Len(values)
<1>1. DOMAIN Sorted(values) = 1 .. Len(values) /\ Len(values) \in Nat
  BY DEF Sorted
<1>2. Sorted(values) = [k \in 1 .. Len(values) |-> Sorted(values)[k]]
  BY <1>1 DEF Sorted
<1>3. \A k \in 1 .. Len(values) : Sorted(values)[k] \in Nat
  BY SortedPosition
<1> QED  BY <1>1, <1>2, <1>3

LEMMA SortedInOrder ==
  ASSUME NEW values \in Seq(Nat), NEW j \in DOMAIN values, NEW k \in DOMAIN values, j <= k
  PROVE  Sorted(values)[j] <= Sorted(values)[k]
<1> DEFINE v == Sorted(values)[j]
           w == Sorted(values)[k]
<1>1. v \in Nat /\ w \in Nat /\ Below(values, v) < j /\ k <= UpTo(values, w) /\ j \in Nat /\ k \in Nat
  BY SortedPosition
<1>2. Below(values, v) \in Nat /\ UpTo(values, w) \in Nat
  BY Counts
<1>3. w < v => UpTo(values, w) <= Below(values, v)
  BY <1>1, UpToLess
<1> HIDE DEF v, w
<1>4. v <= w
  BY <1>1, <1>2, <1>3
<1> QED  BY <1>4 DEF v, w

-----------------------------------------------------------------------------
(* A value between two neighbours.                                         *)

LEMMA Product ==
  ASSUME NEW a \in Nat, NEW b \in Nat, NEW c \in Nat, a <= b
  PROVE  a * c \in Nat /\ b * c \in Nat /\ a * c <= b * c
OBVIOUS

LEMMA Between ==
  ASSUME NEW a \in Nat, NEW b \in Nat, NEW w \in 0 .. 100, a <= b
  PROVE  /\ 100 * a + w * (b - a) \in Nat
         /\ 100 * a <= 100 * a + w * (b - a)
         /\ 100 * a + w * (b - a) <= 100 * b
<1>1. PICK d \in Nat : b = a + d
  <2>1. b - a \in Nat /\ b = a + (b - a)
    OBVIOUS
  <2> QED  BY <2>1
<1>2. w \in Nat /\ w <= 100 /\ b - a = d
  BY <1>1
<1>3. w * d \in Nat /\ w * d <= 100 * d
  BY <1>2, Product
<1>4. 100 * b = 100 * a + 100 * d
  BY <1>1
<1> HIDE <1>1
<1>5. 100 * a \in Nat /\ 100 * d \in Nat
  BY <1>1
<1> QED  BY <1>2, <1>3, <1>4, <1>5

LEMMA FurtherBetween ==
  ASSUME NEW a \in Nat, NEW b \in Nat, NEW v \in Nat, NEW w \in Nat, a <= b, v <= w
  PROVE  100 * a + v * (b - a) <= 100 * a + w * (b - a)
<1>1. b - a \in Nat
  OBVIOUS
<1>2. v * (b - a) \in Nat /\ w * (b - a) \in Nat /\ v * (b - a) <= w * (b - a)
  BY <1>1, Product
<1> QED  BY <1>2

LEMMA BetweenGreater ==
  ASSUME NEW a \in Nat, NEW b \in Nat, NEW c \in Nat, NEW d \in Nat, NEW w \in 0 .. 100,
         a <= c, b <= d
  PROVE  100 * a + w * (b - a) <= 100 * c + w * (d - c)
<1>1. w \in Nat /\ 100 - w \in Nat
  OBVIOUS
<1>2. a * (100 - w) <= c * (100 - w)
  BY <1>1, Product
<1>3. b * w <= d * w
  BY <1>1, Product
<1>4. /\ a * (100 - w) = 100 * a - a * w
      /\ c * (100 - w) = 100 * c - c * w
      /\ w * (b - a) = b * w - a * w
      /\ w * (d - c) = d * w - c * w
  OBVIOUS
<1>5. a * w \in Int /\ b * w \in Int /\ c * w \in Int /\ d * w \in Int
  OBVIOUS
<1> QED  BY <1>2, <1>3, <1>4, <1>5

Ordered(s) == \A j, k \in DOMAIN s : j <= k => s[j] <= s[k]

\* The neighbours of a position in hundredths of one.
Lower(q) == q \div 100
Upper(q) == IF q % 100 = 0 THEN q \div 100 ELSE q \div 100 + 1

LEMMA Neighbours ==
  ASSUME NEW n \in Nat \ {0}, NEW q \in Nat, q <= 100 * (n - 1)
  PROVE  /\ Lower(q) \in Nat /\ Upper(q) \in Nat
         /\ q % 100 \in 0 .. 100
         /\ q = 100 * Lower(q) + (q % 100)
         /\ Lower(q) <= Upper(q) /\ Upper(q) <= n - 1
         /\ Upper(q) = (q + 99) \div 100
         /\ Lower(q) + 1 \in 1 .. n /\ Upper(q) + 1 \in 1 .. n
<1>1. q \div 100 \in Nat /\ q % 100 \in 0 .. 99 /\ q = 100 * (q \div 100) + (q % 100)
  OBVIOUS
<1>2. (q + 99) \div 100 = IF q % 100 = 0 THEN q \div 100 ELSE q \div 100 + 1
  BY <1>1
<1> QED  BY <1>1, <1>2 DEF Lower, Upper

LEMMA InterpolatedBetween ==
  ASSUME NEW s \in Seq(Nat), s # <<>>, Ordered(s),
         NEW q \in Nat, q <= 100 * (Len(s) - 1)
  PROVE  /\ Interpolated(s, q) = 100 * s[Lower(q) + 1]
                                   + (q % 100) * (s[Upper(q) + 1] - s[Lower(q) + 1])
         /\ Interpolated(s, q) \in Nat
         /\ 100 * s[Lower(q) + 1] <= Interpolated(s, q)
         /\ Interpolated(s, q) <= 100 * s[Upper(q) + 1]
<1> DEFINE n == Len(s)
           a == s[Lower(q) + 1]
           b == s[Upper(q) + 1]
           w == q % 100
<1>1. n \in Nat \ {0} /\ DOMAIN s = 1 .. n /\ \A k \in 1 .. n : s[k] \in Nat
  OBVIOUS
<1>2. /\ Lower(q) + 1 \in 1 .. n /\ Upper(q) + 1 \in 1 .. n /\ w \in 0 .. 100
      /\ Lower(q) + 1 <= Upper(q) + 1
  <2>1. q <= 100 * (n - 1)
    OBVIOUS
  <2> HIDE DEF n
  <2>2. Lower(q) + 1 \in 1 .. n /\ Upper(q) + 1 \in 1 .. n /\ q % 100 \in 0 .. 100
    BY <1>1, <2>1, Neighbours
  <2>3. Lower(q) \in Nat /\ Upper(q) \in Nat /\ Lower(q) <= Upper(q)
    BY <1>1, <2>1, Neighbours
  <2> QED  BY <2>2, <2>3
<1>3. a \in Nat /\ b \in Nat /\ a <= b
  BY <1>1, <1>2 DEF Ordered
<1>4. Interpolated(s, q) = 100 * a + w * (b - a)
  BY DEF Interpolated, Lower, Upper
<1> HIDE DEF a, b, w
<1>5. /\ 100 * a + w * (b - a) \in Nat
      /\ 100 * a <= 100 * a + w * (b - a)
      /\ 100 * a + w * (b - a) <= 100 * b
  BY <1>2, <1>3, Between
<1>6. /\ Interpolated(s, q) \in Nat
      /\ 100 * a <= Interpolated(s, q) /\ Interpolated(s, q) <= 100 * b
  BY <1>4, <1>5
<1> QED  BY <1>4, <1>6 DEF a, b, w

\* A later position has no smaller value.
LEMMA InterpolatedInOrder ==
  ASSUME NEW s \in Seq(Nat), s # <<>>, Ordered(s),
         NEW q \in Nat, NEW r \in Nat, q <= r, r <= 100 * (Len(s) - 1)
  PROVE  Interpolated(s, q) <= Interpolated(s, r)
<1> DEFINE n == Len(s)
           x == Interpolated(s, q)
           y == Interpolated(s, r)
           i == Lower(q) + 1
           j == Upper(q) + 1
           k == Lower(r) + 1
           l == Upper(r) + 1
           v == q % 100
           w == r % 100
<1>1. n \in Nat \ {0} /\ DOMAIN s = 1 .. n /\ \A p \in 1 .. n : s[p] \in Nat
  OBVIOUS
<1>2. q <= 100 * (n - 1) /\ r <= 100 * (n - 1)
  BY <1>1
<1>3. i \in 1 .. n /\ j \in 1 .. n /\ i <= j
  <2> HIDE DEF n
  <2>1. /\ Lower(q) \in Nat /\ Upper(q) \in Nat /\ Lower(q) <= Upper(q)
        /\ Lower(q) + 1 \in 1 .. n /\ Upper(q) + 1 \in 1 .. n
    BY <1>1, <1>2, Neighbours, ZenonT(60)
  <2> QED  BY <2>1
<1>4. k \in 1 .. n /\ l \in 1 .. n /\ k <= l
  <2> HIDE DEF n
  <2>1. /\ Lower(r) \in Nat /\ Upper(r) \in Nat /\ Lower(r) <= Upper(r)
        /\ Lower(r) + 1 \in 1 .. n /\ Upper(r) + 1 \in 1 .. n
    BY <1>1, <1>2, Neighbours, ZenonT(60)
  <2> QED  BY <2>1
<1>5. x = 100 * s[i] + v * (s[j] - s[i]) /\ x \in Nat /\ x <= 100 * s[j]
  BY <1>2, InterpolatedBetween
<1>6. y = 100 * s[k] + w * (s[l] - s[k]) /\ y \in Nat /\ 100 * s[k] <= y
  BY <1>2, InterpolatedBetween
<1>7. /\ v \in Nat /\ w \in Nat /\ i <= k /\ (i = k => v <= w)
      /\ j = (IF v = 0 THEN i ELSE i + 1)
      /\ l = (IF w = 0 THEN k ELSE k + 1)
  BY DEF Lower, Upper
<1> HIDE DEF i, j, k, l, v, w, x, y
<1>8. /\ s[i] \in Nat /\ s[j] \in Nat /\ s[k] \in Nat /\ s[l] \in Nat
      /\ s[i] <= s[j] /\ (j <= k => s[j] <= s[k])
  <2> HIDE DEF n
  <2>1. \A a, b \in 1 .. n : a <= b => s[a] <= s[b]
    BY <1>1 DEF Ordered
  <2> QED  BY <1>1, <1>3, <1>4, <2>1
<1>9. x <= y
  <2>1. CASE j <= k
    <3>1. s[j] <= s[k]
      BY <1>8, <2>1
    <3>2. x \in Nat /\ y \in Nat /\ x <= 100 * s[j] /\ 100 * s[k] <= y
      BY <1>5, <1>6
    <3>3. \A a, b \in Nat : a <= b /\ x <= 100 * a /\ 100 * b <= y => x <= y
      BY <3>2
    <3> QED  BY <1>8, <3>1, <3>2, <3>3
  <2>2. CASE ~(j <= k)
    <3>1. i = k /\ v # 0
      <4>1. i \in Nat /\ j \in Nat /\ k \in Nat
        <5> HIDE DEF n
        <5> QED  BY <1>1, <1>3, <1>4
      <4>2. i <= k /\ (j = i \/ (v # 0 /\ j = i + 1))
        BY <1>7
      <4> QED  BY <2>2, <4>1, <4>2
    <3>2. v <= w /\ l = j
      BY <1>7, <3>1
    <3>3. y = 100 * s[i] + w * (s[j] - s[i])
      BY <1>6, <3>1, <3>2
    <3>4. 100 * s[i] + v * (s[j] - s[i]) <= 100 * s[i] + w * (s[j] - s[i])
      <4>1. s[i] \in Nat /\ s[j] \in Nat /\ s[i] <= s[j] /\ v \in Nat /\ w \in Nat
        BY <1>7, <1>8
      <4> QED  BY <3>2, <4>1, FurtherBetween
    <3>5. x = 100 * s[i] + v * (s[j] - s[i])
      BY <1>5
    <3> HIDE DEF n
    <3> QED  BY <3>3, <3>4, <3>5
  <2> QED  BY <2>1, <2>2
<1> QED  BY <1>9 DEF x, y

\* Smaller values have a smaller one at every position.
LEMMA InterpolatedOfSmaller ==
  ASSUME NEW s \in Seq(Nat), NEW t \in Seq(Nat), s # <<>>, Len(s) = Len(t),
         Ordered(s), Ordered(t), \A k \in DOMAIN s : s[k] <= t[k],
         NEW q \in Nat, q <= 100 * (Len(s) - 1)
  PROVE  Interpolated(s, q) <= Interpolated(t, q)
<1> DEFINE n == Len(s)
           a == s[Lower(q) + 1]
           b == s[Upper(q) + 1]
           c == t[Lower(q) + 1]
           d == t[Upper(q) + 1]
           w == q % 100
<1>1. /\ n \in Nat \ {0} /\ DOMAIN s = 1 .. n /\ DOMAIN t = 1 .. n
      /\ \A k \in 1 .. n : s[k] \in Nat /\ t[k] \in Nat
      /\ t # <<>>
  OBVIOUS
<1>2. /\ Lower(q) + 1 \in 1 .. n /\ Upper(q) + 1 \in 1 .. n /\ w \in 0 .. 100
  <2> HIDE DEF n
  <2>1. q <= 100 * (n - 1)
    BY DEF n
  <2> QED  BY <1>1, <2>1, Neighbours
<1>3. /\ a \in Nat /\ b \in Nat /\ c \in Nat /\ d \in Nat
      /\ a <= c /\ b <= d
  BY <1>1, <1>2
<1>4. Interpolated(s, q) = 100 * a + w * (b - a)
  BY DEF Interpolated, Lower, Upper
<1>5. Interpolated(t, q) = 100 * c + w * (d - c)
  BY DEF Interpolated, Lower, Upper
<1> HIDE DEF a, b, c, d, w
<1>6. 100 * a + w * (b - a) <= 100 * c + w * (d - c)
  BY <1>2, <1>3, BetweenGreater
<1> QED  BY <1>4, <1>5, <1>6

-----------------------------------------------------------------------------
(* The sum and the mean.                                                   *)

Sums(values, n, f) ==
    f = [k \in 0 .. n |-> IF k = 0 THEN 0 ELSE f[k - 1] + values[k]]

LEMMA SumsExist ==
  ASSUME NEW values, NEW n \in Nat
  PROVE  \E f : Sums(values, n, f)
<1> DEFINE P == {m \in Nat : \E f : Sums(values, m, f)}
<1>1. 0 \in P
  <2>1. Sums(values, 0, [k \in 0 .. 0 |-> 0])
    BY DEF Sums
  <2> QED  BY <2>1
<1>2. ASSUME NEW m \in Nat, m \in P PROVE m + 1 \in P
  <2>1. PICK f : Sums(values, m, f)
    BY <1>2
  <2> DEFINE g == [k \in 0 .. m + 1 |-> IF k = m + 1 THEN f[m] + values[m + 1] ELSE f[k]]
  <2>2. f = [k \in 0 .. m |-> IF k = 0 THEN 0 ELSE f[k - 1] + values[k]]
    BY <2>1 DEF Sums
  <2>3. \A k \in 0 .. m + 1 : g[k] = IF k = 0 THEN 0 ELSE g[k - 1] + values[k]
    <3>1. \A k \in 0 .. m : f[k] = IF k = 0 THEN 0 ELSE f[k - 1] + values[k]
      BY <2>2
    <3>2. \A k \in 0 .. m : k # m + 1 /\ k \in 0 .. m + 1
      OBVIOUS
    <3>3. \A k \in 0 .. m : g[k] = f[k]
      BY <3>2
    <3>4. m + 1 # 0 /\ g[m + 1] = f[m] + values[m + 1] /\ g[m] = f[m] /\ m + 1 - 1 = m
      BY <3>3
    <3> HIDE DEF g
    <3>5. \A k \in 0 .. m : k # 0 => k - 1 \in 0 .. m
      OBVIOUS
    <3>6. \A k \in 0 .. m + 1 : k \in 0 .. m \/ k = m + 1
      OBVIOUS
    <3>7. \A k \in 0 .. m : g[k] = IF k = 0 THEN 0 ELSE g[k - 1] + values[k]
      BY <3>1, <3>3, <3>5
    <3> QED  BY <3>4, <3>6, <3>7
  <2>4. g = [k \in 0 .. m + 1 |-> IF k = 0 THEN 0 ELSE g[k - 1] + values[k]]
    <3>1. g = [k \in 0 .. m + 1 |-> g[k]]
      OBVIOUS
    <3> HIDE DEF g
    <3> QED  BY <2>3, <3>1
  <2> HIDE DEF g
  <2>5. Sums(values, m + 1, g)
    BY <2>4 DEF Sums
  <2> QED  BY <2>5
<1>3. Nat \subseteq P
  <2> HIDE DEF P
  <2> QED  BY <1>1, <1>2, SetInduction
<1> QED  BY <1>3

\* The partial sums behind a total.
LEMMA TotalIsSum ==
  ASSUME NEW values \in Seq(Nat)
  PROVE  \E f : /\ Total(values) = f[Len(values)]
                /\ f[0] = 0
                /\ \A k \in 1 .. Len(values) : f[k] = f[k - 1] + values[k]
<1> DEFINE n == Len(values)
           f == CHOOSE g : Sums(values, n, g)
<1>1. n \in Nat
  OBVIOUS
<1>2. Sums(values, n, f)
  <2> HIDE DEF n
  <2> QED  BY <1>1, SumsExist
<1>3. Total(values) = f[n]
  BY DEF Total, Sums
<1>4. f = [k \in 0 .. n |-> IF k = 0 THEN 0 ELSE f[k - 1] + values[k]]
  BY <1>2 DEF Sums
<1> HIDE DEF f
<1>5. f[0] = 0 /\ \A k \in 1 .. n : f[k] = f[k - 1] + values[k]
  BY <1>1, <1>4
<1> QED  BY <1>3, <1>5

LEMMA TotalBetween ==
  ASSUME NEW s \in Seq(Nat), NEW a \in Nat, NEW b \in Nat,
         \A k \in DOMAIN s : a <= s[k] /\ s[k] <= b
  PROVE  /\ Total(s) \in Nat
         /\ Len(s) * a <= Total(s) /\ Total(s) <= Len(s) * b
<1> DEFINE n == Len(s)
<1>1. n \in Nat /\ \A k \in 1 .. n : s[k] \in Nat /\ a <= s[k] /\ s[k] <= b
  OBVIOUS
<1>2. PICK f : /\ Total(s) = f[n]
               /\ f[0] = 0
               /\ \A k \in 1 .. n : f[k] = f[k - 1] + s[k]
  BY TotalIsSum
<1> HIDE DEF n
<1> DEFINE P == {m \in Nat : m <= n => f[m] \in Nat /\ m * a <= f[m] /\ f[m] <= m * b}
<1>3. 0 \in P
  BY <1>2
<1>4. ASSUME NEW m \in Nat, m \in P PROVE m + 1 \in P
  <2> SUFFICES ASSUME m + 1 <= n
               PROVE  f[m + 1] \in Nat /\ (m + 1) * a <= f[m + 1] /\ f[m + 1] <= (m + 1) * b
    OBVIOUS
  <2>1. f[m] \in Nat /\ m * a <= f[m] /\ f[m] <= m * b
    BY <1>1, <1>4
  <2>2. m + 1 \in 1 .. n /\ m + 1 - 1 = m
    BY <1>1
  <2>3. f[m + 1] = f[m] + s[m + 1] /\ s[m + 1] \in Nat /\ a <= s[m + 1] /\ s[m + 1] <= b
    BY <1>1, <1>2, <2>2
  <2>4. (m + 1) * a = m * a + a /\ (m + 1) * b = m * b + b /\ m * a \in Nat /\ m * b \in Nat
    OBVIOUS
  <2> QED  BY <2>1, <2>3, <2>4, SMTT(30)
<1>5. n \in P
  <2> HIDE DEF P
  <2>1. Nat \subseteq P
    BY <1>3, <1>4, SetInduction
  <2> QED  BY <1>1, <2>1
<1>6. Total(s) \in Nat /\ n * a <= Total(s) /\ Total(s) <= n * b
  BY <1>1, <1>2, <1>5
<1> QED  BY <1>6 DEF n

LEMMA TotalOfSmaller ==
  ASSUME NEW s \in Seq(Nat), NEW t \in Seq(Nat), Len(s) = Len(t),
         \A k \in DOMAIN s : s[k] <= t[k]
  PROVE  Total(s) <= Total(t)
<1> DEFINE n == Len(s)
<1>1. n \in Nat /\ \A k \in 1 .. n : s[k] \in Nat /\ t[k] \in Nat /\ s[k] <= t[k]
  OBVIOUS
<1>2. PICK f : /\ Total(s) = f[n]
               /\ f[0] = 0
               /\ \A k \in 1 .. n : f[k] = f[k - 1] + s[k]
  BY TotalIsSum
<1>3. PICK g : /\ Total(t) = g[n]
               /\ g[0] = 0
               /\ \A k \in 1 .. n : g[k] = g[k - 1] + t[k]
  BY TotalIsSum, SMTT(30)
<1> HIDE DEF n
<1> DEFINE P == {m \in Nat : m <= n => f[m] \in Nat /\ g[m] \in Nat /\ f[m] <= g[m]}
<1>4. 0 \in P
  BY <1>2, <1>3
<1>5. ASSUME NEW m \in Nat, m \in P PROVE m + 1 \in P
  <2> SUFFICES ASSUME m + 1 <= n
               PROVE  f[m + 1] \in Nat /\ g[m + 1] \in Nat /\ f[m + 1] <= g[m + 1]
    OBVIOUS
  <2>1. f[m] \in Nat /\ g[m] \in Nat /\ f[m] <= g[m]
    BY <1>1, <1>5
  <2>2. m + 1 \in 1 .. n /\ m + 1 - 1 = m
    BY <1>1
  <2>3. /\ f[m + 1] = f[m] + s[m + 1] /\ g[m + 1] = g[m] + t[m + 1]
        /\ s[m + 1] \in Nat /\ t[m + 1] \in Nat /\ s[m + 1] <= t[m + 1]
    BY <1>1, <1>2, <1>3, <2>2
  <2>4. \A u, v, x, y \in Nat : u <= v /\ x <= y =>
          u + x \in Nat /\ v + y \in Nat /\ u + x <= v + y
    OBVIOUS
  <2>5. /\ f[m] + s[m + 1] \in Nat /\ g[m] + t[m + 1] \in Nat
        /\ f[m] + s[m + 1] <= g[m] + t[m + 1]
    BY <2>1, <2>3, <2>4
  <2> QED  BY <2>3, <2>5, Zenon
<1>6. n \in P
  <2> HIDE DEF P
  <2>1. Nat \subseteq P
    BY <1>4, <1>5, SetInduction
  <2> QED  BY <1>1, <2>1
<1> QED  BY <1>1, <1>2, <1>3, <1>6

LEMMA Quotient ==
  ASSUME NEW x \in Nat, NEW d \in Nat \ {0}
  PROVE  /\ x \div d \in Nat
         /\ \A k \in Nat : d * k <= x => k <= x \div d
         /\ \A k \in Nat : x < d * (k + 1) => x \div d <= k
<1> DEFINE y == x \div d
<1>1. y \in Nat /\ d * y <= x /\ x < d * (y + 1)
  OBVIOUS
<1> HIDE DEF y
<1>2. ASSUME NEW k \in Nat, d * k <= x PROVE k <= y
  <2> SUFFICES ASSUME y + 1 <= k PROVE FALSE
    BY <1>1
  <2>1. (y + 1) * d <= k * d /\ (y + 1) * d \in Nat /\ k * d \in Nat
    BY <1>1, Product
  <2>2. (y + 1) * d = d * (y + 1) /\ k * d = d * k
    BY <1>1
  <2> QED  BY <1>1, <1>2, <2>1, <2>2
<1>3. ASSUME NEW k \in Nat, x < d * (k + 1) PROVE y <= k
  <2> SUFFICES ASSUME k + 1 <= y PROVE FALSE
    BY <1>1
  <2>1. (k + 1) * d <= y * d /\ (k + 1) * d \in Nat /\ y * d \in Nat
    BY <1>1, Product
  <2>2. (k + 1) * d = d * (k + 1) /\ y * d = d * y
    BY <1>1
  <2> QED  BY <1>1, <1>3, <2>1, <2>2
<1> QED  BY <1>1, <1>2, <1>3 DEF y

\* The rounded mean of n samples of the given sum, in hundredths.
Rounded(total, n) == (200 * total + n) \div (2 * n)

LEMMA RoundedBetween ==
  ASSUME NEW total \in Nat, NEW n \in Nat \ {0}, NEW a \in Nat, NEW b \in Nat,
         n * a <= total, total <= n * b
  PROVE  /\ Rounded(total, n) \in Nat
         /\ 100 * a <= Rounded(total, n) /\ Rounded(total, n) <= 100 * b
<1> DEFINE x == 200 * total + n
           d == 2 * n
<1>1. x \in Nat /\ d \in Nat \ {0} /\ 100 * a \in Nat /\ 100 * b \in Nat
  OBVIOUS
<1>2. d * (100 * a) <= x
  <2>1. d * (100 * a) = 200 * (n * a) /\ n * a \in Nat
    OBVIOUS
  <2> QED  BY <2>1
<1>3. x < d * (100 * b + 1)
  <2>1. d * (100 * b + 1) = 200 * (n * b) + 2 * n /\ n * b \in Nat
    OBVIOUS
  <2> QED  BY <2>1
<1> HIDE DEF x, d
<1>4. x \div d \in Nat /\ 100 * a <= x \div d /\ x \div d <= 100 * b
  BY <1>1, <1>2, <1>3, Quotient
<1> QED  BY <1>4 DEF x, d, Rounded

LEMMA RoundedOfSmaller ==
  ASSUME NEW total \in Nat, NEW more \in Nat, NEW n \in Nat \ {0}, total <= more
  PROVE  Rounded(total, n) <= Rounded(more, n)
<1> DEFINE x == 200 * total + n
           y == 200 * more + n
           d == 2 * n
<1>1. x \in Nat /\ y \in Nat /\ x <= y /\ d \in Nat \ {0}
  OBVIOUS
<1> HIDE DEF x, y, d
<1>2. d * (x \div d) <= x /\ x \div d \in Nat /\ d * (x \div d) \in Nat
  BY <1>1
<1>3. d * (x \div d) <= y
  BY <1>1, <1>2
<1>4. x \div d <= y \div d
  BY <1>1, <1>2, <1>3, Quotient
<1> QED  BY <1>4 DEF x, y, d, Rounded

-----------------------------------------------------------------------------
(* The statistics of one sequence of samples, and of two.                  *)

LEMMA SortedFacts ==
  ASSUME NEW values \in Seq(Nat), values # <<>>
  PROVE  /\ Sorted(values) \in Seq(Nat) /\ Sorted(values) # <<>>
         /\ Len(Sorted(values)) = Len(values)
         /\ DOMAIN Sorted(values) = DOMAIN values
         /\ Ordered(Sorted(values))
         /\ Len(values) \in Nat \ {0} /\ DOMAIN values = 1 .. Len(values)
<1>1. Len(values) \in Nat \ {0} /\ DOMAIN values = 1 .. Len(values)
  OBVIOUS
<1>2. Sorted(values) \in Seq(Nat) /\ Len(Sorted(values)) = Len(values)
  BY SortedIsSequence
<1>3. DOMAIN Sorted(values) = DOMAIN values
  BY DEF Sorted
<1>4. Ordered(Sorted(values))
  BY <1>3, SortedInOrder DEF Ordered
<1>5. Sorted(values) # <<>>
  BY <1>1, <1>2
<1> QED  BY <1>1, <1>2, <1>3, <1>4, <1>5

LEMMA PercentileOf ==
  ASSUME NEW s \in Seq(Nat), s # <<>>, Ordered(s), NEW p \in 0 .. 100
  PROVE  /\ p * (Len(s) - 1) \in Nat /\ p * (Len(s) - 1) <= 100 * (Len(s) - 1)
         /\ Percentile(s, p) \in Nat
         /\ 100 * s[1] <= Percentile(s, p) /\ Percentile(s, p) <= 100 * s[Len(s)]
<1> DEFINE n == Len(s)
           q == p * (n - 1)
<1>1. n \in Nat \ {0} /\ DOMAIN s = 1 .. n /\ \A k \in 1 .. n : s[k] \in Nat
  OBVIOUS
<1>2. p \in Nat /\ p <= 100 /\ 100 \in Nat /\ n - 1 \in Nat
  BY <1>1
<1>3. q \in Nat /\ q <= 100 * (n - 1)
  <2> HIDE DEF n
  <2> QED  BY <1>2, Product
<1> HIDE DEF q
<1>4. /\ Interpolated(s, q) \in Nat
      /\ 100 * s[Lower(q) + 1] <= Interpolated(s, q)
      /\ Interpolated(s, q) <= 100 * s[Upper(q) + 1]
  BY <1>3, InterpolatedBetween
<1>5. Lower(q) + 1 \in 1 .. n /\ Upper(q) + 1 \in 1 .. n
  <2> HIDE DEF n
  <2> QED  BY <1>1, <1>3, Neighbours
<1>6. s[1] <= s[Lower(q) + 1] /\ s[Upper(q) + 1] <= s[n] /\ 1 \in 1 .. n /\ n \in 1 .. n
  BY <1>1, <1>5 DEF Ordered
<1>7. /\ s[1] \in Nat /\ s[n] \in Nat /\ s[Lower(q) + 1] \in Nat /\ s[Upper(q) + 1] \in Nat
  BY <1>1, <1>5, <1>6
<1>8. 100 * s[1] <= Interpolated(s, q) /\ Interpolated(s, q) <= 100 * s[n]
  <2> DEFINE a == s[1]
             b == s[Lower(q) + 1]
             c == s[Upper(q) + 1]
             d == s[n]
             x == Interpolated(s, q)
  <2>1. /\ a \in Nat /\ b \in Nat /\ c \in Nat /\ d \in Nat /\ x \in Nat
        /\ a <= b /\ 100 * b <= x /\ x <= 100 * c /\ c <= d
    BY <1>4, <1>6, <1>7
  <2> HIDE DEF a, b, c, d, x
  <2>2. 100 * a <= x /\ x <= 100 * d
    BY <2>1
  <2> QED  BY <2>2 DEF a, d, x
<1>9. Percentile(s, p) = Interpolated(s, q)
  BY DEF Percentile, q
<1>10. p * (Len(s) - 1) = q /\ n = Len(s)
  BY DEF q
<1> HIDE DEF n
<1> QED  BY <1>3, <1>4, <1>8, <1>9, <1>10

LEMMA PercentilesInOrder ==
  ASSUME NEW s \in Seq(Nat), s # <<>>, Ordered(s),
         NEW p \in 0 .. 100, NEW r \in 0 .. 100, p <= r
  PROVE  Percentile(s, p) <= Percentile(s, r)
<1> DEFINE m == Len(s) - 1
<1>1. m \in Nat /\ p \in Nat /\ r \in Nat
  OBVIOUS
<1>2. p * m \in Nat /\ r * m \in Nat /\ r * m <= 100 * m
  BY PercentileOf
<1>3. p * m <= r * m
  <2> HIDE DEF m
  <2> QED  BY <1>1, Product
<1>4. Interpolated(s, p * m) <= Interpolated(s, r * m)
  BY <1>2, <1>3, InterpolatedInOrder
<1> QED  BY <1>4 DEF Percentile

LEMMA PercentileOfSmaller ==
  ASSUME NEW s \in Seq(Nat), NEW t \in Seq(Nat), s # <<>>, Len(s) = Len(t),
         Ordered(s), Ordered(t), \A k \in DOMAIN s : s[k] <= t[k], NEW p \in 0 .. 100
  PROVE  Percentile(s, p) <= Percentile(t, p)
<1>1. p * (Len(s) - 1) \in Nat /\ p * (Len(s) - 1) <= 100 * (Len(s) - 1)
  BY PercentileOf
<1>2. Interpolated(s, p * (Len(s) - 1)) <= Interpolated(t, p * (Len(s) - 1))
  BY <1>1, InterpolatedOfSmaller
<1> QED  BY <1>2 DEF Percentile

LEMMA MeanOf ==
  ASSUME NEW s \in Seq(Nat), s # <<>>, Ordered(s)
  PROVE  /\ Total(s) \in Nat
         /\ Rounded(Total(s), Len(s)) \in Nat
         /\ 100 * s[1] <= Rounded(Total(s), Len(s))
         /\ Rounded(Total(s), Len(s)) <= 100 * s[Len(s)]
<1> DEFINE n == Len(s)
           a == s[1]
           b == s[n]
<1>1. n \in Nat \ {0} /\ DOMAIN s = 1 .. n /\ 1 \in 1 .. n /\ n \in 1 .. n
  OBVIOUS
<1>2. a \in Nat /\ b \in Nat
  BY <1>1
<1>3. \A k \in DOMAIN s : a <= s[k] /\ s[k] <= b
  BY <1>1 DEF Ordered
<1> HIDE DEF a, b
<1>4. Total(s) \in Nat /\ n * a <= Total(s) /\ Total(s) <= n * b
  BY <1>2, <1>3, TotalBetween
<1> HIDE DEF n
<1>5. /\ Rounded(Total(s), n) \in Nat
      /\ 100 * a <= Rounded(Total(s), n) /\ Rounded(Total(s), n) <= 100 * b
  BY <1>1, <1>2, <1>4, RoundedBetween
<1> QED  BY <1>4, <1>5 DEF a, b, n

LEMMA SummaryFields ==
  ASSUME NEW values \in Seq(Nat), values # <<>>
  PROVE  LET s == Sorted(values)
             t == Summarize(values)
         IN /\ t.samples = Len(values)
            /\ t.mean = Rounded(Total(s), Len(values))
            /\ t.min = 100 * s[1] /\ t.max = 100 * s[Len(values)]
            /\ t.p50 = Percentile(s, 50) /\ t.p90 = Percentile(s, 90)
            /\ t.p95 = Percentile(s, 95) /\ t.p99 = Percentile(s, 99)
BY SortedFacts DEF Summarize, Rounded

\* The statistics of one distribution are in order.
LEMMA SummaryInOrder ==
  ASSUME NEW values \in Seq(Nat), values # <<>>
  PROVE  LET t == Summarize(values)
         IN /\ t.min \in Nat /\ t.mean \in Nat /\ t.p50 \in Nat /\ t.p90 \in Nat
            /\ t.p95 \in Nat /\ t.p99 \in Nat /\ t.max \in Nat
            /\ t.min <= t.p50 /\ t.p50 <= t.p90 /\ t.p90 <= t.p95
            /\ t.p95 <= t.p99 /\ t.p99 <= t.max
            /\ t.min <= t.mean /\ t.mean <= t.max
<1> DEFINE s == Sorted(values)
           n == Len(values)
           t == Summarize(values)
<1>1. /\ s \in Seq(Nat) /\ s # <<>> /\ Len(s) = n /\ Ordered(s)
      /\ n \in Nat \ {0} /\ DOMAIN s = 1 .. n
  BY SortedFacts
<1>2. /\ t.mean = Rounded(Total(s), n)
      /\ t.min = 100 * s[1] /\ t.max = 100 * s[n]
      /\ t.p50 = Percentile(s, 50) /\ t.p90 = Percentile(s, 90)
      /\ t.p95 = Percentile(s, 95) /\ t.p99 = Percentile(s, 99)
  BY SummaryFields
<1> HIDE DEF s, n, t
<1>3. s[1] \in Nat /\ s[n] \in Nat
  BY <1>1
<1>4. /\ Rounded(Total(s), n) \in Nat
      /\ 100 * s[1] <= Rounded(Total(s), n) /\ Rounded(Total(s), n) <= 100 * s[n]
  BY <1>1, MeanOf
<1>5. 50 \in 0 .. 100 /\ 90 \in 0 .. 100 /\ 95 \in 0 .. 100 /\ 99 \in 0 .. 100
      /\ 50 <= 90 /\ 90 <= 95 /\ 95 <= 99
  OBVIOUS
<1>6. \A p \in 0 .. 100 :
        /\ Percentile(s, p) \in Nat
        /\ 100 * s[1] <= Percentile(s, p) /\ Percentile(s, p) <= 100 * s[n]
  BY <1>1, PercentileOf
<1>7. \A p, r \in 0 .. 100 : p <= r => Percentile(s, p) <= Percentile(s, r)
  BY <1>1, PercentilesInOrder
<1>8. /\ t.mean \in Nat /\ t.min \in Nat /\ t.max \in Nat
      /\ t.min <= t.mean /\ t.mean <= t.max
  BY <1>2, <1>3, <1>4, SMTT(30)
<1>9. /\ t.p50 \in Nat /\ t.p90 \in Nat /\ t.p95 \in Nat /\ t.p99 \in Nat
      /\ t.min <= t.p50 /\ t.p99 <= t.max
  BY <1>2, <1>5, <1>6
<1>10. t.p50 <= t.p90 /\ t.p90 <= t.p95 /\ t.p95 <= t.p99
  BY <1>2, <1>5, <1>7
<1> QED  BY <1>8, <1>9, <1>10 DEF t

\* If the k-th sample in order is never greater, no statistic is.
Statistics == {"mean", "p50", "p90", "p95", "p99", "max"}

LEMMA SummaryOfSmaller ==
  ASSUME NEW values \in Seq(Nat), NEW others \in Seq(Nat), values # <<>>,
         Len(values) = Len(others),
         \A k \in DOMAIN values : Sorted(values)[k] <= Sorted(others)[k],
         NEW metric \in Statistics
  PROVE  Summarize(values)[metric] <= Summarize(others)[metric]
<1> DEFINE s == Sorted(values)
           o == Sorted(others)
           n == Len(values)
           t == Summarize(values)
           u == Summarize(others)
<1>0. others # <<>>
  OBVIOUS
<1>1. /\ s \in Seq(Nat) /\ s # <<>> /\ Len(s) = n /\ Ordered(s)
      /\ n \in Nat \ {0} /\ DOMAIN s = 1 .. n /\ DOMAIN values = 1 .. n
  BY SortedFacts
<1>2. o \in Seq(Nat) /\ o # <<>> /\ Len(o) = n /\ Ordered(o)
  BY <1>0, SortedFacts
<1>3. /\ t.mean = Rounded(Total(s), n) /\ t.max = 100 * s[n]
      /\ t.p50 = Percentile(s, 50) /\ t.p90 = Percentile(s, 90)
      /\ t.p95 = Percentile(s, 95) /\ t.p99 = Percentile(s, 99)
  BY SummaryFields
<1>4. /\ u.mean = Rounded(Total(o), n) /\ u.max = 100 * o[n]
      /\ u.p50 = Percentile(o, 50) /\ u.p90 = Percentile(o, 90)
      /\ u.p95 = Percentile(o, 95) /\ u.p99 = Percentile(o, 99)
  BY <1>0, SummaryFields
<1>5. \A k \in DOMAIN s : s[k] <= o[k]
  BY <1>1
<1> HIDE DEF s, o, n, t, u
<1>6. Total(s) \in Nat /\ Total(o) \in Nat
  BY <1>1, <1>2, MeanOf
<1>7. Total(s) <= Total(o)
  BY <1>1, <1>2, <1>5, TotalOfSmaller
<1>8. t.mean <= u.mean
  BY <1>1, <1>3, <1>4, <1>6, <1>7, RoundedOfSmaller
<1>9. t.max <= u.max
  <2>1. n \in 1 .. n /\ DOMAIN o = 1 .. n
    BY <1>1, <1>2
  <2>2. s[n] \in Nat /\ o[n] \in Nat
    BY <1>1, <1>2, <2>1
  <2>3. 100 * s[n] <= 100 * o[n]
    <3>1. s[n] <= o[n]
      BY <1>1, <1>5, <2>1
    <3> QED  BY <2>2, <3>1
  <2> QED  BY <1>3, <1>4, <2>3
<1>10. \A p \in 0 .. 100 : Percentile(s, p) <= Percentile(o, p)
  BY <1>1, <1>2, <1>5, PercentileOfSmaller
<1>11. 50 \in 0 .. 100 /\ 90 \in 0 .. 100 /\ 95 \in 0 .. 100 /\ 99 \in 0 .. 100
  OBVIOUS
<1>12. t.p50 <= u.p50 /\ t.p90 <= u.p90 /\ t.p95 <= u.p95 /\ t.p99 <= u.p99
  BY <1>3, <1>4, <1>10, <1>11
<1>13. t[metric] <= u[metric]
  BY <1>8, <1>9, <1>12 DEF Statistics
<1> QED  BY <1>13 DEF t, u

\* Fewer samples below each of the values is no smaller sample in order.
LEMMA SortedOfSmaller ==
  ASSUME NEW values \in Seq(Nat), NEW others \in Seq(Nat), Len(values) = Len(others),
         \A k \in DOMAIN values : Below(others, values[k]) <= Below(values, values[k]),
         NEW j \in DOMAIN values
  PROVE  Sorted(values)[j] <= Sorted(others)[j]
<1> DEFINE v == Sorted(values)[j]
           w == Sorted(others)[j]
<1>1. j \in DOMAIN others /\ j \in Nat
  OBVIOUS
<1>2. v \in Range(values) /\ v \in Nat /\ Below(values, v) < j
  BY SortedPosition
<1>3. w \in Nat /\ j <= UpTo(others, w)
  BY <1>1, SortedPosition
<1> HIDE DEF v, w
<1>4. Below(others, v) <= Below(values, v)
  BY <1>2 DEF Range
<1>5. w < v => UpTo(others, w) <= Below(others, v)
  BY <1>2, <1>3, UpToLess
<1>6. Below(others, v) \in Nat /\ Below(values, v) \in Nat /\ UpTo(others, w) \in Nat
  BY Counts
<1>7. v <= w
  BY <1>1, <1>2, <1>3, <1>4, <1>5, <1>6
<1> QED  BY <1>7 DEF v, w

-----------------------------------------------------------------------------
(* The inductive invariant.                                                *)

ControlTypes ==
    /\ stage \in Stages
    /\ invocation \in 0 .. MaxInvocations
    /\ repeats \in 1 .. MaxRepeats
    /\ run \in 1 .. (MaxRepeats + 1)
    /\ builder \in {"off", "arguments", "network", "open", "write"}
    /\ argv \subseteq KnownFlags \cup ScriptFlags \cup {"--help"}
    /\ engine \in {"absent", "empty", "partial", "whole"}
    /\ commands \in 0 .. MaxByHand
    /\ exit \in Maybe(0 .. 6)

\* The builder runs before the script goes on, and the exit code of an
\* invocation is there from its end to the start of the next.
ControlInv ==
    /\ builder # "off" => stage \in {"idle", "build"}
    /\ exit = {} <=> (stage # "idle" \/ invocation = 0)
    /\ stage # "idle" => invocation # 0

\* What a document says of the device times it was made of.
HostTimes(times) == [k \in DOMAIN times |-> times[k] + 1]
DocumentOf(doc, times) ==
    /\ doc.end_to_end = Summarize(HostTimes(times))
    /\ doc.device_compute = IF doc.backend = "mock" THEN {} ELSE {Summarize(times)}
    /\ AtMostOne(doc.device)

FileInv(name, file) ==
    /\ file.by \in 0 .. invocation
    /\ \/ file.doc = {}
       \/ \E doc : /\ file.doc = {doc}
                   /\ file.times \in Samples(name)
                   /\ DocumentOf(doc, file.times)
EvidenceInv ==
    /\ evidence = [name \in Names |-> evidence[name]]
    /\ \A name \in Names : FileInv(name, evidence[name])

\* The comparator's answer is one about the files as they still are: no run
\* comes between the two.
AnswerInv(c) ==
    /\ c.o \in HandOptions \cup {GateOptions}
    /\ c.baseline \in Names /\ c.candidate \in Names
    /\ c.code = Compare(c.o, evidence[c.baseline].doc, evidence[c.candidate].doc)
ComparisonInv ==
    /\ stage \in {"build", "engine", "standard", "graph"} => comparison = {}
    /\ comparison = {} \/ \E c : comparison = {c} /\ AnswerInv(c)

\* How far the evidence of this invocation has come: the document of a name,
\* if it can be read, and the comparison of a graph run against the first.
\* Nothing reads the first one before a second is compared against it.
Backed(name) ==
    /\ evidence[name].by = invocation
    /\ \A d \in evidence[name].doc : IsEvidence(name, d)
WithinBudgetOf(t, u) ==
    100 * (t.p99 - u.p99) <=
        GateOptions.max_regression_percent * u.p99
          + 10000 * GateOptions.absolute_tolerance_us
Within(k) ==
    \E first \in evidence[1].doc, d \in evidence[k].doc : InBudget(first, d)

Gathered(n) ==
    /\ Backed(standard)
    /\ \A k \in 1 .. repeats : k < n => Backed(k)
Compared(n) == \A k \in 2 .. repeats : k < n => Within(k)
Complete == Gathered(repeats + 1) /\ Compared(repeats + 1)

ProgressInv ==
    /\ stage = "graph" => Gathered(run)
    /\ stage = "compare" => Gathered(repeats + 1) /\ Compared(run)
    /\ stage \in {"missing-engine", "corrupt-engine", "wrong-fixed-shape", "pass"}
         => Complete
    /\ exit = {0} => Complete

GateInv ==
    ControlTypes /\ ControlInv /\ EvidenceInv /\ ComparisonInv /\ ProgressInv

-----------------------------------------------------------------------------
(* Samples and documents.                                                  *)

LEMMA SampleTypes ==
  ASSUME NEW name \in Names, NEW times \in Samples(name)
  PROVE  times \in Seq(Nat) /\ times # <<>>
<1>1. Names \subseteq -1 .. MaxRepeats
  BY RegressionGateAssumption DEF Names, standard, byHand
<1> QED  BY <1>1, RegressionGateAssumption

LEMMA HostSamples ==
  ASSUME NEW times \in Seq(Nat), times # <<>>
  PROVE  /\ HostTimes(times) \in Seq(Nat) /\ HostTimes(times) # <<>>
         /\ Len(HostTimes(times)) = Len(times)
         /\ DOMAIN HostTimes(times) = DOMAIN times
         /\ \A k \in DOMAIN times : HostTimes(times)[k] = times[k] + 1
<1> DEFINE n == Len(times)
<1>1. n \in Nat \ {0} /\ DOMAIN times = 1 .. n /\ \A k \in 1 .. n : times[k] + 1 \in Nat
  OBVIOUS
<1>2. HostTimes(times) = [k \in 1 .. n |-> times[k] + 1]
  BY <1>1 DEF HostTimes
<1> HIDE DEF n
<1>3. HostTimes(times) \in Seq(Nat) /\ Len(HostTimes(times)) = n
  BY <1>1, <1>2
<1>4. HostTimes(times) # <<>>
  BY <1>1, <1>3
<1> QED  BY <1>1, <1>2, <1>3, <1>4 DEF n

\* What format_metrics_json writes of a run.
Formatted(doc, o, backend, times, v) ==
    /\ DocumentOf(doc, times)
    /\ doc.backend = backend /\ doc.fallback_used = FALSE
    /\ doc.cuda_graph = o.use_cuda_graph
    /\ doc.validation = {[compared_elements |-> o.input_size, passed |-> x] : x \in v}
    /\ doc.device_compute = IF backend = "mock" THEN {} ELSE {Summarize(times)}

LEMMA FormattedDocument ==
  ASSUME NEW o, NEW backend \in {"mock", "tensorrt"}, NEW times, NEW d \in Devices(backend), NEW v
  PROVE  Formatted(FormatMetrics(o, FALSE, backend, Stats(o, backend, times, d, v)),
                   o, backend, times, v)
<1> DEFINE stats == Stats(o, backend, times, d, v)
           doc == FormatMetrics(o, FALSE, backend, stats)
           checks == {[compared_elements |-> o.input_size, passed |-> x] : x \in v}
<1>1. /\ stats.end_to_end = Summarize(HostTimes(times))
      /\ stats.device_compute = IF backend = "mock" THEN {} ELSE {Summarize(times)}
      /\ stats.validation = checks
      /\ stats.cuda_graph = o.use_cuda_graph /\ stats.device = d /\ stats.backend = backend
  BY DEF Stats, HostTimes
<1> HIDE DEF stats
<1>2. /\ doc.end_to_end = stats.end_to_end /\ doc.device_compute = stats.device_compute
      /\ doc.cuda_graph = stats.cuda_graph /\ doc.device = stats.device
      /\ doc.backend = stats.backend /\ doc.fallback_used = FALSE
      /\ doc.validation = {[compared_elements |-> x.compared_elements,
                            passed |-> x.passed] : x \in stats.validation}
  BY DEF FormatMetrics
<1> HIDE DEF doc
<1>3. doc.validation = checks
  <2>1. doc.validation = {[compared_elements |-> x.compared_elements,
                           passed |-> x.passed] : x \in checks}
    BY <1>1, <1>2
  <2>2. \A x \in checks : [compared_elements |-> x.compared_elements, passed |-> x.passed] = x
    OBVIOUS
  <2> HIDE DEF checks
  <2> QED  BY <2>1, <2>2
<1>4. AtMostOne(d)
  BY DEF Devices, AtMostOne
<1>5. DocumentOf(doc, times)
  BY <1>1, <1>2, <1>4 DEF DocumentOf
<1>6. Formatted(doc, o, backend, times, v)
  BY <1>1, <1>2, <1>3, <1>5 DEF Formatted
<1> QED  BY <1>6 DEF doc, stats

-----------------------------------------------------------------------------
(* The comparator.                                                         *)

LEMMA Parsed ==
  ASSUME NEW file, NEW scope, NEW metric, NEW p \in ParseMetrics(file, scope, metric)
  PROVE  \E doc \in file : \E d \in ScopeDistribution(doc, scope), device \in doc.device :
           /\ p.latency_us = d[metric]
           /\ p.backend = doc.backend /\ p.device = device
           /\ p.input_size = doc.input_size /\ p.batch_size = doc.batch_size
           /\ p.cuda_graph = doc.cuda_graph
<1>1. PICK doc \in file :
        p \in {[latency_us |-> d[metric],
                backend |-> doc.backend,
                device |-> device,
                input_size |-> doc.input_size,
                batch_size |-> doc.batch_size,
                cuda_graph |-> doc.cuda_graph] :
                  d \in ScopeDistribution(doc, scope), device \in doc.device}
  BY DEF ParseMetrics
<1>2. PICK d \in ScopeDistribution(doc, scope), device \in doc.device :
        p = [latency_us |-> d[metric],
             backend |-> doc.backend,
             device |-> device,
             input_size |-> doc.input_size,
             batch_size |-> doc.batch_size,
             cuda_graph |-> doc.cuda_graph]
  BY <1>1
<1>3. /\ p.latency_us = d[metric]
      /\ p.backend = doc.backend /\ p.device = device
      /\ p.input_size = doc.input_size /\ p.batch_size = doc.batch_size
      /\ p.cuda_graph = doc.cuda_graph
  BY <1>2
<1> QED  BY <1>3

Comparable(o, b, c) == o.allow_context_change \/ ContextDifferences(b, c) = {}
AnswerOf(o, b, c) ==
    IF ~Comparable(o, b, c) THEN 4 ELSE IF WithinBudget(b, c, o) THEN 0 ELSE 1

\* An answer is about two documents that could be read.
LEMMA Answered ==
  ASSUME NEW o \in HandOptions \cup {GateOptions}, NEW baseline, NEW candidate
  PROVE  /\ Compare(o, baseline, candidate) \in 0 .. 6
         /\ Compare(o, baseline, candidate) = 1 => o.args = "ok"
         /\ o.args = "ok" /\ Compare(o, baseline, candidate) # 2 =>
              \E b \in ParseMetrics(baseline, o.scope, o.metric),
                 c \in ParseMetrics(candidate, o.scope, o.metric) :
                   Compare(o, baseline, candidate) = AnswerOf(o, b, c)
<1> DEFINE B == ParseMetrics(baseline, o.scope, o.metric)
           C == ParseMetrics(candidate, o.scope, o.metric)
           Answers(x) == \E b \in B, c \in C :
                            x = IF ~(o.allow_context_change \/ ContextDifferences(b, c) = {}) THEN 4
                                ELSE IF WithinBudget(b, c, o) THEN 0 ELSE 1
           r == Compare(o, baseline, candidate)
<1>1. o.args \in {"ok", "help", "self-test", "bad"}
  BY RegressionGateAssumption
<1>2. CASE o.args \in {"help", "self-test"}
  <2>1. r = 0
    BY <1>2 DEF Compare
  <2> HIDE DEF r
  <2> QED  BY <1>2, <2>1 DEF r
<1>3. CASE o.args = "bad"
  <2>1. r = 2
    BY <1>3 DEF Compare
  <2> HIDE DEF r
  <2> QED  BY <1>3, <2>1 DEF r
<1>4. CASE o.args = "ok" /\ (B = {} \/ C = {})
  <2>1. r = 2
    BY <1>4 DEF Compare
  <2> HIDE DEF r
  <2> QED  BY <1>4, <2>1 DEF r
<1>5. CASE o.args = "ok" /\ B # {} /\ C # {}
  <2>1. r = CHOOSE x \in {0, 1, 4} : Answers(x)
    BY <1>5 DEF Compare
  <2>2. \E x \in {0, 1, 4} : Answers(x)
    <3>1. PICK b \in B, c \in C : TRUE
      BY <1>5
    <3>2. AnswerOf(o, b, c) \in {0, 1, 4}
      BY DEF AnswerOf
    <3>3. Answers(AnswerOf(o, b, c))
      BY <3>1 DEF AnswerOf, Comparable
    <3> HIDE DEF Answers
    <3> QED  BY <3>2, <3>3
  <2>3. r \in {0, 1, 4} /\ Answers(r)
    <3> HIDE DEF r, Answers
    <3> QED  BY <2>1, <2>2
  <2>4. \E b \in B, c \in C : r = AnswerOf(o, b, c)
    <3> HIDE DEF r, B, C
    <3> QED  BY <2>3 DEF AnswerOf, Comparable
  <2> HIDE DEF r, B, C, Answers
  <2>5. r \in 0 .. 6
    BY <2>3
  <2> QED  BY <1>5, <2>4, <2>5 DEF r, B, C
<1> QED  BY <1>1, <1>2, <1>3, <1>4, <1>5

LEMMA SameContext ==
  ASSUME NEW b, NEW c, ContextDifferences(b, c) = {}
  PROVE  /\ b.backend = c.backend /\ b.device = c.device
         /\ b.input_size = c.input_size /\ b.cuda_graph = c.cuda_graph
<1>1. \A f \in ContextFields : b[f] = c[f]
  BY DEF ContextDifferences
<1> QED  BY <1>1 DEF ContextFields

\* Code 0 of the script's own comparison is the budget on the device's p99.
LEMMA GateAnswer ==
  ASSUME NEW baseline, NEW candidate, Compare(GateOptions, baseline, candidate) = 0,
         \A first \in baseline : \A u \in first.device_compute : u.p99 \in Nat,
         \A d \in candidate : \A t \in d.device_compute : t.p99 \in Nat
  PROVE  \E first \in baseline, d \in candidate : InBudget(first, d)
<1>1. PICK b \in ParseMetrics(baseline, "device", "p99"),
           c \in ParseMetrics(candidate, "device", "p99") :
             0 = AnswerOf(GateOptions, b, c)
  BY Answered, GateOptionsAssumption
<1>2. PICK first \in baseline :
        \E u \in ScopeDistribution(first, "device"), device \in first.device : b.latency_us = u["p99"]
  BY Parsed
<1>3. PICK u \in first.device_compute : b.latency_us = u.p99
  BY <1>2 DEF ScopeDistribution
<1>4. PICK d \in candidate :
        \E t \in ScopeDistribution(d, "device"), device \in d.device : c.latency_us = t["p99"]
  BY Parsed
<1>5. PICK t \in d.device_compute : c.latency_us = t.p99
  BY <1>4 DEF ScopeDistribution
<1>6. WithinBudget(b, c, GateOptions)
  BY <1>1 DEF AnswerOf
<1>7. /\ t.p99 \in Nat /\ u.p99 \in Nat
      /\ GateOptions.max_regression_percent \in Nat
      /\ GateOptions.absolute_tolerance_us \in Nat
  BY <1>3, <1>5, RegressionGateAssumption
<1> DEFINE x == t.p99
           y == u.p99
           m == GateOptions.max_regression_percent
           a == GateOptions.absolute_tolerance_us
<1>8. 100 * x <= y * (100 + m) + 10000 * a
  BY <1>3, <1>5, <1>6 DEF WithinBudget
<1>9. x \in Nat /\ y \in Nat /\ m \in Nat /\ a \in Nat
  BY <1>7
<1> HIDE DEF x, y, m, a
<1>10. y * (100 + m) = 100 * y + m * y /\ m * y \in Nat
  BY <1>9
<1>11. 100 * (x - y) <= m * y + 10000 * a
  BY <1>8, <1>9, <1>10
<1>12. WithinBudgetOf(t, u)
  BY <1>11 DEF WithinBudgetOf, x, y, m, a
<1>13. InBudget(first, d)
  BY <1>3, <1>5, <1>12 DEF InBudget, WithinBudgetOf
<1> QED  BY <1>13

-----------------------------------------------------------------------------
(* Percentiles by their definition.                                        *)

LEMMA PercentileSplits ==
  ASSUME NEW values \in Seq(Nat), values # <<>>, NEW p \in 0 .. 100
  PROVE  Splits(values, p, Percentile(Sorted(values), p))
<1> DEFINE n == Len(values)
           s == Sorted(values)
           q == p * (n - 1)
           v == Interpolated(s, q)
           a == s[Lower(q) + 1]
           b == s[Upper(q) + 1]
<1>1. /\ s \in Seq(Nat) /\ s # <<>> /\ Len(s) = n /\ Ordered(s)
      /\ n \in Nat \ {0} /\ DOMAIN s = 1 .. n /\ DOMAIN values = 1 .. n
      /\ \A k \in 1 .. n : values[k] \in Nat
  BY SortedFacts
<1>2. q \in Nat /\ q <= 100 * (n - 1)
  <2>1. p * (Len(s) - 1) \in Nat /\ p * (Len(s) - 1) <= 100 * (Len(s) - 1)
    <3> HIDE DEF s
    <3> QED  BY <1>1, PercentileOf
  <2> QED  BY <1>1, <2>1
<1> HIDE DEF q
<1>3. /\ Lower(q) \in Nat /\ Upper(q) \in Nat /\ Upper(q) = (q + 99) \div 100
      /\ Lower(q) + 1 \in 1 .. n /\ Upper(q) + 1 \in 1 .. n
  <2> HIDE DEF n
  <2> QED  BY <1>1, <1>2, Neighbours, ZenonT(60)
<1>4. v \in Nat /\ 100 * a <= v /\ v <= 100 * b
  <2> HIDE DEF s
  <2> QED  BY <1>1, <1>2, InterpolatedBetween
<1>5. a \in Nat /\ b \in Nat
  BY <1>1, <1>3, SMTT(30)
<1>6. Lower(q) + 1 <= UpTo(values, a)
  BY <1>1, <1>3, SortedPosition
<1>7. Below(values, b) < Upper(q) + 1
  BY <1>1, <1>3, SortedPosition
<1>8. Percentile(s, p) = v
  BY <1>1 DEF Percentile, q
<1> HIDE DEF s, v, a, b, n
<1>9. AtMost(values, v) > Lower(q)
  <2> DEFINE A == {k \in DOMAIN values : values[k] <= a}
             B == {k \in DOMAIN values : 100 * values[k] <= v}
  <2>1. A \subseteq B /\ B \subseteq 1 .. n
    <3>1. \A x \in Nat : x <= a => 100 * x <= v
      BY <1>4, <1>5
    <3> QED  BY <1>1, <3>1
  <2>2. UpTo(values, a) = Cardinality(A) /\ AtMost(values, v) = Cardinality(B)
    BY DEF UpTo, AtMost
  <2> HIDE DEF A, B
  <2>3. /\ Cardinality(A) \in Nat /\ Cardinality(B) \in Nat
        /\ Cardinality(A) <= Cardinality(B)
    BY <1>1, <2>1, CountsOfPositions
  <2> QED  BY <1>3, <1>6, <2>2, <2>3
<1>10. AtLeast(values, v) >= n - Upper(q)
  <2> DEFINE A == {k \in DOMAIN values : values[k] < b}
             B == {k \in DOMAIN values : ~(values[k] < b)}
             C == {k \in DOMAIN values : 100 * values[k] >= v}
  <2>1. A \cap B = {} /\ A \cup B = 1 .. n /\ A \subseteq 1 .. n
    BY <1>1
  <2>2. B \subseteq C /\ C \subseteq 1 .. n
    <3>1. \A x \in Nat : ~(x < b) => 100 * x >= v
      BY <1>4, <1>5
    <3> QED  BY <1>1, <3>1
  <2>3. Below(values, b) = Cardinality(A) /\ AtLeast(values, v) = Cardinality(C)
    BY DEF Below, AtLeast
  <2> HIDE DEF A, B, C
  <2>4. Cardinality(A) + Cardinality(B) = n
    BY <1>1, <2>1, CountsAddUp
  <2>5. /\ Cardinality(B) \in Nat /\ Cardinality(C) \in Nat
        /\ Cardinality(B) <= Cardinality(C)
    BY <1>1, <2>2, CountsOfPositions
  <2>6. Cardinality(A) \in Nat
    BY <1>1, <2>1, CountsOfPositions
  <2> QED  BY <1>1, <1>3, <1>7, <2>3, <2>4, <2>5, <2>6, SMTT(30)
<1>11. Splits(values, p, v)
  <2>1. p * (Len(values) - 1) = q /\ Len(values) = n
    BY DEF q, n
  <2>2. Lower(q) = q \div 100
    BY DEF Lower
  <2> QED  BY <1>3, <1>9, <1>10, <2>1, <2>2 DEF Splits
<1> QED  BY <1>8, <1>11 DEF s

-----------------------------------------------------------------------------
(* Times that are no longer.                                               *)

LEMMA Exceeded ==
  ASSUME NEW times \in Seq(Nat), NEW v \in Nat
  PROVE  Exceeding(times, v - 1) = Len(times) - Below(times, v)
<1> DEFINE n == Len(times)
           A == {k \in DOMAIN times : times[k] > v - 1}
           B == {k \in DOMAIN times : times[k] < v}
<1>1. n \in Nat /\ DOMAIN times = 1 .. n /\ \A k \in 1 .. n : times[k] \in Nat
  OBVIOUS
<1>2. A \cap B = {} /\ A \cup B = 1 .. n /\ B \subseteq 1 .. n /\ A \subseteq 1 .. n
  BY <1>1
<1>3. Exceeding(times, v - 1) = Cardinality(A) /\ Below(times, v) = Cardinality(B)
  BY DEF Exceeding, Below
<1> HIDE DEF A, B, n
<1>4. Cardinality(A) + Cardinality(B) = n
  BY <1>1, <1>2, CountsAddUp
<1>5. Cardinality(A) \in Nat /\ Cardinality(B) \in Nat
  BY <1>1, <1>2, CountsOfPositions
<1>6. Exceeding(times, v - 1) = n - Below(times, v)
  BY <1>1, <1>3, <1>4, <1>5
<1> QED  BY <1>6 DEF n

NoLonger(d, b) ==
    \A k \in DOMAIN d : ~(Exceeding(d, d[k] - 1) > Exceeding(b, d[k] - 1))

LEMMA NoLongerCounts ==
  ASSUME NEW d \in Seq(Nat), NEW b \in Seq(Nat), Len(d) = Len(b), NoLonger(d, b),
         NEW k \in DOMAIN d
  PROVE  Below(b, d[k]) <= Below(d, d[k])
<1>1. d[k] \in Nat /\ Len(d) \in Nat
  OBVIOUS
<1>2. /\ Exceeding(d, d[k] - 1) = Len(d) - Below(d, d[k])
      /\ Exceeding(b, d[k] - 1) = Len(d) - Below(b, d[k])
  BY <1>1, Exceeded
<1>3. Below(d, d[k]) \in Nat /\ Below(b, d[k]) \in Nat
  BY Counts
<1>4. ~(Exceeding(d, d[k] - 1) > Exceeding(b, d[k] - 1))
  BY DEF NoLonger
<1> QED  BY <1>1, <1>2, <1>3, <1>4

LEMMA HostCounts ==
  ASSUME NEW times \in Seq(Nat), times # <<>>, NEW v \in Nat
  PROVE  Below(HostTimes(times), v + 1) = Below(times, v)
<1>1. \A k \in DOMAIN times : times[k] \in Nat
  OBVIOUS
<1>2. /\ DOMAIN HostTimes(times) = DOMAIN times
      /\ \A k \in DOMAIN times : HostTimes(times)[k] = times[k] + 1
  BY HostSamples
<1>3. {k \in DOMAIN HostTimes(times) : HostTimes(times)[k] < v + 1}
        = {k \in DOMAIN times : times[k] < v}
  BY <1>1, <1>2
<1> QED  BY <1>3 DEF Below

\* Neither statistic of such times is greater.
LEMMA NoLongerStatistics ==
  ASSUME NEW d \in Seq(Nat), NEW b \in Seq(Nat), d # <<>>, Len(d) = Len(b), NoLonger(d, b),
         NEW metric \in Statistics
  PROVE  /\ Summarize(d)[metric] <= Summarize(b)[metric]
         /\ Summarize(HostTimes(d))[metric] <= Summarize(HostTimes(b))[metric]
<1>1. Summarize(d)[metric] <= Summarize(b)[metric]
  <2>1. \A j \in DOMAIN d : Sorted(d)[j] <= Sorted(b)[j]
    <3>1. \A k \in DOMAIN d : Below(b, d[k]) <= Below(d, d[k])
      BY NoLongerCounts
    <3> QED  BY <3>1, SortedOfSmaller
  <2> QED  BY <2>1, SummaryOfSmaller
<1>2. Summarize(HostTimes(d))[metric] <= Summarize(HostTimes(b))[metric]
  <2> DEFINE x == HostTimes(d)
             y == HostTimes(b)
  <2>1. b # <<>>
    OBVIOUS
  <2>2. /\ x \in Seq(Nat) /\ x # <<>> /\ y \in Seq(Nat) /\ Len(x) = Len(y)
        /\ DOMAIN x = DOMAIN d /\ \A k \in DOMAIN d : x[k] = d[k] + 1
    BY <2>1, HostSamples
  <2>3. \A k \in DOMAIN x : Below(y, x[k]) <= Below(x, x[k])
    <3> SUFFICES ASSUME NEW k \in DOMAIN x PROVE Below(y, x[k]) <= Below(x, x[k])
      OBVIOUS
    <3>1. k \in DOMAIN d /\ d[k] \in Nat /\ x[k] = d[k] + 1
      BY <2>2
    <3>2. Below(b, d[k]) <= Below(d, d[k])
      BY <3>1, NoLongerCounts
    <3>3. Below(x, d[k] + 1) = Below(d, d[k]) /\ Below(y, d[k] + 1) = Below(b, d[k])
      BY <2>1, <3>1, HostCounts
    <3> HIDE DEF x, y
    <3> QED  BY <3>1, <3>2, <3>3
  <2> HIDE DEF x, y
  <2>4. \A j \in DOMAIN x : Sorted(x)[j] <= Sorted(y)[j]
    BY <2>2, <2>3, SortedOfSmaller
  <2>5. Summarize(x)[metric] <= Summarize(y)[metric]
    BY <2>2, <2>4, SummaryOfSmaller
  <2> QED  BY <2>5 DEF x, y
<1> QED  BY <1>1, <1>2

-----------------------------------------------------------------------------
(* What the invariant says.                                                *)

\* A document and the samples it was made of.
LEMMA Evidence ==
  ASSUME EvidenceInv, NEW name \in Names, NEW d \in evidence[name].doc
  PROVE  /\ evidence[name].doc = {d}
         /\ evidence[name].times \in Samples(name)
         /\ DocumentOf(d, evidence[name].times)
         /\ evidence[name].times \in Seq(Nat) /\ evidence[name].times # <<>>
<1>1. PICK doc : /\ evidence[name].doc = {doc}
                 /\ evidence[name].times \in Samples(name)
                 /\ DocumentOf(doc, evidence[name].times)
  BY DEF EvidenceInv, FileInv
<1>2. d = doc
  BY <1>1
<1> QED  BY <1>1, <1>2, SampleTypes

LEMMA TypesHold ==
  ASSUME GateInv
  PROVE  TypeOK
<1>1. ControlTypes /\ ControlInv
  BY DEF GateInv
<1>2. ASSUME NEW name \in Names
      PROVE  /\ Cardinality(evidence[name].doc) <= 1
             /\ evidence[name].by \in 0 .. invocation
             /\ evidence[name].doc # {} => evidence[name].times \in Samples(name)
  <2>1. FileInv(name, evidence[name])
    BY DEF GateInv, EvidenceInv
  <2>2. AtMostOne(evidence[name].doc)
    BY <2>1 DEF FileInv, AtMostOne
  <2>3. Cardinality(evidence[name].doc) <= 1
    BY <2>2, AtMostOneIsCounted
  <2> QED  BY <2>1, <2>3 DEF FileInv
<1>3. Cardinality(comparison) <= 1
  <2>1. AtMostOne(comparison)
    BY DEF GateInv, ComparisonInv, AtMostOne
  <2> QED  BY <2>1, AtMostOneIsCounted
<1> QED  BY <1>1, <1>2, <1>3 DEF TypeOK, ControlTypes, ControlInv

\* The first run needs no comparison, once its document was read.
LEMMA FirstWithin ==
  ASSUME EvidenceInv, 1 \in Names,
         NEW d \in evidence[1].doc, NEW t \in d.device_compute
  PROVE  Within(1)
<1>1. d.device_compute = IF d.backend = "mock" THEN {} ELSE {Summarize(evidence[1].times)}
  BY Evidence DEF DocumentOf
<1>2. t = Summarize(evidence[1].times)
  BY <1>1
<1>3. evidence[1].times \in Seq(Nat) /\ evidence[1].times # <<>>
  BY Evidence
<1>4. t.p99 \in Nat
  BY <1>2, <1>3, SummaryInOrder
<1> DEFINE m == GateOptions.max_regression_percent
           a == GateOptions.absolute_tolerance_us
           y == t.p99
<1>5. m \in Nat /\ a \in Nat /\ y \in Nat
  BY <1>4, RegressionGateAssumption
<1> HIDE DEF m, a, y
<1>6. m * y \in Nat
  BY <1>5
<1>7. 100 * (y - y) <= m * y + 10000 * a
  BY <1>5, <1>6
<1>8. InBudget(d, d)
  BY <1>7 DEF InBudget, m, a, y
<1> QED  BY <1>8 DEF Within

LEMMA PassHolds ==
  ASSUME GateInv
  PROVE  PassIsBackedByEvidence
<1> SUFFICES ASSUME exit = {0}
             PROVE  /\ \A name \in {standard} \cup (1 .. repeats) : Backed(name)
                    /\ repeats > 1 => \A k \in 1 .. repeats : Within(k)
  BY DEF PassIsBackedByEvidence, Backed, Within
<1>1. Complete /\ EvidenceInv /\ repeats \in Nat /\ repeats <= MaxRepeats
  BY RegressionGateAssumption DEF GateInv, ProgressInv, ControlTypes
<1>2. \A k \in 1 .. repeats : k < repeats + 1 /\ k \in Names
  BY <1>1, RegressionGateAssumption DEF Names
<1>3. \A name \in {standard} \cup (1 .. repeats) : Backed(name)
  BY <1>1, <1>2 DEF Complete, Gathered
<1>4. ASSUME repeats > 1, NEW k \in 1 .. repeats
      PROVE  Within(k)
  <2>1. \A j \in 2 .. repeats : Within(j)
    BY <1>1 DEF Complete, Compared
  <2>2. 2 \in 2 .. repeats /\ 1 \in 1 .. repeats /\ (k = 1 \/ k \in 2 .. repeats)
    BY <1>1, <1>4
  <2>3. PICK first \in evidence[1].doc, d \in evidence[2].doc : InBudget(first, d)
    BY <2>1, <2>2 DEF Within
  <2>4. PICK u \in first.device_compute : TRUE
    BY <2>3 DEF InBudget
  <2>5. Within(1)
    BY <1>1, <1>2, <2>2, <2>4, FirstWithin
  <2> QED  BY <2>1, <2>2, <2>5
<1> QED  BY <1>3, <1>4

\* What the comparator reads in a document d of samples.
Reads(p, d, times, scope, metric) ==
    /\ p.backend = d.backend /\ p.device \in d.device
    /\ p.input_size = d.input_size /\ p.cuda_graph = d.cuda_graph
    /\ scope = "device" => d.backend # "mock"
    /\ p.latency_us = IF scope = "e2e" THEN Summarize(HostTimes(times))[metric]
                      ELSE Summarize(times)[metric]

LEMMA Distribution ==
  ASSUME EvidenceInv, NEW name \in Names, NEW scope, scope = "e2e" \/ scope = "device", NEW metric,
         NEW p \in ParseMetrics(evidence[name].doc, scope, metric)
  PROVE  \E d \in evidence[name].doc : Reads(p, d, evidence[name].times, scope, metric)
<1>1. PICK d \in evidence[name].doc :
        \E t \in ScopeDistribution(d, scope), device \in d.device :
           /\ p.latency_us = t[metric]
           /\ p.backend = d.backend /\ p.device = device
           /\ p.input_size = d.input_size /\ p.batch_size = d.batch_size
           /\ p.cuda_graph = d.cuda_graph
  BY Parsed
<1>2. PICK t \in ScopeDistribution(d, scope) :
           /\ p.latency_us = t[metric]
           /\ p.backend = d.backend /\ p.device \in d.device
           /\ p.input_size = d.input_size /\ p.cuda_graph = d.cuda_graph
  BY <1>1
<1>3. DocumentOf(d, evidence[name].times)
  BY Evidence
<1>4. CASE scope = "e2e"
  <2>1. t = Summarize(HostTimes(evidence[name].times))
    BY <1>2, <1>3, <1>4 DEF ScopeDistribution, DocumentOf
  <2>2. p.latency_us = Summarize(HostTimes(evidence[name].times))[metric]
    BY <1>2, <2>1
  <2> QED  BY <1>2, <1>4, <2>2 DEF Reads
<1>5. CASE scope = "device"
  <2>1. d.backend # "mock" /\ t = Summarize(evidence[name].times)
    BY <1>2, <1>3, <1>5 DEF ScopeDistribution, DocumentOf
  <2>2. p.latency_us = Summarize(evidence[name].times)[metric]
    BY <1>2, <2>1
  <2> QED  BY <1>2, <1>5, <2>1, <2>2 DEF Reads
<1> QED  BY <1>4, <1>5

LEMMA LikeRunsHold ==
  ASSUME GateInv
  PROVE  AnswersAreAboutLikeRuns
<1> SUFFICES ASSUME NEW c \in comparison, c.o.args = "ok", c.code \in {0, 1},
                    ~c.o.allow_context_change
             PROVE  \E b \in evidence[c.baseline].doc, d \in evidence[c.candidate].doc :
                      /\ b.backend = d.backend /\ b.device = d.device
                      /\ b.input_size = d.input_size
                      /\ b.cuda_graph = d.cuda_graph
  BY DEF AnswersAreAboutLikeRuns
<1>1. AnswerInv(c) /\ EvidenceInv
  BY DEF GateInv, ComparisonInv
<1>2. c.o \in HandOptions \cup {GateOptions} /\ c.baseline \in Names /\ c.candidate \in Names
  BY <1>1 DEF AnswerInv
<1>3. c.o.scope = "e2e" \/ c.o.scope = "device"
  BY <1>2, RegressionGateAssumption
<1>4. PICK p \in ParseMetrics(evidence[c.baseline].doc, c.o.scope, c.o.metric),
           q \in ParseMetrics(evidence[c.candidate].doc, c.o.scope, c.o.metric) :
             c.code = AnswerOf(c.o, p, q)
  BY <1>1, <1>2, Answered DEF AnswerInv
<1>5. ContextDifferences(p, q) = {}
  BY <1>4 DEF AnswerOf, Comparable
<1>6. PICK b \in evidence[c.baseline].doc :
        Reads(p, b, evidence[c.baseline].times, c.o.scope, c.o.metric)
  BY <1>1, <1>2, <1>3, Distribution
<1>7. PICK d \in evidence[c.candidate].doc :
        Reads(q, d, evidence[c.candidate].times, c.o.scope, c.o.metric)
  BY <1>1, <1>2, <1>3, Distribution
<1>8. /\ p.backend = q.backend /\ p.device = q.device
      /\ p.input_size = q.input_size /\ p.cuda_graph = q.cuda_graph
  BY <1>5, SameContext
<1>9. AtMostOne(b.device) /\ AtMostOne(d.device)
  BY <1>1, <1>2, Evidence DEF DocumentOf
<1>10. b.device = d.device
  BY <1>6, <1>7, <1>8, <1>9 DEF AtMostOne, Reads
<1> QED  BY <1>6, <1>7, <1>8, <1>10 DEF Reads

LEMMA MockHolds ==
  ASSUME GateInv
  PROVE  MockHasNoDeviceVerdict
<1> SUFFICES ASSUME NEW c \in comparison, c.o.args = "ok", c.o.scope = "device", c.code # 2,
                    NEW name \in {c.baseline, c.candidate}, NEW x \in evidence[name].doc
             PROVE  x.backend # "mock"
  BY DEF MockHasNoDeviceVerdict
<1>1. AnswerInv(c) /\ EvidenceInv
  BY DEF GateInv, ComparisonInv
<1>2. /\ c.o \in HandOptions \cup {GateOptions}
      /\ c.baseline \in Names /\ c.candidate \in Names /\ name \in Names
  BY <1>1 DEF AnswerInv
<1>3. PICK p : p \in ParseMetrics(evidence[name].doc, "device", c.o.metric)
  BY <1>1, <1>2, Answered DEF AnswerInv
<1>4. PICK d \in evidence[name].doc :
        Reads(p, d, evidence[name].times, "device", c.o.metric)
  BY <1>1, <1>2, <1>3, Distribution
<1>5. x = d
  BY <1>1, <1>2, Evidence
<1> QED  BY <1>4, <1>5 DEF Reads

LEMMA FasterHolds ==
  ASSUME GateInv
  PROVE  FasterIsNoRegression
<1> SUFFICES ASSUME NEW c \in comparison, c.code = 1,
                    Len(evidence[c.baseline].times) = Len(evidence[c.candidate].times),
                    NoLonger(evidence[c.candidate].times, evidence[c.baseline].times)
             PROVE  FALSE
  BY DEF FasterIsNoRegression, NoLonger
<1> DEFINE b == evidence[c.baseline].times
           d == evidence[c.candidate].times
<1>1. AnswerInv(c) /\ EvidenceInv
  BY DEF GateInv, ComparisonInv
<1>2. c.o \in HandOptions \cup {GateOptions} /\ c.baseline \in Names /\ c.candidate \in Names
  BY <1>1 DEF AnswerInv
<1>3. /\ c.o.scope = "e2e" \/ c.o.scope = "device"
      /\ c.o.metric \in Statistics
      /\ c.o.max_regression_percent \in Nat /\ c.o.absolute_tolerance_us \in Nat
  BY <1>2, RegressionGateAssumption DEF Statistics
<1>4. PICK p \in ParseMetrics(evidence[c.baseline].doc, c.o.scope, c.o.metric),
           q \in ParseMetrics(evidence[c.candidate].doc, c.o.scope, c.o.metric) :
             1 = AnswerOf(c.o, p, q)
  BY <1>1, <1>2, Answered DEF AnswerInv
<1>5. ~WithinBudget(p, q, c.o)
  BY <1>4 DEF AnswerOf
<1>6. PICK x \in evidence[c.baseline].doc : Reads(p, x, b, c.o.scope, c.o.metric)
  BY <1>1, <1>2, <1>3, Distribution
<1>7. PICK y \in evidence[c.candidate].doc : Reads(q, y, d, c.o.scope, c.o.metric)
  BY <1>1, <1>2, <1>3, Distribution
<1>8. b \in Seq(Nat) /\ d \in Seq(Nat) /\ b # <<>> /\ d # <<>> /\ Len(d) = Len(b) /\ NoLonger(d, b)
  BY <1>1, <1>2, <1>6, <1>7, Evidence
<1> HIDE DEF b, d
<1>9. q.latency_us <= p.latency_us
  BY <1>3, <1>6, <1>7, <1>8, NoLongerStatistics DEF Reads
<1>10. \A times \in Seq(Nat) : times # <<>> =>
         Summarize(times)[c.o.metric] \in Nat
  BY <1>3, SummaryInOrder DEF Statistics
<1>11. p.latency_us \in Nat /\ q.latency_us \in Nat
  BY <1>6, <1>7, <1>8, <1>10, HostSamples DEF Reads
<1> DEFINE u == p.latency_us
           v == q.latency_us
           m == c.o.max_regression_percent
           a == c.o.absolute_tolerance_us
<1>12. u \in Nat /\ v \in Nat /\ m \in Nat /\ a \in Nat /\ v <= u
  BY <1>3, <1>9, <1>11
<1>13. ~(100 * v <= u * (100 + m) + 10000 * a)
  BY <1>5 DEF WithinBudget
<1> HIDE DEF u, v, m, a
<1>14. u * (100 + m) = 100 * u + u * m /\ u * m \in Nat
  BY <1>12
<1> QED  BY <1>12, <1>13, <1>14, SMTT(60)

LEMMA PercentilesHold ==
  ASSUME GateInv
  PROVE  PercentilesSplitSamples
<1> SUFFICES ASSUME NEW name \in Names, NEW d \in evidence[name].doc, NEW t \in d.device_compute
             PROVE  LET times == evidence[name].times
                    IN /\ Splits(times, 50, t.p50) /\ Splits(times, 90, t.p90)
                       /\ Splits(times, 95, t.p95) /\ Splits(times, 99, t.p99)
                       /\ t.min <= t.p50 /\ t.p50 <= t.p90 /\ t.p90 <= t.p95
                       /\ t.p95 <= t.p99 /\ t.p99 <= t.max
                       /\ t.min <= t.mean /\ t.mean <= t.max
  BY DEF PercentilesSplitSamples
<1> DEFINE times == evidence[name].times
<1>1. /\ DocumentOf(d, times) /\ times \in Seq(Nat) /\ times # <<>>
  BY Evidence DEF GateInv
<1>2. t = Summarize(times)
  BY <1>1 DEF DocumentOf
<1> HIDE DEF times
<1>3. /\ t.p50 = Percentile(Sorted(times), 50) /\ t.p90 = Percentile(Sorted(times), 90)
      /\ t.p95 = Percentile(Sorted(times), 95) /\ t.p99 = Percentile(Sorted(times), 99)
  BY <1>1, <1>2, SummaryFields
<1>4. 50 \in 0 .. 100 /\ 90 \in 0 .. 100 /\ 95 \in 0 .. 100 /\ 99 \in 0 .. 100
  OBVIOUS
<1>5. /\ Splits(times, 50, t.p50) /\ Splits(times, 90, t.p90)
      /\ Splits(times, 95, t.p95) /\ Splits(times, 99, t.p99)
  BY <1>1, <1>3, <1>4, PercentileSplits
<1>6. /\ t.min <= t.p50 /\ t.p50 <= t.p90 /\ t.p90 <= t.p95
      /\ t.p95 <= t.p99 /\ t.p99 <= t.max
      /\ t.min <= t.mean /\ t.mean <= t.max
  BY <1>1, <1>2, SummaryInOrder
<1> QED  BY <1>5, <1>6 DEF times

-----------------------------------------------------------------------------
(* Steps that leave the documents alone.                                   *)

LEMMA Unrecorded ==
  ASSUME GateInv, UNCHANGED <<invocation, repeats, evidence>>
  PROVE  /\ EvidenceInv'
         /\ \A n : Gathered(n) => Gathered(n)'
         /\ \A n : Compared(n) => Compared(n)'
         /\ Complete => Complete'
         /\ \A c : AnswerInv(c) => AnswerInv(c)'
<1>1. EvidenceInv'
  BY DEF GateInv, EvidenceInv, FileInv
<1>2. ASSUME NEW n PROVE Gathered(n) => Gathered(n)'
  BY DEF Gathered, Backed
<1>3. ASSUME NEW n PROVE Compared(n) => Compared(n)'
  BY DEF Compared, Within
<1>4. Complete => Complete'
  <2>1. repeats' = repeats
    OBVIOUS
  <2>2. Gathered(repeats + 1) => Gathered(repeats + 1)'
    BY DEF Gathered, Backed
  <2>3. Compared(repeats + 1) => Compared(repeats + 1)'
    BY DEF Compared, Within
  <2> QED  BY <2>2, <2>3 DEF Complete
<1>5. ASSUME NEW c PROVE AnswerInv(c) => AnswerInv(c)'
  BY DEF AnswerInv
<1> QED  BY <1>1, <1>2, <1>3, <1>4, <1>5

\* The answer that was there, or none.
LEMMA AnswerKept ==
  ASSUME GateInv, UNCHANGED <<invocation, repeats, evidence>>,
         comparison' = comparison \/ comparison' = {},
         stage' \in {"build", "engine", "standard", "graph"} => comparison' = {}
  PROVE  ComparisonInv'
<1>1. \A c : AnswerInv(c) => AnswerInv(c)'
  BY Unrecorded
<1>2. comparison = {} \/ \E c : comparison = {c} /\ AnswerInv(c)
  BY DEF GateInv, ComparisonInv
<1>3. CASE comparison' = {}
  BY <1>3 DEF ComparisonInv
<1>4. CASE comparison' # {}
  <2>1. PICK c : comparison = {c} /\ AnswerInv(c)
    BY <1>2, <1>4
  <2>2. comparison' = {c} /\ AnswerInv(c)'
    BY <1>1, <1>4, <2>1
  <2> QED  BY <1>4, <2>2 DEF ComparisonInv
<1> QED  BY <1>3, <1>4

\* Where the script stops, the code is not that of a pass.
LEMMA Stopped ==
  ASSUME GateInv, stage # "idle", NEW code \in 1 .. 6, ScriptEnds(code),
         UNCHANGED <<invocation, repeats, evidence>>
  PROVE  /\ stage' \in Stages /\ exit' \in Maybe(0 .. 6)
         /\ (exit = {} <=> (stage # "idle" \/ invocation = 0))'
         /\ (stage # "idle" => invocation # 0)'
         /\ ProgressInv'
<1>1. stage' = "idle" /\ exit' = {code} /\ invocation' = invocation /\ invocation # 0
  BY DEF ScriptEnds, GateInv, ControlInv
<1>2. exit' # {} /\ exit' # {0} /\ code \in 0 .. 6
  <2>1. \A x : {x} # {} /\ ({x} = {0} => x = 0)
    OBVIOUS
  <2> QED  BY <1>1, <2>1
<1>3. exit' \in Maybe(0 .. 6)
  BY <1>1, <1>2 DEF Maybe
<1> QED  BY <1>1, <1>2, <1>3 DEF Stages, ProgressInv

-----------------------------------------------------------------------------
(* The builder.                                                            *)

BuilderRuns == builder \in {"arguments", "network", "open", "write"}

LEMMA BuilderStep ==
  ASSUME GateInv, BuilderRuns, UNCHANGED <<scriptVars, run, evidence, comparison>>,
         engine' \in {"absent", "empty", "partial", "whole"},
         \/ \E s \in {"network", "open", "write"} : BuilderGoto(s)
         \/ \E code \in {0, 1} : BuilderExits(code)
  PROVE  GateInv'
<1>1. /\ ControlTypes /\ ControlInv /\ stage \in {"idle", "build"}
      /\ UNCHANGED <<invocation, repeats, commands>>
  BY DEF GateInv, ControlInv, BuilderRuns, scriptVars
<1>2. \/ stage' = stage /\ exit' = exit
      \/ stage = "build" /\ stage' = "engine" /\ exit' = exit
      \/ stage = "build" /\ ScriptEnds(1)
  BY DEF BuilderGoto, BuilderExits, Running, ScriptEnds
<1>3. /\ builder' \in {"off", "network", "open", "write"}
      /\ argv' = argv \/ argv' = {}
      /\ builder' # "off" => stage' = stage
  BY DEF BuilderGoto, BuilderExits, Running
<1>4. EvidenceInv'
  BY <1>1, Unrecorded
<1>5. stage = "build" => comparison = {}
  BY DEF GateInv, ComparisonInv
<1>6. ComparisonInv'
  <2>1. stage' \in {"build", "engine", "standard", "graph"} => comparison' = {}
    BY <1>1, <1>2, <1>5 DEF ScriptEnds
  <2> QED  BY <1>1, <2>1, AnswerKept
<1>7. CASE /\ stage' = stage \/ (stage = "build" /\ stage' = "engine")
           /\ exit' = exit
  <2>1. ControlTypes'
    BY <1>1, <1>3, <1>7 DEF ControlTypes, Stages
  <2>2. ControlInv'
    BY <1>1, <1>3, <1>7 DEF ControlInv
  <2>3. ProgressInv'
    <3>1. exit' = {0} => Complete'
      BY <1>1, <1>7, Unrecorded DEF GateInv, ProgressInv
    <3>2. stage' \in {"idle", "build", "engine"}
      BY <1>1, <1>7
    <3> QED  BY <3>1, <3>2 DEF ProgressInv
  <2> QED  BY <1>4, <1>6, <2>1, <2>2, <2>3 DEF GateInv
<1>8. CASE stage = "build" /\ ScriptEnds(1)
  <2>1. 1 \in 1 .. 6 /\ stage # "idle"
    BY <1>8
  <2>2. /\ stage' \in Stages /\ exit' \in Maybe(0 .. 6)
        /\ (exit = {} <=> (stage # "idle" \/ invocation = 0))'
        /\ (stage # "idle" => invocation # 0)'
        /\ ProgressInv'
    BY <1>1, <1>8, <2>1, Stopped
  <2>3. ControlTypes'
    BY <1>1, <1>3, <2>2 DEF ControlTypes
  <2>4. ControlInv'
    BY <1>1, <1>3, <1>8, <2>2 DEF ControlInv, ScriptEnds
  <2> QED  BY <1>4, <1>6, <2>2, <2>3, <2>4 DEF GateInv
<1> QED  BY <1>2, <1>7, <1>8

LEMMA ParseBuilderArgumentsKeeps ==
  ASSUME GateInv, ParseBuilderArguments
  PROVE  GateInv'
<1>1. BuilderRuns /\ UNCHANGED <<scriptVars, run, evidence, comparison>>
  BY DEF ParseBuilderArguments, BuilderRuns
<1>2. engine' \in {"absent", "empty", "partial", "whole"}
  BY DEF ParseBuilderArguments, GateInv, ControlTypes
<1>3. BuilderExits(0) \/ BuilderExits(1) \/ BuilderGoto("network")
  BY DEF ParseBuilderArguments
<1> QED  BY <1>1, <1>2, <1>3, BuilderStep

LEMMA BuildNetworkKeeps ==
  ASSUME GateInv, BuildNetwork
  PROVE  GateInv'
<1>1. BuilderRuns /\ UNCHANGED <<scriptVars, run, evidence, comparison>>
  BY DEF BuildNetwork, BuilderRuns
<1>2. engine' \in {"absent", "empty", "partial", "whole"}
  BY DEF BuildNetwork, GateInv, ControlTypes
<1>3. BuilderExits(1) \/ BuilderGoto("open")
  BY DEF BuildNetwork
<1> QED  BY <1>1, <1>2, <1>3, BuilderStep

LEMMA OpenEngineOutputKeeps ==
  ASSUME GateInv, OpenEngineOutput
  PROVE  GateInv'
<1>1. BuilderRuns /\ UNCHANGED <<scriptVars, run, evidence, comparison>>
  BY DEF OpenEngineOutput, BuilderRuns
<1>2. engine' \in {"absent", "empty", "partial", "whole"}
  BY DEF OpenEngineOutput, GateInv, ControlTypes
<1>3. BuilderExits(1) \/ BuilderGoto("write")
  BY DEF OpenEngineOutput
<1> QED  BY <1>1, <1>2, <1>3, BuilderStep

LEMMA WriteEngineKeeps ==
  ASSUME GateInv, WriteEngine
  PROVE  GateInv'
<1>1. BuilderRuns /\ UNCHANGED <<scriptVars, run, evidence, comparison>>
  BY DEF WriteEngine, BuilderRuns
<1>2. engine' \in {"absent", "empty", "partial", "whole"}
  BY DEF WriteEngine
<1>3. BuilderExits(0) \/ BuilderExits(1)
  BY DEF WriteEngine
<1> QED  BY <1>1, <1>2, <1>3, BuilderStep

LEMMA BuilderStarts ==
  ASSUME GateInv, NEW flags, flags \subseteq KnownFlags \cup ScriptFlags \cup {"--help"},
         StartBuilder(flags), commands' \in 0 .. MaxByHand,
         stage = "idle" \/ stage = "build"
  PROVE  GateInv'
<1>1. /\ ControlTypes /\ ControlInv /\ UNCHANGED <<invocation, repeats, run, engine, evidence>>
      /\ builder' = "arguments" /\ argv' = flags /\ comparison' = {}
      /\ stage' = stage /\ exit' = exit
  BY DEF GateInv, StartBuilder, Running
<1>2. EvidenceInv'
  BY <1>1, Unrecorded
<1>3. ComparisonInv'
  BY <1>1 DEF ComparisonInv
<1>4. ControlTypes'
  BY <1>1 DEF ControlTypes
<1>5. ControlInv'
  BY <1>1 DEF ControlInv
<1>6. ProgressInv'
  <2>1. exit' = {0} => Complete'
    BY <1>1, Unrecorded DEF GateInv, ProgressInv
  <2> QED  BY <1>1, <2>1 DEF ProgressInv
<1> QED  BY <1>2, <1>3, <1>4, <1>5, <1>6 DEF GateInv

LEMMA ScriptBuildsKeeps ==
  ASSUME GateInv, ScriptBuilds
  PROVE  GateInv'
<1>1. StartBuilder(ScriptFlags) /\ stage = "build" /\ commands' = commands
  BY DEF ScriptBuilds
<1>2. commands' \in 0 .. MaxByHand
  BY <1>1 DEF GateInv, ControlTypes
<1>3. ScriptFlags \subseteq KnownFlags \cup ScriptFlags \cup {"--help"}
  OBVIOUS
<1> QED  BY <1>1, <1>2, <1>3, BuilderStarts

LEMMA BuildByHandKeeps ==
  ASSUME GateInv, BuildByHand
  PROVE  GateInv'
<1>1. PICK flags \in HandFlags : StartBuilder(flags)
  BY DEF BuildByHand
<1>2. commands' \in 0 .. MaxByHand /\ stage = "idle"
  BY RegressionGateAssumption DEF BuildByHand, GateInv, ControlTypes
<1>3. flags \subseteq KnownFlags \cup ScriptFlags \cup {"--help"}
  BY DEF HandFlags, KnownFlags
<1> QED  BY <1>1, <1>2, <1>3, BuilderStarts

-----------------------------------------------------------------------------
(* The script between its commands.                                        *)

LEMMA StartScriptKeeps ==
  ASSUME GateInv, StartScript
  PROVE  GateInv'
<1>1. /\ ControlTypes /\ ControlInv /\ builder = "off"
      /\ invocation' = invocation + 1 /\ invocation < MaxInvocations
      /\ repeats' \in 1 .. MaxRepeats /\ run' = 1 /\ comparison' = {}
      /\ UNCHANGED <<commands, builder, argv, engine, evidence>>
      /\ \/ stage' \in {"build", "engine"} /\ exit' = {}
         \/ stage' = "idle" /\ exit' = {2}
  BY DEF StartScript, GateInv, builderVars, ScriptEnds
<1>2. /\ invocation' \in 0 .. MaxInvocations /\ invocation' # 0
      /\ \A n \in 0 .. invocation : n \in 0 .. invocation'
      /\ 1 \in 1 .. (MaxRepeats + 1)
  BY <1>1, RegressionGateAssumption DEF ControlTypes
<1>3. /\ exit' \in Maybe(0 .. 6) /\ exit' # {0}
      /\ exit' = {} <=> stage' # "idle"
  <2>1. {2} # {0} /\ {2} # {} /\ 2 \in 0 .. 6
    OBVIOUS
  <2>2. {} # {0}
    OBVIOUS
  <2> QED  BY <1>1, <2>1, <2>2 DEF Maybe
<1>4. ControlTypes'
  BY <1>1, <1>2, <1>3 DEF ControlTypes, Stages
<1>5. ControlInv'
  BY <1>1, <1>2, <1>3 DEF ControlInv
<1>6. EvidenceInv'
  <2>1. ASSUME NEW name \in Names PROVE FileInv(name, evidence[name])'
    <3>1. FileInv(name, evidence[name])
      BY DEF GateInv, EvidenceInv
    <3> QED  BY <1>1, <1>2, <3>1 DEF FileInv
  <2>2. evidence' = [name \in Names |-> evidence'[name]]
    BY <1>1 DEF GateInv, EvidenceInv
  <2> QED  BY <2>1, <2>2 DEF EvidenceInv
<1>7. ComparisonInv'
  BY <1>1 DEF ComparisonInv
<1>8. ProgressInv'
  BY <1>1, <1>3 DEF ProgressInv
<1> QED  BY <1>4, <1>5, <1>6, <1>7, <1>8 DEF GateInv

\* From one command to the next, without one.
LEMMA Moved ==
  ASSUME GateInv, NEW s \in Stages \ {"idle"}, stage \notin {"idle", "build"}, Running(s),
         UNCHANGED <<invocation, repeats, commands, builderVars, evidence, comparison>>,
         run' \in 1 .. (MaxRepeats + 1),
         s \in {"build", "engine", "standard", "graph"} => comparison = {}
  PROVE  /\ ControlTypes' /\ ControlInv' /\ EvidenceInv' /\ ComparisonInv'
         /\ exit' # {0}
<1>1. /\ ControlTypes /\ ControlInv /\ stage' = s /\ exit' = exit /\ exit = {}
      /\ UNCHANGED <<builder, argv, engine>> /\ builder = "off"
  BY DEF GateInv, ControlInv, Running, builderVars
<1>2. ControlTypes'
  BY <1>1 DEF ControlTypes
<1>3. ControlInv'
  BY <1>1 DEF ControlInv
<1>4. EvidenceInv'
  BY Unrecorded
<1>5. ComparisonInv'
  BY <1>1, AnswerKept
<1>6. {} # {0}
  OBVIOUS
<1> QED  BY <1>1, <1>2, <1>3, <1>4, <1>5, <1>6

\* Where a command ends the script.
LEMMA Ended ==
  ASSUME GateInv, stage \notin {"idle", "build"}, NEW code \in 1 .. 6, ScriptEnds(code),
         UNCHANGED <<invocation, repeats, commands, builderVars, evidence>>,
         run' \in 1 .. (MaxRepeats + 1)
  PROVE  ControlTypes' /\ ControlInv' /\ EvidenceInv' /\ ProgressInv'
<1>1. /\ ControlTypes /\ ControlInv /\ UNCHANGED <<builder, argv, engine>> /\ builder = "off"
  BY DEF GateInv, ControlInv, builderVars
<1>2. /\ stage' \in Stages /\ exit' \in Maybe(0 .. 6)
      /\ (exit = {} <=> (stage # "idle" \/ invocation = 0))'
      /\ (stage # "idle" => invocation # 0)'
      /\ ProgressInv'
  BY Stopped
<1>3. ControlTypes'
  BY <1>1, <1>2 DEF ControlTypes
<1>4. ControlInv'
  BY <1>1, <1>2 DEF ControlInv
<1>5. EvidenceInv'
  BY Unrecorded
<1> QED  BY <1>2, <1>3, <1>4, <1>5

LEMMA TestEngineFileKeeps ==
  ASSUME GateInv, TestEngineFile
  PROVE  GateInv'
<1>1. /\ stage = "engine" /\ comparison = {}
      /\ UNCHANGED <<invocation, repeats, commands, run, builderVars, evidence, comparison>>
      /\ run' \in 1 .. (MaxRepeats + 1)
      /\ ScriptEnds(1) \/ Running("standard")
  BY DEF TestEngineFile, GateInv, ControlTypes, ComparisonInv, scriptVars
<1>2. CASE ScriptEnds(1)
  <2>1. 1 \in 1 .. 6
    OBVIOUS
  <2>2. ControlTypes' /\ ControlInv' /\ EvidenceInv' /\ ProgressInv'
    BY <1>1, <1>2, <2>1, Ended
  <2>3. ComparisonInv'
    BY <1>1 DEF ComparisonInv
  <2> QED  BY <2>2, <2>3 DEF GateInv
<1>3. CASE Running("standard")
  <2>1. "standard" \in Stages \ {"idle"}
    BY DEF Stages
  <2>2. ControlTypes' /\ ControlInv' /\ EvidenceInv' /\ ComparisonInv' /\ exit' # {0}
    BY <1>1, <1>3, <2>1, Moved
  <2>3. ProgressInv'
    BY <1>3, <2>2 DEF ProgressInv, Running
  <2> QED  BY <2>2, <2>3 DEF GateInv
<1> QED  BY <1>1, <1>2, <1>3

LEMMA GraphsDoneKeeps ==
  ASSUME GateInv, GraphsDone
  PROVE  GateInv'
<1>1. /\ stage = "graph" /\ Running("compare") /\ run > repeats /\ run' = 2
      /\ UNCHANGED <<invocation, repeats, commands, builderVars, evidence, comparison>>
  BY DEF GraphsDone, scriptVars
<1>2. /\ repeats \in 1 .. MaxRepeats /\ run \in 1 .. (MaxRepeats + 1)
      /\ Gathered(run) /\ EvidenceInv
  BY <1>1 DEF GateInv, ControlTypes, ProgressInv
<1>3. /\ 1 \in 1 .. repeats /\ 1 \in Names /\ run' \in 1 .. (MaxRepeats + 1)
      /\ \A k \in 1 .. repeats : k < run /\ k < repeats + 1
  BY <1>1, <1>2, RegressionGateAssumption DEF Names
<1>4. ControlTypes' /\ ControlInv' /\ EvidenceInv' /\ ComparisonInv' /\ exit' # {0}
  <2>1. "compare" \in Stages \ {"idle"}
    BY DEF Stages
  <2> QED  BY <1>1, <1>3, <2>1, Moved
<1>5. Gathered(repeats + 1) /\ Compared(2)
  <2>1. Gathered(repeats + 1)
    BY <1>2, <1>3 DEF Gathered
  <2>2. \A k \in 2 .. repeats : ~(k < 2)
    BY <1>2
  <2> QED  BY <2>1, <2>2 DEF Compared
<1>6. ProgressInv'
  <2>1. Gathered(repeats + 1)'
    BY <1>1, <1>5 DEF Gathered, Backed
  <2>2. Compared(run)'
    BY <1>1, <1>5 DEF Compared, Within
  <2> QED  BY <1>1, <1>4, <2>1, <2>2 DEF ProgressInv, Running
<1> QED  BY <1>4, <1>6 DEF GateInv

LEMMA ComparisonsDoneKeeps ==
  ASSUME GateInv, ComparisonsDone
  PROVE  GateInv'
<1>1. /\ stage = "compare" /\ Running("missing-engine") /\ run > repeats
      /\ UNCHANGED <<invocation, repeats, commands, run, builderVars, evidence, comparison>>
  BY DEF ComparisonsDone, scriptVars
<1>2. /\ repeats \in 1 .. MaxRepeats /\ run \in 1 .. (MaxRepeats + 1)
      /\ Gathered(repeats + 1) /\ Compared(run)
  BY <1>1 DEF GateInv, ControlTypes, ProgressInv
<1>3. ControlTypes' /\ ControlInv' /\ EvidenceInv' /\ ComparisonInv' /\ exit' # {0}
  <2>1. "missing-engine" \in Stages \ {"idle"}
    BY DEF Stages
  <2> QED  BY <1>1, <1>2, <2>1, Moved
<1>4. Compared(repeats + 1)
  <2>1. \A k \in 2 .. repeats : k < run
    BY <1>1, <1>2, RegressionGateAssumption
  <2> QED  BY <1>2, <2>1 DEF Compared
<1>5. Complete'
  BY <1>1, <1>2, <1>4, Unrecorded DEF Complete
<1>6. ProgressInv'
  BY <1>1, <1>3, <1>5 DEF ProgressInv, Running
<1> QED  BY <1>3, <1>6 DEF GateInv

LEMMA ExpectFailureKeeps ==
  ASSUME GateInv, ExpectFailure
  PROVE  GateInv'
<1>1. /\ stage \in {"missing-engine", "corrupt-engine", "wrong-fixed-shape"}
      /\ UNCHANGED <<invocation, repeats, commands, run, builderVars, evidence, comparison>>
      /\ run' \in 1 .. (MaxRepeats + 1) /\ Complete
  BY DEF ExpectFailure, scriptVars, GateInv, ControlTypes, ProgressInv
<1>2. Running(After(stage))
  BY <1>1 DEF ExpectFailure, Refusals
<1>3. After(stage) \in {"corrupt-engine", "wrong-fixed-shape", "pass"}
  BY <1>1 DEF After
<1>4. ControlTypes' /\ ControlInv' /\ EvidenceInv' /\ ComparisonInv' /\ exit' # {0}
  <2>1. After(stage) \in Stages \ {"idle"}
    BY <1>3 DEF Stages
  <2> QED  BY <1>1, <1>2, <1>3, <2>1, Moved
<1>5. Complete'
  BY <1>1, Unrecorded
<1>6. ProgressInv'
  BY <1>2, <1>3, <1>4, <1>5 DEF ProgressInv, Running
<1> QED  BY <1>4, <1>6 DEF GateInv

LEMMA PassKeeps ==
  ASSUME GateInv, Pass
  PROVE  GateInv'
<1>1. /\ stage = "pass" /\ stage' = "idle" /\ exit' = {0}
      /\ UNCHANGED <<invocation, repeats, commands, run, builder, argv, engine, evidence, comparison>>
      /\ ControlTypes /\ ControlInv /\ Complete
  BY DEF Pass, ScriptEnds, scriptVars, builderVars, GateInv, ProgressInv
<1>2. EvidenceInv' /\ Complete'
  BY <1>1, Unrecorded
<1>3. ComparisonInv'
  BY <1>1, AnswerKept
<1>4. ControlTypes'
  BY <1>1 DEF ControlTypes, Stages, Maybe
<1>5. ControlInv'
  <2>1. {0} # {}
    OBVIOUS
  <2> QED  BY <1>1, <2>1 DEF ControlInv
<1>6. ProgressInv'
  BY <1>1, <1>2 DEF ProgressInv
<1> QED  BY <1>2, <1>3, <1>4, <1>5, <1>6 DEF GateInv

-----------------------------------------------------------------------------
(* Benchmark runs.                                                         *)

MeasuredBy(r, name, o, backend, t, d, v) ==
    /\ r.file = [doc |-> {FormatMetrics(o, FALSE, backend, Stats(o, backend, t, d, v))},
                 times |-> t,
                 by |-> By(name)]
    /\ r.code = Verdict(o, Stats(o, backend, t, d, v))

LEMMA MeasuredRun ==
  ASSUME NEW name, NEW o, NEW backend, NEW checks, NEW r \in Measured(name, o, backend, checks)
  PROVE  \E t \in Samples(name), d \in Devices(backend), v \in checks :
           MeasuredBy(r, name, o, backend, t, d, v)
<1> DEFINE S == {[times |-> t, stats |-> Stats(o, backend, t, d, v)] :
                   t \in Samples(name), d \in Devices(backend), v \in checks}
<1>1. Measured(name, o, backend, checks) =
        {[file |-> [doc |-> {FormatMetrics(o, FALSE, backend, s.stats)},
                    times |-> s.times,
                    by |-> By(name)],
          code |-> Verdict(o, s.stats)] : s \in S}
  BY DEF Measured
<1> HIDE DEF S
<1>2. PICK s \in S :
        r = [file |-> [doc |-> {FormatMetrics(o, FALSE, backend, s.stats)},
                       times |-> s.times,
                       by |-> By(name)],
             code |-> Verdict(o, s.stats)]
  BY <1>1
<1>3. PICK t \in Samples(name), d \in Devices(backend), v \in checks :
        s = [times |-> t, stats |-> Stats(o, backend, t, d, v)]
  BY DEF S
<1>4. s.times = t /\ s.stats = Stats(o, backend, t, d, v)
  BY <1>3
<1>5. /\ r.file = [doc |-> {FormatMetrics(o, FALSE, backend, s.stats)},
                   times |-> s.times,
                   by |-> By(name)]
      /\ r.code = Verdict(o, s.stats)
  BY <1>2
<1>6. /\ r.file = [doc |-> {FormatMetrics(o, FALSE, backend, Stats(o, backend, t, d, v))},
                   times |-> t,
                   by |-> By(name)]
      /\ r.code = Verdict(o, Stats(o, backend, t, d, v))
  BY <1>4, <1>5
<1>7. MeasuredBy(r, name, o, backend, t, d, v)
  BY <1>6 DEF MeasuredBy
<1> QED  BY <1>7

LEMMA VerdictCode ==
  ASSUME NEW o, NEW stats
  PROVE  Verdict(o, stats) \in {0, 3, 4, 5}
<1> DEFINE failed == \E v \in stats.validation : ~v.passed
           late == \E d \in Selected(o, stats) : d.p99 > o.target
           none == Selected(o, stats) = {}
           r == Verdict(o, stats)
<1>1. r = CASE failed -> 5
            [] ~failed /\ o.target # 0 /\ none -> 4
            [] ~failed /\ o.target # 0 /\ late -> 3
            [] OTHER -> 0
  BY DEF Verdict
<1> HIDE DEF failed, late, none, r
<1>2. r \in {0, 3, 4, 5}
  BY <1>1
<1> QED  BY <1>2 DEF r

\* What a verdict of 0 says of a run of the script.
LEMMA GoodRun ==
  ASSUME NEW o, o = Standard \/ o = CudaGraph, NEW times \in Seq(Nat), times # <<>>,
         NEW d, NEW v \in Verified,
         Verdict(o, Stats(o, "tensorrt", times, d, v)) = 0
  PROVE  /\ v = {TRUE}
         /\ o = CudaGraph => Summarize(times).p99 <= Target
<1> DEFINE stats == Stats(o, "tensorrt", times, d, v)
<1>1. /\ stats.device_compute = {Summarize(times)}
      /\ stats.validation = {[compared_elements |-> o.input_size, passed |-> x] : x \in v}
  <2>1. stats.device_compute = {Summarize(times)}
    BY DEF Stats
  <2>2. stats.validation = {[compared_elements |-> o.input_size, passed |-> x] : x \in v}
    BY DEF Stats
  <2> QED  BY <2>1, <2>2
<1>2. Verdict(o, stats) = 0
  OBVIOUS
<1> HIDE DEF stats
<1>3. ~(\E x \in stats.validation : ~x.passed)
  BY <1>2 DEF Verdict
<1>4. v # {FALSE}
  <2> SUFFICES ASSUME v = {FALSE} PROVE FALSE
    OBVIOUS
  <2>1. [compared_elements |-> o.input_size, passed |-> FALSE] \in stats.validation
    BY <1>1
  <2> QED  BY <1>3, <2>1
<1>5. v = {TRUE}
  BY <1>4 DEF Verified
<1>6. ASSUME o = CudaGraph PROVE Summarize(times).p99 <= Target
  <2>1. o.scope = "device_compute" /\ o.target = Target
    BY <1>6 DEF CudaGraph, Standard
  <2>2. Selected(o, stats) = {Summarize(times)}
    BY <1>1, <2>1 DEF Selected
  <2>3. Target # 0 /\ Target \in Nat
    BY RegressionGateAssumption
  <2>4. ~(\E x \in Selected(o, stats) : x.p99 > o.target)
    BY <1>2, <1>3, <2>1, <2>2, <2>3 DEF Verdict
  <2>5. ~(Summarize(times).p99 > Target)
    BY <2>1, <2>2, <2>4
  <2>6. Summarize(times).p99 \in Nat
    BY SummaryInOrder
  <2> QED  BY <2>3, <2>5, <2>6
<1> QED  BY <1>5, <1>6

\* What a run leaves in its file.
LEMMA RunLeaves ==
  ASSUME ControlTypes, EvidenceInv, NEW name \in Names, NEW o,
         NEW backend \in {"mock", "tensorrt"}, NEW checks,
         NEW r \in Outcomes(name, o, backend, checks)
  PROVE  /\ FileInv(name, r.file)
         /\ r.code \in 0 .. 6
         /\ r.code = 0 => \/ r.file = Unreadable(By(name))
                          \/ r \in Measured(name, o, backend, checks)
<1>1. /\ invocation \in Nat /\ By(name) \in 0 .. invocation
      /\ FileInv(name, evidence[name])
  BY RegressionGateAssumption DEF ControlTypes, By, EvidenceInv
<1>2. CASE r.file = evidence[name] /\ r.code \in {1, 2, 6}
  BY <1>1, <1>2
<1>3. ASSUME NEW m \in Measured(name, o, backend, checks) PROVE m.code \in {0, 3, 4, 5}
  <2>1. PICK t \in Samples(name), d \in Devices(backend), v \in checks :
          MeasuredBy(m, name, o, backend, t, d, v)
    BY <1>3, MeasuredRun
  <2> QED  BY <2>1, VerdictCode DEF MeasuredBy
<1>4. CASE r.file = Unreadable(By(name)) /\ r.code \in {0, 2, 3, 4, 5}
  <2>1. FileInv(name, Unreadable(By(name)))
    BY <1>1 DEF FileInv, Unreadable
  <2> QED  BY <1>4, <2>1
<1>5. CASE r \in Measured(name, o, backend, checks)
  <2>1. PICK t \in Samples(name), d \in Devices(backend), v \in checks :
          MeasuredBy(r, name, o, backend, t, d, v)
    BY <1>5, MeasuredRun
  <2> DEFINE doc == FormatMetrics(o, FALSE, backend, Stats(o, backend, t, d, v))
  <2>3. r.file.doc = {doc} /\ r.file.times = t /\ r.file.by = By(name)
    BY <2>1 DEF MeasuredBy
  <2>4. r.code \in {0, 3, 4, 5}
    BY <1>3, <1>5
  <2>5. DocumentOf(doc, t)
    BY FormattedDocument DEF Formatted
  <2> HIDE DEF doc
  <2>6. FileInv(name, r.file)
    BY <1>1, <2>3, <2>5 DEF FileInv
  <2> QED  BY <1>5, <2>4, <2>6
<1>6. \/ r.file = evidence[name] /\ r.code \in {1, 2, 6}
      \/ r.file = Unreadable(By(name)) /\ r.code \in {0, 2, 3, 4, 5}
      \/ r \in Measured(name, o, backend, checks)
  <2> DEFINE codes == {m.code : m \in Measured(name, o, backend, checks)}
  <2>1. codes \subseteq {0, 3, 4, 5}
    BY <1>3
  <2> HIDE DEF codes
  <2>2. \/ r = [file |-> evidence[name], code |-> 2]
        \/ r \in [file : {evidence[name]},
                  code : IF o.use_cuda_graph THEN {1, 2, 6} ELSE {1, 2}]
        \/ r \in [file : {Unreadable(By(name))}, code : {2} \cup codes]
        \/ r \in Measured(name, o, backend, checks)
    BY DEF Outcomes, codes
  <2>3. ASSUME r \in [file : {evidence[name]},
                      code : IF o.use_cuda_graph THEN {1, 2, 6} ELSE {1, 2}]
        PROVE  r.file = evidence[name] /\ r.code \in {1, 2, 6}
    BY <2>3
  <2>4. ASSUME r \in [file : {Unreadable(By(name))}, code : {2} \cup codes]
        PROVE  r.file = Unreadable(By(name)) /\ r.code \in {0, 2, 3, 4, 5}
    BY <2>1, <2>4
  <2>5. ASSUME r = [file |-> evidence[name], code |-> 2]
        PROVE  r.file = evidence[name] /\ r.code \in {1, 2, 6}
    BY <2>5
  <2> QED  BY <2>2, <2>3, <2>4, <2>5
<1> QED  BY <1>2, <1>4, <1>5, <1>6

\* What a run of the script leaves when it succeeds.
LEMMA GoodRunLeaves ==
  ASSUME NEW name \in Names, NEW o, o = Standard \/ o = CudaGraph,
         NEW r \in Measured(name, o, "tensorrt", Verified), r.code = 0
  PROVE  /\ r.file.by = By(name)
         /\ \E doc : /\ r.file.doc = {doc}
                     /\ doc.backend = "tensorrt" /\ ~doc.fallback_used
                     /\ doc.cuda_graph = o.use_cuda_graph
                     /\ \E v \in doc.validation : v.passed
                     /\ o = CudaGraph => \E t \in doc.device_compute : t.p99 <= Target
<1>1. PICK t \in Samples(name), d \in Devices("tensorrt"), v \in Verified :
        MeasuredBy(r, name, o, "tensorrt", t, d, v)
  BY MeasuredRun
<1> DEFINE doc == FormatMetrics(o, FALSE, "tensorrt", Stats(o, "tensorrt", t, d, v))
<1>2. r.file.doc = {doc} /\ r.file.by = By(name)
  BY <1>1 DEF MeasuredBy
<1>3. Verdict(o, Stats(o, "tensorrt", t, d, v)) = 0
  BY <1>1 DEF MeasuredBy
<1>4. v = {TRUE} /\ (o = CudaGraph => Summarize(t).p99 <= Target)
  BY <1>3, SampleTypes, GoodRun
<1>5. /\ doc.backend = "tensorrt" /\ doc.fallback_used = FALSE
      /\ doc.cuda_graph = o.use_cuda_graph
      /\ doc.validation = {[compared_elements |-> o.input_size, passed |-> x] : x \in v}
      /\ doc.device_compute = {Summarize(t)}
  <2>1. "tensorrt" \in {"mock", "tensorrt"} /\ "tensorrt" # "mock"
    OBVIOUS
  <2>2. Formatted(doc, o, "tensorrt", t, v)
    BY <2>1, FormattedDocument
  <2> HIDE DEF doc
  <2> QED  BY <2>1, <2>2 DEF Formatted
<1> HIDE DEF doc
<1>6. \E x \in doc.validation : x.passed
  <2>1. [compared_elements |-> o.input_size, passed |-> TRUE] \in doc.validation
    BY <1>4, <1>5
  <2> QED  BY <2>1
<1>7. o = CudaGraph => \E x \in doc.device_compute : x.p99 <= Target
  BY <1>4, <1>5
<1> QED  BY <1>2, <1>5, <1>6, <1>7

\* The other documents stay.
LEMMA Recorded ==
  ASSUME EvidenceInv, NEW name \in Names, NEW file, FileInv(name, file),
         evidence' = [evidence EXCEPT ![name] = file], invocation' = invocation
  PROVE  /\ EvidenceInv'
         /\ evidence'[name] = file
         /\ \A other \in Names \ {name} : evidence'[other] = evidence[other]
<1>1. evidence = [n \in Names |-> evidence[n]]
  BY DEF EvidenceInv
<1>2. evidence'[name] = file /\ \A other \in Names \ {name} : evidence'[other] = evidence[other]
  BY <1>1
<1>3. evidence' = [n \in Names |-> evidence'[n]]
  BY <1>1
<1>4. ASSUME NEW n \in Names PROVE FileInv(n, evidence[n])'
  BY <1>2 DEF EvidenceInv, FileInv
<1> QED  BY <1>2, <1>3, <1>4 DEF EvidenceInv

\* A run of the script: it goes on with what a good run leaves, or ends.
LEMMA ScriptRun ==
  ASSUME GateInv, stage = "standard" \/ stage = "graph", NEW name \in Names \ {byHand}, NEW o,
         (o = Standard /\ name = standard) \/ (o = CudaGraph /\ name # standard),
         NEW r \in Outcomes(name, o, "tensorrt", Verified),
         evidence' = [evidence EXCEPT ![name] = r.file],
         GoOn(r.code, "graph"), run' \in 1 .. (MaxRepeats + 1),
         UNCHANGED <<invocation, repeats, commands, builder, argv, engine, comparison>>
  PROVE  /\ ControlTypes' /\ ControlInv' /\ EvidenceInv' /\ ComparisonInv'
         /\ \A other \in Names \ {name} : evidence'[other] = evidence[other]
         /\ \/ stage' = "idle" /\ exit' # {0}
            \/ /\ stage' = "graph" /\ exit' # {0}
               /\ Backed(name)'
<1>1. /\ ControlTypes /\ ControlInv /\ EvidenceInv /\ comparison = {} /\ exit = {}
      /\ invocation # 0 /\ builder = "off"
  BY DEF GateInv, ControlInv, ComparisonInv
<1>2. /\ FileInv(name, r.file) /\ r.code \in 0 .. 6
      /\ r.code = 0 => \/ r.file = Unreadable(By(name))
                       \/ r \in Measured(name, o, "tensorrt", Verified)
  <2>1. "tensorrt" \in {"mock", "tensorrt"}
    OBVIOUS
  <2> QED  BY <1>1, <2>1, RunLeaves
<1>3. /\ EvidenceInv' /\ evidence'[name] = r.file
      /\ \A other \in Names \ {name} : evidence'[other] = evidence[other]
  BY <1>1, <1>2, Recorded
<1>4. ComparisonInv'
  BY <1>1 DEF ComparisonInv
<1>5. CASE r.code # 0
  <2>1. stage' = "idle" /\ exit' = {r.code}
    BY <1>5 DEF GoOn, ScriptEnds
  <2>2. exit' # {} /\ exit' # {0} /\ exit' \in Maybe(0 .. 6)
    BY <1>2, <1>5, <2>1 DEF Maybe
  <2>3. ControlTypes'
    BY <1>1, <2>1, <2>2 DEF ControlTypes, Stages
  <2>4. ControlInv'
    BY <1>1, <2>1, <2>2 DEF ControlInv
  <2> QED  BY <1>3, <1>4, <2>1, <2>2, <2>3, <2>4
<1>6. CASE r.code = 0
  <2>1. stage' = "graph" /\ exit' = {} /\ {} # {0}
    BY <1>1, <1>6 DEF GoOn, Running
  <2>2. ControlTypes'
    BY <1>1, <2>1 DEF ControlTypes, Stages
  <2>3. ControlInv'
    BY <1>1, <2>1 DEF ControlInv
  <2>4. r.file.by = invocation /\ \A d \in r.file.doc : IsEvidence(name, d)
    <3>1. CASE r.file = Unreadable(By(name))
      BY <3>1 DEF Unreadable, By
    <3>2. CASE r \in Measured(name, o, "tensorrt", Verified)
      <4>1. o.use_cuda_graph = (name # standard)
        <5>1. Standard.use_cuda_graph = FALSE /\ CudaGraph.use_cuda_graph = TRUE
          BY DEF Standard, CudaGraph
        <5> QED  BY <5>1
      <4>2. r.file.by = invocation
        BY <1>6, <3>2, GoodRunLeaves DEF By
      <4>3. PICK doc : /\ r.file.doc = {doc}
                       /\ doc.backend = "tensorrt" /\ ~doc.fallback_used
                       /\ doc.cuda_graph = o.use_cuda_graph
                       /\ \E v \in doc.validation : v.passed
                       /\ o = CudaGraph => \E t \in doc.device_compute : t.p99 <= Target
        BY <1>6, <3>2, GoodRunLeaves
      <4>4. IsEvidence(name, doc)
        BY <4>1, <4>3 DEF IsEvidence
      <4> QED  BY <4>2, <4>3, <4>4
    <3> QED  BY <1>2, <1>6, <3>1, <3>2
  <2>5. Backed(name)'
    BY <1>3, <2>4 DEF Backed
  <2> QED  BY <1>3, <1>4, <2>1, <2>2, <2>3, <2>5
<1> QED  BY <1>5, <1>6

LEMMA RunStandardKeeps ==
  ASSUME GateInv, RunStandard
  PROVE  GateInv'
<1>1. /\ stage = "standard" /\ run' = 1
      /\ UNCHANGED <<invocation, repeats, commands, builder, argv, engine, comparison>>
  BY DEF RunStandard, scriptVars, builderVars
<1>2. PICK r \in Outcomes(standard, Standard, "tensorrt", Verified) :
        /\ evidence' = [evidence EXCEPT ![standard] = r.file]
        /\ GoOn(r.code, "graph")
  BY DEF RunStandard, RunIngress
<1>3. standard \in Names \ {byHand} /\ run' \in 1 .. (MaxRepeats + 1)
  BY <1>1, RegressionGateAssumption DEF Names, standard, byHand
<1>4. /\ ControlTypes' /\ ControlInv' /\ EvidenceInv' /\ ComparisonInv'
      /\ \/ stage' = "idle" /\ exit' # {0}
         \/ stage' = "graph" /\ exit' # {0} /\ Backed(standard)'
  BY <1>1, <1>2, <1>3, ScriptRun
<1>5. ProgressInv'
  <2>1. stage' = "graph" => Gathered(run)'
    BY <1>1, <1>4 DEF Gathered
  <2> QED  BY <1>4, <2>1 DEF ProgressInv
<1> QED  BY <1>4, <1>5 DEF GateInv

LEMMA RunGraphKeeps ==
  ASSUME GateInv, RunGraph
  PROVE  GateInv'
<1>1. /\ stage = "graph" /\ run' = run + 1 /\ run <= repeats
      /\ UNCHANGED <<invocation, repeats, commands, builder, argv, engine, comparison>>
  BY DEF RunGraph, scriptVars, builderVars
<1>2. PICK r \in Outcomes(run, CudaGraph, "tensorrt", Verified) :
        /\ evidence' = [evidence EXCEPT ![run] = r.file]
        /\ GoOn(r.code, "graph")
  BY DEF RunGraph, RunIngress
<1>3. /\ repeats \in 1 .. MaxRepeats /\ run \in 1 .. (MaxRepeats + 1) /\ Gathered(run)
  BY <1>1 DEF GateInv, ControlTypes, ProgressInv
<1>4. /\ run \in Names \ {byHand} /\ run # standard /\ run' \in 1 .. (MaxRepeats + 1)
      /\ standard \in Names \ {run}
      /\ \A k \in 1 .. repeats : k < run => k \in Names \ {run}
      /\ \A k \in 1 .. repeats : k < run + 1 => k < run \/ k = run
  BY <1>1, <1>3, RegressionGateAssumption DEF Names, standard, byHand
<1>5. PICK name \in Names \ {byHand} : name = run
  BY <1>4
<1>6. /\ ControlTypes' /\ ControlInv' /\ EvidenceInv' /\ ComparisonInv'
      /\ \A other \in Names \ {name} : evidence'[other] = evidence[other]
      /\ \/ stage' = "idle" /\ exit' # {0}
         \/ stage' = "graph" /\ exit' # {0} /\ Backed(name)'
  BY <1>1, <1>2, <1>4, <1>5, ScriptRun
<1>7. ASSUME stage' = "graph" PROVE Gathered(run)'
  <2>1. Backed(standard)'
    BY <1>1, <1>3, <1>4, <1>5, <1>6 DEF Gathered, Backed
  <2>2. ASSUME NEW k \in 1 .. repeats, k < run + 1 PROVE Backed(k)'
    <3>1. CASE k = run
      BY <1>5, <1>6, <1>7, <3>1
    <3>2. CASE k < run
      <4>1. evidence'[k] = evidence[k] /\ Backed(k)
        BY <1>3, <1>4, <1>5, <1>6, <3>2 DEF Gathered
      <4> QED  BY <1>1, <4>1 DEF Backed
    <3> QED  BY <1>4, <2>2, <3>1, <3>2
  <2> QED  BY <1>1, <2>1, <2>2 DEF Gathered
<1>8. ProgressInv'
  BY <1>6, <1>7 DEF ProgressInv
<1> QED  BY <1>6, <1>8 DEF GateInv

LEMMA RunByHandKeeps ==
  ASSUME GateInv, RunByHand
  PROVE  GateInv'
<1>1. /\ stage = "idle" /\ stage' = stage /\ comparison' = {}
      /\ commands < MaxByHand /\ commands' = commands + 1
      /\ UNCHANGED <<invocation, repeats, run, builder, argv, engine, exit>>
      /\ ControlTypes /\ ControlInv /\ EvidenceInv
  BY DEF RunByHand, builderVars, GateInv
<1>2. byHand \in Names
  BY DEF Names
<1>3. PICK backend \in {"mock", "tensorrt"}, more \in {0, 1} :
        RunIngress(byHand, [Standard EXCEPT !.input_size = InputSize + more],
                   backend, {{}}, LAMBDA code : TRUE)
  BY DEF RunByHand
<1> DEFINE o == [Standard EXCEPT !.input_size = InputSize + more]
<1>4. PICK r \in Outcomes(byHand, o, backend, {{}}) :
        evidence' = [evidence EXCEPT ![byHand] = r.file]
  BY <1>3 DEF RunIngress
<1> HIDE DEF o
<1>5. FileInv(byHand, r.file)
  <2> DEFINE checks == {{}}
  <2>1. r \in Outcomes(byHand, o, backend, checks)
    OBVIOUS
  <2> HIDE DEF checks
  <2> QED  BY <1>1, <1>2, <2>1, RunLeaves
<1>6. /\ EvidenceInv'
      /\ \A other \in Names \ {byHand} : evidence'[other] = evidence[other]
  BY <1>1, <1>2, <1>4, <1>5, Recorded
<1>7. ControlTypes'
  <2>1. commands' \in 0 .. MaxByHand
    BY <1>1, RegressionGateAssumption DEF ControlTypes
  <2> QED  BY <1>1, <2>1 DEF ControlTypes
<1>8. ControlInv'
  BY <1>1 DEF ControlInv
<1>9. ComparisonInv'
  BY <1>1 DEF ComparisonInv
<1>10. ProgressInv'
  <2>1. ASSUME Complete PROVE Complete'
    <3>1. \A k \in {standard} \cup (1 .. repeats) : k \in Names \ {byHand}
      BY <1>1, RegressionGateAssumption DEF ControlTypes, Names, standard, byHand
    <3>2. \A k \in {standard} \cup (1 .. repeats) : evidence'[k] = evidence[k]
      BY <1>6, <3>1
    <3>3. 1 \in 1 .. repeats
      BY <1>1, RegressionGateAssumption DEF ControlTypes
    <3>4. Gathered(repeats + 1)'
      BY <1>1, <2>1, <3>2 DEF Complete, Gathered, Backed
    <3>5. Compared(repeats + 1)'
      BY <1>1, <2>1, <3>2, <3>3 DEF Complete, Compared, Within
    <3> QED  BY <3>4, <3>5 DEF Complete
  <2>2. exit' = {0} => Complete'
    BY <1>1, <2>1 DEF GateInv, ProgressInv
  <2> QED  BY <1>1, <2>2 DEF ProgressInv
<1> QED  BY <1>6, <1>7, <1>8, <1>9, <1>10 DEF GateInv

-----------------------------------------------------------------------------
(* Comparisons.                                                            *)

LEMMA AnswerGiven ==
  ASSUME GateInv, NEW o \in HandOptions \cup {GateOptions}, NEW b \in Names, NEW c \in Names,
         CompareFiles(o, b, c), UNCHANGED evidence,
         stage' \notin {"build", "engine", "standard", "graph"}
  PROVE  /\ ComparisonInv'
         /\ \A x \in comparison' : x.code = Compare(o, evidence[b].doc, evidence[c].doc)
<1> DEFINE answer == [o |-> o, baseline |-> b, candidate |-> c,
                      code |-> Compare(o, evidence[b].doc, evidence[c].doc)]
<1>1. comparison' = {answer}
  BY DEF CompareFiles
<1>2. /\ answer.o = o /\ answer.baseline = b /\ answer.candidate = c
      /\ answer.code = Compare(o, evidence[b].doc, evidence[c].doc)
  OBVIOUS
<1>3. PICK x : x = answer
  OBVIOUS
<1> HIDE DEF answer
<1>4. AnswerInv(x)'
  BY <1>2, <1>3 DEF AnswerInv
<1>5. ComparisonInv'
  BY <1>1, <1>3, <1>4 DEF ComparisonInv
<1> QED  BY <1>1, <1>2, <1>5

LEMMA CompareByHandKeeps ==
  ASSUME GateInv, CompareByHand
  PROVE  GateInv'
<1>1. /\ stage = "idle" /\ ControlTypes /\ ControlInv
      /\ UNCHANGED <<stage, invocation, repeats, commands, run, builder, argv, engine,
                     evidence, exit>>
  BY DEF CompareByHand, scriptVars, builderVars, GateInv
<1>2. PICK o \in HandOptions, b \in Names : \E c \in Names \ {b} : CompareFiles(o, b, c)
  BY DEF CompareByHand
<1>3. PICK c \in Names \ {b} : CompareFiles(o, b, c)
  BY <1>2
<1>4. ComparisonInv'
  BY <1>1, <1>3, AnswerGiven
<1>5. EvidenceInv' /\ (Complete => Complete')
  BY <1>1, Unrecorded
<1>6. ControlTypes' /\ ControlInv'
  BY <1>1 DEF ControlTypes, ControlInv
<1>7. ProgressInv'
  BY <1>1, <1>5 DEF GateInv, ProgressInv
<1> QED  BY <1>4, <1>5, <1>6, <1>7 DEF GateInv

LEMMA AnswerReadKeeps ==
  ASSUME GateInv, AnswerRead
  PROVE  GateInv'
<1>1. /\ stage = "idle" /\ ControlTypes /\ ControlInv /\ comparison' = {}
      /\ UNCHANGED <<stage, invocation, repeats, commands, run, builder, argv, engine,
                     evidence, exit>>
  BY DEF AnswerRead, scriptVars, builderVars, GateInv
<1>2. ComparisonInv'
  BY <1>1 DEF ComparisonInv
<1>3. EvidenceInv' /\ (Complete => Complete')
  BY <1>1, Unrecorded
<1>4. ControlTypes' /\ ControlInv'
  BY <1>1 DEF ControlTypes, ControlInv
<1>5. ProgressInv'
  BY <1>1, <1>3 DEF GateInv, ProgressInv
<1> QED  BY <1>2, <1>3, <1>4, <1>5 DEF GateInv

\* What a document says of p99 is a number.
LEMMA Percentile99 ==
  ASSUME EvidenceInv, NEW name \in Names, NEW d \in evidence[name].doc, NEW t \in d.device_compute
  PROVE  t.p99 \in Nat
<1>1. /\ DocumentOf(d, evidence[name].times)
      /\ evidence[name].times \in Seq(Nat) /\ evidence[name].times # <<>>
  BY Evidence
<1>2. t = Summarize(evidence[name].times)
  BY <1>1 DEF DocumentOf
<1> QED  BY <1>1, <1>2, SummaryInOrder

LEMMA CompareRunKeeps ==
  ASSUME GateInv, CompareRun
  PROVE  GateInv'
<1>1. /\ stage = "compare" /\ run <= repeats /\ run' = run + 1
      /\ CompareFiles(GateOptions, 1, run)
      /\ UNCHANGED <<invocation, repeats, commands, builderVars, evidence>>
      /\ ControlTypes /\ ControlInv /\ EvidenceInv
      /\ Gathered(repeats + 1) /\ Compared(run)
  BY DEF CompareRun, scriptVars, GateInv, ProgressInv
<1>2. /\ repeats \in 1 .. MaxRepeats /\ run \in 1 .. MaxRepeats /\ run \in 1 .. repeats
      /\ run' \in 1 .. (MaxRepeats + 1) /\ 1 \in Names /\ run \in Names
      /\ \A k \in 2 .. repeats : k < run + 1 => k < run \/ k = run
  BY <1>1, RegressionGateAssumption DEF ControlTypes, Names
<1>3. PICK name \in Names : name = run
  BY <1>2
<1> DEFINE code == Compare(GateOptions, evidence[1].doc, evidence[name].doc)
<1>4. GoOn(code, "compare")
  BY <1>3 DEF CompareRun, CompareFiles
<1>5. stage' \in {"idle", "compare"}
  BY <1>4 DEF GoOn, Running, ScriptEnds
<1>6. ComparisonInv'
  BY <1>1, <1>2, <1>3, <1>5, AnswerGiven
<1>7. code \in 0 .. 6
  BY Answered
<1>8. code = 0 => Within(name)
  <2> SUFFICES ASSUME code = 0 PROVE Within(name)
    OBVIOUS
  <2>1. \A first \in evidence[1].doc : \A u \in first.device_compute : u.p99 \in Nat
    BY <1>1, <1>2, Percentile99
  <2>2. \A d \in evidence[name].doc : \A t \in d.device_compute : t.p99 \in Nat
    BY <1>1, Percentile99
  <2> QED  BY <2>1, <2>2, GateAnswer DEF Within
<1> HIDE DEF code
<1>9. CASE code # 0
  <2>1. ScriptEnds(code) /\ code \in 1 .. 6
    BY <1>4, <1>7, <1>9 DEF GoOn
  <2>2. ControlTypes' /\ ControlInv' /\ EvidenceInv' /\ ProgressInv'
    BY <1>1, <1>2, <2>1, Ended
  <2> QED  BY <1>6, <2>2 DEF GateInv
<1>10. CASE code = 0
  <2>1. stage' = "compare" /\ exit' = exit /\ exit = {} /\ builder = "off" /\ {} # {0}
    BY <1>1, <1>4, <1>10 DEF GoOn, Running, ControlInv
  <2>2. UNCHANGED <<builder, argv, engine>>
    BY <1>1 DEF builderVars
  <2>3. ControlTypes'
    BY <1>1, <1>2, <2>1, <2>2 DEF ControlTypes, Stages
  <2>4. ControlInv'
    BY <1>1, <2>1, <2>2 DEF ControlInv
  <2>5. EvidenceInv' /\ Gathered(repeats + 1)'
    BY <1>1, Unrecorded
  <2>6. Compared(run)'
    <3>1. ASSUME NEW k \in 2 .. repeats, k < run + 1 PROVE Within(k)'
      <4>1. Within(k)
        BY <1>1, <1>2, <1>3, <1>8, <1>10, <3>1 DEF Compared
      <4> QED  BY <1>1, <4>1 DEF Within
    <3> QED  BY <1>1, <3>1 DEF Compared
  <2>7. ProgressInv'
    BY <2>1, <2>5, <2>6 DEF ProgressInv
  <2> QED  BY <1>6, <2>3, <2>4, <2>5, <2>7 DEF GateInv
<1> QED  BY <1>9, <1>10

-----------------------------------------------------------------------------
(* The specification.                                                      *)

LEMMA InitHolds ==
  ASSUME Init
  PROVE  GateInv
<1>1. ControlTypes
  BY RegressionGateAssumption DEF Init, ControlTypes, Stages, Maybe
<1>2. ControlInv
  BY DEF Init, ControlInv
<1>3. EvidenceInv
  <2>1. evidence = [name \in Names |-> Missing] /\ invocation = 0
    BY DEF Init
  <2>2. \A name \in Names : evidence[name] = Missing
    BY <2>1
  <2>3. Missing.doc = {} /\ Missing.by = 0 /\ 0 \in 0 .. 0
    BY DEF Missing, Unreadable
  <2>4. \A name \in Names : FileInv(name, evidence[name])
    BY <2>1, <2>2, <2>3 DEF FileInv
  <2>5. evidence = [name \in Names |-> evidence[name]]
    BY <2>1
  <2> QED  BY <2>4, <2>5 DEF EvidenceInv
<1>4. ComparisonInv
  BY DEF Init, ComparisonInv
<1>5. ProgressInv
  <2>1. {} # {0}
    OBVIOUS
  <2> QED  BY <2>1 DEF Init, ProgressInv
<1> QED  BY <1>1, <1>2, <1>3, <1>4, <1>5 DEF GateInv

LEMMA StepKeeps ==
  ASSUME GateInv, [Next]_vars
  PROVE  GateInv'
<1>1. CASE StartScript  BY <1>1, StartScriptKeeps
<1>2. CASE ScriptBuilds  BY <1>2, ScriptBuildsKeeps
<1>3. CASE TestEngineFile  BY <1>3, TestEngineFileKeeps
<1>4. CASE RunStandard  BY <1>4, RunStandardKeeps
<1>5. CASE RunGraph  BY <1>5, RunGraphKeeps
<1>6. CASE GraphsDone  BY <1>6, GraphsDoneKeeps
<1>7. CASE CompareRun  BY <1>7, CompareRunKeeps
<1>8. CASE ComparisonsDone  BY <1>8, ComparisonsDoneKeeps
<1>9. CASE ExpectFailure  BY <1>9, ExpectFailureKeeps
<1>10. CASE Pass  BY <1>10, PassKeeps
<1>11. CASE ParseBuilderArguments  BY <1>11, ParseBuilderArgumentsKeeps
<1>12. CASE BuildNetwork  BY <1>12, BuildNetworkKeeps
<1>13. CASE OpenEngineOutput  BY <1>13, OpenEngineOutputKeeps
<1>14. CASE WriteEngine  BY <1>14, WriteEngineKeeps
<1>15. CASE BuildByHand  BY <1>15, BuildByHandKeeps
<1>16. CASE RunByHand  BY <1>16, RunByHandKeeps
<1>17. CASE CompareByHand  BY <1>17, CompareByHandKeeps
<1>18. CASE AnswerRead  BY <1>18, AnswerReadKeeps
<1>19. CASE UNCHANGED vars
  <2>1. /\ UNCHANGED <<stage, invocation, repeats, commands, run, builder, argv, engine,
                       evidence, comparison, exit>>
    BY <1>19 DEF vars, scriptVars, builderVars
  <2>2. EvidenceInv'
    BY <2>1, Unrecorded
  <2>3. ControlTypes' /\ ControlInv'
    BY <2>1 DEF GateInv, ControlTypes, ControlInv
  <2>4. ComparisonInv'
    BY <2>1, AnswerKept DEF GateInv, ComparisonInv
  <2>5. ProgressInv'
    BY <2>1, Unrecorded DEF GateInv, ProgressInv, Gathered, Backed, Compared, Within
  <2> QED  BY <2>2, <2>3, <2>4, <2>5 DEF GateInv
<1> QED
  BY <1>1, <1>2, <1>3, <1>4, <1>5, <1>6, <1>7, <1>8, <1>9, <1>10, <1>11, <1>12,
     <1>13, <1>14, <1>15, <1>16, <1>17, <1>18, <1>19 DEF Next

\* The invariant behind the theorems below: what each document says of its
\* samples, whose answer the comparator's last one is, and how far the
\* evidence of this invocation has come.
THEOREM GateInvariant == Spec => []GateInv
<1>1. Init => GateInv
  BY InitHolds
<1>2. GateInv /\ [Next]_vars => GateInv'
  BY StepKeeps
<1> QED  BY <1>1, <1>2, PTL DEF Spec

\* The state of the script, the builder and the evidence has its types, and
\* an invocation has an exit code exactly when it is over.
THEOREM TypeCorrect == Spec => []TypeOK
<1>1. GateInv => TypeOK
  BY TypesHold
<1> QED  BY <1>1, GateInvariant, PTL

\* However often the script ran before and whatever was built, run and
\* compared by hand in between, after a pass every document of the invocation
\* is its own, validated, of the device, within the target, and within the
\* budget of the first graph run.
THEOREM PassIsBacked == Spec => []PassIsBackedByEvidence
<1>1. GateInv => PassIsBackedByEvidence
  BY PassHolds
<1> QED  BY <1>1, GateInvariant, PTL

\* Unless told to ignore the context, the comparator answers 0 or 1 only about
\* runs on one kind of backend and device, of one shape, launched alike.
THEOREM LikeRuns == Spec => []AnswersAreAboutLikeRuns
<1>1. GateInv => AnswersAreAboutLikeRuns
  BY LikeRunsHold
<1> QED  BY <1>1, GateInvariant, PTL

\* No verdict about device times rests on the mock engine's document.
THEOREM NoMockVerdict == Spec => []MockHasNoDeviceVerdict
<1>1. GateInv => MockHasNoDeviceVerdict
  BY MockHolds
<1> QED  BY <1>1, GateInvariant, PTL

\* For every sequence of samples, a candidate that takes more than any given
\* time no more often than the baseline is no regression in any statistic.
THEOREM FasterPasses == Spec => []FasterIsNoRegression
<1>1. GateInv => FasterIsNoRegression
  BY FasterHolds
<1> QED  BY <1>1, GateInvariant, PTL

\* For every sequence of samples, the interpolated percentiles of a document
\* split them as percentiles do, and its statistics are in order.
THEOREM PercentilesSplit == Spec => []PercentilesSplitSamples
<1>1. GateInv => PercentilesSplitSamples
  BY PercentilesHold
<1> QED  BY <1>1, GateInvariant, PTL
=============================================================================
