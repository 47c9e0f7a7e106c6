----------------------------- MODULE DataLemmas -----------------------------
(***************************************************************************)
(* Lemmas about numbers, finite sets and sequences that the proofs about   *)
(* several components rest on.  None of them is about the program.         *)
(*                                                                         *)
(* What is to be shown for every number or every length is shown by its    *)
(* least counterexample: the least-number principle is WFMin of the        *)
(* library, which has no operator for a parameter.                         *)
(***************************************************************************)
EXTENDS Integers, FiniteSets, Sequences, SequencesExt, FiniteSetTheorems,
        SequenceTheorems, WellFoundedInduction, TLAPS

LEMMA SomeOrder ==
  \E R : IsWellFoundedOn(R, Nat) /\ \A a, b \in Nat : a < b => <<a, b>> \in R
<1>1. IsWellFoundedOn(OpToRel(<, Nat), Nat)
  BY NatLessThanWellFounded
<1>2. \A a, b \in Nat : a < b => <<a, b>> \in OpToRel(<, Nat)
  BY DEF OpToRel
<1> QED  BY <1>1, <1>2, Zenon

LEMMA MinimalElement ==
  \A R, S : IsWellFoundedOn(R, S) =>
    \A T : T \subseteq S /\ T # {} => \E x \in T : \A y \in T : ~(<<y, x>> \in R)
  BY WFMin, Zenon

\* Every set of naturals that is not empty has a least element.
LEMMA LeastNumber ==
  ASSUME NEW S \in SUBSET Nat, S # {}
  PROVE  \E m \in S : \A k \in S : m <= k
<1>1. PICK R : IsWellFoundedOn(R, Nat) /\ \A a, b \in Nat : a < b => <<a, b>> \in R
  BY SomeOrder
<1>2. S \subseteq Nat
  OBVIOUS
<1>3. \A T : T \subseteq Nat /\ T # {} => \E x \in T : \A y \in T : ~(<<y, x>> \in R)
  BY <1>1, MinimalElement, Zenon
<1>4. PICK m \in S : \A y \in S : ~(<<y, m>> \in R)
  BY <1>2, <1>3, Zenon
<1>5. \A y \in S : ~(y < m)
  BY <1>1, <1>2, <1>4, Zenon
<1> QED  BY <1>2, <1>5

\* And a greatest one, if it has a bound.
LEMMA GreatestNumber ==
  ASSUME NEW S \in SUBSET Nat, S # {}, NEW b \in Nat, \A k \in S : k <= b
  PROVE  \E m \in S : \A k \in S : k <= m
<1> DEFINE D == {b - k : k \in S}
<1>1. D \in SUBSET Nat /\ D # {}
  <2>1. \A k \in S : b - k \in Nat
    OBVIOUS
  <2>2. PICK k \in S : TRUE
    OBVIOUS
  <2>3. b - k \in D
    BY <2>2
  <2> QED  BY <2>1, <2>3
<1>2. PICK d \in D : \A e \in D : d <= e
  <2> HIDE DEF D
  <2> QED  BY <1>1, LeastNumber
<1>3. PICK m \in S : d = b - m
  OBVIOUS
<1>4. ASSUME NEW k \in S PROVE k <= m
  <2>1. b - k \in D
    OBVIOUS
  <2>2. b - m <= b - k
    BY <1>2, <1>3, <2>1
  <2>3. m \in Nat /\ k \in Nat
    OBVIOUS
  <2> QED  BY <2>2, <2>3
<1> QED  BY <1>4

\* What holds for 0, and for n + 1 if for n, holds for every n: P is the set of
\* the numbers it holds for.
LEMMA SetInduction ==
  ASSUME NEW P, 0 \in P, \A n \in Nat : n \in P => n + 1 \in P
  PROVE  Nat \subseteq P
<1> SUFFICES ASSUME NEW n \in Nat, n \notin P PROVE FALSE
  OBVIOUS
<1>1. PICK m \in Nat \ P : \A k \in Nat \ P : m <= k
  <2>1. Nat \ P \in SUBSET Nat /\ Nat \ P # {}
    OBVIOUS
  <2> QED  BY <2>1, LeastNumber
<1>2. m # 0 /\ m - 1 \in Nat /\ m - 1 + 1 = m
  BY <1>1
<1>3. m - 1 \in P
  BY <1>1, <1>2
<1> QED  BY <1>1, <1>2, <1>3

-----------------------------------------------------------------------------
(* Sequences put one after the other.                                      *)

\* The recursion of FlattenSeq has a solution, which CHOOSE finds.
LEMMA FlattenExists ==
  ASSUME NEW s, NEW n \in Nat
  PROVE  \E f : f = [i \in 1 .. n |-> IF i = 1 THEN s[i] ELSE f[i - 1] \o s[i]]
<1> DEFINE Solves(f, m) ==
             f = [i \in 1 .. m |-> IF i = 1 THEN s[i] ELSE f[i - 1] \o s[i]]
           P == {m \in Nat : \E f : Solves(f, m)}
<1>1. 0 \in P
  <2>1. Solves([i \in 1 .. 0 |-> 0], 0)
    OBVIOUS
  <2> QED  BY <2>1
<1>2. ASSUME NEW m \in Nat, m \in P PROVE m + 1 \in P
  <2>1. PICK f : Solves(f, m)
    BY <1>2
  <2> DEFINE g == [i \in 1 .. m + 1 |->
                     IF i <= m THEN f[i] ELSE IF i = 1 THEN s[i] ELSE f[i - 1] \o s[i]]
             h == [i \in 1 .. m + 1 |-> IF i = 1 THEN s[i] ELSE g[i - 1] \o s[i]]
  <2>2. ASSUME NEW i \in 1 .. m + 1 PROVE g[i] = h[i]
    <3>1. CASE i <= m
      <4>1. i \in 1 .. m /\ g[i] = f[i]
        BY <3>1
      <4>2. f[i] = IF i = 1 THEN s[i] ELSE f[i - 1] \o s[i]
        BY <2>1, <4>1
      <4>3. i # 1 => i - 1 \in 1 .. m + 1 /\ i - 1 <= m /\ g[i - 1] = f[i - 1]
        BY <3>1
      <4> QED  BY <4>1, <4>2, <4>3
    <3>2. CASE i > m
      <4>1. i # 1 => i - 1 \in 1 .. m + 1 /\ i - 1 <= m /\ g[i - 1] = f[i - 1]
        BY <3>2
      <4> QED  BY <3>2, <4>1
    <3> QED  BY <3>1, <3>2
  <2>3. g = h
    BY <2>2
  <2>4. Solves(g, m + 1)
    BY <2>3
  <2> HIDE DEF g, h, Solves
  <2>5. \E f1 : Solves(f1, m + 1)
    BY <2>4, Zenon
  <2> QED  BY <2>5
<1>3. n \in P
  <2> HIDE DEF P
  <2> QED  BY <1>1, <1>2, SetInduction
<1> QED  BY <1>3

LEMMA FlattenIsSeq ==
  ASSUME NEW T, NEW s \in Seq(Seq(T))
  PROVE  FlattenSeq(s) \in Seq(T)
<1> DEFINE n == Len(s)
           f == CHOOSE f : f = [i \in 1 .. n |-> IF i = 1 THEN s[i] ELSE f[i - 1] \o s[i]]
<1>1. n \in Nat /\ \A i \in 1 .. n : s[i] \in Seq(T)
  OBVIOUS
<1>2. CASE n = 0
  BY <1>2 DEF FlattenSeq
<1>3. CASE n # 0
  <2>1. f = [i \in 1 .. n |-> IF i = 1 THEN s[i] ELSE f[i - 1] \o s[i]]
    BY <1>1, FlattenExists
  <2>2. FlattenSeq(s) = f[n]
    BY <1>3 DEF FlattenSeq
  <2> HIDE DEF f
  <2> DEFINE P == {m \in Nat : m + 1 \in 1 .. n => f[m + 1] \in Seq(T)}
  <2>3. 0 \in P
    BY <1>1, <2>1
  <2>4. ASSUME NEW m \in Nat, m \in P PROVE m + 1 \in P
    <3> SUFFICES ASSUME m + 2 \in 1 .. n PROVE f[m + 2] \in Seq(T)
      OBVIOUS
    <3>1. m + 1 \in 1 .. n /\ m + 2 # 1 /\ (m + 2) - 1 = m + 1
      BY <1>1
    <3>2. f[m + 1] \in Seq(T)
      BY <2>4, <3>1
    <3>3. f[m + 2] = f[m + 1] \o s[m + 2]
      BY <2>1, <3>1
    <3> QED  BY <1>1, <3>2, <3>3
  <2>5. \A m \in Nat : m \in P => m + 1 \in P
    BY <2>4
  <2>6. n - 1 \in Nat /\ (n - 1) + 1 = n
    BY <1>1, <1>3
  <2>7. n - 1 \in P
    <3> HIDE DEF P, n
    <3>1. Nat \subseteq P
      BY <2>3, <2>5, SetInduction
    <3> QED  BY <2>6, <3>1
  <2> QED  BY <1>1, <1>3, <2>2, <2>6, <2>7
<1> QED  BY <1>2, <1>3

\* A sequence, whatever its elements are.
IsText(t) == \E T : t \in Seq(T)

LEMMA TextOfAll ==
  ASSUME NEW T, NEW U, T \subseteq U, NEW t \in Seq(T)
  PROVE  t \in Seq(U)
OBVIOUS

LEMMA ConcatIsText ==
  ASSUME NEW a, NEW b, IsText(a), IsText(b)
  PROVE  IsText(a \o b)
<1>1. PICK T : a \in Seq(T)
  BY DEF IsText
<1>2. PICK U : b \in Seq(U)
  BY DEF IsText
<1>3. a \in Seq(T \cup U) /\ b \in Seq(T \cup U)
  BY <1>1, <1>2
<1>4. a \o b \in Seq(T \cup U)
  BY <1>3
<1> QED  BY <1>4 DEF IsText

LEMMA FlattenIsText ==
  ASSUME NEW S, NEW members \in Seq(S), \A t \in S : IsText(t)
  PROVE  IsText(FlattenSeq(members))
<1> DEFINE T == UNION {{t[i] : i \in DOMAIN t} : t \in S}
<1>1. ASSUME NEW t \in S PROVE t \in Seq(T)
  <2>1. PICK U : t \in Seq(U)
    BY DEF IsText
  <2>2. \A i \in DOMAIN t : t[i] \in T
    OBVIOUS
  <2> HIDE DEF T
  <2>3. t = [i \in 1 .. Len(t) |-> t[i]] /\ Len(t) \in Nat
    BY <2>1
  <2> QED  BY <2>2, <2>3
<1> HIDE DEF T
<1>2. members \in Seq(Seq(T))
  BY <1>1
<1>3. FlattenSeq(members) \in Seq(T)
  BY <1>2, FlattenIsSeq
<1> QED  BY <1>3 DEF IsText

LEMMA TextLength ==
  ASSUME NEW t, IsText(t)
  PROVE  Len(t) \in Nat /\ DOMAIN t = 1 .. Len(t)
BY DEF IsText

LEMMA EmptyIsText == IsText(<<>>)
<1>1. <<>> \in Seq({})
  OBVIOUS
<1> QED  BY <1>1 DEF IsText

LEMMA ConcatIndex ==
  ASSUME NEW a, NEW b, IsText(a), IsText(b)
  PROVE  /\ Len(a \o b) = Len(a) + Len(b)
         /\ \A i \in 1 .. Len(a) : (a \o b)[i] = a[i]
         /\ \A i \in 1 .. Len(b) : (a \o b)[Len(a) + i] = b[i]
<1>1. PICK T : a \in Seq(T)
  BY DEF IsText
<1>2. PICK U : b \in Seq(U)
  BY DEF IsText
<1>3. a \in Seq(T \cup U) /\ b \in Seq(T \cup U)
  BY <1>1, <1>2
<1> QED  BY <1>3

LEMMA ConcatFacts ==
  ASSUME NEW a, NEW b, IsText(a), IsText(b)
  PROVE  /\ IsText(a \o b) /\ Len(a \o b) = Len(a) + Len(b)
         /\ Len(a) \in Nat /\ Len(b) \in Nat /\ Len(a \o b) \in Nat
         /\ DOMAIN a = 1 .. Len(a) /\ DOMAIN b = 1 .. Len(b) /\ DOMAIN (a \o b) = 1 .. Len(a \o b)
         /\ \A i \in 1 .. Len(a) : (a \o b)[i] = a[i]
         /\ \A i \in 1 .. Len(b) : (a \o b)[Len(a) + i] = b[i]
<1>1. IsText(a \o b)
  BY ConcatIsText
<1>2. /\ Len(a) \in Nat /\ Len(b) \in Nat /\ Len(a \o b) \in Nat
      /\ DOMAIN a = 1 .. Len(a) /\ DOMAIN b = 1 .. Len(b)
      /\ DOMAIN (a \o b) = 1 .. Len(a \o b)
  BY <1>1, TextLength
<1> QED  BY <1>1, <1>2, ConcatIndex

LEMMA SameText ==
  ASSUME NEW a, NEW b, IsText(a), IsText(b), Len(a) = Len(b),
         \A i \in 1 .. Len(a) : a[i] = b[i]
  PROVE  a = b
<1>1. a = [i \in 1 .. Len(a) |-> a[i]] /\ b = [i \in 1 .. Len(b) |-> b[i]]
  BY DEF IsText
<1> QED  BY <1>1

LEMMA ConcatAssociates ==
  ASSUME NEW a, NEW b, NEW c, IsText(a), IsText(b), IsText(c)
  PROVE  (a \o b) \o c = a \o (b \o c)
<1>1. PICK T : a \in Seq(T)
  BY DEF IsText
<1>2. PICK U : b \in Seq(U)
  BY DEF IsText
<1>3. PICK V : c \in Seq(V)
  BY DEF IsText
<1> DEFINE W == T \cup U \cup V
<1>4. a \in Seq(W) /\ b \in Seq(W) /\ c \in Seq(W)
  BY <1>1, <1>2, <1>3
<1> HIDE DEF W
<1> QED  BY <1>4

\* Concatenation under a name of its own, which the provers need not open.
Cat(a, b) == a \o b

LEMMA CatFacts ==
  /\ \A a, b : IsText(a) /\ IsText(b) => IsText(Cat(a, b))
  /\ \A a, b, c : IsText(a) /\ IsText(b) /\ IsText(c) =>
       Cat(Cat(a, b), c) = Cat(a, Cat(b, c))
<1>1. ASSUME NEW a, NEW b, IsText(a), IsText(b) PROVE IsText(Cat(a, b))
  BY <1>1, ConcatIsText DEF Cat
<1>2. ASSUME NEW a, NEW b, NEW c, IsText(a), IsText(b), IsText(c)
      PROVE  Cat(Cat(a, b), c) = Cat(a, Cat(b, c))
  BY <1>2, ConcatAssociates DEF Cat
<1> QED  BY <1>1, <1>2

LEMMA ConcatOfNone ==
  ASSUME NEW a, IsText(a)
  PROVE  a \o <<>> = a /\ <<>> \o a = a
<1>1. PICK T : a \in Seq(T)
  BY DEF IsText
<1> QED  BY <1>1

LEMMA SubSeqIndex ==
  ASSUME NEW a, IsText(a), NEW p \in Nat, NEW q \in Nat, 1 <= p, p <= q + 1, q <= Len(a)
  PROVE  /\ IsText(SubSeq(a, p, q)) /\ Len(SubSeq(a, p, q)) = q - p + 1
         /\ \A i \in 1 .. q - p + 1 : SubSeq(a, p, q)[i] = a[p + i - 1]
<1>1. PICK T : a \in Seq(T)
  BY DEF IsText
<1>2. SubSeq(a, p, q) \in Seq(T)
  <2>1. \A i \in p .. q : a[i] \in T
    BY <1>1
  <2> QED  BY <2>1, SubSeqProperties
<1>3. /\ Len(SubSeq(a, p, q)) = q - p + 1
      /\ \A i \in 1 .. q - p + 1 : SubSeq(a, p, q)[i] = a[p + i - 1]
  BY <1>1
<1> QED  BY <1>2, <1>3 DEF IsText

\* A part of a text that is put together of three.
LEMMA MiddlePart ==
  ASSUME NEW a, NEW b, NEW c, IsText(a), IsText(b), IsText(c)
  PROVE  SubSeq(a \o (b \o c), Len(a) + 1, Len(a) + Len(b)) = b
<1> DEFINE t == a \o (b \o c)
           p == Len(a) + 1
           q == Len(a) + Len(b)
<1>1. /\ IsText(b \o c) /\ IsText(t)
      /\ Len(a) \in Nat /\ Len(b) \in Nat /\ Len(c) \in Nat
  BY ConcatIsText, TextLength
<1>2. Len(b \o c) = Len(b) + Len(c) /\ \A i \in 1 .. Len(b) : (b \o c)[i] = b[i]
  BY ConcatIndex
<1>3. /\ Len(t) = Len(a) + Len(b \o c)
      /\ \A i \in 1 .. Len(b \o c) : t[Len(a) + i] = (b \o c)[i]
  BY <1>1, ConcatIndex
<1> HIDE DEF t
<1>4. \A i \in 1 .. Len(b) : t[Len(a) + i] = b[i]
  BY <1>1, <1>2, <1>3
<1>5. /\ p \in Nat /\ q \in Nat /\ 1 <= p /\ p <= q + 1 /\ q <= Len(t)
      /\ q - p + 1 = Len(b) /\ \A i \in 1 .. Len(b) : p + i - 1 = Len(a) + i
  BY <1>1, <1>2, <1>3
<1> HIDE DEF p, q
<1>6. /\ IsText(SubSeq(t, p, q)) /\ Len(SubSeq(t, p, q)) = Len(b)
      /\ \A i \in 1 .. Len(b) : SubSeq(t, p, q)[i] = t[p + i - 1]
  BY <1>1, <1>5, SubSeqIndex
<1> DEFINE v == SubSeq(t, p, q)
<1>7. /\ IsText(v) /\ Len(v) = Len(b) /\ \A i \in 1 .. Len(v) : v[i] = b[i]
  BY <1>4, <1>5, <1>6
<1> HIDE DEF v
<1>8. v = b
  BY <1>7, SameText
<1> QED  BY <1>8 DEF t, p, q, v

LEMMA FlattenOfNone == FlattenSeq(<<>>) = <<>>
BY DEF FlattenSeq

LEMMA FlattenOfMore ==
  ASSUME NEW S, NEW s \in Seq(S), \A t \in S : IsText(t), NEW x \in S
  PROVE  FlattenSeq(Append(s, x)) = FlattenSeq(s) \o x
<1> DEFINE n == Len(s)
           u == Append(s, x)
           f == CHOOSE f : f = [i \in 1 .. n |-> IF i = 1 THEN s[i] ELSE f[i - 1] \o s[i]]
           g == CHOOSE g : g = [i \in 1 .. n + 1 |-> IF i = 1 THEN u[i] ELSE g[i - 1] \o u[i]]
<1>1. /\ n \in Nat /\ u \in Seq(S) /\ Len(u) = n + 1 /\ u[n + 1] = x
      /\ \A i \in 1 .. n : u[i] = s[i]
  OBVIOUS
<1>2. g = [i \in 1 .. n + 1 |-> IF i = 1 THEN u[i] ELSE g[i - 1] \o u[i]]
  <2>1. n + 1 \in Nat
    BY <1>1
  <2> HIDE DEF u, n
  <2>2. \E h : h = [i \in 1 .. n + 1 |-> IF i = 1 THEN u[i] ELSE h[i - 1] \o u[i]]
    BY <2>1, FlattenExists
  <2> QED  BY <2>2
<1>3. FlattenSeq(u) = g[n + 1]
  <2>1. Len(u) = n + 1 /\ Len(u) # 0
    BY <1>1
  <2> HIDE DEF u, n
  <2> QED  BY <2>1 DEF FlattenSeq
<1>4. CASE n = 0
  <2>1. s = <<>>
    BY <1>4
  <2>2. FlattenSeq(s) = <<>>
    BY <2>1, FlattenOfNone
  <2>3. g[1] = u[1] /\ u[1] = x
    BY <1>1, <1>2, <1>4
  <2> HIDE DEF g, u
  <2>4. FlattenSeq(u) = x
    BY <1>3, <1>4, <2>3
  <2>5. <<>> \o x = x
    BY ConcatOfNone
  <2> QED  BY <2>2, <2>4, <2>5 DEF u
<1>5. CASE n # 0
  <2>1. f = [i \in 1 .. n |-> IF i = 1 THEN s[i] ELSE f[i - 1] \o s[i]]
    BY <1>1, FlattenExists
  <2>2. FlattenSeq(s) = f[n]
    BY <1>5 DEF FlattenSeq
  <2> HIDE DEF f, g
  <2> DEFINE P == {m \in Nat : m + 1 \in 1 .. n => f[m + 1] = g[m + 1]}
  <2>3. 0 \in P
    BY <1>1, <1>2, <2>1
  <2>4. ASSUME NEW m \in Nat, m \in P PROVE m + 1 \in P
    <3> SUFFICES ASSUME m + 2 \in 1 .. n PROVE f[m + 2] = g[m + 2]
      OBVIOUS
    <3>1. /\ m + 1 \in 1 .. n /\ m + 2 # 1 /\ (m + 2) - 1 = m + 1
          /\ m + 2 \in 1 .. n + 1
      BY <1>1
    <3>2. f[m + 1] = g[m + 1]
      BY <2>4, <3>1
    <3>3. f[m + 2] = f[m + 1] \o s[m + 2]
      BY <2>1, <3>1
    <3>4. g[m + 2] = g[m + 1] \o u[m + 2]
      <4> HIDE DEF u
      <4> QED  BY <1>2, <3>1
    <3>5. u[m + 2] = s[m + 2]
      BY <1>1
    <3> QED  BY <3>2, <3>3, <3>4, <3>5
  <2>5. n - 1 \in Nat /\ (n - 1) + 1 = n /\ n \in 1 .. n /\ n + 1 \in 1 .. n + 1
        /\ (n + 1) - 1 = n /\ n + 1 # 1
    BY <1>1, <1>5
  <2>6. f[n] = g[n]
    <3> HIDE DEF P, n
    <3>1. Nat \subseteq P
      BY <2>3, <2>4, SetInduction
    <3> QED  BY <2>5, <3>1 DEF P
  <2>7. g[n + 1] = g[n] \o u[n + 1]
    <3> HIDE DEF u, n
    <3> QED  BY <1>2, <2>5
  <2>8. u[n + 1] = x
    BY <1>1
  <2> HIDE DEF u, n
  <2>9. FlattenSeq(u) = FlattenSeq(s) \o x
    BY <1>3, <2>2, <2>6, <2>7, <2>8
  <2> QED  BY <2>9 DEF u
<1> QED  BY <1>4, <1>5

LEMMA FlattenOfOne ==
  ASSUME NEW x, IsText(x)
  PROVE  FlattenSeq(<<x>>) = x
<1> DEFINE S == {x}
<1>1. <<>> \in Seq(S) /\ x \in S /\ \A t \in S : IsText(t)
  OBVIOUS
<1>2. Append(<<>>, x) = <<x>>
  OBVIOUS
<1> HIDE DEF S
<1>3. FlattenSeq(Append(<<>>, x)) = FlattenSeq(<<>>) \o x
  BY <1>1, FlattenOfMore
<1> QED  BY <1>2, <1>3, FlattenOfNone, ConcatOfNone

\* The texts of two sequences are those of one after the other.
LEMMA FlattenOfBoth ==
  ASSUME NEW S, NEW s \in Seq(S), NEW t \in Seq(S), \A x \in S : IsText(x)
  PROVE  FlattenSeq(s \o t) = FlattenSeq(s) \o FlattenSeq(t)
<1> DEFINE start(m) == SubSeq(t, 1, m)
           Holds(m) == FlattenSeq(s \o start(m)) = FlattenSeq(s) \o FlattenSeq(start(m))
           P == {m \in Nat : m <= Len(t) => Holds(m)}
<1>1. IsText(FlattenSeq(s)) /\ Len(t) \in Nat
  BY FlattenIsText
<1>2. Holds(0)
  <2>1. start(0) = <<>> /\ s \o <<>> = s
    OBVIOUS
  <2>2. FlattenSeq(s) \o <<>> = FlattenSeq(s)
    BY <1>1, ConcatOfNone
  <2> HIDE DEF start
  <2> QED  BY <2>1, <2>2, FlattenOfNone
<1>3. ASSUME NEW m \in Nat, m \in P PROVE m + 1 \in P
  <2> SUFFICES ASSUME m + 1 <= Len(t) PROVE Holds(m + 1)
    OBVIOUS
  <2>1. Holds(m)
    BY <1>1, <1>3
  <2> DEFINE x == t[m + 1]
             b == start(m)
  <2>2. /\ b \in Seq(S) /\ x \in S /\ start(m + 1) = Append(b, x)
        /\ s \o b \in Seq(S) /\ s \o Append(b, x) = Append(s \o b, x)
    OBVIOUS
  <2> HIDE DEF x
  <2>3. FlattenSeq(Append(b, x)) = FlattenSeq(b) \o x
    <3> HIDE DEF b
    <3> QED  BY <2>2, FlattenOfMore
  <2>4. FlattenSeq(Append(s \o b, x)) = FlattenSeq(s \o b) \o x
    <3> DEFINE c == s \o b
    <3>1. c \in Seq(S)
      BY <2>2
    <3> HIDE DEF c
    <3>2. FlattenSeq(Append(c, x)) = FlattenSeq(c) \o x
      BY <2>2, <3>1, FlattenOfMore
    <3> QED  BY <3>2 DEF c
  <2>5. IsText(FlattenSeq(b)) /\ IsText(x)
    <3> HIDE DEF b
    <3> QED  BY <2>2, FlattenIsText
  <2> HIDE DEF start
  <2>6. (FlattenSeq(s) \o FlattenSeq(b)) \o x = FlattenSeq(s) \o (FlattenSeq(b) \o x)
    <3> DEFINE A == FlattenSeq(s)
               B == FlattenSeq(b)
    <3>1. IsText(A) /\ IsText(B) /\ IsText(x)
      BY <1>1, <2>5
    <3> HIDE DEF A, B
    <3>2. (A \o B) \o x = A \o (B \o x)
      BY <3>1, ConcatAssociates, SMTT(30)
    <3> QED  BY <3>2 DEF A, B
  <2>7. FlattenSeq(s \o b) = FlattenSeq(s) \o FlattenSeq(b)
    BY <2>1
  <2>8. /\ s \o start(m + 1) = Append(s \o b, x)
        /\ start(m + 1) = Append(b, x)
    BY <2>2
  <2> HIDE DEF b
  <2>9. FlattenSeq(s \o start(m + 1)) = FlattenSeq(s) \o FlattenSeq(start(m + 1))
    BY <2>3, <2>4, <2>6, <2>7, <2>8
  <2> QED  BY <2>9
<1>4. Nat \subseteq P
  <2>1. 0 \in P
    BY <1>2
  <2> HIDE DEF P
  <2> QED  BY <1>3, <2>1, SetInduction
<1>5. Holds(Len(t))
  <2> HIDE DEF Holds
  <2> QED  BY <1>1, <1>4
<1>6. start(Len(t)) = t
  OBVIOUS
<1> QED  BY <1>5, <1>6

-----------------------------------------------------------------------------
(* Sets of at most one element.                                            *)

AtMostOne(S) == \A x, y \in S : x = y

LEMMA AtMostOneIsCounted ==
  ASSUME NEW S, AtMostOne(S)
  PROVE  Cardinality(S) <= 1
<1>1. CASE S = {}
  <2>1. Cardinality({}) = 0
    BY FS_EmptySet
  <2> QED  BY <1>1, <2>1
<1>2. CASE S # {}
  <2>1. PICK x : x \in S
    BY <1>2
  <2>2. S = {x}
    BY <2>1 DEF AtMostOne
  <2>3. Cardinality({x}) = 1
    BY FS_Singleton
  <2> QED  BY <2>2, <2>3
<1> QED  BY <1>1, <1>2

LEMMA CountedIsAtMostOne ==
  ASSUME NEW S, IsFiniteSet(S), Cardinality(S) <= 1
  PROVE  AtMostOne(S)
<1> SUFFICES ASSUME NEW x \in S, NEW y \in S, x # y PROVE FALSE
  BY DEF AtMostOne
<1>1. IsFiniteSet({x, y}) /\ Cardinality({x, y}) <= Cardinality(S)
  BY FS_Subset
<1>2. IsFiniteSet({x}) /\ Cardinality({x}) = 1
  BY FS_Singleton
<1>3. Cardinality({x} \cup {y}) = Cardinality({x}) + 1
  BY <1>2, FS_AddElement
<1>4. {x} \cup {y} = {x, y}
  OBVIOUS
<1>5. Cardinality(S) \in Nat
  BY FS_CardinalityType
<1> QED  BY <1>1, <1>2, <1>3, <1>4, <1>5

\* A union over at most one set of at most one element.
LEMMA AtMostOneOf ==
  ASSUME NEW S, AtMostOne(S), \A s \in S : AtMostOne(s)
  PROVE  AtMostOne(UNION S)
BY ZenonT(60) DEF AtMostOne
=============================================================================
