------------------------------ MODULE SumProofs ------------------------------
(***************************************************************************)
(* Sums of the bets counted in a set of buckets: what MapThenSumSet of the *)
(* community modules computes over indices, for every function and every   *)
(* set of them.  FlashPool!BetsAt and Settlement!Total are such sums.      *)
(*                                                                         *)
(* A fold is a recursive function, that is, CHOOSEn to satisfy its own     *)
(* equation.  So each fact needs that such a function exists, and that     *)
(* every such function has the values claimed: both follow by induction,   *)
(* stated here for sets, since a least counterexample can be taken from    *)
(* any set.  The existence rests on a sum by index, Prefix, which is only  *)
(* used in the first half of this module.                                  *)
(***************************************************************************)
EXTENDS Integers, FiniteSets, FiniteSetsExt,
        FiniteSetTheorems, WellFoundedInduction, NaturalsInduction, TLAPS

-----------------------------------------------------------------------------
(* Induction *)

Less == OpToRel(<, Nat)

\* A set of naturals that is not empty has a smallest element.
LEMMA LeastNatural ==
    ASSUME NEW T \in SUBSET Nat, T # {}
    PROVE  \E x \in T : \A y \in T : x <= y
<1>1. IsWellFoundedOn(Less, Nat)
  BY NatLessThanWellFounded DEF Less
<1>2. PICK x \in T : \A y \in T : ~(<<y, x>> \in Less)
  BY <1>1, WFMin
<1>3. ASSUME NEW y \in T PROVE x <= y
  <2>1. ~(y < x)
    BY <1>2 DEF Less, OpToRel
  <2> QED BY <2>1
<1> QED BY <1>3

\* T has 0 and the successor of each of its numbers below n.
Climbs(T, n) ==
    /\ 0 \in T
    /\ \A m \in 0..(n - 1) : m \in T => m + 1 \in T

LEMMA UpTo ==
    ASSUME NEW n \in Nat, NEW T, Climbs(T, n)
    PROVE  \A m \in 0..n : m \in T
<1> DEFINE C == {m \in 0..n : m \notin T}
<1> SUFFICES ASSUME C # {} PROVE FALSE
  OBVIOUS
<1>0. C \in SUBSET Nat
  OBVIOUS
<1>1. PICK m \in C : \A k \in C : m <= k
  <2> HIDE DEF C
  <2> QED BY <1>0, LeastNatural
<1>2. m \in 1..n
  BY <1>1 DEF Climbs
<1>3. m - 1 \in 0..(n - 1) /\ m - 1 \notin C
  BY <1>1, <1>2
<1>4. m - 1 \in T
  BY <1>3, <1>2
<1> QED BY <1>1, <1>2, <1>3, <1>4 DEF Climbs

\* T has {}, and every other subset of S that it has without some element.
Builds(T, S) ==
    /\ {} \in T
    /\ \A s \in SUBSET S : s # {} => \E x \in s : s \ {x} \in T => s \in T

LEMMA OneByOne ==
    ASSUME NEW S, IsFiniteSet(S), NEW T, Builds(T, S)
    PROVE  \A s \in SUBSET S : s \in T
<1> DEFINE C == {Cardinality(s) : s \in {s \in SUBSET S : s \notin T}}
<1> SUFFICES ASSUME NEW bad \in SUBSET S, bad \notin T PROVE FALSE
  OBVIOUS
<1>1. \A s \in SUBSET S : IsFiniteSet(s) /\ Cardinality(s) \in Nat
  BY FS_Subset, FS_CardinalityType
<1>2. C \in SUBSET Nat /\ C # {}
  BY <1>1
<1>3. PICK n \in C : \A k \in C : n <= k
  BY <1>2, LeastNatural
<1>4. PICK s \in SUBSET S : s \notin T /\ n = Cardinality(s)
  BY <1>3
<1>5. PICK x \in s : s \ {x} \in T => s \in T
  <2>1. {} \in T
    BY DEF Builds
  <2>2. s # {}
    BY <1>4, <2>1
  <2> QED BY <2>2, <1>4 DEF Builds
<1>6. Cardinality(s \ {x}) = Cardinality(s) - 1
  BY <1>1, FS_RemoveElement
<1>7. s \ {x} \in T
  <2> SUFFICES ASSUME s \ {x} \notin T PROVE FALSE
    OBVIOUS
  <2>1. Cardinality(s \ {x}) \in C
    OBVIOUS
  <2>2. n <= Cardinality(s \ {x})
    BY <1>3, <2>1
  <2> QED BY <1>1, <1>4, <1>6, <2>2
<1> QED BY <1>4, <1>5, <1>7

-----------------------------------------------------------------------------
(* The sum by index *)

\* g[n] is the sum of h[i] over the members i of S below n.
IsPrefix(g, h, S, n) ==
    /\ g[0] = 0
    /\ \A i \in 0..(n - 1) : g[i + 1] = g[i] + (IF i \in S THEN h[i] ELSE 0)

Prefix(h, S, n) == CHOOSE g \in [0..n -> Nat] : IsPrefix(g, h, S, n)

LEMMA PrefixExists ==
    ASSUME NEW n \in Nat, NEW h \in [0..(n - 1) -> Nat], NEW S
    PROVE  /\ Prefix(h, S, n) \in [0..n -> Nat]
           /\ IsPrefix(Prefix(h, S, n), h, S, n)
<1> DEFINE T == {m \in 0..n : \E g \in [0..m -> Nat] : IsPrefix(g, h, S, m)}
<1>1. 0 \in T
  <2>1. [i \in 0..0 |-> 0] \in [0..0 -> Nat]
    OBVIOUS
  <2>2. IsPrefix([i \in 0..0 |-> 0], h, S, 0)
    BY DEF IsPrefix
  <2> QED BY <2>1, <2>2
<1>2. ASSUME NEW m \in 0..(n - 1), m \in T
      PROVE  m + 1 \in T
  <2>1. PICK g \in [0..m -> Nat] : IsPrefix(g, h, S, m)
    BY <1>2
  <2> DEFINE v == g[m] + (IF m \in S THEN h[m] ELSE 0)
             e == [i \in 0..(m + 1) |-> IF i = m + 1 THEN v ELSE g[i]]
  <2>2. v \in Nat
    OBVIOUS
  <2>3. e \in [0..(m + 1) -> Nat]
    BY <2>2
  <2>4. e[m + 1] = v /\ \A i \in 0..m : e[i] = g[i]
    OBVIOUS
  <2>5. IsPrefix(e, h, S, m + 1)
    <3>1. e[0] = 0
      BY <2>1, <2>4 DEF IsPrefix
    <3>2. ASSUME NEW i \in 0..m
          PROVE  e[i + 1] = e[i] + (IF i \in S THEN h[i] ELSE 0)
      <4>1. CASE i = m
        BY <2>4, <4>1
      <4>2. CASE i # m
        <5>1. i \in 0..(m - 1) /\ i + 1 \in 0..m
          BY <4>2
        <5> QED BY <2>1, <2>4, <5>1 DEF IsPrefix
      <4> QED BY <4>1, <4>2
    <3>3. 0..((m + 1) - 1) = 0..m
      OBVIOUS
    <3> HIDE DEF e
    <3> QED BY <3>1, <3>2, <3>3 DEF IsPrefix
  <2> HIDE DEF e, v
  <2>6. \E f \in [0..(m + 1) -> Nat] : IsPrefix(f, h, S, m + 1)
    BY <2>3, <2>5
  <2>7. m + 1 \in 0..n
    OBVIOUS
  <2> QED BY <2>6, <2>7
<1> HIDE DEF T
<1>3. n \in T
  <2>1. Climbs(T, n)
    BY <1>1, <1>2 DEF Climbs
  <2> QED BY <2>1, UpTo
<1>4. \E g \in [0..n -> Nat] : IsPrefix(g, h, S, n)
  BY <1>3 DEF T
<1> QED BY <1>4 DEF Prefix

IndexSum(h, S, n) == Prefix(h, S, n)[n]

LEMMA IndexSumType ==
    ASSUME NEW n \in Nat, NEW h \in [0..(n - 1) -> Nat], NEW S
    PROVE  IndexSum(h, S, n) \in Nat
BY PrefixExists DEF IndexSum

\* Sums over two sets with no common member add up.
LEMMA IndexSumSplits ==
    ASSUME NEW n \in Nat, NEW h \in [0..(n - 1) -> Nat], NEW A, NEW B,
           A \cap B = {}
    PROVE  IndexSum(h, A \cup B, n) = IndexSum(h, A, n) + IndexSum(h, B, n)
<1> DEFINE a == Prefix(h, A, n)
           b == Prefix(h, B, n)
           c == Prefix(h, A \cup B, n)
           T == {m \in 0..n : c[m] = a[m] + b[m]}
<1>1. a \in [0..n -> Nat] /\ IsPrefix(a, h, A, n)
  BY PrefixExists
<1>2. b \in [0..n -> Nat] /\ IsPrefix(b, h, B, n)
  BY PrefixExists
<1>3. c \in [0..n -> Nat] /\ IsPrefix(c, h, A \cup B, n)
  BY PrefixExists
<1> HIDE DEF a, b, c
<1>4. 0 \in T
  BY <1>1, <1>2, <1>3 DEF IsPrefix
<1>5. ASSUME NEW i \in 0..(n - 1), i \in T
      PROVE  i + 1 \in T
  <2>1. i \in 0..n /\ i + 1 \in 0..n /\ h[i] \in Nat
    OBVIOUS
  <2>2. c[i] = a[i] + b[i] /\ a[i] \in Nat /\ b[i] \in Nat
    BY <1>1, <1>2, <1>5, <2>1
  <2>3. CASE i \in A
    BY <1>1, <1>2, <1>3, <2>1, <2>2, <2>3 DEF IsPrefix
  <2>4. CASE i \in B
    BY <1>1, <1>2, <1>3, <2>1, <2>2, <2>4 DEF IsPrefix
  <2>5. CASE i \notin A \cup B
    BY <1>1, <1>2, <1>3, <2>1, <2>2, <2>5 DEF IsPrefix
  <2> QED BY <2>3, <2>4, <2>5
<1> HIDE DEF T
<1>6. n \in T
  <2>1. Climbs(T, n)
    BY <1>4, <1>5 DEF Climbs
  <2> QED BY <2>1, UpTo
<1> QED BY <1>6 DEF T, a, b, c, IndexSum

\* A function that is nowhere larger on S has no larger sum over S.
LEMMA IndexSumGrows ==
    ASSUME NEW n \in Nat, NEW h \in [0..(n - 1) -> Nat], NEW k \in [0..(n - 1) -> Nat],
           NEW S, \A i \in S \cap (0..(n - 1)) : h[i] <= k[i]
    PROVE  IndexSum(h, S, n) <= IndexSum(k, S, n)
<1> DEFINE a == Prefix(h, S, n)
           b == Prefix(k, S, n)
           T == {m \in 0..n : a[m] <= b[m]}
<1>1. a \in [0..n -> Nat] /\ IsPrefix(a, h, S, n)
  BY PrefixExists
<1>2. b \in [0..n -> Nat] /\ IsPrefix(b, k, S, n)
  BY PrefixExists
<1> HIDE DEF a, b
<1>3. 0 \in T
  BY <1>1, <1>2 DEF IsPrefix
<1>4. ASSUME NEW i \in 0..(n - 1), i \in T
      PROVE  i + 1 \in T
  <2>1. i \in 0..n /\ i + 1 \in 0..n /\ h[i] \in Nat /\ k[i] \in Nat
    OBVIOUS
  <2>2. a[i] <= b[i] /\ a[i] \in Nat /\ b[i] \in Nat
    BY <1>1, <1>2, <1>4, <2>1
  <2>3. CASE i \in S
    BY <1>1, <1>2, <2>1, <2>2, <2>3 DEF IsPrefix
  <2>4. CASE i \notin S
    BY <1>1, <1>2, <2>1, <2>2, <2>4 DEF IsPrefix
  <2> QED BY <2>3, <2>4
<1> HIDE DEF T
<1>5. n \in T
  <2>1. Climbs(T, n)
    BY <1>3, <1>4 DEF Climbs
  <2> QED BY <2>1, UpTo
<1> QED BY <1>5 DEF T, a, b, IndexSum

\* The sum over no index is 0, and over one index is the value there.
LEMMA IndexSumOfNone ==
    ASSUME NEW n \in Nat, NEW h \in [0..(n - 1) -> Nat]
    PROVE  IndexSum(h, {}, n) = 0
<1>1. IndexSum(h, {} \cup {}, n) = IndexSum(h, {}, n) + IndexSum(h, {}, n)
  BY IndexSumSplits
<1>2. {} \cup {} = {}
  OBVIOUS
<1>3. IndexSum(h, {}, n) = IndexSum(h, {}, n) + IndexSum(h, {}, n)
  BY <1>1, <1>2
<1>4. IndexSum(h, {}, n) \in Nat
  BY IndexSumType
<1> QED BY <1>3, <1>4

LEMMA IndexSumOfOne ==
    ASSUME NEW n \in Nat, NEW h \in [0..(n - 1) -> Nat], NEW x \in 0..(n - 1)
    PROVE  IndexSum(h, {x}, n) = h[x]
<1> DEFINE a == Prefix(h, {x}, n)
           T == {m \in 0..n : a[m] = IF m <= x THEN 0 ELSE h[x]}
<1>1. a \in [0..n -> Nat] /\ IsPrefix(a, h, {x}, n)
  BY PrefixExists
<1> HIDE DEF a
<1>2. 0 \in T
  BY <1>1 DEF IsPrefix
<1>3. ASSUME NEW i \in 0..(n - 1), i \in T
      PROVE  i + 1 \in T
  <2>1. i \in 0..n /\ i + 1 \in 0..n /\ h[i] \in Nat /\ h[x] \in Nat
    OBVIOUS
  <2>2. a[i] = IF i <= x THEN 0 ELSE h[x]
    BY <1>3
  <2>3. CASE i = x
    BY <1>1, <2>1, <2>2, <2>3 DEF IsPrefix
  <2>4. CASE i # x
    <3>1. a[i + 1] = a[i] + 0
      BY <1>1, <2>4 DEF IsPrefix
    <3>2. i + 1 <= x <=> i <= x
      BY <2>4
    <3>3. a[i + 1] = a[i]
      BY <1>1, <2>1, <3>1
    <3> QED BY <2>1, <2>2, <3>2, <3>3
  <2> QED BY <2>3, <2>4
<1> HIDE DEF T
<1>4. n \in T
  <2>1. Climbs(T, n)
    BY <1>2, <1>3 DEF Climbs
  <2> QED BY <2>1, UpTo
<1> QED BY <1>4 DEF T, a, IndexSum
LEMMA IndexSumPicks ==
    ASSUME NEW n \in Nat, NEW h \in [0..(n - 1) -> Nat],
           NEW S \in SUBSET (0..(n - 1)), NEW x \in S
    PROVE  IndexSum(h, S, n) = h[x] + IndexSum(h, S \ {x}, n)
<1>1. {x} \cap (S \ {x}) = {} /\ {x} \cup (S \ {x}) = S
  OBVIOUS
<1>2. IndexSum(h, {x} \cup (S \ {x}), n) = IndexSum(h, {x}, n) + IndexSum(h, S \ {x}, n)
  BY <1>1, IndexSumSplits
<1>3. IndexSum(h, {x}, n) = h[x]
  BY IndexSumOfOne
<1> QED BY <1>1, <1>2, <1>3

-----------------------------------------------------------------------------
(* The sum over a set, as the models write it *)

SumOver(h, S) == MapThenSumSet(LAMBDA b : h[b], S)

Pick(s) == CHOOSE x \in s : TRUE

\* The equation of the fold that MapThenSumSet is.
IsFold(sum, h, S) ==
    sum = [s \in SUBSET S |-> IF s = {} THEN 0 ELSE h[Pick(s)] + sum[s \ {Pick(s)}]]

LEMMA SumIsFold ==
    ASSUME NEW h, NEW S
    PROVE  SumOver(h, S) = (CHOOSE sum : IsFold(sum, h, S))[S]
BY DEF SumOver, MapThenSumSet, MapThenFoldSet, IsFold, Pick

LEMMA SumIsIndexSum ==
    ASSUME NEW n \in Nat, NEW h \in [0..(n - 1) -> Nat], NEW S \in SUBSET (0..(n - 1))
    PROVE  SumOver(h, S) = IndexSum(h, S, n)
<1> DEFINE byIndex == [s \in SUBSET S |-> IndexSum(h, s, n)]
           sum == CHOOSE sum : IsFold(sum, h, S)
           T == {s \in SUBSET S : sum[s] = IndexSum(h, s, n)}
<1>1. ASSUME NEW s \in SUBSET S, s # {}
      PROVE  /\ Pick(s) \in s
             /\ s \ {Pick(s)} \in SUBSET S
             /\ IndexSum(h, s, n) = h[Pick(s)] + IndexSum(h, s \ {Pick(s)}, n)
  <2>1. Pick(s) \in s
    BY <1>1 DEF Pick
  <2>2. s \in SUBSET (0..(n - 1))
    OBVIOUS
  <2> QED BY <2>1, <2>2, IndexSumPicks
<1>2. IsFold(byIndex, h, S)
  <2>1. ASSUME NEW s \in SUBSET S
        PROVE  byIndex[s] = IF s = {} THEN 0
                            ELSE h[Pick(s)] + byIndex[s \ {Pick(s)}]
    <3>1. CASE s = {}
      BY <3>1, IndexSumOfNone
    <3>2. CASE s # {}
      BY <1>1, <3>2
    <3> QED BY <3>1, <3>2
  <2>2. byIndex = [s \in SUBSET S |-> byIndex[s]]
    OBVIOUS
  <2> HIDE DEF byIndex
  <2> QED BY <2>1, <2>2 DEF IsFold
<1>3. IsFold(sum, h, S)
  BY <1>2
<1> HIDE DEF sum
<1>4. \A s \in SUBSET S :
         sum[s] = IF s = {} THEN 0 ELSE h[Pick(s)] + sum[s \ {Pick(s)}]
  BY <1>3 DEF IsFold
<1>5. Builds(T, S)
  <2>1. {} \in T
    BY <1>4, IndexSumOfNone
  <2>2. ASSUME NEW s \in SUBSET S, s # {}
        PROVE  \E x \in s : s \ {x} \in T => s \in T
    <3>1. s \ {Pick(s)} \in T => s \in T
      BY <1>1, <1>4, <2>2
    <3> QED BY <1>1, <2>2, <3>1
  <2> QED BY <2>1, <2>2 DEF Builds
<1>6. IsFiniteSet(S)
  <2>1. IsFiniteSet(0..(n - 1))
    BY FS_Interval
  <2> QED BY <2>1, FS_Subset
<1>7. S \in T
  <2> HIDE DEF T
  <2> QED BY <1>5, <1>6, OneByOne
<1> QED BY <1>7, SumIsFold DEF sum
-----------------------------------------------------------------------------
(* What is used of it elsewhere *)

LEMMA SumType ==
    ASSUME NEW n \in Nat, NEW h \in [0..(n - 1) -> Nat], NEW S \in SUBSET (0..(n - 1))
    PROVE  SumOver(h, S) \in Nat
BY SumIsIndexSum, IndexSumType

LEMMA SumOfNone ==
    ASSUME NEW n \in Nat, NEW h \in [0..(n - 1) -> Nat]
    PROVE  SumOver(h, {}) = 0
<1>1. {} \in SUBSET (0..(n - 1))
  OBVIOUS
<1>2. SumOver(h, {}) = IndexSum(h, {}, n)
  BY <1>1, SumIsIndexSum
<1> QED BY <1>2, IndexSumOfNone

LEMMA SumOfOne ==
    ASSUME NEW n \in Nat, NEW h \in [0..(n - 1) -> Nat], NEW x \in 0..(n - 1)
    PROVE  SumOver(h, {x}) = h[x]
<1>1. {x} \in SUBSET (0..(n - 1))
  OBVIOUS
<1>2. SumOver(h, {x}) = IndexSum(h, {x}, n)
  BY <1>1, SumIsIndexSum
<1> QED BY <1>2, IndexSumOfOne

\* Sums over two sets with no common member add up.
LEMMA SumSplits ==
    ASSUME NEW n \in Nat, NEW h \in [0..(n - 1) -> Nat],
           NEW A \in SUBSET (0..(n - 1)), NEW B \in SUBSET (0..(n - 1)),
           A \cap B = {}
    PROVE  SumOver(h, A \cup B) = SumOver(h, A) + SumOver(h, B)
<1>1. A \cup B \in SUBSET (0..(n - 1))
  OBVIOUS
<1>2. SumOver(h, A \cup B) = IndexSum(h, A \cup B, n)
  BY <1>1, SumIsIndexSum
<1>3. SumOver(h, A) = IndexSum(h, A, n) /\ SumOver(h, B) = IndexSum(h, B, n)
  BY SumIsIndexSum
<1>4. IndexSum(h, A \cup B, n) = IndexSum(h, A, n) + IndexSum(h, B, n)
  BY IndexSumSplits
<1> QED BY <1>2, <1>3, <1>4

LEMMA SumPicks ==
    ASSUME NEW n \in Nat, NEW h \in [0..(n - 1) -> Nat],
           NEW S \in SUBSET (0..(n - 1)), NEW x \in S
    PROVE  SumOver(h, S) = h[x] + SumOver(h, S \ {x})
<1>1. S \ {x} \in SUBSET (0..(n - 1))
  OBVIOUS
<1> QED BY <1>1, SumIsIndexSum, IndexSumPicks

\* A set that has more members, or a function with larger values, has a sum
\* that is no smaller.
LEMMA SumGrowsWithSet ==
    ASSUME NEW n \in Nat, NEW h \in [0..(n - 1) -> Nat],
           NEW A \in SUBSET (0..(n - 1)), NEW B \in SUBSET A
    PROVE  SumOver(h, B) <= SumOver(h, A)
<1>1. /\ B \cup (A \ B) = A
      /\ B \cap (A \ B) = {}
      /\ B \in SUBSET (0..(n - 1))
      /\ A \ B \in SUBSET (0..(n - 1))
  OBVIOUS
<1>2. SumOver(h, A) = SumOver(h, B) + SumOver(h, A \ B)
  BY <1>1, SumSplits
<1>3. SumOver(h, B) \in Nat /\ SumOver(h, A \ B) \in Nat
  BY <1>1, SumType
<1> QED BY <1>2, <1>3

LEMMA SumGrowsWithValues ==
    ASSUME NEW n \in Nat, NEW h \in [0..(n - 1) -> Nat], NEW k \in [0..(n - 1) -> Nat],
           NEW S \in SUBSET (0..(n - 1)), \A i \in S : h[i] <= k[i]
    PROVE  SumOver(h, S) <= SumOver(k, S)
<1>1. \A i \in S \cap (0..(n - 1)) : h[i] <= k[i]
  OBVIOUS
<1>2. IndexSum(h, S, n) <= IndexSum(k, S, n)
  BY <1>1, IndexSumGrows
<1> QED BY <1>2, SumIsIndexSum

\* Functions that agree on a set have the same sum over it.
LEMMA SumAgrees ==
    ASSUME NEW n \in Nat, NEW h \in [0..(n - 1) -> Nat], NEW k \in [0..(n - 1) -> Nat],
           NEW S \in SUBSET (0..(n - 1)), \A i \in S : h[i] = k[i]
    PROVE  SumOver(h, S) = SumOver(k, S)
<1>1. \A i \in S : h[i] <= k[i] /\ k[i] <= h[i]
  <2>1. \A i \in S : h[i] \in Nat /\ k[i] \in Nat
    OBVIOUS
  <2> QED BY <2>1
<1>2. SumOver(h, S) <= SumOver(k, S)
  BY <1>1, SumGrowsWithValues
<1>3. SumOver(k, S) <= SumOver(h, S)
  BY <1>1, SumGrowsWithValues
<1>4. SumOver(h, S) \in Nat /\ SumOver(k, S) \in Nat
  BY SumType
<1> QED BY <1>2, <1>3, <1>4

LEMMA SumOfZeros ==
    ASSUME NEW n \in Nat, NEW h \in [0..(n - 1) -> Nat],
           NEW S \in SUBSET (0..(n - 1)), \A i \in S : h[i] = 0
    PROVE  SumOver(h, S) = 0
<1> DEFINE T == {s \in SUBSET S : SumOver(h, s) = 0}
<1>1. Builds(T, S)
  <2>1. {} \in T
    BY SumOfNone
  <2>2. ASSUME NEW s \in SUBSET S, NEW x \in s, s \ {x} \in T
        PROVE  s \in T
    <3>1. s \in SUBSET (0..(n - 1)) /\ h[x] = 0
      OBVIOUS
    <3>2. SumOver(h, s) = h[x] + SumOver(h, s \ {x})
      BY <3>1, SumPicks
    <3>3. SumOver(h, s \ {x}) = 0
      BY <2>2
    <3>4. SumOver(h, s) = 0
      BY <3>1, <3>2, <3>3
    <3> QED BY <3>4
  <2>3. ASSUME NEW s \in SUBSET S, s # {}
        PROVE  \E x \in s : s \ {x} \in T => s \in T
    <3>1. PICK x \in s : TRUE
      BY <2>3
    <3> HIDE DEF T
    <3> QED BY <2>2, <3>1
  <2> HIDE DEF T
  <2> QED BY <2>1, <2>3 DEF Builds
<1>2. IsFiniteSet(S)
  <2>1. IsFiniteSet(0..(n - 1))
    BY FS_Interval
  <2> QED BY <2>1, FS_Subset
<1>3. S \in T
  <2> HIDE DEF T
  <2> QED BY <1>1, <1>2, OneByOne
<1> QED BY <1>3

\* One more at a member of the set is one more in its sum.
LEMMA SumOfOneMore ==
    ASSUME NEW n \in Nat, NEW h \in [0..(n - 1) -> Nat],
           NEW S \in SUBSET (0..(n - 1)), NEW x \in S
    PROVE  SumOver([h EXCEPT ![x] = @ + 1], S) = SumOver(h, S) + 1
<1> DEFINE k == [h EXCEPT ![x] = @ + 1]
<1>1. k \in [0..(n - 1) -> Nat] /\ k[x] = h[x] + 1 /\ h[x] \in Nat
  OBVIOUS
<1>2. \A i \in S \ {x} : k[i] = h[i]
  OBVIOUS
<1>3. S \ {x} \in SUBSET (0..(n - 1))
  OBVIOUS
<1> HIDE DEF k
<1>4. SumOver(k, S) = k[x] + SumOver(k, S \ {x})
  BY <1>1, SumPicks
<1>5. SumOver(h, S) = h[x] + SumOver(h, S \ {x})
  BY SumPicks
<1>6. SumOver(k, S \ {x}) = SumOver(h, S \ {x})
  BY <1>1, <1>2, <1>3, SumAgrees
<1>7. SumOver(h, S \ {x}) \in Nat
  BY <1>3, SumType
<1>8. SumOver(k, S) = SumOver(h, S) + 1
  BY <1>1, <1>4, <1>5, <1>6, <1>7
<1> QED BY <1>8 DEF k

\* Counting the players at each index and adding the counts up over a set is
\* counting the players at the indices of the set.
LEMMA SumOfCounts ==
    ASSUME NEW n \in Nat, NEW U, IsFiniteSet(U), NEW f,
           NEW S \in SUBSET (0..(n - 1))
    PROVE  LET counts == [i \in 0..(n - 1) |-> Cardinality({u \in U : f[u] = i})]
           IN  /\ counts \in [0..(n - 1) -> Nat]
               /\ SumOver(counts, S) = Cardinality({u \in U : f[u] \in S})
<1> DEFINE at(s)  == {u \in U : f[u] \in s}
           counts == [i \in 0..(n - 1) |-> Cardinality({u \in U : f[u] = i})]
           T      == {s \in SUBSET S : SumOver(counts, s) = Cardinality(at(s))}
<1>1. \A s : IsFiniteSet(at(s)) /\ Cardinality(at(s)) \in Nat
  <2>1. \A s : at(s) \in SUBSET U
    OBVIOUS
  <2> HIDE DEF at
  <2> QED BY <2>1, FS_Subset, FS_CardinalityType
<1>2. \A i : {u \in U : f[u] = i} = at({i})
  OBVIOUS
<1>3. counts \in [0..(n - 1) -> Nat]
  <2> HIDE DEF at
  <2> QED BY <1>1, <1>2
<1>4. \A i \in 0..(n - 1) : counts[i] = Cardinality(at({i}))
  <2> HIDE DEF at
  <2> QED BY <1>2
<1> HIDE DEF counts
<1>5. Builds(T, S)
  <2>1. {} \in T
    <3>1. at({}) = {}
      OBVIOUS
    <3>2. SumOver(counts, {}) = 0
      BY <1>3, SumOfNone
    <3> QED BY <3>1, <3>2, FS_EmptySet
  <2>2. ASSUME NEW s \in SUBSET S, NEW x \in s, s \ {x} \in T
        PROVE  s \in T
    <3>1. s \in SUBSET (0..(n - 1)) /\ x \in 0..(n - 1)
      OBVIOUS
    <3>2. SumOver(counts, s) = counts[x] + SumOver(counts, s \ {x})
      BY <1>3, <3>1, SumPicks
    <3>3. /\ at(s) = at({x}) \cup at(s \ {x})
          /\ at({x}) \cap at(s \ {x}) = {}
      OBVIOUS
    <3>4. Cardinality(at(s)) = Cardinality(at({x})) + Cardinality(at(s \ {x}))
      <4> HIDE DEF at
      <4>1. Cardinality(at({x}) \cap at(s \ {x})) = 0
        BY <3>3, FS_EmptySet
      <4> DEFINE a == at({x})
                 b == at(s \ {x})
      <4>2. /\ IsFiniteSet(a) /\ Cardinality(a) \in Nat
            /\ IsFiniteSet(b) /\ Cardinality(b) \in Nat
        BY <1>1
      <4>3. Cardinality(a \cap b) = 0 /\ at(s) = a \cup b
        BY <3>3, <4>1
      <4> HIDE DEF a, b
      <4>4. Cardinality(a \cup b) = Cardinality(a) + Cardinality(b) - Cardinality(a \cap b)
        BY <4>2, FS_Union
      <4>5. Cardinality(at(s)) = Cardinality(a) + Cardinality(b)
        BY <4>2, <4>3, <4>4
      <4> QED BY <4>5 DEF a, b
    <3>5. SumOver(counts, s \ {x}) = Cardinality(at(s \ {x}))
      BY <2>2
    <3> HIDE DEF at
    <3>6. SumOver(counts, s) = Cardinality(at(s))
      BY <1>4, <3>1, <3>2, <3>4, <3>5
    <3> QED BY <3>6
  <2>3. ASSUME NEW s \in SUBSET S, s # {}
        PROVE  \E x \in s : s \ {x} \in T => s \in T
    <3>1. PICK x \in s : TRUE
      BY <2>3
    <3> HIDE DEF T
    <3> QED BY <2>2, <3>1
  <2> HIDE DEF T
  <2> QED BY <2>1, <2>3 DEF Builds
<1>6. IsFiniteSet(S)
  <2>1. IsFiniteSet(0..(n - 1))
    BY FS_Interval
  <2> QED BY <2>1, FS_Subset
<1>7. S \in T
  <2> HIDE DEF T
  <2> QED BY <1>5, <1>6, OneByOne
<1>8. SumOver(counts, S) = Cardinality(at(S))
  BY <1>7
<1> QED BY <1>3, <1>8 DEF counts
=============================================================================
