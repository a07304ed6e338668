----------------------------- MODULE WalkProofs -----------------------------
(***************************************************************************)
(* What resolve_market computes, for every histogram: the bucket it maps a *)
(* price to, the bets its outward walk has accumulated at each distance,   *)
(* and the distance at which it stops.                                     *)
(***************************************************************************)
EXTENDS PoolMath, SumProofs

-----------------------------------------------------------------------------
(* Arithmetic *)

\* The quotient of naturals is a natural, and it undoes the product.
LEMMA Quotient ==
    ASSUME NEW m \in Nat, NEW n \in Nat \ {0}
    PROVE  /\ m \div n \in Nat
           /\ (m * n) \div n = m
OBVIOUS

LEMMA QuotientBound ==
    ASSUME NEW m \in Nat, NEW n \in Nat \ {0}
    PROVE  m \div n \in 0..m
OBVIOUS

LEMMA ProductIsMonotone ==
    ASSUME NEW f \in Nat, NEW m \in Nat, NEW n \in Nat, m <= n
    PROVE  f * m <= f * n
OBVIOUS

\* The quotient is the number of times the divisor fits.
LEMMA QuotientFits ==
    ASSUME NEW m \in Nat, NEW n \in Nat \ {0}, NEW k \in Nat
    PROVE  n * k <= m <=> k <= m \div n
<1> DEFINE q == m \div n
<1>1. q \in Nat /\ n * q <= m /\ m < n * q + n
  OBVIOUS
<1> HIDE DEF q
<1>2. ASSUME k <= q PROVE n * k <= m
  <2>1. n * k <= n * q
    BY <1>1, <1>2, ProductIsMonotone
  <2> QED BY <1>1, <2>1
<1>3. ASSUME q < k PROVE m < n * k
  <2>1. n * (q + 1) <= n * k
    BY <1>1, <1>3, ProductIsMonotone
  <2>2. n * (q + 1) = n * q + n
    BY <1>1
  <2> QED BY <1>1, <2>1, <2>2
<1>4. n * k \in Nat
  OBVIOUS
<1> QED BY <1>1, <1>2, <1>3, <1>4 DEF q

-----------------------------------------------------------------------------
(* Buckets *)

\* The buckets are the indices 0 to HISTOGRAM_BUCKETS - 1, which SumProofs is
\* about, and a pool's histogram is a function on them.
LEMMA BucketsAreIndices ==
    /\ HISTOGRAM_BUCKETS \in Nat \ {0}
    /\ Buckets = 0..(HISTOGRAM_BUCKETS - 1)
BY PoolAssumption DEF Buckets

LEMMA HistogramType ==
    ASSUME NEW p \in Pool
    PROVE  p.histogram_buckets \in [0..(HISTOGRAM_BUCKETS - 1) -> Nat]
<1>1. p.histogram_buckets \in [Buckets -> 0..U32Max]
  BY DEF Pool
<1>2. 0..U32Max \in SUBSET Nat
  BY PoolAssumption
<1> QED BY <1>1, <1>2, BucketsAreIndices

\* The index of every price on or above the base is a natural number.
LEMMA BucketIndexIsNatural ==
    ASSUME NEW p \in Pool, NEW v \in Nat,
           v >= p.base_price, p.precision_step > 0
    PROVE  BucketIndex(p, v) \in Nat
<1>1. /\ p.base_price \in Nat
      /\ p.precision_step \in Nat \ {0}
  BY PoolAssumption DEF Pool
<1>2. v - p.base_price \in Nat
  BY <1>1
<1> QED BY <1>1, <1>2, Quotient DEF BucketIndex

\* The winning bucket is a bucket, and it is the number of bucket edges above
\* the first that the price reaches.
LEMMA WinningBucketCountsEdges ==
    ASSUME NEW p \in Pool, NEW price \in Nat, HasWinningBucket(p, price)
    PROVE  /\ WinningBucket(p, price) \in Buckets
           /\ WinningBucket(p, price)
              = Cardinality({b \in 1..(HISTOGRAM_BUCKETS - 1) :
                               p.base_price + b * p.precision_step <= price})
<1> DEFINE base  == p.base_price
           step  == p.precision_step
           edges == {b \in 1..(HISTOGRAM_BUCKETS - 1) : base + b * step <= price}
           w     == WinningBucket(p, price)
<1>1. base \in Nat /\ step \in Nat
  BY PoolAssumption DEF Pool
<1>2. w \in Buckets /\ edges = 1..w
  <2>1. CASE price < base
    <3>1. w = 0
      BY <2>1 DEF WinningBucket
    <3>2. \A b \in 1..(HISTOGRAM_BUCKETS - 1) : b * step >= 0
      BY <1>1
    <3>3. \A b \in 1..(HISTOGRAM_BUCKETS - 1) : b * step \in Int
      BY <1>1
    <3> HIDE DEF base, step
    <3>4. edges = {}
      BY <1>1, <2>1, <3>2, <3>3
    <3> QED BY <3>1, <3>4, BucketsAreIndices
  <2>2. CASE ~(price < base)
    <3> DEFINE idx == (price - base) \div step
    <3>1. step \in Nat \ {0} /\ price - base \in Nat
      BY <1>1, <2>2 DEF HasWinningBucket
    <3>2. w = IF idx >= HISTOGRAM_BUCKETS THEN HISTOGRAM_BUCKETS - 1 ELSE idx
      BY <2>2 DEF WinningBucket, BucketIndex
    <3>3. idx \in Nat
      BY <3>1, Quotient
    <3>4. \A b \in Nat : base + b * step <= price <=> b <= idx
      <4>1. \A b \in Nat : step * b <= price - base <=> b <= idx
        BY <3>1, QuotientFits
      <4>2. \A b \in Nat : b * step = step * b /\ b * step \in Nat
        BY <1>1
      <4> HIDE DEF base, step, idx
      <4> QED BY <1>1, <4>1, <4>2
    <3> HIDE DEF base, step, idx, w
    <3>5. w \in Buckets
      BY <3>2, <3>3, BucketsAreIndices
    <3>6. edges = 1..w
      <4>1. \A b \in 1..(HISTOGRAM_BUCKETS - 1) : b <= idx <=> b <= w
        BY <3>2, <3>3, BucketsAreIndices
      <4>2. \A b \in 1..(HISTOGRAM_BUCKETS - 1) : base + b * step <= price <=> b <= w
        BY <3>4, <4>1
      <4>3. \A b \in 1..w : b \in 1..(HISTOGRAM_BUCKETS - 1)
        BY <3>5, BucketsAreIndices
      <4>4. w \in Int
        BY <3>5, BucketsAreIndices
      <4> QED BY <4>2, <4>3, <4>4, BucketsAreIndices
    <3> QED BY <3>5, <3>6
  <2> QED BY <2>1, <2>2
<1>3. Cardinality(1..w) = w
  <2>1. w \in Int /\ w >= 0
    BY <1>2, BucketsAreIndices
  <2> HIDE DEF w
  <2> QED BY <2>1, FS_Interval
<1> QED BY <1>2, <1>3

-----------------------------------------------------------------------------
(* The walk *)

\* The buckets within distance d of w, and those at distance d.
Near(w, d)   == {b \in Buckets : Distance(b, w) <= d}
Circle(w, d) == {b \in Buckets : Distance(b, w) = d}

LEMMA NearGrows ==
    ASSUME NEW w \in Buckets, NEW d \in Nat \ {0}
    PROVE  /\ Near(w, d) = Near(w, d - 1) \cup Circle(w, d)
           /\ Near(w, d - 1) \cap Circle(w, d) = {}
<1>1. \A b \in Buckets : Distance(b, w) \in Nat
  BY BucketsAreIndices DEF Distance
<1> QED BY <1>1 DEF Near, Circle

LEMMA NearEnds ==
    ASSUME NEW w \in Buckets
    PROVE  /\ Near(w, 0) = {w}
           /\ Near(w, HISTOGRAM_BUCKETS - 1) = Buckets
BY BucketsAreIndices DEF Near, Distance

\* One round of the walk adds the bets at its distance.
LEMMA RingIsSum ==
    ASSUME NEW h \in [0..(HISTOGRAM_BUCKETS - 1) -> Nat], NEW w \in Buckets,
           NEW d \in Buckets \ {0}
    PROVE  Ring(h, w, d) = SumOver(h, Circle(w, d))
<1> DEFINE left  == IF w - d >= 0 THEN {w - d} ELSE {}
           right == IF w + d < HISTOGRAM_BUCKETS THEN {w + d} ELSE {}
<1>1. /\ Circle(w, d) = left \cup right
      /\ left \cap right = {}
      /\ left \in SUBSET (0..(HISTOGRAM_BUCKETS - 1))
      /\ right \in SUBSET (0..(HISTOGRAM_BUCKETS - 1))
  BY BucketsAreIndices DEF Circle, Distance
<1>2. SumOver(h, left) = IF w - d >= 0 THEN h[w - d] ELSE 0
  <2>1. CASE w - d >= 0
    <3>1. w - d \in 0..(HISTOGRAM_BUCKETS - 1)
      BY <2>1, BucketsAreIndices
    <3>2. SumOver(h, {w - d}) = h[w - d]
      BY <3>1, BucketsAreIndices, SumOfOne
    <3> QED BY <2>1, <3>2
  <2>2. CASE ~(w - d >= 0)
    <3>1. SumOver(h, {}) = 0
      BY BucketsAreIndices, SumOfNone
    <3> QED BY <2>2, <3>1
  <2> QED BY <2>1, <2>2
<1>3. SumOver(h, right) = IF w + d < HISTOGRAM_BUCKETS THEN h[w + d] ELSE 0
  <2>1. CASE w + d < HISTOGRAM_BUCKETS
    <3>1. w + d \in 0..(HISTOGRAM_BUCKETS - 1)
      BY <2>1, BucketsAreIndices
    <3>2. SumOver(h, {w + d}) = h[w + d]
      BY <3>1, BucketsAreIndices, SumOfOne
    <3> QED BY <2>1, <3>2
  <2>2. CASE ~(w + d < HISTOGRAM_BUCKETS)
    <3>1. SumOver(h, {}) = 0
      BY BucketsAreIndices, SumOfNone
    <3> QED BY <2>2, <3>1
  <2> QED BY <2>1, <2>2
<1> HIDE DEF left, right
<1>4. SumOver(h, left \cup right) = SumOver(h, left) + SumOver(h, right)
  <2>1. HISTOGRAM_BUCKETS \in Nat
    BY BucketsAreIndices
  <2> HIDE DEF Buckets
  <2> QED BY <1>1, <2>1, SumSplits
<1>5. d # 0
  OBVIOUS
<1> QED BY <1>1, <1>2, <1>3, <1>4, <1>5 DEF Ring

\* The equation of the walk, and of the bets within each distance.
IsWalk(acc, h, w) ==
    acc = [d \in Buckets |->
             SaturatingAdd(IF d = 0 THEN 0 ELSE acc[d - 1], Ring(h, w, d))]

LEMMA AccumulatedIsWalk ==
    ASSUME NEW h, NEW w
    PROVE  Accumulated(h, w) = CHOOSE acc : IsWalk(acc, h, w)
BY DEF Accumulated, IsWalk

LEMMA NearSum ==
    ASSUME NEW h \in [0..(HISTOGRAM_BUCKETS - 1) -> Nat], NEW w \in Buckets
    PROVE  /\ \A d : SumOver(h, Near(w, d)) \in 0..SumOver(h, Buckets)
           /\ SumOver(h, Near(w, 0)) = Ring(h, w, 0)
           /\ \A d \in Buckets \ {0} :
                 SumOver(h, Near(w, d)) = SumOver(h, Near(w, d - 1)) + Ring(h, w, d)
<1>1. HISTOGRAM_BUCKETS \in Nat /\ Buckets \in SUBSET (0..(HISTOGRAM_BUCKETS - 1))
  BY BucketsAreIndices
<1>2. ASSUME NEW d PROVE SumOver(h, Near(w, d)) \in 0..SumOver(h, Buckets)
  <2>1. Near(w, d) \in SUBSET Buckets /\ Near(w, d) \in SUBSET (0..(HISTOGRAM_BUCKETS - 1))
    BY BucketsAreIndices DEF Near
  <2>2. SumOver(h, Near(w, d)) <= SumOver(h, Buckets)
    BY <1>1, <2>1, SumGrowsWithSet
  <2>3. SumOver(h, Near(w, d)) \in Nat /\ SumOver(h, Buckets) \in Nat
    BY <1>1, <2>1, SumType
  <2> QED BY <2>2, <2>3
<1>3. SumOver(h, Near(w, 0)) = Ring(h, w, 0)
  <2>1. SumOver(h, {w}) = h[w]
    BY <1>1, BucketsAreIndices, SumOfOne
  <2> QED BY <2>1, NearEnds DEF Ring
<1>4. ASSUME NEW d \in Buckets \ {0}
      PROVE  SumOver(h, Near(w, d)) = SumOver(h, Near(w, d - 1)) + Ring(h, w, d)
  <2>1. d \in Nat \ {0}
    BY BucketsAreIndices
  <2>2. /\ Near(w, d - 1) \in SUBSET (0..(HISTOGRAM_BUCKETS - 1))
        /\ Circle(w, d) \in SUBSET (0..(HISTOGRAM_BUCKETS - 1))
    BY BucketsAreIndices DEF Near, Circle
  <2>3. SumOver(h, Near(w, d - 1) \cup Circle(w, d))
        = SumOver(h, Near(w, d - 1)) + SumOver(h, Circle(w, d))
    <3>1. Near(w, d - 1) \cap Circle(w, d) = {}
      BY <2>1, NearGrows
    <3> QED BY <1>1, <2>2, <3>1, SumSplits
  <2>4. Near(w, d) = Near(w, d - 1) \cup Circle(w, d)
    BY <2>1, NearGrows
  <2>5. Ring(h, w, d) = SumOver(h, Circle(w, d))
    BY RingIsSum
  <2> QED BY <2>3, <2>4, <2>5
<1> QED BY <1>2, <1>3, <1>4

\* With no more bets than a u32 holds nothing saturates: what the walk has
\* accumulated at a distance are the bets within it.
LEMMA AccumulatedIsSum ==
    ASSUME NEW h \in [0..(HISTOGRAM_BUCKETS - 1) -> Nat], NEW w \in Buckets,
           SumOver(h, Buckets) <= U32Max
    PROVE  \A d \in Buckets : Accumulated(h, w)[d] = SumOver(h, Near(w, d))
<1> DEFINE sums == [d \in Buckets |-> SumOver(h, Near(w, d))]
           acc  == Accumulated(h, w)
           T    == {d \in 0..(HISTOGRAM_BUCKETS - 1) : acc[d] = SumOver(h, Near(w, d))}
<1>1. ASSUME NEW d \in Buckets
      PROVE  SumOver(h, Near(w, d))
             = SaturatingAdd(IF d = 0 THEN 0 ELSE SumOver(h, Near(w, d - 1)), Ring(h, w, d))
  <2>1. SumOver(h, Near(w, d)) \in Nat /\ SumOver(h, Near(w, d)) <= U32Max
    <3>1. SumOver(h, Near(w, d)) \in 0..SumOver(h, Buckets)
      BY NearSum
    <3>2. SumOver(h, Buckets) \in Nat
      BY BucketsAreIndices, SumType
    <3> QED BY <3>1, <3>2, PoolAssumption
  <2>2. CASE d = 0
    BY <2>1, <2>2, NearSum, PoolAssumption DEF SaturatingAdd
  <2>3. CASE d # 0
    <3>1. SumOver(h, Near(w, d)) = SumOver(h, Near(w, d - 1)) + Ring(h, w, d)
      BY <2>3, NearSum
    <3> QED BY <2>1, <2>3, <3>1, PoolAssumption DEF SaturatingAdd
  <2> QED BY <2>2, <2>3
<1>2. IsWalk(sums, h, w)
  <2>1. ASSUME NEW d \in Buckets
        PROVE  sums[d] = SaturatingAdd(IF d = 0 THEN 0 ELSE sums[d - 1], Ring(h, w, d))
    <3>1. d # 0 => d - 1 \in Buckets
      BY BucketsAreIndices
    <3> QED BY <1>1, <3>1
  <2>2. sums = [d \in Buckets |-> sums[d]]
    OBVIOUS
  <2> HIDE DEF sums
  <2> QED BY <2>1, <2>2 DEF IsWalk
<1>3. IsWalk(acc, h, w)
  BY <1>2, AccumulatedIsWalk
<1> HIDE DEF acc
<1>4. \A d \in Buckets :
         acc[d] = SaturatingAdd(IF d = 0 THEN 0 ELSE acc[d - 1], Ring(h, w, d))
  BY <1>3 DEF IsWalk
<1>5. Climbs(T, HISTOGRAM_BUCKETS - 1)
  <2>1. 0 \in T
    <3>1. 0 \in Buckets
      BY BucketsAreIndices
    <3>2. acc[0] = SumOver(h, Near(w, 0))
      BY <1>1, <1>4, <3>1
    <3> QED BY <3>1, <3>2, BucketsAreIndices
  <2>2. ASSUME NEW d \in 0..((HISTOGRAM_BUCKETS - 1) - 1), d \in T
        PROVE  d + 1 \in T
    <3>1. d + 1 \in Buckets \ {0} /\ (d + 1) - 1 = d
      BY BucketsAreIndices
    <3>2. acc[d + 1] = SaturatingAdd(acc[d], Ring(h, w, d + 1))
      BY <1>4, <3>1
    <3>3. SumOver(h, Near(w, d + 1))
          = SaturatingAdd(SumOver(h, Near(w, d)), Ring(h, w, d + 1))
      BY <1>1, <3>1
    <3>4. acc[d] = SumOver(h, Near(w, d))
      BY <2>2
    <3>5. acc[d + 1] = SumOver(h, Near(w, d + 1))
      BY <3>2, <3>3, <3>4
    <3> QED BY <3>1, <3>5, BucketsAreIndices
  <2> HIDE DEF T
  <2> QED BY <2>1, <2>2 DEF Climbs
<1>6. \A d \in 0..(HISTOGRAM_BUCKETS - 1) : d \in T
  <2>1. HISTOGRAM_BUCKETS - 1 \in Nat
    BY BucketsAreIndices
  <2> HIDE DEF T
  <2> QED BY <1>5, <2>1, UpTo
<1> QED BY <1>6, BucketsAreIndices DEF acc

-----------------------------------------------------------------------------
(* Where it stops *)

\* The outward walk stops at a bucket distance, whatever the histogram: the
\* first that reaches the target or, if none does, the last.
LEMMA StopDistanceIsLeast ==
    ASSUME NEW acc, NEW target
    PROVE  LET s == StopDistance(acc, target)
           IN  /\ s \in Buckets
               /\ acc[s] >= target \/ s = HISTOGRAM_BUCKETS - 1
               /\ \A e \in Buckets : e < s => ~(acc[e] >= target)
<1> DEFINE Stops(d) == acc[d] >= target \/ d = HISTOGRAM_BUCKETS - 1
           S == {d \in Buckets : Stops(d)}
<1>1. /\ HISTOGRAM_BUCKETS - 1 \in S
      /\ S \in SUBSET Nat
  BY BucketsAreIndices
<1>2. PICK d \in S : \A e \in S : d <= e
  BY <1>1, LeastNatural
<1>3. ASSUME NEW e \in Buckets, e < d PROVE ~(acc[e] >= target)
  <2>1. e \notin S
    BY <1>2, <1>3, BucketsAreIndices
  <2> QED BY <2>1
<1>4. \E x \in Buckets : /\ acc[x] >= target \/ x = HISTOGRAM_BUCKETS - 1
                         /\ \A e \in Buckets : e < x => ~(acc[e] >= target)
  BY <1>2, <1>3
<1> QED BY <1>4 DEF StopDistance

LEMMA MedianErrorType ==
    ASSUME NEW p, NEW w
    PROVE  MedianError(p, w) \in Buckets
<1>1. 0 \in Buckets
  BY BucketsAreIndices
<1> QED BY <1>1, StopDistanceIsLeast DEF MedianError

\* Half of the bets, rounded down, and at least one.
Enough(k, n) == k >= 1 /\ 2 * k + 1 >= n

LEMMA TargetIsEnough ==
    ASSUME NEW n \in Nat \ {0}, NEW k \in Nat
    PROVE  /\ TargetCount(n) <= n
           /\ k >= TargetCount(n) <=> Enough(k, n)
BY DEF TargetCount, Enough

\* median_error is the smallest distance within which there are enough bets.
LEMMA MedianErrorIsLeast ==
    ASSUME NEW p \in Pool, NEW w \in Buckets,
           p.total_participants > 0,
           SumOver(p.histogram_buckets, Buckets) = p.total_participants
    PROVE  LET within(d) == SumOver(p.histogram_buckets, Near(w, d))
               n         == p.total_participants
           IN  /\ Enough(within(MedianError(p, w)), n)
               /\ \A d \in 0..(MedianError(p, w) - 1) : ~Enough(within(d), n)
<1> DEFINE h         == p.histogram_buckets
           n         == p.total_participants
           acc       == Accumulated(h, w)
           s         == MedianError(p, w)
           within(d) == SumOver(h, Near(w, d))
<1>1. n \in Nat \ {0} /\ n <= U32Max
  BY PoolAssumption DEF Pool
<1>2. h \in [0..(HISTOGRAM_BUCKETS - 1) -> Nat]
  BY HistogramType
<1>3. \A d \in Buckets : acc[d] = within(d)
  BY <1>1, <1>2, AccumulatedIsSum
<1>4. \A d : within(d) \in Nat
  <2>1. \A d : within(d) \in 0..SumOver(h, Buckets)
    BY <1>2, NearSum
  <2> QED BY <2>1
<1>5. s = StopDistance(acc, TargetCount(n))
  BY DEF MedianError
<1>6. /\ s \in Buckets
      /\ acc[s] >= TargetCount(n) \/ s = HISTOGRAM_BUCKETS - 1
      /\ \A e \in Buckets : e < s => ~(acc[e] >= TargetCount(n))
  BY <1>5, StopDistanceIsLeast
<1>7. within(HISTOGRAM_BUCKETS - 1) = n
  BY NearEnds
<1> HIDE DEF s, acc, n, within
<1>8. \A d \in Buckets : acc[d] >= TargetCount(n) <=> Enough(within(d), n)
  BY <1>1, <1>3, <1>4, TargetIsEnough
<1>9. Enough(within(s), n)
  <2>1. CASE acc[s] >= TargetCount(n)
    BY <1>6, <1>8, <2>1
  <2>2. CASE s = HISTOGRAM_BUCKETS - 1
    BY <1>1, <1>7, <2>2 DEF Enough
  <2> QED BY <1>6, <2>1, <2>2
<1>10. ASSUME NEW d \in 0..(s - 1) PROVE ~Enough(within(d), n)
  <2>1. d \in Buckets /\ d < s
    BY <1>6, BucketsAreIndices
  <2> QED BY <1>6, <1>8, <2>1
<1> QED BY <1>9, <1>10 DEF s, n, within
=============================================================================
