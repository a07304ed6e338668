--------------------------- MODULE HistogramProofs ---------------------------
(***************************************************************************)
(* The histogram of the pool account: it counts the bets, and resolving    *)
(* walks it to the median, for every number of players and buckets.        *)
(***************************************************************************)
EXTENDS FlashPoolProofs

USE DEF NoReceipt

LEMMA BetsAreSums ==
    ASSUME NEW S
    PROVE  /\ BetsAt(S) = SumOver(pool.histogram_buckets, S)
           /\ BetsAt(S)' = SumOver(pool'.histogram_buckets, S)
BY DEF BetsAt, SumOver, MapThenSumSet, MapThenFoldSet

-----------------------------------------------------------------------------
(* The histogram counts the bets *)

\* Without a pool account there is no receipt, so that the empty histogram of
\* a new pool covers the receipts there are.
NoReceiptWithoutPool == ~initialized => Open = {}

HInv == IInv /\ NoReceiptWithoutPool /\ HistogramCountsBets

\* The receipts of a bucket.
At(b) == {u \in Users : receipts[u] = b}

LEMMA AtType == \A b : IsFiniteSet(At(b)) /\ Cardinality(At(b)) \in Nat
<1>1. \A b : At(b) \in SUBSET Users
  BY DEF At
<1> QED BY <1>1, FlashPoolAssumption, FS_Subset, FS_CardinalityType

\* The conjuncts of HistogramCountsBets in these terms, now and after a step.
LEMMA HistogramFacts ==
    /\ HistogramCountsBets <=>
         /\ SumOver(pool.histogram_buckets, Buckets) = pool.total_participants
         /\ pool.total_pool_amount = ENTRY_FEE * pool.total_participants
         /\ \A b \in Buckets : Cardinality(At(b)) <= pool.histogram_buckets[b]
    /\ HistogramCountsBets' <=>
         /\ SumOver(pool'.histogram_buckets, Buckets) = pool'.total_participants
         /\ pool'.total_pool_amount = ENTRY_FEE * pool'.total_participants
         /\ \A b \in Buckets : Cardinality(At(b)') <= pool'.histogram_buckets[b]
BY BetsAreSums DEF HistogramCountsBets, At

LEMMA EmptyHistogram == SumOver([b \in Buckets |-> 0], Buckets) = 0
<1> DEFINE h == [b \in Buckets |-> 0]
<1>1. h \in [0..(HISTOGRAM_BUCKETS - 1) -> Nat] /\ \A b \in Buckets : h[b] = 0
  BY BucketsAreIndices
<1> HIDE DEF h
<1>2. SumOver(h, Buckets) = 0
  BY <1>1, BucketsAreIndices, SumOfZeros
<1> QED BY <1>2 DEF h

LEMMA InitHInv == Init => HInv
<1> SUFFICES ASSUME Init PROVE HInv
  OBVIOUS
<1>1. IInv
  BY InitIInv
<1>2. Open = {}
  BY DEF Init, Open
<1>3. HistogramCountsBets
  <2>1. \A b \in Buckets : At(b) = {}
    BY <1>2, PoolAssumption DEF At, Open, Buckets
  <2>2. /\ pool.histogram_buckets = [b \in Buckets |-> 0]
        /\ pool.total_participants = 0 /\ pool.total_pool_amount = 0
    BY DEF Init, NewPool
  <2>3. \A b \in Buckets : Cardinality(At(b)) <= pool.histogram_buckets[b]
    BY <2>1, <2>2, FS_EmptySet
  <2> QED BY <2>2, <2>3, EmptyHistogram, HistogramFacts, PoolAssumption
<1> QED BY <1>1, <1>2, <1>3 DEF HInv, NoReceiptWithoutPool

LEMMA InitializeCounts ==
    ASSUME HInv, NEW p \in PoolParams, initialize_pool(p[1], p[2])
    PROVE  HInv'
<1>1. IInv'
  BY InitializeStep DEF HInv
<1>2. Open = {} /\ Open' = Open
  BY DEF initialize_pool, HInv, NoReceiptWithoutPool, Open
<1>3. HistogramCountsBets'
  <2>1. \A b \in Buckets : At(b)' = {}
    BY <1>2, PoolAssumption DEF At, Open, Buckets
  <2>2. /\ pool'.histogram_buckets = [b \in Buckets |-> 0]
        /\ pool'.total_participants = 0 /\ pool'.total_pool_amount = 0
    BY DEF initialize_pool, NewPool
  <2>3. \A b \in Buckets : Cardinality(At(b)') <= pool'.histogram_buckets[b]
    BY <2>1, <2>2, FS_EmptySet
  <2> QED BY <2>2, <2>3, EmptyHistogram, HistogramFacts, PoolAssumption
<1> QED BY <1>1, <1>2, <1>3 DEF HInv, NoReceiptWithoutPool

\* place_prediction: the bucket that gets one more bet gets one more receipt.
LEMMA PlaceCounts ==
    ASSUME HInv, NEW u \in Users, NEW v \in Predictions, place_prediction(u, v)
    PROVE  HInv'
<1> DEFINE b == BucketIndex(pool, v)
           h == pool.histogram_buckets
<1>1. IInv'
  BY PlaceStep DEF HInv
<1>2. b \in Buckets
  <2>1. v \in Nat
    BY FlashPoolAssumption, PoolAssumption
  <2>2. b \in Nat
    BY <2>1, BucketIndexIsNatural DEF place_prediction, InRange, HInv, IInv, TypeOK
  <2> QED BY <2>2, PoolAssumption DEF place_prediction, InRange, Buckets
<1>3. pool \in Pool /\ receipts \in [Users -> Buckets \cup {NoReceipt}]
  BY DEF HInv, IInv, TypeOK
<1>4. h \in [0..(HISTOGRAM_BUCKETS - 1) -> Nat]
  BY <1>3, HistogramType
<1>5. /\ pool'.histogram_buckets = [h EXCEPT ![b] = @ + 1]
      /\ pool'.total_participants = pool.total_participants + 1
  BY <1>3 DEF place_prediction, Counted, Pool
<1> HIDE DEF b, h
<1>6. SumOver(pool'.histogram_buckets, Buckets) = pool'.total_participants
  <2>1. SumOver([h EXCEPT ![b] = @ + 1], Buckets) = SumOver(h, Buckets) + 1
    BY <1>2, <1>4, BucketsAreIndices, SumOfOneMore
  <2>2. SumOver(h, Buckets) = pool.total_participants
    BY HistogramFacts DEF HInv, h
  <2> QED BY <1>5, <2>1, <2>2
<1>7. ASSUME NEW c \in Buckets
      PROVE  Cardinality(At(c)') <= pool'.histogram_buckets[c]
  <2>1. Cardinality(At(c)) <= h[c] /\ h[c] \in Nat
    BY <1>4, HistogramFacts, BucketsAreIndices DEF HInv, h
  <2>2. CASE c = b
    <3>1. At(c)' = At(c) \cup {u} /\ u \notin At(c)
      BY <1>2, <1>3, <2>2, PoolAssumption DEF place_prediction, At, Buckets, b
    <3>2. Cardinality(At(c)') = Cardinality(At(c)) + 1
      BY <3>1, AtType, FS_AddElement
    <3>3. pool'.histogram_buckets[c] = h[c] + 1
      BY <1>4, <1>5, <2>2, <1>2, BucketsAreIndices
    <3> QED BY <2>1, <3>2, <3>3, AtType
  <2>3. CASE c # b
    <3>1. At(c)' = At(c)
      BY <1>3, <2>3, PoolAssumption DEF place_prediction, At, Buckets, b
    <3>2. pool'.histogram_buckets[c] = h[c]
      BY <1>4, <1>5, <2>3
    <3> QED BY <2>1, <3>1, <3>2
  <2> QED BY <2>2, <2>3
<1>8. HistogramCountsBets'
  <2>1. (pool.total_pool_amount = ENTRY_FEE * pool.total_participants)'
    BY <1>1 DEF IInv, Totals
  <2> QED BY <1>6, <1>7, <2>1, HistogramFacts
<1>9. NoReceiptWithoutPool'
  BY DEF place_prediction, NoReceiptWithoutPool
<1> QED BY <1>1, <1>8, <1>9 DEF HInv

\* The histogram and the totals stay, and no receipt is opened.
LEMMA CountsStay ==
    ASSUME HInv, IInv',
           initialized' = initialized,
           pool'.histogram_buckets = pool.histogram_buckets,
           pool'.total_participants = pool.total_participants,
           \A u \in Users : receipts'[u] \in {receipts[u], NoReceipt}
    PROVE  HInv'
<1>1. ASSUME NEW c \in Buckets
      PROVE  Cardinality(At(c)') <= pool'.histogram_buckets[c]
  <2>1. At(c)' \in SUBSET At(c)
    BY PoolAssumption DEF At, Buckets
  <2>2. Cardinality(At(c)') <= Cardinality(At(c)) /\ Cardinality(At(c)') \in Nat
    BY <2>1, AtType, FS_Subset, FS_CardinalityType
  <2>3. Cardinality(At(c)) <= pool.histogram_buckets[c]
    BY HistogramFacts DEF HInv
  <2>4. pool.histogram_buckets[c] \in Nat
    BY HistogramType, BucketsAreIndices DEF HInv, IInv, TypeOK
  <2> QED BY <2>2, <2>3, <2>4, AtType
<1>2. SumOver(pool'.histogram_buckets, Buckets) = pool'.total_participants
  BY HistogramFacts DEF HInv
<1>3. HistogramCountsBets'
  <2>1. (pool.total_pool_amount = ENTRY_FEE * pool.total_participants)'
    BY DEF IInv, Totals
  <2> QED BY <1>1, <1>2, <2>1, HistogramFacts
<1>4. NoReceiptWithoutPool'
  BY DEF HInv, NoReceiptWithoutPool, Open
<1> QED BY <1>3, <1>4 DEF HInv

LEMMA NextHInv == HInv /\ [Next]_vars => HInv'
<1> SUFFICES ASSUME HInv, [Next]_vars PROVE HInv'
  OBVIOUS
<1>1. IInv'
  BY NextIInv DEF HInv
<1>2. CASE \E p \in PoolParams : initialize_pool(p[1], p[2])
  BY <1>2, InitializeCounts
<1>3. CASE \E u \in Users, v \in Predictions : place_prediction(u, v)
  BY <1>3, PlaceCounts
<1>4. CASE \E a \in PriceAccounts : resolve_market(a)
  <2>1. /\ pool'.histogram_buckets = pool.histogram_buckets
        /\ pool'.total_participants = pool.total_participants
    BY <1>4 DEF resolve_market, Resolved, HInv, IInv, TypeOK, Pool
  <2> QED BY <1>1, <1>4, <2>1, CountsStay DEF resolve_market
<1>5. CASE \E u \in Users : claim_reward(u)
  <2>1. \A u \in Users : receipts'[u] \in {receipts[u], NoReceipt}
    BY <1>5 DEF claim_reward, HInv, IInv, TypeOK
  <2> QED BY <1>1, <1>5, <2>1, CountsStay DEF claim_reward
<1>6. CASE UNCHANGED vars
  BY <1>1, <1>6, CountsStay DEF vars
<1> QED BY <1>2, <1>3, <1>4, <1>5, <1>6 DEF Next

\* No receipt outlives its bet, and none precedes the pool account.
THEOREM HistogramInductive == Spec => []HInv
BY InitHInv, NextHInv, PTL DEF Spec

\* The histogram and the counters tell the same story after any number of
\* rounds, and every open receipt is one of the bets counted in its bucket.
THEOREM HistogramCounts == Spec => []HistogramCountsBets
<1>1. HInv => HistogramCountsBets
  BY DEF HInv
<1> QED BY <1>1, HistogramInductive, PTL

-----------------------------------------------------------------------------
(* Resolving *)

\* resolve_market around the winning bucket w: the bets within the median_error
\* it leaves are enough, and those within any smaller distance are not.
LEMMA ResolveStops ==
    ASSUME HInv, NEW a \in PriceAccounts, resolve_market(a),
           pool.total_participants > 0
    PROVE  LET w == WinningBucket(pool, OraclePrice(a))
               within(d) == SumOver(pool.histogram_buckets, Near(w, d))
               n == pool.total_participants
           IN  /\ w \in Buckets
               /\ w = BucketByEdges(OraclePrice(a))
               /\ pool'.median_error \in Buckets
               /\ Enough(within(pool'.median_error), n)
               /\ \A d \in 0..(pool'.median_error - 1) : ~Enough(within(d), n)
<1> DEFINE price == OraclePrice(a)
           w     == WinningBucket(pool, price)
<1>1. pool \in Pool
  BY DEF HInv, IInv, TypeOK
<1>2. price \in Nat
  BY OraclePriceIsNatural, PoolAssumption DEF resolve_market
<1>3. HasWinningBucket(pool, price)
  BY DEF resolve_market
<1>4. w \in Buckets /\ w = BucketByEdges(price)
  BY <1>1, <1>2, <1>3, WinningBucketCountsEdges DEF BucketByEdges
<1>5. pool'.median_error = MedianError(pool, w)
  BY <1>1 DEF resolve_market, Resolved, Pool
<1>6. SumOver(pool.histogram_buckets, Buckets) = pool.total_participants
  BY HistogramFacts DEF HInv
<1> HIDE DEF w, price
<1>7. /\ Enough(SumOver(pool.histogram_buckets, Near(w, MedianError(pool, w))),
                pool.total_participants)
      /\ \A d \in 0..(MedianError(pool, w) - 1) :
            ~Enough(SumOver(pool.histogram_buckets, Near(w, d)), pool.total_participants)
  BY <1>1, <1>4, <1>6, MedianErrorIsLeast
<1> QED BY <1>4, <1>5, <1>7, MedianErrorType DEF w, price

\* Resolving stops at the smallest distance around the winning bucket that
\* holds half of the bets: the walk of resolve_market, which adds up rings in
\* saturating arithmetic, does what counting within each distance would.
THEOREM ResolveIsMedian == Spec => ResolveFindsMedian
<1>1. HInv /\ [Next]_vars =>
      [\A a \in PriceAccounts : resolve_market(a) /\ pool.total_participants > 0 =>
        LET w         == BucketByEdges(OraclePrice(a))
            within(d) == BetsAt({b \in Buckets : Distance(b, w) <= d})
            enough(k) == k >= 1 /\ 2 * k + 1 >= pool.total_participants
        IN  /\ enough(within(pool'.median_error))
            /\ \A d \in 0..(pool'.median_error - 1) : ~enough(within(d))]_vars
  <2> SUFFICES ASSUME HInv, NEW a \in PriceAccounts, resolve_market(a),
                      pool.total_participants > 0
               PROVE  LET w         == BucketByEdges(OraclePrice(a))
                          within(d) == BetsAt({b \in Buckets : Distance(b, w) <= d})
                          enough(k) == k >= 1 /\ 2 * k + 1 >= pool.total_participants
                      IN  /\ enough(within(pool'.median_error))
                          /\ \A d \in 0..(pool'.median_error - 1) : ~enough(within(d))
    BY Zenon
  <2>1. \A d : BetsAt({b \in Buckets : Distance(b, BucketByEdges(OraclePrice(a))) <= d})
              = SumOver(pool.histogram_buckets, Near(BucketByEdges(OraclePrice(a)), d))
    BY BetsAreSums, Zenon DEF Near
  <2> QED BY <2>1, ResolveStops DEF Enough
<1> QED BY <1>1, HistogramInductive, PTL DEF Spec, ResolveFindsMedian

\* The receipts within a distance are at least as many as the bets within it
\* when every bet still has its receipt: no bucket has more receipts than bets,
\* and in all buckets together there are as many.
LEMMA ReceiptsNear ==
    ASSUME HInv, Cardinality(Open) = pool.total_participants,
           NEW w \in Buckets, NEW d
    PROVE  Cardinality({u \in Users : receipts[u] \in Near(w, d)})
             >= SumOver(pool.histogram_buckets, Near(w, d))
<1> DEFINE h    == pool.histogram_buckets
           r    == [b \in 0..(HISTOGRAM_BUCKETS - 1) |->
                      Cardinality({u \in Users : receipts[u] = b})]
           near == Near(w, d)
           far  == Buckets \ Near(w, d)
<1>1. /\ HISTOGRAM_BUCKETS \in Nat
      /\ near \in SUBSET (0..(HISTOGRAM_BUCKETS - 1))
      /\ far \in SUBSET (0..(HISTOGRAM_BUCKETS - 1))
      /\ near \cap far = {} /\ near \cup far = Buckets
  BY BucketsAreIndices DEF Near
<1>2. h \in [0..(HISTOGRAM_BUCKETS - 1) -> Nat]
  BY HistogramType DEF HInv, IInv, TypeOK
<1>3. r \in [0..(HISTOGRAM_BUCKETS - 1) -> Nat]
  <2>1. \A b : {u \in Users : receipts[u] = b} \in SUBSET Users
    OBVIOUS
  <2>2. \A b : Cardinality({u \in Users : receipts[u] = b}) \in Nat
    BY <2>1, FlashPoolAssumption, FS_Subset, FS_CardinalityType
  <2> QED BY <2>2
<1>4. \A S \in SUBSET (0..(HISTOGRAM_BUCKETS - 1)) :
         SumOver(r, S) = Cardinality({u \in Users : receipts[u] \in S})
  BY <1>1, FlashPoolAssumption, SumOfCounts
<1>5. \A b \in Buckets : r[b] <= h[b]
  BY HistogramFacts, BucketsAreIndices DEF HInv, At
<1>6. {u \in Users : receipts[u] \in Buckets} = Open
  BY PoolAssumption DEF HInv, IInv, TypeOK, Open, Buckets
<1>7. SumOver(r, Buckets) = SumOver(h, Buckets)
  <2>1. SumOver(r, Buckets) = Cardinality(Open)
    BY <1>4, <1>6, BucketsAreIndices
  <2>2. SumOver(h, Buckets) = pool.total_participants
    BY HistogramFacts DEF HInv
  <2> QED BY <2>1, <2>2
<1> HIDE DEF h, r, near, far
<1>8. SumOver(r, far) <= SumOver(h, far)
  <2>1. \A b \in far : r[b] <= h[b]
    BY <1>5 DEF far
  <2> QED BY <1>1, <1>2, <1>3, <2>1, SumGrowsWithValues
<1>9. /\ SumOver(r, Buckets) = SumOver(r, near) + SumOver(r, far)
      /\ SumOver(h, Buckets) = SumOver(h, near) + SumOver(h, far)
  <2>1. SumOver(r, near \cup far) = SumOver(r, near) + SumOver(r, far)
    BY <1>1, <1>3, SumSplits
  <2>2. SumOver(h, near \cup far) = SumOver(h, near) + SumOver(h, far)
    BY <1>1, <1>2, SumSplits
  <2>3. near \cup far = Buckets
    BY <1>1
  <2>4. SumOver(r, near \cup far) = SumOver(r, Buckets)
    BY <2>3
  <2>5. SumOver(h, near \cup far) = SumOver(h, Buckets)
    BY <2>3
  <2> QED BY <2>1, <2>2, <2>4, <2>5
<1>10. /\ SumOver(r, near) \in Nat /\ SumOver(r, far) \in Nat
       /\ SumOver(h, near) \in Nat /\ SumOver(h, far) \in Nat
  BY <1>1, <1>2, <1>3, SumType
<1>11. SumOver(r, near) >= SumOver(h, near)
  <2>1. SumOver(r, near) + SumOver(r, far) = SumOver(h, near) + SumOver(h, far)
    BY <1>7, <1>9, Zenon
  <2>2. \A i, j, k, l \in Nat : i + j = k + l /\ j <= l => i >= k
    OBVIOUS
  <2> QED BY <1>8, <1>10, <2>1, <2>2
<1>12. SumOver(r, near) = Cardinality({u \in Users : receipts[u] \in near})
  BY <1>1, <1>4
<1> QED BY <1>11, <1>12 DEF near, h

\* After resolve_market at a positive price the winners are the receipts within
\* median_error of the winning bucket.
LEMMA WinnersAreNear ==
    ASSUME HInv, NEW a \in PriceAccounts, resolve_market(a),
           pool'.outcome > 0, pool.total_participants > 0
    PROVE  {u \in Open : IsWinner(pool', receipts[u])}
             = {u \in Users : receipts[u]
                  \in Near(WinningBucket(pool, OraclePrice(a)), pool'.median_error)}
<1> DEFINE price == OraclePrice(a)
           w     == WinningBucket(pool, price)
<1>1. pool \in Pool /\ receipts \in [Users -> Buckets \cup {NoReceipt}]
  BY DEF HInv, IInv, TypeOK
<1>2. /\ pool'.outcome = price
      /\ pool'.base_price = pool.base_price
      /\ pool'.precision_step = pool.precision_step
      /\ pool'.total_participants = pool.total_participants
  BY <1>1 DEF resolve_market, Resolved, Pool
<1>3. HasWinningBucket(pool', pool'.outcome)
  BY <1>2 DEF resolve_market, HasWinningBucket
<1>4. WinningBucket(pool', pool'.outcome) = w
  BY <1>2 DEF WinningBucket, BucketIndex
<1> HIDE DEF price, w
<1>5. \A b : IsWinner(pool', b) <=> Distance(b, w) <= pool'.median_error
  BY <1>2, <1>3, <1>4 DEF IsWinner
<1>6. \A u \in Users : u \in Open <=> receipts[u] \in Buckets
  BY <1>1, PoolAssumption DEF Open, Buckets
<1>7. \A u \in Open : u \in Users
  BY DEF Open
<1> QED BY <1>5, <1>6, <1>7 DEF Near, w, price

\* Resolving at a positive price before anybody has claimed leaves at least half
\* of the open receipts (rounded down), and at least one, able to claim.
THEOREM HalfWin == Spec => HalfOfReceiptsWin
<1>1. HInv /\ [Next]_vars =>
      [\A a \in PriceAccounts :
        /\ resolve_market(a)
        /\ pool'.outcome > 0
        /\ Open # {}
        /\ Cardinality(Open) = pool.total_participants
        => LET winners == {u \in Open : IsWinner(pool', receipts[u])}
           IN  winners # {} /\ 2 * Cardinality(winners) + 1 >= Cardinality(Open)]_vars
  <2> SUFFICES ASSUME HInv, NEW a \in PriceAccounts, resolve_market(a),
                      pool'.outcome > 0, Open # {},
                      Cardinality(Open) = pool.total_participants
               PROVE  LET winners == {u \in Open : IsWinner(pool', receipts[u])}
                      IN  winners # {} /\ 2 * Cardinality(winners) + 1 >= Cardinality(Open)
    BY Zenon
  <2> DEFINE winners == {u \in Open : IsWinner(pool', receipts[u])}
             near    == Near(WinningBucket(pool, OraclePrice(a)), pool'.median_error)
             bets    == SumOver(pool.histogram_buckets, near)
  <2>1. pool.total_participants > 0
    <3>1. Cardinality(Open) # 0
      BY OpenType, FS_EmptySet
    <3> QED BY <3>1, OpenType
  <2>2. Enough(bets, pool.total_participants)
    BY <2>1, ResolveStops
  <2>3. Cardinality(winners) >= bets
    <3>1. WinningBucket(pool, OraclePrice(a)) \in Buckets
      BY <2>1, ResolveStops
    <3>2. winners = {u \in Users : receipts[u] \in near}
      BY <2>1, WinnersAreNear
    <3> QED BY <3>1, <3>2, ReceiptsNear
  <2>4. bets \in Nat /\ Cardinality(winners) \in Nat
    <3>1. bets \in Nat
      <4>1. near \in SUBSET (0..(HISTOGRAM_BUCKETS - 1)) /\ HISTOGRAM_BUCKETS \in Nat
        BY BucketsAreIndices DEF Near
      <4>2. pool.histogram_buckets \in [0..(HISTOGRAM_BUCKETS - 1) -> Nat]
        BY HistogramType DEF HInv, IInv, TypeOK
      <4> QED BY <4>1, <4>2, SumType
    <3>2. winners \in SUBSET Open
      OBVIOUS
    <3> HIDE DEF winners
    <3> QED BY <3>1, <3>2, OpenType, FS_Subset, FS_CardinalityType
  <2> HIDE DEF winners, bets
  <2>5. Cardinality(winners) >= 1 /\ 2 * Cardinality(winners) + 1 >= Cardinality(Open)
    BY <2>2, <2>3, <2>4, OpenType DEF Enough
  <2>6. winners # {}
    BY <2>5, FS_EmptySet
  <2> QED BY <2>5, <2>6 DEF winners
<1> QED BY <1>1, HistogramInductive, PTL DEF Spec, HalfOfReceiptsWin
=============================================================================
