-------------------------- MODULE SettlementProofs --------------------------
(***************************************************************************)
(* The page settles a round as the program does, and shows figures that    *)
(* agree, for any number of buckets and bets, any prices and any batch of  *)
(* bots.                                                                   *)
(*                                                                         *)
(* The sums over the histogram and the program's walk are those of         *)
(* WalkProofs, at the bounds Settlement gives to the program's counters.   *)
(***************************************************************************)
EXTENDS Settlement, SumProofs

W == INSTANCE WalkProofs WITH U32Max <- MaxBets + Batch, U64Max <- MaxBets + Batch

USE DEF None

LEMMA WalkAssumed == W!PoolAssumption
BY SettlementAssumption

LEMMA BucketsAreIndices ==
    /\ HISTOGRAM_BUCKETS \in Nat \ {0}
    /\ Buckets = 0..(HISTOGRAM_BUCKETS - 1)
    /\ W!Buckets = Buckets
BY SettlementAssumption DEF Buckets, W!Buckets

LEMMA SameSum ==
    ASSUME NEW h, NEW S
    PROVE  W!SumOver(h, S) = SumOver(h, S)
<1>1. W!SumOver(h, S) = (CHOOSE sum : W!IsFold(sum, h, S))[S]
  BY WalkAssumed, W!SumIsFold
<1>2. SumOver(h, S) = (CHOOSE sum : IsFold(sum, h, S))[S]
  BY SumIsFold
<1>3. (CHOOSE sum : W!IsFold(sum, h, S)) = (CHOOSE sum : IsFold(sum, h, S))
  BY DEF W!IsFold, IsFold, W!Pick, Pick
<1> QED BY <1>1, <1>2, <1>3

LEMMA TotalIsSum ==
    ASSUME NEW counts, NEW range
    PROVE  Total(counts, range) = SumOver(counts, range \cap Buckets)
BY DEF Total, SumOver, MapThenSumSet, MapThenFoldSet

LEMMA TotalType ==
    ASSUME NEW counts \in [Buckets -> Nat], NEW range
    PROVE  Total(counts, range) \in Nat
<1>1. range \cap Buckets \in SUBSET (0..(HISTOGRAM_BUCKETS - 1))
  BY BucketsAreIndices
<1>2. counts \in [0..(HISTOGRAM_BUCKETS - 1) -> Nat] /\ HISTOGRAM_BUCKETS \in Nat
  BY BucketsAreIndices
<1>3. SumOver(counts, range \cap Buckets) \in Nat
  BY <1>1, <1>2, SumType
<1> QED BY <1>3, TotalIsSum

-----------------------------------------------------------------------------
(* The walk of the page *)

\* The equation of the page's walk; see WalkProofs!IsWalk.
IsPageWalk(acc, counts, w) ==
    acc = [d \in Buckets |->
             IF d = 0 THEN counts[w]
                      ELSE acc[d - 1] + Side(counts, w - d) + Side(counts, w + d)]

PageAcc(counts, w) == CHOOSE acc : IsPageWalk(acc, counts, w)

LEMMA StopsAtUnfolds ==
    ASSUME NEW counts, NEW w, NEW target
    PROVE  StopsAt(counts, w, target)
             = LET stops == {d \in Buckets : PageAcc(counts, w)[d] >= target}
               IN  IF stops = {} THEN LastRing ELSE Min(stops)
BY DEF StopsAt, PageAcc, IsPageWalk

\* The bets within distance d of w.
Within(counts, w, d) == SumOver(counts, W!Near(w, d))

LEMMA WithinFacts ==
    ASSUME NEW counts \in [Buckets -> Nat], NEW w \in Buckets
    PROVE  /\ \A d : Within(counts, w, d) \in 0..SumOver(counts, Buckets)
           /\ Within(counts, w, 0) = counts[w]
           /\ \A d \in Buckets \ {0} :
                 Within(counts, w, d)
                   = Within(counts, w, d - 1) + Side(counts, w - d) + Side(counts, w + d)
           /\ Within(counts, w, HISTOGRAM_BUCKETS - 1) = SumOver(counts, Buckets)
<1>1. counts \in [0..(HISTOGRAM_BUCKETS - 1) -> Nat] /\ w \in W!Buckets
  BY BucketsAreIndices
<1>2. /\ \A d : W!SumOver(counts, W!Near(w, d)) \in 0..W!SumOver(counts, W!Buckets)
      /\ W!SumOver(counts, W!Near(w, 0)) = W!Ring(counts, w, 0)
      /\ \A d \in W!Buckets \ {0} :
            W!SumOver(counts, W!Near(w, d))
              = W!SumOver(counts, W!Near(w, d - 1)) + W!Ring(counts, w, d)
  BY <1>1, WalkAssumed, W!NearSum
<1>3. /\ \A d : Within(counts, w, d) \in 0..SumOver(counts, Buckets)
      /\ Within(counts, w, 0) = W!Ring(counts, w, 0)
      /\ \A d \in Buckets \ {0} :
            Within(counts, w, d) = Within(counts, w, d - 1) + W!Ring(counts, w, d)
  BY <1>2, SameSum, BucketsAreIndices DEF Within
<1>4. W!Ring(counts, w, 0) = counts[w]
  BY DEF W!Ring
<1>5. ASSUME NEW d \in Buckets \ {0}
      PROVE  W!Ring(counts, w, d) = Side(counts, w - d) + Side(counts, w + d)
  BY BucketsAreIndices DEF W!Ring, Side
<1>6. \A d \in Buckets \ {0} : /\ Side(counts, w - d) \in Nat
                             /\ Side(counts, w + d) \in Nat
                             /\ Within(counts, w, d - 1) \in Nat
  <2>1. \A i \in Int : Side(counts, i) \in Nat
    BY DEF Side
  <2>2. \A d : Within(counts, w, d) \in Nat
    BY <1>3
  <2>3. \A d \in Buckets \ {0} : w - d \in Int /\ w + d \in Int
    BY BucketsAreIndices
  <2> QED BY <2>1, <2>2, <2>3
<1>7. Within(counts, w, HISTOGRAM_BUCKETS - 1) = SumOver(counts, Buckets)
  <2>1. W!Near(w, HISTOGRAM_BUCKETS - 1) = W!Buckets
    BY <1>1, WalkAssumed, W!NearEnds
  <2> QED BY <2>1, BucketsAreIndices DEF Within
<1> QED BY <1>3, <1>4, <1>5, <1>6, <1>7

LEMMA WithinType ==
    ASSUME NEW counts \in [Buckets -> Nat], NEW w \in Buckets
    PROVE  \A d : Within(counts, w, d) \in Nat
BY WithinFacts

\* What the page's walk has accumulated at a distance are the bets within it.
LEMMA PageAccIsSum ==
    ASSUME NEW counts \in [Buckets -> Nat], NEW w \in Buckets
    PROVE  \A d \in Buckets : PageAcc(counts, w)[d] = Within(counts, w, d)
<1> DEFINE sums == [d \in Buckets |-> Within(counts, w, d)]
           acc  == PageAcc(counts, w)
           T    == {d \in 0..(HISTOGRAM_BUCKETS - 1) : acc[d] = Within(counts, w, d)}
<1>1. IsPageWalk(sums, counts, w)
  <2>1. ASSUME NEW d \in Buckets
        PROVE  sums[d] = IF d = 0 THEN counts[w]
                         ELSE sums[d - 1] + Side(counts, w - d) + Side(counts, w + d)
    <3>1. d # 0 => d - 1 \in Buckets
      BY BucketsAreIndices
    <3> QED BY <3>1, WithinFacts
  <2>2. sums = [d \in Buckets |-> sums[d]]
    OBVIOUS
  <2> HIDE DEF sums
  <2> QED BY <2>1, <2>2 DEF IsPageWalk
<1>2. IsPageWalk(acc, counts, w)
  BY <1>1 DEF PageAcc
<1> HIDE DEF acc
<1>3. \A d \in Buckets :
         acc[d] = IF d = 0 THEN counts[w]
                  ELSE acc[d - 1] + Side(counts, w - d) + Side(counts, w + d)
  BY <1>2 DEF IsPageWalk
<1>4. Climbs(T, HISTOGRAM_BUCKETS - 1)
  <2>1. 0 \in T
    <3>1. 0 \in Buckets
      BY BucketsAreIndices
    <3>2. acc[0] = Within(counts, w, 0)
      BY <1>3, <3>1, WithinFacts
    <3> QED BY <3>1, <3>2, BucketsAreIndices
  <2>2. ASSUME NEW d \in 0..((HISTOGRAM_BUCKETS - 1) - 1), d \in T
        PROVE  d + 1 \in T
    <3>1. d + 1 \in Buckets \ {0} /\ (d + 1) - 1 = d
      BY BucketsAreIndices
    <3>2. acc[d + 1] = acc[d] + Side(counts, w - (d + 1)) + Side(counts, w + (d + 1))
      BY <1>3, <3>1
    <3>3. Within(counts, w, d + 1)
          = Within(counts, w, d) + Side(counts, w - (d + 1)) + Side(counts, w + (d + 1))
      BY <3>1, WithinFacts
    <3>4. acc[d] = Within(counts, w, d)
      BY <2>2
    <3>5. acc[d + 1] = Within(counts, w, d + 1)
      BY <3>2, <3>3, <3>4
    <3> QED BY <3>1, <3>5, BucketsAreIndices
  <2> HIDE DEF T
  <2> QED BY <2>1, <2>2 DEF Climbs
<1>5. \A d \in 0..(HISTOGRAM_BUCKETS - 1) : d \in T
  <2>1. HISTOGRAM_BUCKETS - 1 \in Nat
    BY BucketsAreIndices
  <2> HIDE DEF T
  <2> QED BY <1>4, <2>1, UpTo
<1> QED BY <1>5, BucketsAreIndices DEF acc

\* The walk stops at the first distance that reaches the target or, if none
\* does, at the last.
LEMMA StopsAtIsLeast ==
    ASSUME NEW counts \in [Buckets -> Nat], NEW w \in Buckets, NEW target
    PROVE  LET s == StopsAt(counts, w, target)
           IN  /\ s \in Buckets
               /\ Within(counts, w, s) >= target \/ s = HISTOGRAM_BUCKETS - 1
               /\ \A e \in Buckets : e < s => ~(Within(counts, w, e) >= target)
<1> DEFINE stops == {d \in Buckets : PageAcc(counts, w)[d] >= target}
           s     == StopsAt(counts, w, target)
<1>1. stops = {d \in Buckets : Within(counts, w, d) >= target}
  BY PageAccIsSum
<1>2. s = IF stops = {} THEN LastRing ELSE Min(stops)
  BY StopsAtUnfolds
<1> HIDE DEF stops, s
<1>3. CASE stops = {}
  <2>1. s = HISTOGRAM_BUCKETS - 1
    BY <1>2, <1>3 DEF LastRing
  <2>2. \A e \in Buckets : ~(Within(counts, w, e) >= target)
    BY <1>1, <1>3
  <2> QED BY <2>1, <2>2, BucketsAreIndices DEF s
<1>4. CASE stops # {}
  <2>1. stops \in SUBSET Nat
    BY <1>1, BucketsAreIndices
  <2>2. \E x \in stops : \A y \in stops : x <= y
    BY <1>4, <2>1, LeastNatural
  <2>3. s \in stops /\ \A y \in stops : s <= y
    BY <1>2, <1>4, <2>2 DEF Min
  <2>4. s \in Buckets /\ Within(counts, w, s) >= target
    BY <1>1, <2>3
  <2>5. \A e \in Buckets : e < s => ~(Within(counts, w, e) >= target)
    <3>1. \A e \in Buckets : e < s => e \notin stops
      BY <2>3, <2>4, BucketsAreIndices
    <3> QED BY <1>1, <3>1
  <2> QED BY <2>4, <2>5 DEF s
<1> QED BY <1>3, <1>4

-----------------------------------------------------------------------------
(* The inductive invariant *)

\* At most two simulations are started: one by the timeout, which fires once,
\* and one by an error before the first message.
Started ==
    /\ simulations \subseteq 1..2
    /\ priceRef \in 0..2
    /\ waiting /\ ~hasReceivedMessage => priceRef = 0
    /\ waiting \/ ~hasReceivedMessage => priceRef \in 0..1

FeedInv == FTypeOK /\ Started

\* The books: participants may be ahead of the bets, never behind them, and the
\* player's bet is one of the bets.
BooksInv ==
    /\ Total(buckets, Buckets) <= MaxBets
    /\ participants >= Total(buckets, Buckets)
    /\ totalPool = ENTRY_FEE * participants
    /\ userBet # None => buckets[userBet] >= 1
    /\ phase = "resolved" => winBucket # None

SInv == TypeOK /\ FeedInv /\ BooksInv

\* The part of FTypeOK that is not about numbers.
FRest ==
    /\ mounted \in BOOLEAN
    /\ socket \in {"connecting", "open", "closing", "closed"}
    /\ hasReceivedMessage \in BOOLEAN
    /\ waiting \in BOOLEAN
    /\ priceVal \in Prices
    /\ oracleConnected \in BOOLEAN

LEMMA FeedParts ==
    /\ FeedInv <=> Started /\ FRest
    /\ FeedInv' <=> Started' /\ FRest'
BY Zenon DEF FeedInv, FTypeOK, Started, FRest

LEMMA FeedInit == FInit => FeedInv
<1> SUFFICES ASSUME FInit PROVE FeedInv
  OBVIOUS
<1>1. Started
  <2>1. simulations = {} /\ priceRef = 0
    BY DEF FInit
  <2> QED BY <2>1 DEF Started
<1>2. FRest
  BY FeedAssumption, Zenon DEF FInit, FRest
<1> QED BY <1>1, <1>2, FeedParts

LEMMA FeedRestStep ==
    ASSUME FRest, FNext \/ UNCHANGED fvars
    PROVE  FRest'
<1> USE DEF FRest
<1>1. CASE Opens
  BY <1>1, Zenon DEF Opens
<1>2. CASE TimesOut
  BY <1>2, Zenon DEF TimesOut
<1>3. CASE Message
  BY <1>3, Zenon DEF Message
<1>4. CASE Error
  BY <1>4, Zenon DEF Error
<1>5. CASE Closes
  BY <1>5, Zenon DEF Closes
<1>6. CASE Simulate
  <2>1. priceVal' \in Prices
    BY <1>6 DEF Simulate
  <2> QED BY <1>6, <2>1, Zenon DEF Simulate
<1>7. CASE Unmount
  BY <1>7, Zenon DEF Unmount
<1>8. CASE UNCHANGED fvars
  BY <1>8, Zenon DEF fvars
<1> QED BY <1>1, <1>2, <1>3, <1>4, <1>5, <1>6, <1>7, <1>8, Zenon DEF FNext

LEMMA StartedStep ==
    ASSUME Started, FNext \/ UNCHANGED fvars
    PROVE  Started'
<1>1. ASSUME waiting' => waiting, hasReceivedMessage => hasReceivedMessage',
             priceRef' = priceRef, simulations' \subseteq simulations
      PROVE  Started'
  BY <1>1 DEF Started
<1>2. CASE Opens \/ Closes \/ Simulate \/ UNCHANGED fvars
  <2>1. UNCHANGED <<waiting, hasReceivedMessage, priceRef, simulations>>
    BY <1>2, Zenon DEF Opens, Closes, Simulate, fvars
  <2> QED BY <1>1, <2>1
<1>3. CASE Message
  BY <1>1, <1>3 DEF Message
<1>4. CASE Unmount
  BY <1>1, <1>4 DEF Unmount
<1>5. CASE TimesOut
  <2>1. CASE hasReceivedMessage
    BY <1>1, <1>5, <2>1 DEF TimesOut
  <2>2. CASE ~hasReceivedMessage
    <3>1. priceRef' = priceRef + 1 /\ simulations' = simulations \cup {priceRef + 1}
      BY <1>5, <2>2 DEF TimesOut, startFallback
    <3>2. waiting /\ waiting' = FALSE
      BY <1>5 DEF TimesOut
    <3>3. priceRef' = 1 /\ simulations' \subseteq 1..2
      BY <2>2, <3>1, <3>2 DEF Started
    <3> QED BY <3>2, <3>3 DEF Started
  <2> QED BY <2>1, <2>2
<1>6. CASE Error
  <2>1. hasReceivedMessage' = TRUE /\ waiting' = waiting
    BY <1>6 DEF Error
  <2>2. CASE hasReceivedMessage
    BY <1>1, <1>6, <2>1, <2>2 DEF Error
  <2>3. CASE ~hasReceivedMessage
    <3>1. priceRef' = priceRef + 1 /\ simulations' = simulations \cup {priceRef + 1}
      BY <1>6, <2>3 DEF Error, startFallback
    <3>2. priceRef' \in 1..2 /\ simulations' \subseteq 1..2 /\ (waiting => priceRef' = 1)
      BY <2>3, <3>1 DEF Started
    <3> QED BY <2>1, <3>2 DEF Started
  <2> QED BY <2>2, <2>3
<1> QED BY <1>2, <1>3, <1>4, <1>5, <1>6 DEF FNext

LEMMA FeedStep ==
    ASSUME FeedInv, FNext \/ UNCHANGED fvars
    PROVE  FeedInv'
BY FeedRestStep, StartedStep, FeedParts

\* Whatever the rounding, a price is put in a bucket.
LEMMA PriceToBucketType ==
    ASSUME NEW price
    PROVE  priceToBucket(price) \in SUBSET Buckets
<1> DEFINE nearest == {i \in -1..HISTOGRAM_BUCKETS :
                         2 * (price - basePrice - i * PRECISION) \in -PRECISION..PRECISION}
           last     == HISTOGRAM_BUCKETS - 1
           clamp(i) == IF i < 0 THEN 0 ELSE IF i > last THEN last ELSE i
<1>1. \A i \in -1..HISTOGRAM_BUCKETS : clamp(i) \in Buckets
  BY BucketsAreIndices
<1>2. {clamp(i) : i \in nearest} \in SUBSET Buckets
  <2>1. \A i \in nearest : i \in -1..HISTOGRAM_BUCKETS
    OBVIOUS
  <2> HIDE DEF nearest, clamp
  <2> QED BY <1>1, <2>1
<1>3. {IF price < basePrice THEN 0 ELSE last} \in SUBSET Buckets
  BY BucketsAreIndices
<1> HIDE DEF nearest, clamp, last
<1>4. priceToBucket(price) = IF nearest # {} THEN {clamp(i) : i \in nearest}
                             ELSE {IF price < basePrice THEN 0 ELSE last}
  BY DEF priceToBucket, nearest, clamp, last
<1> QED BY <1>2, <1>3, <1>4

LEMMA TotalOfBuckets ==
    ASSUME NEW counts
    PROVE  Total(counts, Buckets) = SumOver(counts, Buckets)
<1>1. Buckets \cap Buckets = Buckets
  OBVIOUS
<1> QED BY <1>1, TotalIsSum

LEMMA InitSInv == Init => SInv
<1> SUFFICES ASSUME Init PROVE SInv
  OBVIOUS
<1>1. buckets \in [0..(HISTOGRAM_BUCKETS - 1) -> Nat] /\ \A b \in Buckets : buckets[b] = 0
  BY BucketsAreIndices DEF Init
<1>2. Total(buckets, Buckets) = 0
  BY <1>1, BucketsAreIndices, TotalOfBuckets, SumOfZeros
<1>3. FeedInv
  BY FeedInit DEF Init
<1>4. TypeOK
  BY <1>1, <1>3, BucketsAreIndices DEF Init, FeedInv, TypeOK
<1>5. BooksInv
  BY <1>2, SettlementAssumption DEF Init, BooksInv
<1> QED BY <1>3, <1>4, <1>5 DEF SInv

LEMMA RoundStep ==
    ASSUME SInv, Round
    PROVE  SInv'
<1>1. PICK counts \in [Buckets -> 0..MaxBets], extra \in 0..(Batch - 1) :
         /\ Total(counts, Buckets) <= MaxBets
         /\ buckets' = counts
         /\ participants' = Total(counts, Buckets) + extra
         /\ totalPool' = ENTRY_FEE * participants'
         /\ userBet' \in {None} \cup {b \in Buckets : counts[b] > 0}
  BY DEF Round
<1>2. counts \in [Buckets -> Nat]
  OBVIOUS
<1>3. Total(counts, Buckets) \in Nat
  BY <1>2, TotalType
<1>4. extra \in Nat
  BY SettlementAssumption
<1>5. /\ mounted /\ phase' = "open" /\ winBucket' = None /\ medianError' = 0
      /\ UNCHANGED fvars
  BY DEF Round
<1>6. FeedInv'
  BY <1>5, FeedStep DEF SInv
<1>7. BooksInv'
  <2>1. Total(buckets', Buckets) = Total(counts, Buckets)
    BY <1>1
  <2>2. Total(buckets, Buckets)' = Total(buckets', Buckets)
    BY DEF Total, MapThenSumSet, MapThenFoldSet
  <2>3. userBet' # None => buckets'[userBet'] >= 1
    <3>1. \A b \in Buckets : counts[b] > 0 => counts[b] >= 1
      BY <1>2
    <3> QED BY <1>1, <3>1
  <2>4. participants' >= Total(counts, Buckets)
    BY <1>1, <1>3, <1>4
  <2> QED BY <1>1, <1>5, <2>1, <2>2, <2>3, <2>4 DEF BooksInv
<1>8. TypeOK'
  <2>1. participants' \in Nat
    BY <1>1, <1>3, <1>4
  <2>2. totalPool' \in Nat
    BY <1>1, <2>1, SettlementAssumption
  <2>3. userBet' \in Buckets \cup {None}
    BY <1>1
  <2>4. 0 \in Buckets
    BY BucketsAreIndices
  <2> QED BY <1>1, <1>2, <1>5, <1>6, <2>1, <2>2, <2>3, <2>4 DEF FeedInv, TypeOK
<1> QED BY <1>6, <1>7, <1>8 DEF SInv

\* A bet that lands late is one more bet and one more participant.
LEMMA LateBetStep ==
    ASSUME SInv, LateBet
    PROVE  SInv'
<1>1. PICK b \in Buckets : buckets' = [buckets EXCEPT ![b] = @ + 1] /\ userBet' = b
  BY PriceToBucketType DEF LateBet
<1>2. /\ Total(buckets, Buckets) < MaxBets
      /\ participants' = participants + 1
      /\ totalPool' = totalPool + ENTRY_FEE
      /\ UNCHANGED <<fvars, phase, winBucket, medianError>>
  BY DEF LateBet
<1>3. buckets \in [Buckets -> Nat] /\ participants \in Nat
  BY DEF SInv, TypeOK
<1>4. Total(buckets, Buckets) \in Nat
  BY <1>3, TotalType
<1>5. Total(buckets, Buckets)' = Total(buckets, Buckets) + 1
  <2>1. Total(buckets, Buckets)' = SumOver(buckets', Buckets)
    <3>1. Total(buckets, Buckets)' = Total(buckets', Buckets)
      BY DEF Total, MapThenSumSet, MapThenFoldSet
    <3> QED BY <3>1, TotalOfBuckets
  <2>2. SumOver([buckets EXCEPT ![b] = @ + 1], Buckets) = SumOver(buckets, Buckets) + 1
    BY <1>3, BucketsAreIndices, SumOfOneMore
  <2> QED BY <1>1, <2>1, <2>2, TotalOfBuckets
<1>6. FeedInv'
  BY <1>2, FeedStep DEF SInv
<1>7. BooksInv'
  <2>1. Total(buckets, Buckets)' <= MaxBets
    BY <1>2, <1>4, <1>5, SettlementAssumption
  <2>2. participants' >= Total(buckets, Buckets)'
    BY <1>2, <1>3, <1>4, <1>5 DEF SInv, BooksInv
  <2>3. totalPool' = ENTRY_FEE * participants'
    BY <1>2, <1>3, SettlementAssumption DEF SInv, BooksInv
  <2>4. buckets'[userBet'] >= 1
    BY <1>1, <1>3
  <2>5. phase' = "resolved" => winBucket' # None
    BY <1>2 DEF SInv, BooksInv
  <2> QED BY <2>1, <2>2, <2>3, <2>4, <2>5 DEF BooksInv
<1>8. TypeOK'
  <2>1. buckets' \in [Buckets -> Nat] /\ participants' \in Nat /\ userBet' \in Buckets
    BY <1>1, <1>2, <1>3
  <2>2. totalPool' \in Nat
    BY <1>2, SettlementAssumption DEF SInv, TypeOK
  <2> QED BY <1>2, <1>6, <2>1, <2>2 DEF FeedInv, SInv, TypeOK
<1> QED BY <1>6, <1>7, <1>8 DEF SInv

\* Where resolveMarket stops, in terms of the bets within each distance.
LEMMA Resolves ==
    ASSUME SInv, resolveMarket
    PROVE  /\ winBucket' \in Buckets
           /\ medianError' = StopsAt(buckets, winBucket', Target(participants))
           /\ medianError' \in Buckets
           /\ \/ Within(buckets, winBucket', medianError') >= Target(participants)
              \/ medianError' = HISTOGRAM_BUCKETS - 1
           /\ \A e \in Buckets : e < medianError' =>
                ~(Within(buckets, winBucket', e) >= Target(participants))
<1>1. winBucket' \in Buckets
  BY PriceToBucketType DEF resolveMarket
<1>2. medianError' = StopsAt(buckets, winBucket', Target(participants))
  BY DEF resolveMarket
<1>3. buckets \in [Buckets -> Nat]
  BY DEF SInv, TypeOK
<1> QED BY <1>1, <1>2, <1>3, StopsAtIsLeast

LEMMA ResolveStep ==
    ASSUME SInv, resolveMarket
    PROVE  SInv'
<1>1. phase' = "resolved" /\ UNCHANGED <<fvars, buckets, participants, totalPool, userBet>>
  BY DEF resolveMarket, books
<1>2. winBucket' \in Buckets /\ winBucket' # None /\ medianError' \in Buckets
  BY Resolves, BucketsAreIndices
<1>3. FeedInv'
  BY <1>1, FeedStep DEF SInv
<1>4. BooksInv'
  <2>1. Total(buckets, Buckets)' = Total(buckets, Buckets)
    BY <1>1 DEF Total, MapThenSumSet, MapThenFoldSet
  <2> QED BY <1>1, <1>2, <2>1 DEF SInv, BooksInv
<1>5. TypeOK'
  BY <1>1, <1>2, <1>3 DEF FeedInv, SInv, TypeOK
<1> QED BY <1>3, <1>4, <1>5 DEF SInv

\* The price feed leaves the round alone.
LEMMA FeedOnlyStep ==
    ASSUME SInv, FNext \/ UNCHANGED fvars, UNCHANGED round
    PROVE  SInv'
<1>1. UNCHANGED <<phase, buckets, participants, totalPool, userBet, winBucket, medianError>>
  BY DEF round, books
<1>2. FeedInv'
  BY FeedStep DEF SInv
<1>3. BooksInv'
  <2>1. Total(buckets, Buckets)' = Total(buckets, Buckets)
    BY <1>1 DEF Total, MapThenSumSet, MapThenFoldSet
  <2> QED BY <1>1, <2>1 DEF SInv, BooksInv
<1>4. TypeOK'
  BY <1>1, <1>2 DEF FeedInv, SInv, TypeOK
<1> QED BY <1>2, <1>3, <1>4 DEF SInv

LEMMA NextSInv == SInv /\ [Next]_vars => SInv'
<1> SUFFICES ASSUME SInv, [Next]_vars PROVE SInv'
  OBVIOUS
<1>1. CASE FNext /\ UNCHANGED round
  BY <1>1, FeedOnlyStep
<1>2. CASE UNCHANGED vars
  BY <1>2, FeedOnlyStep DEF vars
<1> QED BY <1>1, <1>2, RoundStep, LateBetStep, ResolveStep DEF Next

\* The types, the feed's bookkeeping and the books of a round hold together.
THEOREM Inductive == Spec => []SInv
BY InitSInv, NextSInv, PTL DEF Spec

\* Every variable of the page keeps its type; of the simulated prices there are
\* never more than two, whatever order the timeout, errors and messages come in.
THEOREM TypeCorrect == Spec => []TypeOK
<1>1. SInv => TypeOK
  BY DEF SInv
<1> QED BY <1>1, Inductive, PTL

-----------------------------------------------------------------------------
(* The figures of a resolved round *)

\* The slice of the histogram between the two edges, and the green bars, are
\* the buckets within a distance.
LEMMA SliceIsNear ==
    ASSUME NEW w \in Buckets, NEW d \in Buckets
    PROVE  /\ ((w - d)..(w + d)) \cap Buckets = W!Near(w, d)
           /\ {b \in Buckets : P!Distance(b, w) <= d} = W!Near(w, d)
<1>1. w \in Int /\ d \in Int /\ \A b \in Buckets : b \in Int
  BY BucketsAreIndices
<1>2. \A b \in Buckets : P!Distance(b, w) = W!Distance(b, w)
  BY DEF P!Distance, W!Distance
<1>3. \A b \in Buckets : b \in (w - d)..(w + d) <=> W!Distance(b, w) <= d
  BY <1>1 DEF W!Distance
<1> QED BY <1>2, <1>3, BucketsAreIndices DEF W!Near

LEMMA WinnersAreWithin ==
    ASSUME NEW counts, NEW w \in Buckets, NEW d \in Buckets
    PROVE  Total(counts, (w - d)..(w + d)) = Within(counts, w, d)
BY SliceIsNear, TotalIsSum DEF Within

\* A bet in a bucket within the distance is one of the bets within it.
LEMMA BetIsWithin ==
    ASSUME NEW counts \in [Buckets -> Nat], NEW w \in Buckets, NEW d,
           NEW b \in W!Near(w, d)
    PROVE  Within(counts, w, d) >= counts[b]
<1>1. /\ counts \in [0..(HISTOGRAM_BUCKETS - 1) -> Nat] /\ HISTOGRAM_BUCKETS \in Nat
      /\ W!Near(w, d) \in SUBSET (0..(HISTOGRAM_BUCKETS - 1))
      /\ b \in 0..(HISTOGRAM_BUCKETS - 1)
  BY BucketsAreIndices DEF W!Near
<1>2. SumOver(counts, {b}) = counts[b]
  BY <1>1, SumOfOne
<1>3. SumOver(counts, {b}) <= SumOver(counts, W!Near(w, d))
  BY <1>1, SumGrowsWithSet
<1>4. SumOver(counts, W!Near(w, d)) \in Nat /\ counts[b] \in Nat
  BY <1>1, SumType
<1> QED BY <1>2, <1>3, <1>4 DEF Within

\* Whatever bets land after the round was settled, the number of winners is the
\* number of bets in the green bars, the player who is told of a win is one of
\* them, and the pool pays each of them back at least the fee.
THEOREM ShownAgree == Spec => []ShownFiguresAgree
<1>1. ASSUME SInv, phase = "resolved"
      PROVE  /\ winners = Total(buckets, {b \in Buckets : isWinner(b)})
             /\ userBet # None /\ isWinner(userBet) => winners >= 1
             /\ ENTRY_FEE * winners <= totalPool
  <2> DEFINE near == W!Near(winBucket, medianError)
  <2>1. /\ buckets \in [Buckets -> Nat] /\ participants \in Nat
        /\ winBucket \in Buckets /\ medianError \in Buckets
        /\ userBet \in Buckets \cup {None}
    BY <1>1 DEF SInv, TypeOK, BooksInv
  <2>2. winners = Within(buckets, winBucket, medianError)
    BY <2>1, WinnersAreWithin DEF winners
  <2>3. {b \in Buckets : isWinner(b)} = near
    BY <2>1, SliceIsNear DEF isWinner
  <2>4. Total(buckets, near) = Within(buckets, winBucket, medianError)
    <3>1. near \cap Buckets = near
      BY BucketsAreIndices DEF W!Near
    <3> QED BY <3>1, TotalIsSum DEF Within
  <2>5. ASSUME userBet # None, isWinner(userBet) PROVE winners >= 1
    <3>1. userBet \in near
      BY <2>1, <2>3, <2>5
    <3>2. winners >= buckets[userBet]
      BY <2>1, <2>2, <3>1, BetIsWithin
    <3>3. buckets[userBet] >= 1 /\ buckets[userBet] \in Nat
      BY <1>1, <2>1, <2>5 DEF SInv, BooksInv
    <3>4. winners \in Nat
      BY <2>1, <2>2, WithinType
    <3> QED BY <3>2, <3>3, <3>4
  <2>6. ENTRY_FEE * winners <= totalPool
    <3>1. winners \in Nat /\ winners <= participants
      <4>1. winners \in 0..SumOver(buckets, Buckets)
        BY <2>1, <2>2, WithinFacts
      <4>2. SumOver(buckets, Buckets) \in Nat
        BY <2>1, TotalType, TotalOfBuckets
      <4>3. participants >= SumOver(buckets, Buckets)
        BY <1>1, TotalOfBuckets DEF SInv, BooksInv
      <4> QED BY <2>1, <4>1, <4>2, <4>3
    <3>2. ENTRY_FEE * winners <= ENTRY_FEE * participants
      BY <2>1, <3>1, SettlementAssumption, WalkAssumed, W!ProductIsMonotone
    <3> QED BY <1>1, <3>2 DEF SInv, BooksInv
  <2> QED BY <2>2, <2>3, <2>4, <2>5, <2>6
<1>2. SInv => ShownFiguresAgree
  BY <1>1 DEF ShownFiguresAgree
<1> QED BY <1>2, Inductive, PTL
-----------------------------------------------------------------------------
(* Settling *)

\* A target that participants set too high is still met in the end: the walk
\* that never reaches it covers all buckets.
LEMMA ResolveWins ==
    ASSUME SInv, resolveMarket, Total(buckets, Buckets) > 0
    PROVE  winners' >= 1 /\ 2 * winners' + 1 >= Total(buckets, Buckets)
<1> DEFINE bets == Total(buckets, Buckets)
           won  == Within(buckets, winBucket', medianError')
<1>1. buckets \in [Buckets -> Nat] /\ participants \in Nat /\ participants >= bets
  BY DEF SInv, TypeOK, BooksInv
<1>2. bets \in Nat /\ bets >= 1 /\ bets = SumOver(buckets, Buckets)
  BY <1>1, TotalType, TotalOfBuckets
<1>3. winners' = won
  <2>1. buckets' = buckets
    BY DEF resolveMarket, books
  <2>2. winners' = Total(buckets', (winBucket' - medianError')..(winBucket' + medianError'))
    BY DEF winners, Total, MapThenSumSet, MapThenFoldSet
  <2> QED BY <2>1, <2>2, Resolves, WinnersAreWithin
<1>4. won \in Nat
  BY <1>1, Resolves, WithinType
<1>5. medianError' = HISTOGRAM_BUCKETS - 1 => won = bets
  BY <1>1, <1>2, Resolves, WithinFacts
<1>6. won >= Target(participants) \/ won = bets
  BY <1>5, Resolves
<1>7. Target(participants) >= 1 /\ 2 * Target(participants) + 1 >= participants
      /\ Target(participants) \in Nat
  BY <1>1 DEF Target
<1> HIDE DEF won, bets
<1>8. won >= 1 /\ 2 * won + 1 >= bets
  BY <1>1, <1>2, <1>4, <1>6, <1>7
<1> QED BY <1>3, <1>8 DEF bets

\* Settling makes half of the bets or more win (rounded down), and at least one.
THEOREM HalfWin == Spec => HalfOfBetsWin
<1>1. SInv /\ [Next]_vars =>
      [resolveMarket =>
        LET bets == Total(buckets, Buckets)
        IN  bets > 0 => winners' >= 1 /\ 2 * winners' + 1 >= bets]_vars
  <2> SUFFICES ASSUME SInv, resolveMarket, Total(buckets, Buckets) > 0
               PROVE  winners' >= 1 /\ 2 * winners' + 1 >= Total(buckets, Buckets)
    BY Zenon
  <2> QED BY ResolveWins
<1> QED BY <1>1, Inductive, PTL DEF Spec, HalfOfBetsWin

\* The least distance that satisfies a condition, or the last one, is unique.
LEMMA LeastIsUnique ==
    ASSUME NEW Reaches, NEW d \in Buckets, NEW e \in Buckets,
           d \in Reaches \/ d = HISTOGRAM_BUCKETS - 1,
           e \in Reaches \/ e = HISTOGRAM_BUCKETS - 1,
           \A i \in Buckets : i < d => i \notin Reaches,
           \A i \in Buckets : i < e => i \notin Reaches
    PROVE  d = e
BY BucketsAreIndices

\* The operators of the program that Settlement names are those of WalkProofs.
LEMMA SameProgram ==
    ASSUME NEW pool, NEW w
    PROVE  P!MedianError(pool, w) = W!MedianError(pool, w)
BY Zenon DEF P!MedianError, W!MedianError, P!StopDistance, W!StopDistance,
             P!Accumulated, W!Accumulated, P!SaturatingAdd, W!SaturatingAdd,
             P!Ring, W!Ring, P!TargetCount, W!TargetCount, P!Buckets, W!Buckets

\* The walk of the program on the page's histogram, in terms of the bets within
\* each distance.
LEMMA ProgramStops ==
    ASSUME NEW counts \in [Buckets -> Nat], NEW w \in Buckets, NEW target,
           SumOver(counts, Buckets) <= MaxBets + Batch
    PROVE  LET s == W!StopDistance(W!Accumulated(counts, w), target)
           IN  /\ s \in Buckets
               /\ Within(counts, w, s) >= target \/ s = HISTOGRAM_BUCKETS - 1
               /\ \A e \in Buckets : e < s => ~(Within(counts, w, e) >= target)
<1> DEFINE acc == W!Accumulated(counts, w)
           s   == W!StopDistance(acc, target)
<1>1. /\ counts \in [0..(HISTOGRAM_BUCKETS - 1) -> Nat]
      /\ w \in W!Buckets
      /\ W!SumOver(counts, W!Buckets) <= MaxBets + Batch
  BY BucketsAreIndices, SameSum
<1>2. \A d \in W!Buckets : acc[d] = W!SumOver(counts, W!Near(w, d))
  BY <1>1, WalkAssumed, W!AccumulatedIsSum
<1>3. \A d \in Buckets : acc[d] = Within(counts, w, d)
  BY <1>2, BucketsAreIndices, SameSum DEF Within
<1> HIDE DEF acc
<1>4. /\ s \in W!Buckets
      /\ acc[s] >= target \/ s = HISTOGRAM_BUCKETS - 1
      /\ \A e \in W!Buckets : e < s => ~(acc[e] >= target)
  BY WalkAssumed, W!StopDistanceIsLeast
<1> HIDE DEF s
<1>5. /\ s \in Buckets
      /\ Within(counts, w, s) >= target \/ s = HISTOGRAM_BUCKETS - 1
      /\ \A e \in Buckets : e < s => ~(Within(counts, w, e) >= target)
  BY <1>3, <1>4, BucketsAreIndices
<1> QED BY <1>5 DEF s, acc

\* From the winning bucket on, the page stops where the program would: the walk
\* of the page, which takes the last distance when its loop ends, and the one
\* of the program, which breaks out of it, find the same distance.
LEMMA SameStop ==
    ASSUME SInv, resolveMarket, participants > 0,
           NEW pool, pool.histogram_buckets = buckets,
           pool.total_participants = participants
    PROVE  medianError' = P!MedianError(pool, winBucket')
<1> DEFINE target  == Target(participants)
           w       == winBucket'
           s       == W!StopDistance(W!Accumulated(buckets, w), target)
           Reaches == {d \in Buckets : Within(buckets, w, d) >= target}
<1>1. buckets \in [Buckets -> Nat] /\ w \in Buckets
  BY Resolves DEF SInv, TypeOK
<1>2. SumOver(buckets, Buckets) <= MaxBets + Batch
  <2>1. SumOver(buckets, Buckets) \in Nat
    BY <1>1, TotalType, TotalOfBuckets
  <2>2. SumOver(buckets, Buckets) <= MaxBets
    BY TotalOfBuckets DEF SInv, BooksInv
  <2> QED BY <2>1, <2>2, SettlementAssumption
<1>3. P!MedianError(pool, w) = s
  <2>1. P!MedianError(pool, w) = W!MedianError(pool, w)
    BY SameProgram
  <2>2. W!TargetCount(participants) = Target(participants)
    BY DEF W!TargetCount, Target
  <2> QED BY <2>1, <2>2 DEF W!MedianError
<1>4. /\ s \in Buckets
      /\ s \in Reaches \/ s = HISTOGRAM_BUCKETS - 1
      /\ \A i \in Buckets : i < s => i \notin Reaches
  BY <1>1, <1>2, ProgramStops
<1>5. /\ medianError' \in Buckets
      /\ medianError' \in Reaches \/ medianError' = HISTOGRAM_BUCKETS - 1
      /\ \A i \in Buckets : i < medianError' => i \notin Reaches
  BY Resolves
<1> HIDE DEF s, Reaches
<1>6. medianError' = s
  BY <1>4, <1>5, LeastIsUnique
<1> QED BY <1>3, <1>6

\* Readme.md:375 holds of the walk: from the same winning bucket, the page and
\* the program come to the same median error.
THEOREM WalkMirrors == Spec => WalkMirrorsProgram
<1>1. SInv /\ [Next]_vars =>
      [resolveMarket /\ participants > 0 =>
        LET pool == [P!NewPool(basePrice, PRECISION) EXCEPT
                        !.histogram_buckets  = buckets,
                        !.total_participants = participants]
        IN  medianError' = P!MedianError(pool, winBucket')]_vars
  <2> DEFINE pool == [P!NewPool(basePrice, PRECISION) EXCEPT
                         !.histogram_buckets  = buckets,
                         !.total_participants = participants]
  <2> SUFFICES ASSUME SInv, resolveMarket, participants > 0
               PROVE  medianError' = P!MedianError(pool, winBucket')
    BY Zenon
  <2>1. /\ pool.histogram_buckets = buckets
        /\ pool.total_participants = participants
    BY DEF P!NewPool
  <2> HIDE DEF pool
  <2> QED BY <2>1, SameStop
<1> QED BY <1>1, Inductive, PTL DEF Spec, WalkMirrorsProgram
-----------------------------------------------------------------------------
(* The winning buckets of the page and of the program *)

\* A multiple of n is within half of n of x only if it is one of the two that
\* enclose x.
LEMMA Enclosed ==
    ASSUME NEW x \in Int, NEW n \in Nat \ {0}, NEW q \in Int, NEW r \in 0..(n - 1),
           x = q * n + r, NEW i \in Int, 2 * (x - i * n) \in -n..n
    PROVE  i \in {q, q + 1}
<1> DEFINE k == i - q
<1>1. k \in Int /\ i = q + k
  OBVIOUS
<1>2. (q + k) * n = q * n + k * n
  BY <1>1
<1> HIDE DEF k
<1>3. k * n \in Int /\ q * n \in Int
  BY <1>1
<1>4. x - i * n = r - k * n
  BY <1>1, <1>2, <1>3
<1>5. 2 * (r - k * n) <= n /\ -n <= 2 * (r - k * n)
  BY <1>4
<1>6. k >= 2 => k * n >= 2 * n
  BY <1>1
<1>7. k <= -1 => k * n <= -n
  BY <1>1
<1>8. k \in {0, 1}
  BY <1>1, <1>3, <1>5, <1>6, <1>7
<1> QED BY <1>1, <1>8

\* One of the two multiples that enclose x is within half of n of it.
LEMMA Encloses ==
    ASSUME NEW x \in Int, NEW n \in Nat \ {0}, NEW q \in Int, NEW r \in 0..(n - 1),
           x = q * n + r
    PROVE  \/ 2 * (x - q * n) \in -n..n
           \/ 2 * (x - (q + 1) * n) \in -n..n
<1>1. q * n \in Int /\ (q + 1) * n = q * n + n
  OBVIOUS
<1>2. x - q * n = r /\ x - (q + 1) * n = r - n
  BY <1>1
<1> QED BY <1>2

LEMMA Divides ==
    ASSUME NEW x \in Int, NEW n \in Nat \ {0}
    PROVE  x \div n \in Int /\ x - (x \div n) * n \in 0..(n - 1)
<1>1. x \div n \in Int /\ n * (x \div n) <= x /\ x < n * (x \div n) + n
  OBVIOUS
<1>2. n * (x \div n) = (x \div n) * n /\ (x \div n) * n \in Int
  BY <1>1
<1> QED BY <1>1, <1>2

LEMMA Sign ==
    ASSUME NEW q \in Int, NEW n \in Nat \ {0}, NEW r \in 0..(n - 1)
    PROVE  q * n + r < 0 <=> q < 0
<1>1. q * n \in Int
  OBVIOUS
<1>2. q < 0 => q * n <= -n
  OBVIOUS
<1>3. q >= 0 => q * n >= 0
  OBVIOUS
<1> QED BY <1>1, <1>2, <1>3

\* Hazard of page.tsx:52: the page rounds a price to the nearest bucket and
\* clamps it, the program rounds down and caps.  From the same price they
\* come to the same winning bucket, or to neighbours.
THEOREM OneBucketApart ==
    ASSUME NEW price \in Nat, NEW b \in priceToBucket(price)
    PROVE  LET w == P!WinningBucket(P!NewPool(basePrice, PRECISION), price)
           IN  w \in Buckets /\ b \in {w, w + 1}
<1> DEFINE n       == PRECISION
           x       == price - basePrice
           q       == x \div n
           r       == x - q * n
           last    == HISTOGRAM_BUCKETS - 1
           nearest == {i \in -1..HISTOGRAM_BUCKETS : 2 * (x - i * n) \in -n..n}
           clamp(i) == IF i < 0 THEN 0 ELSE IF i > last THEN last ELSE i
           w       == P!WinningBucket(P!NewPool(basePrice, PRECISION), price)
<1>1. n \in Nat \ {0} /\ x \in Int /\ last \in Nat /\ HISTOGRAM_BUCKETS = last + 1
  BY SettlementAssumption
<1>2. q \in Int /\ r \in 0..(n - 1) /\ x = q * n + r
  <2>1. q \in Int /\ r \in 0..(n - 1)
    BY <1>1, Divides
  <2>2. q * n \in Int
    BY <1>1, <2>1
  <2> QED BY <1>1, <2>1, <2>2
<1>3. q < 0 <=> price < basePrice
  <2>1. x < 0 <=> price < basePrice
    BY SettlementAssumption
  <2> HIDE DEF x, q, r, n
  <2>2. q * n + r < 0 <=> q < 0
    BY <1>1, <1>2, Sign
  <2> QED BY <1>2, <2>1, <2>2
<1>4. w = IF price < basePrice THEN 0 ELSE IF q >= HISTOGRAM_BUCKETS THEN last ELSE q
  BY DEF P!WinningBucket, P!BucketIndex, P!NewPool
<1>5. priceToBucket(price) = IF nearest # {} THEN {clamp(i) : i \in nearest}
                             ELSE {IF price < basePrice THEN 0 ELSE last}
  BY DEF priceToBucket
<1>6. ASSUME NEW i \in nearest PROVE i \in -1..HISTOGRAM_BUCKETS /\ i \in {q, q + 1}
  <2>1. i \in -1..HISTOGRAM_BUCKETS /\ 2 * (x - i * n) \in -n..n
    OBVIOUS
  <2> HIDE DEF x, q, r, n, nearest
  <2> QED BY <1>1, <1>2, <2>1, Enclosed
<1>7. ASSUME q \in -1..last PROVE nearest # {}
  <2>1. q \in -1..HISTOGRAM_BUCKETS /\ q + 1 \in -1..HISTOGRAM_BUCKETS
    BY <1>1, <1>7
  <2>2. q \in nearest \/ q + 1 \in nearest
    BY <1>1, <1>2, <2>1, Encloses
  <2> QED BY <2>2
<1> HIDE DEF q, r, x, n, nearest, last, w
<1>8. w \in Buckets
  BY <1>1, <1>2, <1>3, <1>4, BucketsAreIndices
<1>9. CASE nearest # {}
  <2>1. PICK i \in nearest : b = clamp(i)
    BY <1>5, <1>9
  <2>2. i \in {q, q + 1}
    BY <1>6
  <2> QED BY <1>1, <1>2, <1>3, <1>4, <1>8, <2>1, <2>2 DEF w
<1>10. CASE nearest = {}
  <2>1. b = IF price < basePrice THEN 0 ELSE last
    BY <1>5, <1>10
  <2> QED BY <1>1, <1>2, <1>3, <1>4, <1>7, <1>8, <1>10, <2>1 DEF w
<1> QED BY <1>9, <1>10
=============================================================================
