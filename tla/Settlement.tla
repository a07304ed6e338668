----------------------------- MODULE Settlement -----------------------------
(***************************************************************************)
(* How page.tsx settles a round at the price its feed shows: priceToBucket, *)
(* the walk of resolveMarket, and the figures that the modal, the result    *)
(* box and the histogram derive from it on every render.                    *)
(*                                                                         *)
(* How a round gets its bets is the subject of Round; here a round begins   *)
(* with any bets that Round!BooksAgree allows.                              *)
(***************************************************************************)
EXTENDS PriceFeed, FiniteSetsExt

CONSTANTS HISTOGRAM_BUCKETS, ENTRY_FEE,
          basePrice, PRECISION,   \* in cents
          Batch,                  \* bots placed by one tick of the bot timer
          MaxBets                 \* bound on the bets of a round

\* As many buckets as the program's, which numbers them with a u8.
ASSUME SettlementAssumption ==
    /\ HISTOGRAM_BUCKETS \in 1..256
    /\ ENTRY_FEE \in Nat \ {0}
    /\ basePrice \in Nat /\ PRECISION \in Nat \ {0}
    /\ Batch \in Nat \ {0} /\ MaxBets \in Nat

VARIABLES phase,          \* "idle", "open" (or locked) and "resolved"
          buckets,        \* the histogram
          participants, totalPool,
          userBet,        \* the player's bucket, or None
          winBucket, medianError

books == <<buckets, participants, totalPool, userBet>>
round == <<phase, books, winBucket, medianError>>
vars  == <<fvars, round>>

None    == -1
Buckets == 0..(HISTOGRAM_BUCKETS - 1)

Total(counts, range) == MapThenSumSet(LAMBDA b : counts[b], range \cap Buckets)

\* The program's resolution, for comparison with the page's.
P == INSTANCE PoolMath WITH U32Max <- MaxBets + Batch, U64Max <- MaxBets + Batch

\* Math.round of a floating-point quotient: a price half-way between two
\* buckets goes to either of them.
priceToBucket(price) ==
    LET nearest == {i \in -1..HISTOGRAM_BUCKETS :
                       2 * (price - basePrice - i * PRECISION) \in -PRECISION..PRECISION}
        last    == HISTOGRAM_BUCKETS - 1
        clamp(i) == IF i < 0 THEN 0 ELSE IF i > last THEN last ELSE i
    IN  IF nearest # {} THEN {clamp(i) : i \in nearest}
        ELSE {IF price < basePrice THEN 0 ELSE last}

Init ==
    /\ FInit
    /\ phase = "idle"
    /\ buckets = [b \in Buckets |-> 0]
    /\ participants = 0 /\ totalPool = 0
    /\ userBet = None
    /\ winBucket = None /\ medianError = 0

\* A round and its bets.  The last batch of bots may count more participants
\* than it places.
Round ==
    /\ mounted /\ phase # "open"
    /\ phase' = "open"
    /\ \E counts \in [Buckets -> 0..MaxBets], extra \in 0..(Batch - 1) :
         /\ Total(counts, Buckets) <= MaxBets
         /\ buckets' = counts
         /\ participants' = Total(counts, Buckets) + extra
         /\ totalPool' = ENTRY_FEE * participants'
         /\ userBet' \in {None} \cup {b \in Buckets : counts[b] > 0}
    /\ winBucket' = None /\ medianError' = 0
    /\ UNCHANGED fvars

\* A bet that was in the wallet popup, in whatever phase it lands.
LateBet ==
    /\ mounted /\ phase # "idle"
    /\ Total(buckets, Buckets) < MaxBets
    /\ \E price \in Prices : \E b \in priceToBucket(price) :
         /\ buckets' = [buckets EXCEPT ![b] = @ + 1]
         /\ userBet' = b
    /\ participants' = participants + 1
    /\ totalPool' = totalPool + ENTRY_FEE
    /\ UNCHANGED <<fvars, phase, winBucket, medianError>>

\* Mutant: one bet alone asks for no winner.
Target_NoMinimum(n) == n \div 2

Target(n) == IF n \div 2 >= 1 THEN n \div 2 ELSE 1

\* Mutant: the bucket at the left edge is left out.
Side_NoLeftEdge(counts, i) == IF i \in Buckets \ {0} THEN counts[i] ELSE 0

\* A bucket of the walk, if there is one at i.
Side(counts, i) == IF i \in Buckets THEN counts[i] ELSE 0

\* Mutant: a walk that never stops ends past the last bucket.
LastRing_PastEnd == HISTOGRAM_BUCKETS

LastRing == HISTOGRAM_BUCKETS - 1

StopsAt(counts, w, target) ==
    LET acc[d \in Buckets] ==
          IF d = 0 THEN counts[w]
                   ELSE acc[d - 1] + Side(counts, w - d) + Side(counts, w + d)
        stops == {d \in Buckets : acc[d] >= target}
    IN  IF stops = {} THEN LastRing ELSE Min(stops)

resolveMarket ==
    /\ mounted /\ phase = "open"
    /\ phase' = "resolved"
    /\ winBucket' \in priceToBucket(priceVal)
    /\ medianError' = StopsAt(buckets, winBucket', Target(participants))
    /\ UNCHANGED <<fvars, books>>

Next == \/ FNext /\ UNCHANGED round
        \/ Round \/ LateBet \/ resolveMarket

\* The timeout fires if it is not cleared.
Spec == Init /\ [][Next]_vars /\ WF_vars(TimesOut /\ UNCHANGED round)

-----------------------------------------------------------------------------
(* What the page shows of a resolved round *)

\* Mutant: the end of the slice is not past the last winner.
winners_ShortSlice ==
    Total(buckets, (winBucket - medianError)..(winBucket + medianError - 1))

\* buckets.slice(...).reduce(...)
winners == Total(buckets, (winBucket - medianError)..(winBucket + medianError))

\* buildBuckets, userWon: the bars shown in green.
isWinner(b) == P!Distance(b, winBucket) <= medianError

-----------------------------------------------------------------------------

TypeOK ==
    /\ FTypeOK
    /\ phase \in {"idle", "open", "resolved"}
    /\ buckets \in [Buckets -> Nat]
    /\ participants \in Nat /\ totalPool \in Nat
    /\ userBet \in Buckets \cup {None} /\ winBucket \in Buckets \cup {None}
    /\ medianError \in Buckets

\* The figures of the modal agree with the histogram next to it, whenever bets
\* still land: the winners are the bets in the green bars, a player told of a
\* win is one of them, and the pool is enough to give each of them the fee.
ShownFiguresAgree ==
    phase = "resolved" =>
      /\ winners = Total(buckets, {b \in Buckets : isWinner(b)})
      /\ userBet # None /\ isWinner(userBet) => winners >= 1
      /\ ENTRY_FEE * winners <= totalPool

\* Settling makes half of the bets or more win (rounded down), and at least one,
\* although the target is computed from participants that may be too many.
HalfOfBetsWin ==
    [][resolveMarket =>
        LET bets == Total(buckets, Buckets)
        IN  bets > 0 => winners' >= 1 /\ 2 * winners' + 1 >= bets]_vars

\* Readme.md:375: the walk "mirrors the on-chain code exactly".  From the same
\* winning bucket it does.
WalkMirrorsProgram ==
    [][resolveMarket /\ participants > 0 =>
        LET pool == [P!NewPool(basePrice, PRECISION) EXCEPT
                        !.histogram_buckets  = buckets,
                        !.total_participants = participants]
        IN  medianError' = P!MedianError(pool, winBucket')]_vars

\* Until its socket has delivered something, the page simulates a price soon
\* after it is shown.
FeedOrSimulation ==
    mounted ~> (~mounted \/ hasReceivedMessage \/ simulations # {})

-----------------------------------------------------------------------------

\* Readme.md:358: the page "falls back gracefully to mock data with a "MOCK"
\* badge": a simulated price is not shown as LIVE.
MockBadgeWhenSimulated == mounted /\ simulations # {} => ~oracleConnected
=============================================================================
