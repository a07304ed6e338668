----------------------------- MODULE BotsProofs -----------------------------
(***************************************************************************)
(* What the two scripts keep true of the file, the mints, the pool and their *)
(* counters, for any number of runs, mints, bots and buckets, any batch size *)
(* and any prices, wherever their calls throw.                              *)
(*                                                                         *)
(* The invariants are not inductive: that a mint made now cannot differ from *)
(* the pool's needs what the setup script knows at each of its awaits, and  *)
(* that the counts add up needs which bots are under way.                   *)
(***************************************************************************)
EXTENDS Bots, FiniteSetTheorems, TLAPS

\* The mint the script holds is the file's, unless the file cannot hold one.
HoldsMint ==
    setup \in {"mintTo", "getAccountInfo", "initializePool"} =>
      /\ usdcMint # None
      /\ cached # None => usdcMint = cached
      /\ cached = None => line = "bare"

HoldsTokens ==
    setup \in {"getAccountInfo", "initializePool"} => funds[usdcMint] > 0

\* A mint is made only if the file has none; then there is no pool either, or
\* the file will not hold the new one.
FileIsFirst ==
    /\ line = "bare" => cached = None
    /\ setup = "createMint" => cached = None
    /\ vaultMint # None /\ cached = None => line = "bare"

SetupInv ==
    /\ STypeOK
    /\ HoldsMint /\ HoldsTokens /\ FileIsFirst
    /\ FileNamesVaultMint /\ OperatorHasTokens

USE DEF None, Mints

LEMMA SetupInvInit == SInit => SetupInv
<1> SUFFICES ASSUME SInit PROVE SetupInv
  OBVIOUS
<1>1. STypeOK
  <2>1. 0 \in 0..MaxFunds /\ 0 \in 0..MaxMints
    BY SetupAssumption
  <2>2. funds \in [Mints -> 0..MaxFunds]
    BY <2>1 DEF SInit
  <2> QED BY <2>1, <2>2 DEF SInit, STypeOK
<1>2. HoldsMint /\ HoldsTokens /\ FileIsFirst
  BY DEF SInit, HoldsMint, HoldsTokens, FileIsFirst
<1>3. FileNamesVaultMint /\ OperatorHasTokens
  BY DEF SInit, FileNamesVaultMint, OperatorHasTokens
<1> QED BY <1>1, <1>2, <1>3 DEF SetupInv

\* Each action of the setup script keeps SetupInv.
LEMMA SetupInvStep ==
  ASSUME SetupInv, SNext \/ UNCHANGED svars
  PROVE  SetupInv'
<1> USE SetupAssumption
        DEF SetupInv, STypeOK, HoldsMint, HoldsTokens, FileIsFirst,
            FileNamesVaultMint, OperatorHasTokens, Goes, Lost
<1>1. CASE Begin          BY <1>1 DEF Begin
<1>2. CASE createMint     BY <1>2 DEF createMint
<1>3. CASE createMintLost BY <1>3 DEF createMintLost
<1>4. CASE mintTo
  <2>1. funds' \in [1..MaxMints -> 0..MaxFunds] /\ usdcMint \in 1..MaxMints
    BY <1>4 DEF mintTo
  <2>2. \A m \in 1..MaxMints : funds[m] > 0 => funds'[m] > 0
    BY <1>4 DEF mintTo
  <2>3. funds'[usdcMint] > 0
    BY <1>4, <2>1 DEF mintTo
  <2> QED BY <1>4, <2>1, <2>2, <2>3 DEF mintTo
<1>5. CASE getAccountInfo BY <1>5 DEF getAccountInfo
<1>6. CASE initializePool BY <1>6 DEF initializePool
<1>7. CASE delegateProxy  BY <1>7 DEF delegateProxy
<1>8. CASE Throws         BY <1>8 DEF Throws
<1>9. CASE Undelegate     BY <1>9 DEF Undelegate
<1>10. CASE UNCHANGED svars BY <1>10 DEF svars
<1> QED BY <1>1, <1>2, <1>3, <1>4, <1>5, <1>6, <1>7, <1>8, <1>9, <1>10 DEF SNext

LEMMA SetupInvariant == Spec => []SetupInv
<1>1. SetupInv /\ [Next]_vars => SetupInv'
  BY SetupInvStep DEF Next, vars
<1> QED BY <1>1, SetupInvInit, PTL DEF Spec, Init

\* The file and the pool never name two different mints (setup-pool.ts:131).
THEOREM FileAgrees == Spec => []FileNamesVaultMint
<1>1. SetupInv => FileNamesVaultMint
  BY DEF SetupInv
<1> QED BY <1>1, SetupInvariant, PTL

\* Whoever set the pool up holds tokens that its vault takes (setup-pool.ts:167).
THEOREM TokensFirst == Spec => []OperatorHasTokens
<1>1. SetupInv => OperatorHasTokens
  BY DEF SetupInv
<1> QED BY <1>1, SetupInvariant, PTL

-----------------------------------------------------------------------------
(* The bot script *)

\* The quotient of naturals is a natural, and it undoes the product.
LEMMA Quotient ==
  ASSUME NEW m \in Nat, NEW n \in Nat \ {0}
  PROVE  /\ m \div n \in Nat
         /\ (m * n) \div n = m
OBVIOUS

Call == [at : {"account", "placePrediction"}, bucket : 0..(HISTOGRAM_BUCKETS - 1)]

\* Every price has a bucket of the histogram.
LEMMA BucketInRange ==
  ASSUME NEW price \in Prices
  PROVE  priceToBucketIndex(price) \in 0..(HISTOGRAM_BUCKETS - 1)
<1>1. price \in Int /\ basePrice \in Nat /\ precisionStep \in Nat \ {0}
      /\ HISTOGRAM_BUCKETS \in Nat \ {0}
  BY BotsAssumption
<1>2. CASE price < basePrice
  BY <1>1, <1>2 DEF priceToBucketIndex
<1>3. CASE ~(price < basePrice)
  <2>1. (price - basePrice) \div precisionStep \in Nat
    BY <1>1, <1>3, Quotient
  <2> QED BY <1>1, <1>3, <2>1 DEF priceToBucketIndex
<1> QED BY <1>2, <1>3

\* The bots whose calls are under way are of the batch that is awaited.
Underway ==
  /\ script = "fire" => batchStart < BOT_COUNT
  /\ IF script = "await"
     THEN batchStart < BOT_COUNT /\ DOMAIN calls \subseteq batchStart..(batchEnd - 1)
     ELSE DOMAIN calls = {}

CountsAddUp ==
  successCount + failCount + Cardinality(DOMAIN calls) =
    IF script = "await" THEN batchEnd ELSE batchStart

BotsInv ==
  /\ script \in {"idle", "fetch", "fire", "await"}
  /\ batchStart \in 0..BOT_COUNT
  /\ calls \in [DOMAIN calls -> Call]
  /\ successCount \in Nat /\ failCount \in Nat
  /\ Underway /\ CountsAddUp

LEMMA BotsInvInit == Init => BotsInv
<1> SUFFICES ASSUME Init PROVE BotsInv
  OBVIOUS
<1>1. DOMAIN calls = {} /\ calls \in [DOMAIN calls -> Call]
  BY DEF Init
<1>2. BOT_COUNT \in Nat
  BY BotsAssumption
<1> QED BY <1>1, <1>2, FS_EmptySet DEF Init, BotsInv, Underway, CountsAddUp

\* A batch has at most BATCH_SIZE bots, and at least one before the end.
LEMMA BatchBounds ==
  ASSUME batchStart \in 0..BOT_COUNT
  PROVE  /\ batchEnd \in 0..BOT_COUNT
         /\ batchStart <= batchEnd /\ batchEnd - batchStart <= BATCH_SIZE
         /\ batchStart < BOT_COUNT => batchStart < batchEnd
         /\ IsFiniteSet(batchStart..(batchEnd - 1))
         /\ Cardinality(batchStart..(batchEnd - 1)) = batchEnd - batchStart
<1>1. /\ batchEnd \in 0..BOT_COUNT
      /\ batchStart <= batchEnd /\ batchEnd - batchStart <= BATCH_SIZE
      /\ batchStart < BOT_COUNT => batchStart < batchEnd
  BY BotsAssumption DEF batchEnd
<1>2. /\ IsFiniteSet(batchStart..(batchEnd - 1))
      /\ Cardinality(batchStart..(batchEnd - 1)) =
           IF batchStart > batchEnd - 1 THEN 0 ELSE (batchEnd - 1) - batchStart + 1
  BY <1>1, BotsAssumption, FS_Interval
<1> QED BY <1>1, <1>2, BotsAssumption

\* So have the calls under way.
LEMMA CallsBounds ==
  ASSUME BotsInv
  PROVE  /\ IsFiniteSet(DOMAIN calls)
         /\ Cardinality(DOMAIN calls) \in Nat
         /\ Cardinality(DOMAIN calls) <= BATCH_SIZE
<1>1. CASE script = "await"
  <2>1. DOMAIN calls \in SUBSET (batchStart..(batchEnd - 1))
    BY <1>1 DEF BotsInv, Underway
  <2>2. batchStart \in 0..BOT_COUNT
    BY DEF BotsInv
  <2>3. /\ IsFiniteSet(DOMAIN calls)
        /\ Cardinality(DOMAIN calls) <= Cardinality(batchStart..(batchEnd - 1))
    BY <2>1, <2>2, BatchBounds, FS_Subset
  <2>4. Cardinality(DOMAIN calls) \in Nat
    BY <2>3, FS_CardinalityType
  <2> QED BY <2>2, <2>3, <2>4, BatchBounds, BotsAssumption
<1>2. CASE script # "await"
  BY <1>2, FS_EmptySet, BotsAssumption DEF BotsInv, Underway
<1> QED BY <1>1, <1>2

\* A call that ends is one less under way.
LEMMA SettledKeeps ==
  ASSUME BotsInv, script = "await", NEW b \in DOMAIN calls, Settled(b)
  PROVE  /\ calls' \in [DOMAIN calls' -> Call]
         /\ DOMAIN calls' = DOMAIN calls \ {b}
         /\ Cardinality(DOMAIN calls') = Cardinality(DOMAIN calls) - 1
<1>1. DOMAIN calls' = DOMAIN calls \ {b} /\ calls' \in [DOMAIN calls' -> Call]
  BY DEF Settled, BotsInv
<1> QED BY <1>1, CallsBounds, FS_RemoveElement

\* Each action of the bot script keeps BotsInv.
LEMMA BotsInvStep ==
  ASSUME BotsInv, BeginBots \/ BotsStep \/ UNCHANGED bvars
  PROVE  BotsInv'
<1> USE DEF BotsInv
<1>1. CASE BeginBots
  BY <1>1 DEF BeginBots, Underway, CountsAddUp
<1>2. CASE FetchPool
  BY <1>2, FS_EmptySet, BotsAssumption DEF FetchPool, Underway, CountsAddUp
<1>3. CASE FetchThrows
  BY <1>3 DEF FetchThrows, Underway, CountsAddUp
<1>4. CASE Fire
  <2>1. PICK price \in [batchStart..(batchEnd - 1) -> Prices] :
          calls' = [b \in DOMAIN price |->
                      [at |-> "account", bucket |-> priceToBucketIndex(price[b])]]
    BY <1>4 DEF Fire
  <2>2. /\ DOMAIN calls' = batchStart..(batchEnd - 1)
        /\ calls' \in [DOMAIN calls' -> Call]
    BY <2>1, BucketInRange DEF Call
  <2>3. Cardinality(DOMAIN calls') = batchEnd - batchStart
    BY <2>2, BatchBounds
  <2>4. batchEnd' = batchEnd /\ batchStart < BOT_COUNT
    BY <1>4 DEF Fire, batchEnd, Underway
  <2>5. successCount + failCount = batchStart
    BY <1>4, FS_EmptySet DEF Fire, Underway, CountsAddUp
  <2>6. CountsAddUp'
    BY <1>4, <2>3, <2>4, <2>5, BatchBounds, BotsAssumption DEF Fire, CountsAddUp
  <2> QED BY <1>4, <2>2, <2>4, <2>6 DEF Fire, Underway
<1>5. ASSUME NEW b \in DOMAIN calls, Account(b) \/ placePrediction(b)
      PROVE  BotsInv'
  <2>1. script = "await"
    BY <1>5 DEF Underway
  <2>2. UNCHANGED <<script, batchStart, batchEnd>>
    BY <1>5 DEF Account, placePrediction, batchEnd
  <2>3. CASE Settled(b)
    <3>1. successCount' + failCount' = successCount + failCount + 1
          /\ successCount' \in Nat /\ failCount' \in Nat
      <4>1. calls' # [calls EXCEPT ![b].at = "placePrediction"]
        BY <2>1, <2>3, SettledKeeps
      <4> QED BY <1>5, <4>1 DEF Account, placePrediction
    <3>2. CountsAddUp'
      <4>1. Cardinality(DOMAIN calls') = Cardinality(DOMAIN calls) - 1
        BY <2>1, <2>3, SettledKeeps
      <4>2. Cardinality(DOMAIN calls) \in Nat
        BY CallsBounds
      <4>3. successCount + failCount + Cardinality(DOMAIN calls) = batchEnd
        BY <2>1 DEF CountsAddUp
      <4>4. script' = "await" /\ batchEnd' = batchEnd
        BY <2>1, <2>2
      <4>5. successCount' + failCount' + Cardinality(DOMAIN calls') = batchEnd
        BY <3>1, <4>1, <4>2, <4>3
      <4> QED BY <4>4, <4>5 DEF CountsAddUp
    <3> QED BY <2>1, <2>2, <2>3, <3>1, <3>2, SettledKeeps DEF Underway
  <2>4. CASE ~Settled(b)
    <3>1. /\ calls' = [calls EXCEPT ![b].at = "placePrediction"]
          /\ UNCHANGED <<successCount, failCount>>
      BY <1>5, <2>4 DEF Account, placePrediction
    <3>2. DOMAIN calls' = DOMAIN calls /\ calls' \in [DOMAIN calls' -> Call]
      BY <3>1 DEF Call
    <3> QED BY <2>1, <2>2, <3>1, <3>2 DEF Underway, CountsAddUp
  <2> QED BY <2>3, <2>4
<1>6. CASE EndBatch
  <2>1. DOMAIN calls = {} /\ successCount + failCount = batchEnd
    BY <1>6, FS_EmptySet DEF EndBatch, CountsAddUp
  <2> QED BY <1>6, <2>1, FS_EmptySet, BatchBounds, BotsAssumption
          DEF EndBatch, Underway, CountsAddUp
<1>7. CASE UNCHANGED bvars
  BY <1>7 DEF bvars, Underway, CountsAddUp, batchEnd
<1> QED BY <1>1, <1>2, <1>3, <1>4, <1>5, <1>6, <1>7 DEF BotsStep

LEMMA BotsInvariant == Spec => []BotsInv
<1>1. BotsInv /\ [Next]_vars => BotsInv'
  BY BotsInvStep DEF Next, vars
<1> QED BY <1>1, BotsInvInit, PTL DEF Spec

\* The variables of both scripts keep their types.
THEOREM TypeCorrect == Spec => []TypeOK
<1>1. SetupInv /\ BotsInv => TypeOK
  <2> SUFFICES ASSUME SetupInv, BotsInv PROVE TypeOK
    OBVIOUS
  <2>1. STypeOK
    BY DEF SetupInv
  <2>2. successCount + failCount + Cardinality(DOMAIN calls) <= BOT_COUNT
    BY BatchBounds, CallsBounds, BotsAssumption DEF BotsInv, CountsAddUp
  <2>3. successCount \in 0..BOT_COUNT /\ failCount \in 0..BOT_COUNT
    BY <2>2, CallsBounds, BotsAssumption DEF BotsInv
  <2>4. DOMAIN calls \subseteq 0..(BOT_COUNT - 1)
    BY BatchBounds, BotsAssumption DEF BotsInv, Underway
  <2>5. \A b \in DOMAIN calls :
          calls[b] \in [at : {"account", "placePrediction"}, bucket : Nat]
    BY DEF BotsInv, Call
  <2> QED BY <2>1, <2>3, <2>4, <2>5 DEF TypeOK, BotsInv
<1> QED BY <1>1, SetupInvariant, BotsInvariant, PTL

\* No bot is lost or counted twice, whichever calls fail (bot-stress.ts:298).
THEOREM BotsCounted == Spec => []EveryBotIsCounted
<1>1. BotsInv => EveryBotIsCounted
  BY CallsBounds DEF BotsInv, CountsAddUp, EveryBotIsCounted
<1> QED BY <1>1, BotsInvariant, PTL

\* The program takes every value that is sent, in the bucket that the script
\* has in mind (bot-stress.ts:87).
THEOREM BotsHit == Spec => []BotsHitTheirBucket
<1>1. BotsInv => BotsHitTheirBucket
  <2> SUFFICES ASSUME BotsInv, NEW b \in DOMAIN calls
               PROVE  LET pool == P!NewPool(basePrice, precisionStep)
                          sent == predictionValue(calls[b].bucket)
                      IN  /\ P!InRange(pool, sent)
                          /\ P!BucketIndex(pool, sent) = calls[b].bucket
    BY DEF BotsHitTheirBucket
  <2> DEFINE i    == calls[b].bucket
             pool == P!NewPool(basePrice, precisionStep)
             sent == predictionValue(i)
  <2>1. i \in 0..(HISTOGRAM_BUCKETS - 1) /\ i \in Nat
    BY BotsAssumption DEF BotsInv, Call
  <2>2. basePrice \in Nat /\ precisionStep \in Nat \ {0}
    BY BotsAssumption
  <2>3. pool.base_price = basePrice /\ pool.precision_step = precisionStep
    BY DEF P!NewPool
  <2>4. i * precisionStep \in Nat /\ (i * precisionStep) \div precisionStep = i
    BY <2>1, <2>2, Quotient
  <2>5. sent >= basePrice /\ sent - basePrice = i * precisionStep
    BY <2>2, <2>4 DEF predictionValue
  <2>6. P!BucketIndex(pool, sent) = i
    BY <2>3, <2>4, <2>5 DEF P!BucketIndex
  <2>7. P!InRange(pool, sent)
    BY <2>1, <2>2, <2>3, <2>5, <2>6, BotsAssumption DEF P!InRange
  <2> QED BY <2>6, <2>7
<1> QED BY <1>1, BotsInvariant, PTL
=============================================================================
