-------------------------------- MODULE Bots --------------------------------
(***************************************************************************)
(* scripts/bot-stress.ts, run beside Setup: it reads the pool, then sends   *)
(* bets in batches of concurrent calls, and waits for all of a batch before *)
(* it sends the next.                                                       *)
(*                                                                         *)
(* The script derives a bot's receipt from the bot's key but names the fee  *)
(* payer as the user, and the program derives it from the user: the bets    *)
(* are all refused, and the histogram of hits stays empty.                  *)
(***************************************************************************)
EXTENDS Setup, FiniteSets

CONSTANTS BOT_COUNT, BATCH_SIZE,
          HISTOGRAM_BUCKETS,
          basePrice, precisionStep,   \* what the pool was created with
          Prices                      \* what the Gaussian may give

ASSUME BotsAssumption ==
    /\ BOT_COUNT \in Nat \ {0} /\ BATCH_SIZE \in Nat \ {0}
    /\ HISTOGRAM_BUCKETS \in 1..256
    /\ basePrice \in Nat /\ precisionStep \in Nat \ {0}
    /\ Prices \subseteq Int

VARIABLES script,        \* "idle", "fetch", "fire" (a batch) or "await"
          batchStart,
          calls,         \* the calls under way: bot -> where it is, and its bucket
          successCount, failCount

bvars == <<script, batchStart, calls, successCount, failCount>>
vars  == <<svars, bvars>>

batchEnd == IF batchStart + BATCH_SIZE < BOT_COUNT
            THEN batchStart + BATCH_SIZE ELSE BOT_COUNT

\* Keys: the bots' own, and the operator's.
FeePayer == -1
UserPrediction(user) == user

\* Mutant: the index is not capped at the last bucket.
priceToBucketIndex_NoCap(price) ==
    IF price < basePrice THEN 0 ELSE (price - basePrice) \div precisionStep

priceToBucketIndex(price) ==
    LET idx == (price - basePrice) \div precisionStep
    IN  IF price < basePrice THEN 0
        ELSE IF idx < HISTOGRAM_BUCKETS - 1 THEN idx ELSE HISTOGRAM_BUCKETS - 1

predictionValue(bucketIndex) == basePrice + bucketIndex * precisionStep

Init ==
    /\ SInit
    /\ script = "idle"
    /\ batchStart = 0
    /\ calls = <<>>
    /\ successCount = 0 /\ failCount = 0

BeginBots ==
    /\ script = "idle"
    /\ script' = "fetch"
    /\ UNCHANGED <<batchStart, calls, successCount, failCount>>

FetchPool ==
    /\ script = "fetch" /\ vaultMint # None
    /\ script' = "fire"
    /\ batchStart' = 0
    /\ successCount' = 0 /\ failCount' = 0
    /\ UNCHANGED calls

FetchThrows ==
    /\ script = "fetch"
    /\ script' = "idle"
    /\ UNCHANGED <<batchStart, calls, successCount, failCount>>

\* map runs every bot up to its first await.
Fire ==
    /\ script = "fire"
    /\ script' = "await"
    /\ \E price \in [batchStart..(batchEnd - 1) -> Prices] :
         calls' = [b \in DOMAIN price |->
                     [at |-> "account", bucket |-> priceToBucketIndex(price[b])]]
    /\ UNCHANGED <<batchStart, successCount, failCount>>

Settled(b) == calls' = [c \in DOMAIN calls \ {b} |-> calls[c]]

\* getOrCreateAssociatedTokenAccount returns, or throws.
Account(b) ==
    /\ calls[b].at = "account"
    /\ \/ calls' = [calls EXCEPT ![b].at = "placePrediction"] /\ UNCHANGED failCount
       \/ Settled(b) /\ failCount' = failCount + 1
    /\ UNCHANGED <<script, batchStart, successCount>>

\* Mutant: a bet that is refused is not counted.
placePrediction_Uncounted(b) ==
    /\ calls[b].at = "placePrediction"
    /\ Settled(b)
    /\ UNCHANGED <<script, batchStart, successCount, failCount>>

placePrediction(b) ==
    /\ calls[b].at = "placePrediction"
    /\ Settled(b)
    /\ IF UserPrediction(b) = UserPrediction(FeePayer)
       THEN successCount' = successCount + 1 /\ UNCHANGED failCount
       ELSE failCount' = failCount + 1 /\ UNCHANGED successCount
    /\ UNCHANGED <<script, batchStart>>

\* Mutants: the batch waits for successes; the loop goes on with the same batch.
EndBatch_Successes ==
    /\ script = "await" /\ successCount = batchEnd
    /\ batchStart' = batchEnd
    /\ script' = IF batchEnd < BOT_COUNT THEN "fire" ELSE "idle"
    /\ UNCHANGED <<calls, successCount, failCount>>

EndBatch_SameBatch ==
    /\ script = "await" /\ calls = <<>>
    /\ script' = IF batchEnd < BOT_COUNT THEN "fire" ELSE "idle"
    /\ UNCHANGED <<batchStart, calls, successCount, failCount>>

\* Promise.all, and the pause before the next batch.
EndBatch ==
    /\ script = "await" /\ calls = <<>>
    /\ batchStart' = batchEnd
    /\ script' = IF batchEnd < BOT_COUNT THEN "fire" ELSE "idle"
    /\ UNCHANGED <<calls, successCount, failCount>>

BotsStep == \/ FetchPool \/ FetchThrows \/ Fire \/ EndBatch
            \/ \E b \in DOMAIN calls : Account(b) \/ placePrediction(b)

Next == \/ SNext /\ UNCHANGED bvars
        \/ (BeginBots \/ BotsStep) /\ UNCHANGED svars

\* Every await settles.
Spec == Init /\ [][Next]_vars /\ WF_vars(BotsStep /\ UNCHANGED svars)

-----------------------------------------------------------------------------

TypeOK ==
    /\ STypeOK
    /\ script \in {"idle", "fetch", "fire", "await"}
    /\ batchStart \in 0..BOT_COUNT
    /\ DOMAIN calls \subseteq 0..(BOT_COUNT - 1)
    /\ \A b \in DOMAIN calls :
         calls[b] \in [at : {"account", "placePrediction"}, bucket : Nat]
    /\ successCount \in 0..BOT_COUNT /\ failCount \in 0..BOT_COUNT

\* The program's own arithmetic.
P == INSTANCE PoolMath WITH ENTRY_FEE <- 1, U32Max <- 0, U64Max <- 0

\* bot-stress.ts:87, "Must mirror the on-chain Rust logic exactly": whatever the
\* Gaussian gave, the program takes the value that is sent for it, and counts it
\* in the bucket that the script counts.
BotsHitTheirBucket ==
    \A b \in DOMAIN calls :
      LET pool == P!NewPool(basePrice, precisionStep)
          sent == predictionValue(calls[b].bucket)
      IN  P!InRange(pool, sent) /\ P!BucketIndex(pool, sent) = calls[b].bucket

\* The results account for every bot: the counts and the calls under way are
\* the bots fired so far, and never more than a batch is under way.
EveryBotIsCounted ==
    /\ Cardinality(DOMAIN calls) <= BATCH_SIZE
    /\ successCount + failCount + Cardinality(DOMAIN calls) =
         IF script = "await" THEN batchEnd ELSE batchStart

\* A run ends, with every call refused.
BotsReachResults == script = "fetch" ~> script = "idle"

\* The operator runs the setup again whenever it has ended, and each call does
\* get through at times.
Operated ==
    /\ WF_vars(Begin /\ UNCHANGED bvars)
    /\ \A c \in {"createMint", "mintTo", "getAccountInfo", "initializePool"} :
         SF_vars(SNext /\ setup = c /\ setup' # "idle" /\ UNCHANGED bvars)
    /\ SF_vars(delegateProxy /\ UNCHANGED bvars)

\* Setup gets the pool delegated, again and again after undelegations, from
\* wherever an earlier run stopped, if the file can hold the mint.
SetupDelegates == line # "bare" /\ Operated => []<>delegated
=============================================================================
