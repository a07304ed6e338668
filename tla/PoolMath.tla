------------------------------ MODULE PoolMath ------------------------------
(***************************************************************************)
(* The FlashPool account and the integer arithmetic the program does on   *)
(* it: mapping a price to a histogram bucket, the outward walk that finds *)
(* median_error, and the payout.  No state machine: FlashPool, Crank and   *)
(* Round use these operators on the copies of the account they hold.       *)
(*                                                                         *)
(* The build has overflow-checks = true, so an addition past the type's    *)
(* maximum, or a division by zero, aborts the transaction.  Operators that *)
(* can abort come with a predicate saying when they do not.                *)
(***************************************************************************)
EXTENDS Integers

CONSTANTS HISTOGRAM_BUCKETS,   \* 100 in the code
          ENTRY_FEE,           \* 1_000_000 in the code
          U32Max, U64Max       \* largest u32 and u64

\* `bucket_index as u8' loses nothing as long as a bucket index fits in a u8.
ASSUME PoolAssumption ==
    /\ HISTOGRAM_BUCKETS \in 1..256
    /\ ENTRY_FEE \in Nat \ {0}
    /\ U32Max \in Nat
    /\ U64Max \in Nat

Buckets == 0..(HISTOGRAM_BUCKETS - 1)

\* oracle_feed and bump only identify the account; the model has one pool.
Pool == [ base_price        : 0..U64Max,
          precision_step    : 0..U64Max,
          entry_fee         : Nat,
          total_participants: 0..U32Max,
          total_pool_amount : 0..U64Max,
          histogram_buckets : [Buckets -> 0..U32Max],
          outcome           : 0..U64Max,
          median_error      : Buckets ]

NewPool(base_price, precision_step) ==
    [ base_price         |-> base_price,
      precision_step     |-> precision_step,
      entry_fee          |-> ENTRY_FEE,
      total_participants |-> 0,
      total_pool_amount  |-> 0,
      histogram_buckets  |-> [b \in Buckets |-> 0],
      outcome            |-> 0,
      median_error       |-> 0 ]

-----------------------------------------------------------------------------
(* place_prediction *)

BucketIndex(pool, value) == (value - pool.base_price) \div pool.precision_step

InRange(pool, value) ==
    /\ value >= pool.base_price
    /\ pool.precision_step > 0
    /\ BucketIndex(pool, value) < HISTOGRAM_BUCKETS

\* Mutant: plain additions in a build without overflow checks.
CanCount_Unchecked(pool, b) == TRUE

\* The three checked_add of the handler.
CanCount(pool, b) ==
    /\ pool.total_participants + 1 <= U32Max
    /\ pool.total_pool_amount + pool.entry_fee <= U64Max
    /\ pool.histogram_buckets[b] + 1 <= U32Max

\* Mutants: the fee is added twice; every bet is counted in the first bucket.
Counted_FeeTwice(pool, b) ==
    [pool EXCEPT !.total_participants   = @ + 1,
                 !.total_pool_amount    = @ + 2 * pool.entry_fee,
                 !.histogram_buckets[b] = @ + 1]

Counted_FirstBucket(pool, b) ==
    [pool EXCEPT !.total_participants   = @ + 1,
                 !.total_pool_amount    = @ + pool.entry_fee,
                 !.histogram_buckets[0] = @ + 1]

Counted(pool, b) ==
    [pool EXCEPT !.total_participants   = @ + 1,
                 !.total_pool_amount    = @ + pool.entry_fee,
                 !.histogram_buckets[b] = @ + 1]

-----------------------------------------------------------------------------
(* resolve_market *)

HasWinningBucket(pool, price) ==
    price < pool.base_price \/ pool.precision_step > 0

WinningBucket(pool, price) ==
    IF price < pool.base_price
    THEN 0
    ELSE LET idx == BucketIndex(pool, price)
         IN  IF idx >= HISTOGRAM_BUCKETS THEN HISTOGRAM_BUCKETS - 1 ELSE idx

\* Mutant: the bucket at the left edge is left out.
Ring_NoLeftEdge(histogram, w, d) ==
    IF d = 0
    THEN histogram[w]
    ELSE   (IF w - d > 0                 THEN histogram[w - d] ELSE 0)
         + (IF w + d < HISTOGRAM_BUCKETS THEN histogram[w + d] ELSE 0)

\* What one round of the walk adds: the buckets at distance d from w.
Ring(histogram, w, d) ==
    IF d = 0
    THEN histogram[w]
    ELSE   (IF w - d >= 0                THEN histogram[w - d] ELSE 0)
         + (IF w + d < HISTOGRAM_BUCKETS THEN histogram[w + d] ELSE 0)

SaturatingAdd(a, b) == IF a + b > U32Max THEN U32Max ELSE a + b

\* `accumulated' at the end of each round of the walk.
Accumulated(histogram, w) ==
    LET acc[d \in Buckets] ==
          SaturatingAdd(IF d = 0 THEN 0 ELSE acc[d - 1], Ring(histogram, w, d))
    IN  acc

\* Mutant: without the .max(1), one bet alone asks for none.
TargetCount_NoMinimum(n) == n \div 2

TargetCount(n) == IF n \div 2 >= 1 THEN n \div 2 ELSE 1

\* The distance at which the walk stops: the first one that reaches the
\* target, or the last one if none does.
StopDistance(acc, target) ==
    CHOOSE d \in Buckets : /\ acc[d] >= target \/ d = HISTOGRAM_BUCKETS - 1
                           /\ \A e \in Buckets : e < d => ~(acc[e] >= target)

MedianError(pool, w) ==
    IF pool.total_participants > 0
    THEN StopDistance(Accumulated(pool.histogram_buckets, w),
                      TargetCount(pool.total_participants))
    ELSE 0

Resolved(pool, price) ==
    [pool EXCEPT !.outcome      = price,
                 !.median_error = MedianError(pool, WinningBucket(pool, price))]

-----------------------------------------------------------------------------
(* claim_reward *)

Distance(a, b) == IF a >= b THEN a - b ELSE b - a

\* The require!s of the handler for a receipt that names `bucket', with the
\* two divisions that can abort it.
IsWinner(pool, bucket) ==
    /\ pool.outcome > 0
    /\ HasWinningBucket(pool, pool.outcome)
    /\ Distance(bucket, WinningBucket(pool, pool.outcome)) <= pool.median_error
    /\ pool.total_participants > 0

\* Mutant: the division is forgotten, and the first claim takes the pool.
Payout_WholePool(pool) == pool.total_pool_amount

Payout(pool) == pool.total_pool_amount \div pool.total_participants
=============================================================================
