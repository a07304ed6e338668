--------------------------- MODULE FlashPoolProofs ---------------------------
(***************************************************************************)
(* Proofs about FlashPool for every set of players, every fee, every       *)
(* number of buckets and every integer width.                               *)
(***************************************************************************)
EXTENDS FlashPool, WalkProofs

USE DEF NoReceipt

-----------------------------------------------------------------------------
(* The operators that build a pool account build a well-formed one *)

LEMMA NewPoolType ==
    ASSUME NEW base_price \in 0..U64Max, NEW precision_step \in 0..U64Max
    PROVE  NewPool(base_price, precision_step) \in Pool
<1>1. 0 \in Buckets /\ 0 \in 0..U32Max /\ 0 \in 0..U64Max /\ ENTRY_FEE \in Nat
  BY PoolAssumption DEF Buckets
<1>2. [b \in Buckets |-> 0] \in [Buckets -> 0..U32Max]
  BY <1>1
<1> QED BY <1>1, <1>2 DEF NewPool, Pool

LEMMA CountedType ==
    ASSUME NEW p \in Pool, NEW b \in Buckets, CanCount(p, b)
    PROVE  Counted(p, b) \in Pool
<1>1. /\ p.total_participants + 1 \in 0..U32Max
      /\ p.total_pool_amount + p.entry_fee \in 0..U64Max
      /\ p.histogram_buckets[b] + 1 \in 0..U32Max
  BY PoolAssumption DEF Pool, CanCount
<1> QED BY <1>1 DEF Counted, Pool

LEMMA ResolvedType ==
    ASSUME NEW p \in Pool, NEW price \in 0..U64Max
    PROVE  Resolved(p, price) \in Pool
BY MedianErrorType DEF Resolved, Pool

-----------------------------------------------------------------------------
(* The inductive invariant *)

\* Besides the invariants themselves: the fee never changes, and the pool's
\* total is the fee times its number of participants, so that a payout, which
\* divides one by the other, is always the fee.
Totals ==
    /\ pool.entry_fee = ENTRY_FEE
    /\ pool.total_pool_amount = ENTRY_FEE * pool.total_participants

IInv == TypeOK /\ Totals /\ VaultBacksReceipts /\ StakeConserved

LEMMA PayoutIsFee ==
    ASSUME IInv, pool.total_participants > 0
    PROVE  Payout(pool) = ENTRY_FEE
<1>1. pool.total_participants \in Nat \ {0}
  BY PoolAssumption DEF IInv, TypeOK, Pool
<1>2. pool.total_pool_amount = ENTRY_FEE * pool.total_participants
  BY DEF IInv, Totals
<1> QED BY <1>1, <1>2, Quotient, PoolAssumption DEF Payout

\* Opening a receipt adds its player to the open ones, closing it removes it.
LEMMA OpenType ==
    IsFiniteSet(Open) /\ Cardinality(Open) \in Nat
BY FlashPoolAssumption, FS_Subset, FS_CardinalityType DEF Open

LEMMA InitIInv == Init => IInv
<1> SUFFICES ASSUME Init PROVE IInv
  OBVIOUS
<1>1. TypeOK
  <2>1. pool \in Pool
    BY NewPoolType, PoolAssumption DEF Init
  <2> QED BY <2>1, FlashPoolAssumption DEF Init, TypeOK
<1>2. Totals
  BY PoolAssumption DEF Init, Totals, NewPool
<1>3. Open = {}
  BY DEF Init, Open
<1>4. VaultBacksReceipts
  BY <1>3, FS_EmptySet, PoolAssumption DEF Init, VaultBacksReceipts
<1>5. StakeConserved
  BY <1>3, FlashPoolAssumption DEF Init, StakeConserved
<1> QED BY <1>1, <1>2, <1>4, <1>5 DEF IInv

\* initialize_pool: nothing is staked when the pool account appears.
LEMMA InitializeStep ==
    ASSUME IInv, NEW p \in PoolParams, initialize_pool(p[1], p[2])
    PROVE  IInv'
<1>1. TypeOK'
  <2>1. p[1] \in 0..U64Max /\ p[2] \in 0..U64Max
    BY FlashPoolAssumption
  <2>2. pool' \in Pool
    BY <2>1, NewPoolType DEF initialize_pool
  <2> QED BY <2>2 DEF initialize_pool, IInv, TypeOK
<1>2. Totals'
  BY PoolAssumption DEF initialize_pool, Totals, NewPool
<1>3. Open' = Open
  BY DEF initialize_pool, Open
<1> QED BY <1>1, <1>2, <1>3
        DEF initialize_pool, IInv, VaultBacksReceipts, StakeConserved

\* place_prediction: the fee moves from the wallet to the vault as the receipt
\* is opened and the totals grow by one fee and one participant.
LEMMA PlaceStep ==
    ASSUME IInv, NEW u \in Users, NEW v \in Predictions, place_prediction(u, v)
    PROVE  IInv'
<1> DEFINE b == BucketIndex(pool, v)
<1>1. b \in Buckets
  <2>1. v \in Nat
    BY FlashPoolAssumption, PoolAssumption
  <2>2. b \in Nat
    BY <2>1, BucketIndexIsNatural DEF place_prediction, InRange, IInv, TypeOK
  <2> QED BY <2>2, PoolAssumption DEF place_prediction, InRange, Buckets
<1>2. /\ pool.entry_fee = ENTRY_FEE
      /\ ENTRY_FEE \in Nat
  BY PoolAssumption DEF IInv, Totals
<1>3. TypeOK'
  <2>1. pool' \in Pool
    BY <1>1, CountedType DEF place_prediction, IInv, TypeOK
  <2>2. vault' \in Nat
    BY <1>2 DEF place_prediction, IInv, TypeOK
  <2>3. wallet' \in [Users -> Nat]
    BY <1>2 DEF place_prediction, IInv, TypeOK
  <2>4. receipts' \in [Users -> Buckets \cup {NoReceipt}]
    BY <1>1 DEF place_prediction, IInv, TypeOK
  <2> QED BY <2>1, <2>2, <2>3, <2>4 DEF place_prediction, IInv, TypeOK
<1>4. Totals'
  <2>1. /\ pool'.entry_fee = pool.entry_fee
        /\ pool'.total_participants = pool.total_participants + 1
        /\ pool'.total_pool_amount = pool.total_pool_amount + pool.entry_fee
    BY DEF place_prediction, Counted, IInv, TypeOK, Pool
  <2>2. pool.total_participants \in Nat
    BY PoolAssumption DEF IInv, TypeOK, Pool
  <2> QED BY <2>1, <2>2, <1>2 DEF IInv, Totals
<1>5. /\ Open' = Open \cup {u}
      /\ u \notin Open
  BY <1>1, PoolAssumption DEF place_prediction, Open, IInv, TypeOK, Buckets
<1>6. Cardinality(Open') = Cardinality(Open) + 1
  BY <1>5, OpenType, FS_AddElement
<1>7. VaultBacksReceipts'
  BY <1>2, <1>6, OpenType DEF place_prediction, IInv, VaultBacksReceipts
<1>8. StakeConserved'
  BY <1>2, <1>5, FlashPoolAssumption
  DEF place_prediction, IInv, TypeOK, StakeConserved
<1> QED BY <1>3, <1>4, <1>7, <1>8 DEF IInv

\* The price that resolve_market stores is a u64.
LEMMA OraclePriceIsNatural ==
    ASSUME NEW a \in PriceAccounts, Scalable(a)
    PROVE  OraclePrice(a) \in 0..U64Max
<1>1. Magnitude(a.price) \in 0..U64Max
  BY FlashPoolAssumption, PoolAssumption DEF Magnitude
<1>2. Scale(a.exponent) \in Nat
  BY PoolAssumption DEF Scalable
<1> QED BY <1>1, <1>2, QuotientBound, PoolAssumption DEF OraclePrice

\* resolve_market: only outcome and median_error change.
LEMMA ResolveStep ==
    ASSUME IInv, NEW a \in PriceAccounts, resolve_market(a)
    PROVE  IInv'
<1>1. OraclePrice(a) \in 0..U64Max
  BY OraclePriceIsNatural DEF resolve_market
<1>2. TypeOK'
  BY <1>1, ResolvedType DEF resolve_market, IInv, TypeOK
<1>3. Totals'
  BY DEF resolve_market, Resolved, IInv, TypeOK, Pool, Totals
<1>4. Open' = Open
  BY DEF resolve_market, Open
<1> QED BY <1>2, <1>3, <1>4
        DEF resolve_market, IInv, VaultBacksReceipts, StakeConserved

\* claim_reward: one fee leaves the vault for the player whose receipt closes.
LEMMA ClaimStep ==
    ASSUME IInv, NEW u \in Users, claim_reward(u)
    PROVE  IInv'
<1>1. /\ Payout(pool) = ENTRY_FEE
      /\ ENTRY_FEE \in Nat
  BY PayoutIsFee, PoolAssumption DEF claim_reward, IsWinner
<1>2. TypeOK'
  BY <1>1 DEF claim_reward, IInv, TypeOK
<1>3. Totals'
  BY DEF claim_reward, IInv, Totals
<1>4. /\ Open' = Open \ {u}
      /\ u \in Open
  BY DEF claim_reward, Open, IInv, TypeOK
<1>5. Cardinality(Open') = Cardinality(Open) - 1
  BY <1>4, OpenType, FS_RemoveElement
<1>6. VaultBacksReceipts'
  BY <1>1, <1>5, OpenType DEF claim_reward, IInv, VaultBacksReceipts
<1>7. StakeConserved'
  BY <1>1, <1>4, FlashPoolAssumption
  DEF claim_reward, IInv, TypeOK, StakeConserved
<1> QED BY <1>2, <1>3, <1>6, <1>7 DEF IInv

LEMMA StutterStep ==
    ASSUME IInv, UNCHANGED vars
    PROVE  IInv'
<1>1. Open' = Open
  BY DEF vars, Open
<1> QED BY <1>1 DEF vars, IInv, TypeOK, Totals, VaultBacksReceipts, StakeConserved

LEMMA NextIInv == IInv /\ [Next]_vars => IInv'
<1> SUFFICES ASSUME IInv, [Next]_vars PROVE IInv'
  OBVIOUS
<1>1. CASE \E p \in PoolParams : initialize_pool(p[1], p[2])
  BY <1>1, InitializeStep
<1>2. CASE \E u \in Users, v \in Predictions : place_prediction(u, v)
  BY <1>2, PlaceStep
<1>3. CASE \E a \in PriceAccounts : resolve_market(a)
  BY <1>3, ResolveStep
<1>4. CASE \E u \in Users : claim_reward(u)
  BY <1>4, ClaimStep
<1>5. CASE UNCHANGED vars
  BY <1>5, StutterStep
<1> QED BY <1>1, <1>2, <1>3, <1>4, <1>5 DEF Next

\* IInv holds in every state the program reaches.
THEOREM Inductive == Spec => []IInv
BY InitIInv, NextIInv, PTL DEF Spec

\* The account's fields stay in their types for every number of players and
\* every width: no counter wraps, and median_error is a bucket distance.
THEOREM TypeCorrect == Spec => []TypeOK
<1>1. IInv => TypeOK
  BY DEF IInv
<1> QED BY <1>1, Inductive, PTL

\* The vault always holds one entry fee per open receipt.
THEOREM VaultIsBacked == Spec => []VaultBacksReceipts
<1>1. IInv => VaultBacksReceipts
  BY DEF IInv
<1> QED BY <1>1, Inductive, PTL

\* No player ever gains or loses more than the stake that is open.
THEOREM StakesConserved == Spec => []StakeConserved
<1>1. IInv => StakeConserved
  BY DEF IInv
<1> QED BY <1>1, Inductive, PTL
\* Every receipt that wins can be paid, in any order: the payouts of all of
\* them together do not exceed the vault.
THEOREM WinnersPayable == Spec => []WinnersArePayable
<1>1. IInv => WinnersArePayable
  <2> DEFINE eligible == {u \in Open : IsWinner(pool, receipts[u])}
  <2> SUFFICES ASSUME IInv, eligible # {}
               PROVE  Payout(pool) * Cardinality(eligible) <= vault
    BY DEF WinnersArePayable
  <2>1. Payout(pool) = ENTRY_FEE
    BY PayoutIsFee DEF IsWinner
  <2>2. /\ Cardinality(eligible) <= Cardinality(Open)
        /\ Cardinality(eligible) \in Nat
    <3>1. eligible \in SUBSET Open
      OBVIOUS
    <3> QED BY <3>1, OpenType, FS_Subset, FS_CardinalityType
  <2>3. vault = ENTRY_FEE * Cardinality(Open)
    BY DEF IInv, VaultBacksReceipts
  <2>4. ENTRY_FEE * Cardinality(eligible) <= ENTRY_FEE * Cardinality(Open)
    BY <2>2, OpenType, ProductIsMonotone, PoolAssumption
  <2> QED BY <2>1, <2>3, <2>4
<1> QED BY <1>1, Inductive, PTL

-----------------------------------------------------------------------------
(* The program implements the escrow *)

LEMMA PlaceIsDeposit ==
    ASSUME IInv, NEW u \in Users, NEW v \in Predictions, place_prediction(u, v)
    PROVE  E!Deposit(u)
<1>1. /\ Open' = Open \cup {u}
      /\ u \notin Open
  <2>1. BucketIndex(pool, v) \in Nat
    BY FlashPoolAssumption, PoolAssumption, BucketIndexIsNatural
    DEF place_prediction, InRange, IInv, TypeOK
  <2> QED BY <2>1 DEF place_prediction, Open, IInv, TypeOK
<1>2. pool.entry_fee = ENTRY_FEE
  BY DEF IInv, Totals
<1> QED BY <1>1, <1>2 DEF place_prediction, E!Deposit

LEMMA ClaimIsRefund ==
    ASSUME IInv, NEW u \in Users, claim_reward(u)
    PROVE  E!Refund(u)
<1>1. Payout(pool) = ENTRY_FEE
  BY PayoutIsFee DEF claim_reward, IsWinner
<1>2. /\ Open' = Open \ {u}
      /\ u \in Open
  BY DEF claim_reward, Open, IInv, TypeOK
<1> QED BY <1>1, <1>2 DEF claim_reward, E!Refund

LEMMA OtherStepsStutter ==
    ASSUME UNCHANGED <<receipts, vault, wallet>>
    PROVE  UNCHANGED E!evars
BY DEF Open, E!evars

\* Seen from the vault and the token accounts, every execution of the program
\* is an execution of the escrow: a player's fee goes in, and comes out at
\* most once, to that player.
THEOREM Refinement == Spec => ImplementsEscrow
<1>1. Init => E!EInit
  <2> SUFFICES ASSUME Init PROVE E!EInit
    OBVIOUS
  <2>1. Open = {}
    BY DEF Init, Open
  <2> QED BY <2>1 DEF Init, E!EInit
<1>2. IInv /\ [Next]_vars => [E!ENext]_(E!evars)
  <2> SUFFICES ASSUME IInv, [Next]_vars PROVE [E!ENext]_(E!evars)
    OBVIOUS
  <2>1. CASE \E p \in PoolParams : initialize_pool(p[1], p[2])
    BY <2>1, OtherStepsStutter DEF initialize_pool
  <2>2. CASE \E u \in Users, v \in Predictions : place_prediction(u, v)
    BY <2>2, PlaceIsDeposit DEF E!ENext
  <2>3. CASE \E a \in PriceAccounts : resolve_market(a)
    BY <2>3, OtherStepsStutter DEF resolve_market
  <2>4. CASE \E u \in Users : claim_reward(u)
    BY <2>4, ClaimIsRefund DEF E!ENext
  <2>5. CASE UNCHANGED vars
    BY <2>5, OtherStepsStutter DEF vars
  <2> QED BY <2>1, <2>2, <2>3, <2>4, <2>5 DEF Next
<1> QED BY <1>1, <1>2, Inductive, PTL DEF Spec, ImplementsEscrow, E!ESpec
=============================================================================
