------------------------------ MODULE FlashPool ------------------------------
(***************************************************************************)
(* The flash_pool program on one ledger: one pool account, its vault, the  *)
(* receipt accounts of the players and their token accounts.  An action is *)
(* an instruction that succeeds; one that fails changes nothing, and is    *)
(* the action's guard being false.  Transactions on a pool are serialised  *)
(* by the runtime (they all write or read-lock the pool account), so an    *)
(* instruction is one step.  Claims are paid to the token account of the    *)
(* player the receipt names, as the crank and the tests do.                *)
(***************************************************************************)
EXTENDS PriceOracle, FiniteSets, FiniteSetsExt

CONSTANTS Users,
          InitialWallet,   \* tokens each player starts with
          PoolParams,      \* the <<base_price, precision_step>> a pool may be created with
          Predictions,     \* the prices players may predict
          PriceAccounts    \* the price accounts resolve_market may be given

ASSUME FlashPoolAssumption ==
    /\ IsFiniteSet(Users)
    /\ InitialWallet \in [Users -> Nat]
    /\ PoolParams \subseteq (0..U64Max) \X (0..U64Max)
    /\ Predictions \subseteq 0..U64Max
    /\ \A a \in PriceAccounts : /\ a.price \in Int
                                /\ Magnitude(a.price) <= U64Max
                                /\ a.exponent \in Int

NoReceipt == -1

VARIABLES initialized,   \* the pool and vault accounts exist
          pool,          \* the FlashPool account
          receipts,      \* bucket named by the player's open receipt, or NoReceipt
          vault,         \* tokens in the vault
          wallet         \* tokens in each player's token account

vars == <<initialized, pool, receipts, vault, wallet>>

Init ==
    /\ initialized = FALSE
    /\ pool = NewPool(0, 0)
    /\ receipts = [u \in Users |-> NoReceipt]
    /\ vault = 0
    /\ wallet = InitialWallet

\* `init' on the pool and vault accounts fails if they exist already.
initialize_pool(base_price, precision_step) ==
    /\ ~initialized
    /\ initialized' = TRUE
    /\ pool' = NewPool(base_price, precision_step)
    /\ UNCHANGED <<receipts, vault, wallet>>

\* Mutant: `init_if_needed', which lets a second bet take over the receipt.
place_prediction_InitIfNeeded(u, prediction_value) ==
    LET b == BucketIndex(pool, prediction_value) IN
    /\ initialized
    /\ InRange(pool, prediction_value)
    /\ wallet[u] >= pool.entry_fee
    /\ CanCount(pool, b)
    /\ wallet' = [wallet EXCEPT ![u] = @ - pool.entry_fee]
    /\ vault' = vault + pool.entry_fee
    /\ pool' = Counted(pool, b)
    /\ receipts' = [receipts EXCEPT ![u] = b]
    /\ UNCHANGED initialized

\* `init' on the receipt account fails while the player's receipt is open.
\* outcome is not looked at.
place_prediction(u, prediction_value) ==
    LET b == BucketIndex(pool, prediction_value) IN
    /\ initialized
    /\ receipts[u] = NoReceipt
    /\ InRange(pool, prediction_value)
    /\ wallet[u] >= pool.entry_fee
    /\ CanCount(pool, b)
    /\ wallet' = [wallet EXCEPT ![u] = @ - pool.entry_fee]
    /\ vault' = vault + pool.entry_fee
    /\ pool' = Counted(pool, b)
    /\ receipts' = [receipts EXCEPT ![u] = b]
    /\ UNCHANGED initialized

\* Neither the caller, nor oracle_feed, nor an earlier outcome is looked at.
resolve_market(account) ==
    /\ initialized
    /\ Accepted(account)
    /\ Scalable(account)
    /\ HasWinningBucket(pool, OraclePrice(account))
    /\ pool' = Resolved(pool, OraclePrice(account))
    /\ UNCHANGED <<initialized, receipts, vault, wallet>>

\* Mutant: without `close = treasury' the receipt can be claimed again.
claim_reward_NoClose(u) ==
    /\ initialized
    /\ receipts[u] # NoReceipt
    /\ IsWinner(pool, receipts[u])
    /\ vault >= Payout(pool)
    /\ vault' = vault - Payout(pool)
    /\ wallet' = [wallet EXCEPT ![u] = @ + Payout(pool)]
    /\ UNCHANGED <<initialized, pool, receipts>>

\* Closing the receipt is part of the instruction; the pool is not written.
claim_reward(u) ==
    /\ initialized
    /\ receipts[u] # NoReceipt
    /\ IsWinner(pool, receipts[u])
    /\ vault >= Payout(pool)
    /\ vault' = vault - Payout(pool)
    /\ wallet' = [wallet EXCEPT ![u] = @ + Payout(pool)]
    /\ receipts' = [receipts EXCEPT ![u] = NoReceipt]
    /\ UNCHANGED <<initialized, pool>>

Next ==
    \/ \E p \in PoolParams : initialize_pool(p[1], p[2])
    \/ \E u \in Users, v \in Predictions : place_prediction(u, v)
    \/ \E a \in PriceAccounts : resolve_market(a)
    \/ \E u \in Users : claim_reward(u)

Spec == Init /\ [][Next]_vars

-----------------------------------------------------------------------------
(* Invariants *)

\* Every field stays in its type: the counters do not pass the largest u32
\* and u64, and median_error is a distance between two buckets.
TypeOK ==
    /\ initialized \in BOOLEAN
    /\ pool \in Pool
    /\ receipts \in [Users -> Buckets \cup {NoReceipt}]
    /\ vault \in Nat
    /\ wallet \in [Users -> Nat]

Open == {u \in Users : receipts[u] # NoReceipt}

\* The vault holds exactly one entry fee for every receipt that is open, over
\* any number of rounds, re-resolutions, claims and new bets.  The program
\* never compares the vault with its own counters (total_pool_amount keeps
\* growing while claims empty the vault).
VaultBacksReceipts == vault = ENTRY_FEE * Cardinality(Open)

\* A player's tokens and open stake add up to what the player started with:
\* nobody pays in twice for one receipt, or is paid more than once or more
\* than the stake, however often the market is resolved and claimed.
StakeConserved ==
    \A u \in Users :
        wallet[u] + (IF u \in Open THEN ENTRY_FEE ELSE 0) = InitialWallet[u]

\* The receipts that can be claimed now can all be claimed: the payouts do
\* not exceed the vault, whichever order the crank pays them in.
WinnersArePayable ==
    LET eligible == {u \in Open : IsWinner(pool, receipts[u])}
    IN  eligible # {} => Payout(pool) * Cardinality(eligible) <= vault

BetsAt(buckets) ==
    MapThenSumSet(LAMBDA b : pool.histogram_buckets[b], buckets)

\* The histogram and the two counters tell the same story, and every open
\* receipt is one of the bets counted in its bucket.
HistogramCountsBets ==
    /\ BetsAt(Buckets) = pool.total_participants
    /\ pool.total_pool_amount = ENTRY_FEE * pool.total_participants
    /\ \A b \in Buckets :
          Cardinality({u \in Users : receipts[u] = b}) <= pool.histogram_buckets[b]

-----------------------------------------------------------------------------
(* Action properties *)

\* The bucket a price falls in, counted from the bucket edges it reaches.
BucketByEdges(price) ==
    Cardinality({b \in 1..(HISTOGRAM_BUCKETS - 1) :
                    pool.base_price + b * pool.precision_step <= price})

\* Resolving stops at the smallest distance around the winning bucket that
\* holds half of the bets, rounded down, and at least one.  The walk of
\* resolve_market is compared with counting the bets within each distance.
ResolveFindsMedian ==
    [][\A a \in PriceAccounts : resolve_market(a) /\ pool.total_participants > 0 =>
        LET w         == BucketByEdges(OraclePrice(a))
            within(d) == BetsAt({b \in Buckets : Distance(b, w) <= d})
            enough(k) == k >= 1 /\ 2 * k + 1 >= pool.total_participants
        IN  /\ enough(within(pool'.median_error))
            /\ \A d \in 0..(pool'.median_error - 1) : ~enough(within(d))]_vars

\* While nobody has claimed yet, resolving at a positive price leaves at least
\* half of the open receipts (rounded down) and at least one able to claim.
HalfOfReceiptsWin ==
    [][\A a \in PriceAccounts :
        /\ resolve_market(a)
        /\ pool'.outcome > 0
        /\ Open # {}
        /\ Cardinality(Open) = pool.total_participants
        => LET winners == {u \in Open : IsWinner(pool', receipts[u])}
           IN  winners # {} /\ 2 * Cardinality(winners) + 1 >= Cardinality(Open)]_vars

\* The program is an escrow: seen from the vault, the open receipts and the
\* token accounts, every instruction is a deposit, a refund, or nothing.
E == INSTANCE Escrow WITH Players <- Users, Fee <- ENTRY_FEE,
                          InitialFunds <- InitialWallet,
                          stakes <- Open, held <- vault, funds <- wallet
ImplementsEscrow == E!ESpec

-----------------------------------------------------------------------------
(* What the documents say, and the program does not do *)

\* Readme.md:220: resolve_market "locks the pool": once a market is
\* resolved, the pool account no longer changes.
PoolLockedAfterResolve == [][pool.outcome # 0 => pool' = pool]_vars

\* Readme.md:226: a claim "Transfers `total_pool / winner_count`".
WinnersShareThePool ==
    [][\A u \in Users : claim_reward(u) =>
        LET winning == {b \in Buckets : IsWinner(pool, b)}
        IN  wallet'[u] - wallet[u] = pool.total_pool_amount \div BetsAt(winning)]_vars
=============================================================================
