------------------------------- MODULE Rollup -------------------------------
(***************************************************************************)
(* The pool account on two ledgers.  setup-pool.ts hands the account to    *)
(* MagicBlock's ephemeral rollup through delegate_proxy; from then on the   *)
(* rollup's copy is the live one, the sequencer copies it back to L1 from   *)
(* time to time, and an L1 instruction that names the pool fails, because   *)
(* Anchor finds the account owned by the delegation program.  The scripts   *)
(* reach whichever copy is live through the Magic Router, and the crank     *)
(* sends its claims to L1.  Receipts, vault and token accounts are taken to *)
(* be on one ledger: this is what the scripts assume of the rollup.         *)
(***************************************************************************)
EXTENDS PriceOracle, FiniteSets

CONSTANTS Users, InitialWallet, PoolParams, Predictions, PriceAccounts

ASSUME RollupAssumption ==
    /\ IsFiniteSet(Users)
    /\ InitialWallet \in [Users -> Nat]
    /\ PoolParams \subseteq (0..U64Max) \X (0..U64Max)
    /\ Predictions \subseteq 0..U64Max
    /\ \A a \in PriceAccounts : /\ a.price \in Int
                                /\ Magnitude(a.price) <= U64Max
                                /\ a.exponent \in Int

VARIABLES initialized, l1pool, receipts, vault, wallet,
          delegated,     \* the L1 account is owned by the delegation program
          erpool         \* the rollup's copy, all zero while there is none

ledger == <<initialized, l1pool, receipts, vault, wallet>>
rollup == <<delegated, erpool>>
rvars  == <<ledger, rollup>>

L1 == INSTANCE FlashPool WITH pool <- l1pool
ER == INSTANCE FlashPool WITH pool <- erpool

RInit ==
    /\ L1!Init
    /\ delegated = FALSE
    /\ erpool = NewPool(0, 0)

initialize_pool(p) == L1!initialize_pool(p[1], p[2]) /\ UNCHANGED rollup

\* Mutant: the account's owner is not checked, so L1 takes instructions on
\* the pool while the rollup has it.
OnL1_AnyOwner == UNCHANGED rollup

\* The router sends an instruction to the rollup if the pool is delegated and
\* to L1 otherwise.
OnL1 == ~delegated /\ UNCHANGED rollup
OnER == delegated /\ UNCHANGED <<l1pool, delegated>>

place_prediction(u, v) == \/ OnL1 /\ L1!place_prediction(u, v)
                          \/ OnER /\ ER!place_prediction(u, v)

resolve_market(a) == \/ OnL1 /\ L1!resolve_market(a)
                     \/ OnER /\ ER!resolve_market(a)

\* Mutant: the pool is an unchecked account, and a claim reads the copy that
\* L1 has while the rollup holds the live one.
claim_reward_AnyOwner(u) == L1!claim_reward(u) /\ UNCHANGED rollup

claim_reward(u) == OnL1 /\ L1!claim_reward(u)

\* setup-pool.ts sends this whether or not it has just created the pool; the
\* delegation program, which is not in this repository, is taken to refuse an
\* account that it already owns and one that does not exist.  The pool may be
\* delegated again after each undelegation.
delegate_proxy ==
    /\ initialized
    /\ ~delegated
    /\ delegated' = TRUE
    /\ erpool' = l1pool
    /\ UNCHANGED ledger

\* The sequencer's periodic commit (commitFrequencyMs: 500).
Commit ==
    /\ delegated
    /\ l1pool' = erpool
    /\ UNCHANGED <<initialized, receipts, vault, wallet, rollup>>

\* The last commit, which gives the account back to the program.
Undelegate ==
    /\ delegated
    /\ l1pool' = erpool
    /\ delegated' = FALSE
    /\ erpool' = NewPool(0, 0)
    /\ UNCHANGED <<initialized, receipts, vault, wallet>>

Live == IF delegated THEN erpool ELSE l1pool
=============================================================================
