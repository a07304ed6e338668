-------------------------------- MODULE Crank --------------------------------
(***************************************************************************)
(* scripts/crank.ts: resolve the market through the router, sleep, read the *)
(* pool from L1, list the receipts, and claim for the winners in batches.   *)
(* Several operators may run it at once, on top of Rollup, while players    *)
(* bet and anybody resolves.  Each step below is the code between two       *)
(* awaits, so that whatever it read may be out of date at the next one.     *)
(***************************************************************************)
EXTENDS Rollup

CONSTANTS Cranks,
          OracleFeed,   \* what the one price account that the script passes shows
          BATCH         \* 15 in the code

\* The price and its age change; the account's owner and its feed do not.
ASSUME CrankAssumption ==
    /\ OracleFeed \subseteq PriceAccounts
    /\ \A a, b \in OracleFeed : a.owner = b.owner /\ a.feed = b.feed

VARIABLES pc,      \* where each crank is
          view,    \* the pool it read from L1
          due,     \* winners it has not started to pay
          batch    \* winners whose claims are in flight

crank == <<pc, view, due, batch>>
vars  == <<rvars, crank>>

NoView == NewPool(0, 0)

Init ==
    /\ RInit
    /\ pc    = [c \in Cranks |-> "off"]
    /\ view  = [c \in Cranks |-> NoView]
    /\ due   = [c \in Cranks |-> {}]
    /\ batch = [c \in Cranks |-> {}]

Goto(c, from, to) == pc[c] = from /\ pc' = [pc EXCEPT ![c] = to]

\* An operator runs the script; it can be run again once it has exited.
Start(c) == Goto(c, "off", "resolve") /\ UNCHANGED <<rvars, view, due, batch>>

\* .resolveMarket().rpc(), always with the account oracleFeed
Resolve(c) ==
    /\ Goto(c, "resolve", "read")
    /\ \E a \in OracleFeed : resolve_market(a)
    /\ UNCHANGED <<view, due, batch>>

\* The transaction or the connection fails: main().catch exits.
ResolveFails(c) ==
    Goto(c, "resolve", "off") /\ UNCHANGED <<rvars, view, due, batch>>

\* After sleep(5000): the account is read from L1, whoever owns it there.  An
\* outcome of zero, or a division by a zero step, ends the script.
Usable(pool) == pool.outcome # 0 /\ HasWinningBucket(pool, pool.outcome)

Read(c) ==
    /\ Goto(c, "read", IF Usable(l1pool) THEN "list" ELSE "off")
    /\ view' = [view EXCEPT ![c] = IF Usable(l1pool) THEN l1pool ELSE NoView]
    /\ UNCHANGED <<rvars, due, batch>>

\* flashPool.fetch throws: main().catch exits.
ReadFails(c) == Goto(c, "read", "off") /\ UNCHANGED <<rvars, view, due, batch>>

\* The script's own copy of the program's formula.
\* Mutant: it does not cap the bucket of a price above the range.
winBucket_NoCap(pool) ==
    IF pool.outcome < pool.base_price THEN 0 ELSE BucketIndex(pool, pool.outcome)

winBucket(pool) ==
    IF pool.outcome < pool.base_price
    THEN 0
    ELSE LET idx == BucketIndex(pool, pool.outcome)
             last == HISTOGRAM_BUCKETS - 1
         IN  IF idx >= last THEN last ELSE idx

Winners(pool) ==
    {u \in Users : /\ receipts[u] # L1!NoReceipt
                   /\ Distance(receipts[u], winBucket(pool)) <= pool.median_error}

List(c) ==
    /\ Goto(c, "list", IF Winners(view[c]) = {} THEN "off" ELSE "pay")
    /\ due' = [due EXCEPT ![c] = Winners(view[c])]
    /\ view' = [view EXCEPT ![c] = NoView]
    /\ UNCHANGED <<rvars, batch>>

\* userPrediction.all throws: main().catch exits, and what was read is gone.
ListFails(c) ==
    /\ Goto(c, "list", "off")
    /\ view' = [view EXCEPT ![c] = NoView]
    /\ UNCHANGED <<rvars, due, batch>>

\* Mutant: the loop does not move on to the next slice.
StartBatch_SameSlice(c) ==
    /\ pc[c] = "pay"
    /\ batch[c] = {}
    /\ \E slice \in SUBSET due[c] :
         /\ slice # {}
         /\ Cardinality(slice) = BATCH \/ (slice = due[c] /\ Cardinality(slice) < BATCH)
         /\ batch' = [batch EXCEPT ![c] = slice]
    /\ UNCHANGED <<rvars, pc, view, due>>

\* The next slice of the list, in whatever order L1 returned it.
StartBatch(c) ==
    /\ pc[c] = "pay"
    /\ batch[c] = {}
    /\ \E slice \in SUBSET due[c] :
         /\ slice # {}
         /\ Cardinality(slice) = BATCH \/ (slice = due[c] /\ Cardinality(slice) < BATCH)
         /\ batch' = [batch EXCEPT ![c] = slice]
         /\ due' = [due EXCEPT ![c] = @ \ slice]
    /\ UNCHANGED <<rvars, pc, view>>

Settled(c, u) == /\ pc[c] = "pay"
                 /\ u \in batch[c]
                 /\ batch' = [batch EXCEPT ![c] = @ \ {u}]

\* The claim lands on L1, whether or not its confirmation reaches the script.
Claim(c, u) == Settled(c, u) /\ claim_reward(u) /\ UNCHANGED <<pc, view, due>>

\* It is refused, or the RPC node fails; the error is caught and not retried.
ClaimFails(c, u) == Settled(c, u) /\ UNCHANGED <<rvars, pc, view, due>>

Complete(c) ==
    /\ Goto(c, "pay", "off")
    /\ due[c] = {} /\ batch[c] = {}
    /\ UNCHANGED <<rvars, view, due, batch>>

CrankStep(c) == \/ Resolve(c) \/ ResolveFails(c)
                \/ Read(c) \/ ReadFails(c)
                \/ List(c) \/ ListFails(c)
                \/ StartBatch(c) \/ Complete(c)
                \/ \E u \in Users : Claim(c, u) \/ ClaimFails(c, u)

\* Everything that is not a crank: players, other callers, the sequencer.
Environment ==
    /\ \/ \E p \in PoolParams : initialize_pool(p)
       \/ \E u \in Users, v \in Predictions : place_prediction(u, v)
       \/ \E a \in PriceAccounts : resolve_market(a)
       \/ \E u \in Users : claim_reward(u)
       \/ delegate_proxy
       \/ Commit
       \/ Undelegate
    /\ UNCHANGED crank

Next == \/ Environment
        \/ \E c \in Cranks : Start(c) \/ CrankStep(c)

\* Only the script's own scheduling: a script that runs takes its next step.
Spec == Init /\ [][Next]_vars /\ \A c \in Cranks : WF_vars(CrankStep(c))

\* What the operators add to that: setup delegates the pool no more from some
\* point on and the sequencer gives it back, ORACLE_FEED names an account that
\* the program accepts, the script is run again, and none of its calls which the
\* other side would answer (resolving, the two reads, a claim) fails for ever.
Operated ==
    /\ <>[][~delegate_proxy]_vars
    /\ WF_vars(Undelegate /\ UNCHANGED crank)
    /\ \E a \in OracleFeed : Accepted(a) /\ Scalable(a)
    /\ \A c \in Cranks :
         /\ WF_vars(Start(c))
         /\ SF_vars(Resolve(c)) /\ SF_vars(Read(c)) /\ SF_vars(List(c))
         /\ \A u \in Users : SF_vars(Claim(c, u))

-----------------------------------------------------------------------------

TypeOK ==
    /\ L1!TypeOK
    /\ delegated \in BOOLEAN
    /\ erpool \in Pool
    /\ pc \in [Cranks -> {"off", "resolve", "read", "list", "pay"}]
    /\ view \in [Cranks -> Pool]
    /\ due \in [Cranks -> SUBSET Users]
    /\ batch \in [Cranks -> SUBSET Users]

\* Two ledgers, commits and cranks make no difference to the market: the copy
\* the router reaches, with the receipts and the vault, goes through the steps
\* of one FlashPool on one ledger.  No claim is paid from a stale copy and no
\* commit undoes a bet.
F == INSTANCE FlashPool WITH pool <- Live
ImplementsFlashPool == F!Spec

\* The L1 copy only moves forward: a commit never takes a counted bet away.
CommitsKeepBets ==
    [][initialized =>
         /\ l1pool'.total_participants >= l1pool.total_participants
         /\ \A b \in Buckets :
              l1pool'.histogram_buckets[b] >= l1pool.histogram_buckets[b]]_vars

\* The script's filter agrees with the program: if the pool is back on L1 and
\* still as the script read it, the list holds exactly the players whose claims
\* the program would accept, prices outside the range included.
ListsAreExact ==
    \A c \in Cranks : pc[c] = "list" /\ view[c] = l1pool /\ ~delegated =>
        Winners(view[c]) =
            {u \in Users : /\ receipts[u] # L1!NoReceipt
                           /\ IsWinner(l1pool, receipts[u])}

\* A crank that starts always exits, whatever its claims and reads return.
CrankExits == \A c \in Cranks : pc[c] # "off" ~> pc[c] = "off"

\* Where the system is operated, a player whose receipt wins is paid, unless a
\* later bet or resolution takes the win away, although a run of the crank may end
\* at any of its calls, drops the claims that fail, works from a pool that may be
\* stale, and claims in vain while the pool is delegated.
Wins(u) == receipts[u] # L1!NoReceipt /\ IsWinner(Live, receipts[u])
WinnersArePaid == Operated => \A u \in Users : Wins(u) ~> ~Wins(u)

\* crank.ts:29: claims are for "After the MagicBlock sequencer undelegates
\* (auto-commit)": when the claims start, the pool is back on L1.
ClaimsFollowUndelegation ==
    \A c \in Cranks : batch[c] # {} => ~delegated
=============================================================================
