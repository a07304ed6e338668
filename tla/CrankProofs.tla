----------------------------- MODULE CrankProofs -----------------------------
(***************************************************************************)
(* The pool on two ledgers, with commits and cranks, is one pool: for any   *)
(* players, prices, cranks, size of batch and any delegations, Crank         *)
(* implements FlashPool on the copy that the router reaches.  What is       *)
(* proved of FlashPool then holds of the two ledgers, and is used here.     *)
(***************************************************************************)
EXTENDS Crank, TLAPS

\* FlashPool on the live copy, with its theorems.
FP == INSTANCE HistogramProofs WITH pool <- Live

USE DEF L1!NoReceipt, ER!NoReceipt, F!NoReceipt, FP!NoReceipt,
        L1!Buckets, ER!Buckets, F!Buckets, FP!Buckets

-----------------------------------------------------------------------------
(* The instances of FlashPool compute the same *)

LEMMA SameIndex ==
  /\ \A p, v : /\ L1!BucketIndex(p, v) = F!BucketIndex(p, v)
               /\ ER!BucketIndex(p, v) = F!BucketIndex(p, v)
               /\ FP!BucketIndex(p, v) = F!BucketIndex(p, v)
  /\ \A p, v : /\ L1!InRange(p, v) = F!InRange(p, v)
               /\ ER!InRange(p, v) = F!InRange(p, v)
               /\ FP!InRange(p, v) = F!InRange(p, v)
BY Zenon DEF F!BucketIndex, L1!BucketIndex, ER!BucketIndex, FP!BucketIndex,
       F!InRange, L1!InRange, ER!InRange, FP!InRange

LEMMA SameCount ==
  /\ \A p, b : /\ L1!CanCount(p, b) = F!CanCount(p, b)
               /\ ER!CanCount(p, b) = F!CanCount(p, b)
               /\ FP!CanCount(p, b) = F!CanCount(p, b)
  /\ \A p, b : /\ L1!Counted(p, b) = F!Counted(p, b)
               /\ ER!Counted(p, b) = F!Counted(p, b)
               /\ FP!Counted(p, b) = F!Counted(p, b)
BY Zenon DEF F!CanCount, L1!CanCount, ER!CanCount, FP!CanCount, F!Counted,
       L1!Counted, ER!Counted, FP!Counted

LEMMA SameResolved ==
  /\ \A p, price : /\ L1!HasWinningBucket(p, price) = F!HasWinningBucket(p, price)
                   /\ ER!HasWinningBucket(p, price) = F!HasWinningBucket(p, price)
                   /\ FP!HasWinningBucket(p, price) = F!HasWinningBucket(p, price)
  /\ \A p, price : /\ L1!WinningBucket(p, price) = F!WinningBucket(p, price)
                   /\ ER!WinningBucket(p, price) = F!WinningBucket(p, price)
                   /\ FP!WinningBucket(p, price) = F!WinningBucket(p, price)
  /\ \A p, price : /\ L1!Resolved(p, price) = F!Resolved(p, price)
                   /\ ER!Resolved(p, price) = F!Resolved(p, price)
                   /\ FP!Resolved(p, price) = F!Resolved(p, price)
<1>1. /\ \A h, w : /\ L1!Accumulated(h, w) = F!Accumulated(h, w)
                   /\ ER!Accumulated(h, w) = F!Accumulated(h, w)
                   /\ FP!Accumulated(h, w) = F!Accumulated(h, w)
  BY Zenon DEF F!Accumulated, L1!Accumulated, ER!Accumulated, FP!Accumulated,
         F!SaturatingAdd, L1!SaturatingAdd, ER!SaturatingAdd, FP!SaturatingAdd,
         F!Ring, L1!Ring, ER!Ring, FP!Ring
<1>2. /\ \A acc, t : /\ L1!StopDistance(acc, t) = F!StopDistance(acc, t)
                     /\ ER!StopDistance(acc, t) = F!StopDistance(acc, t)
                     /\ FP!StopDistance(acc, t) = F!StopDistance(acc, t)
  BY Zenon DEF F!StopDistance, L1!StopDistance, ER!StopDistance, FP!StopDistance
<1>3. /\ \A p, w : /\ L1!MedianError(p, w) = F!MedianError(p, w)
                   /\ ER!MedianError(p, w) = F!MedianError(p, w)
                   /\ FP!MedianError(p, w) = F!MedianError(p, w)
  BY <1>1, <1>2 DEF F!MedianError, L1!MedianError, ER!MedianError, FP!MedianError,
         F!TargetCount, L1!TargetCount, ER!TargetCount, FP!TargetCount
<1>4. /\ \A p, price : /\ L1!HasWinningBucket(p, price) = F!HasWinningBucket(p, price)
                       /\ ER!HasWinningBucket(p, price) = F!HasWinningBucket(p, price)
                       /\ FP!HasWinningBucket(p, price) = F!HasWinningBucket(p, price)
      /\ \A p, price : /\ L1!WinningBucket(p, price) = F!WinningBucket(p, price)
                       /\ ER!WinningBucket(p, price) = F!WinningBucket(p, price)
                       /\ FP!WinningBucket(p, price) = F!WinningBucket(p, price)
  BY SameIndex DEF F!HasWinningBucket, L1!HasWinningBucket, ER!HasWinningBucket,
         FP!HasWinningBucket, F!WinningBucket, L1!WinningBucket, ER!WinningBucket,
         FP!WinningBucket
<1> QED BY <1>3, <1>4 DEF F!Resolved, L1!Resolved, ER!Resolved, FP!Resolved

LEMMA SameOracle ==
  /\ \A a : /\ L1!Accepted(a) = F!Accepted(a)
            /\ ER!Accepted(a) = F!Accepted(a)
            /\ FP!Accepted(a) = F!Accepted(a)
  /\ \A a : /\ L1!Scalable(a) = F!Scalable(a)
            /\ ER!Scalable(a) = F!Scalable(a)
            /\ FP!Scalable(a) = F!Scalable(a)
  /\ \A a : /\ L1!OraclePrice(a) = F!OraclePrice(a)
            /\ ER!OraclePrice(a) = F!OraclePrice(a)
            /\ FP!OraclePrice(a) = F!OraclePrice(a)
<1>1. /\ \A i : /\ L1!Magnitude(i) = F!Magnitude(i)
                /\ ER!Magnitude(i) = F!Magnitude(i)
                /\ FP!Magnitude(i) = F!Magnitude(i)
  BY DEF F!Magnitude, L1!Magnitude, ER!Magnitude, FP!Magnitude
<1>2. /\ \A e : /\ L1!Scale(e) = F!Scale(e)
                /\ ER!Scale(e) = F!Scale(e)
                /\ FP!Scale(e) = F!Scale(e)
  BY <1>1 DEF F!Scale, L1!Scale, ER!Scale, FP!Scale
<1> QED BY <1>1, <1>2 DEF F!Accepted, L1!Accepted, ER!Accepted, FP!Accepted, F!Scalable,
       L1!Scalable, ER!Scalable, FP!Scalable, F!OraclePrice, L1!OraclePrice,
       ER!OraclePrice, FP!OraclePrice

LEMMA SameClaim ==
  /\ \A p, b : /\ L1!IsWinner(p, b) = F!IsWinner(p, b)
               /\ ER!IsWinner(p, b) = F!IsWinner(p, b)
               /\ FP!IsWinner(p, b) = F!IsWinner(p, b)
  /\ \A p : /\ L1!Payout(p) = F!Payout(p)
            /\ ER!Payout(p) = F!Payout(p)
            /\ FP!Payout(p) = F!Payout(p)
<1>1. /\ \A a, b : /\ L1!Distance(a, b) = F!Distance(a, b)
                   /\ ER!Distance(a, b) = F!Distance(a, b)
                   /\ FP!Distance(a, b) = F!Distance(a, b)
  BY DEF F!Distance, L1!Distance, ER!Distance, FP!Distance
<1> QED BY <1>1, SameResolved DEF F!IsWinner, L1!IsWinner, ER!IsWinner, FP!IsWinner,
       F!Payout, L1!Payout, ER!Payout, FP!Payout

LEMMA SameNew ==
  /\ \A base, step : /\ L1!NewPool(base, step) = F!NewPool(base, step)
                     /\ ER!NewPool(base, step) = F!NewPool(base, step)
                     /\ FP!NewPool(base, step) = F!NewPool(base, step)
BY Zenon DEF F!NewPool, L1!NewPool, ER!NewPool, FP!NewPool

-----------------------------------------------------------------------------
(* The refinement *)

\* A pool is delegated only after it was created.
Created == delegated => initialized

\* Each step of the two-ledger system is a step of the program on the copy that
\* the router reaches, or none.  The L1 copy stays or becomes the live one; so
\* does the rollup's, unless it is given up.
LEMMA StepIsOneLedgerStep ==
  ASSUME Created, [Next]_vars
  PROVE  /\ Created'
         /\ [F!Next]_F!vars
         /\ l1pool' = l1pool \/ l1pool' = Live'
         /\ erpool' = erpool \/ erpool' = Live' \/ erpool' = NewPool(0, 0)
<1> DEFINE Copies == /\ l1pool' = l1pool \/ l1pool' = Live'
                     /\ erpool' = erpool \/ erpool' = Live' \/ erpool' = NewPool(0, 0)
<1>1. ASSUME NEW p \in PoolParams, initialize_pool(p)
      PROVE  Created' /\ F!Next /\ Copies
  <2>1. ~delegated /\ UNCHANGED <<delegated, erpool>>
    BY <1>1 DEF initialize_pool, L1!initialize_pool, rollup, Created
  <2>2. F!initialize_pool(p[1], p[2])
    BY <1>1, <2>1, SameNew
    DEF initialize_pool, L1!initialize_pool, F!initialize_pool, Live
  <2> QED BY <2>1, <2>2 DEF F!Next, Created, Live
<1>2. ASSUME NEW u \in Users, NEW v \in Predictions, place_prediction(u, v)
      PROVE  Created' /\ F!Next /\ Copies
  <2>1. ASSUME OnL1, L1!place_prediction(u, v) PROVE F!place_prediction(u, v)
    BY <2>1, SameIndex, SameCount
    DEF OnL1, rollup, Live, L1!place_prediction, F!place_prediction
  <2>2. ASSUME OnER, ER!place_prediction(u, v) PROVE F!place_prediction(u, v)
    BY <2>2, SameIndex, SameCount
    DEF OnER, Live, ER!place_prediction, F!place_prediction
  <2>3. Created' /\ Copies
    BY <1>2 DEF Created, place_prediction, OnL1, OnER, rollup, Live,
                L1!place_prediction, ER!place_prediction
  <2> QED BY <1>2, <2>1, <2>2, <2>3 DEF place_prediction, F!Next
<1>3. ASSUME NEW a \in PriceAccounts, resolve_market(a)
      PROVE  Created' /\ F!Next /\ Copies
  <2>1. F!resolve_market(a)
    BY <1>3, SameResolved, SameOracle
    DEF resolve_market, OnL1, OnER, rollup, Live,
        L1!resolve_market, ER!resolve_market, F!resolve_market
  <2> QED BY <1>3, <2>1 DEF F!Next, Created, resolve_market, OnL1, OnER, rollup, Live,
                            L1!resolve_market, ER!resolve_market
<1>4. ASSUME NEW u \in Users, claim_reward(u)
      PROVE  Created' /\ F!Next /\ Copies
  <2>1. F!claim_reward(u)
    BY <1>4, SameClaim
    DEF claim_reward, OnL1, rollup, Live, L1!claim_reward, F!claim_reward
  <2> QED BY <1>4, <2>1 DEF F!Next, Created, claim_reward, OnL1, rollup, L1!claim_reward
<1>5. CASE delegate_proxy \/ Commit \/ Undelegate
  <2>1. Live' = Live /\ Created' /\ Copies
    BY <1>5 DEF delegate_proxy, Commit, Undelegate, ledger, rollup, Live, Created
  <2> QED BY <1>5, <2>1 DEF delegate_proxy, Commit, Undelegate, ledger, F!vars
<1>6. CASE UNCHANGED rvars
  BY <1>6 DEF rvars, ledger, rollup, F!vars, Live, Created
<1>7. ASSUME NEW c \in Cranks, Start(c) \/ CrankStep(c)
      PROVE  UNCHANGED rvars \/ (\E a \in PriceAccounts : resolve_market(a))
                             \/ (\E u \in Users : claim_reward(u))
  BY <1>7, CrankAssumption
  DEF Start, CrankStep, Resolve, ResolveFails, Read, ReadFails, List, ListFails,
      StartBatch, Claim, ClaimFails, Complete
<1>8. CASE UNCHANGED vars
  BY <1>6, <1>8 DEF vars
<1> QED BY <1>1, <1>2, <1>3, <1>4, <1>5, <1>6, <1>7, <1>8 DEF Next, Environment

LEMMA InitIsOneLedgerInit == Init => Created /\ F!Init
BY SameNew DEF Init, RInit, L1!Init, F!Init, Live, Created

LEMMA AlwaysCreated == Spec => []Created
BY InitIsOneLedgerInit, StepIsOneLedgerStep, PTL DEF Spec

\* Two ledgers, commits and cranks make no difference to the market
\* (delegate.rs, crank.ts): the program on one ledger is implemented by the copy
\* that the router reaches.
THEOREM Refinement == Spec => ImplementsFlashPool
BY InitIsOneLedgerInit, StepIsOneLedgerStep, PTL
   DEF Spec, ImplementsFlashPool, F!Spec

-----------------------------------------------------------------------------
(* What is proved of FlashPool *)

LEMMA SameSpec == F!Spec => FP!Spec
<1>1. F!Init => FP!Init
  BY SameNew DEF F!Init, FP!Init
<1>2. F!Next => FP!Next
  <2>1. \A b, s : F!initialize_pool(b, s) => FP!initialize_pool(b, s)
    BY SameNew DEF F!initialize_pool, FP!initialize_pool
  <2>2. \A u, v : F!place_prediction(u, v) => FP!place_prediction(u, v)
    BY SameIndex, SameCount DEF F!place_prediction, FP!place_prediction
  <2>3. \A a : F!resolve_market(a) => FP!resolve_market(a)
    BY SameResolved, SameOracle DEF F!resolve_market, FP!resolve_market
  <2>4. \A u : F!claim_reward(u) => FP!claim_reward(u)
    BY SameClaim DEF F!claim_reward, FP!claim_reward
  <2> QED BY <2>1, <2>2, <2>3, <2>4 DEF F!Next, FP!Next
<1>3. [F!Next]_F!vars => [FP!Next]_FP!vars
  BY <1>2 DEF F!vars, FP!vars
<1> QED BY <1>1, <1>3, PTL DEF F!Spec, FP!Spec

LEMMA Assumed == FP!FlashPoolAssumption
BY RollupAssumption DEF Magnitude, FP!Magnitude, FP!IsFiniteSet, IsFiniteSet

\* The vault backs the receipts and the live copy is well-formed, whichever
\* ledger has it.
LEMMA LiveInvariant == Spec => []FP!IInv
<1>1. F!Spec => []FP!IInv
  BY SameSpec, Assumed, FP!PoolAssumption, FP!Inductive, PTL
<1> QED BY <1>1, Refinement, PTL DEF ImplementsFlashPool

\* The vault holds one fee for every open receipt, although the program counts
\* bets on one ledger and the crank claims on the other.
THEOREM VaultIsBacked == Spec => []FP!VaultBacksReceipts
<1>1. FP!IInv => FP!VaultBacksReceipts
  BY DEF FP!IInv
<1> QED BY <1>1, LiveInvariant, PTL

LEMMA LiveSpec == Spec => FP!Spec
BY SameSpec, Refinement, PTL DEF ImplementsFlashPool

\* The histogram of the copy that the router reaches counts the bets, and covers
\* the receipts, which the crank lists and settles on L1.
THEOREM HistogramCounts == Spec => []FP!HistogramCountsBets
BY LiveSpec, Assumed, FP!PoolAssumption, FP!HistogramCounts, PTL

\* Wherever the pool is resolved, on L1 or on the rollup, the median error it
\* ends up with is the smallest one that lets half of the bets win.
THEOREM ResolveIsMedian == Spec => FP!ResolveFindsMedian
BY LiveSpec, Assumed, FP!PoolAssumption, FP!ResolveIsMedian, PTL

\* Resolving on either ledger makes half of the receipts win, and at least one.
THEOREM HalfWin == Spec => FP!HalfOfReceiptsWin
BY LiveSpec, Assumed, FP!PoolAssumption, FP!HalfWin, PTL

\* Nobody is paid more than the stake, whichever ledger counted it.
THEOREM StakesConserved == Spec => []FP!StakeConserved
BY LiveSpec, Assumed, FP!PoolAssumption, FP!StakesConserved, PTL

-----------------------------------------------------------------------------
(* The copies *)

\* Commits never lose a bet because the L1 copy only ever becomes the live one,
\* which only ever grows, and never was ahead of it (CopiesInv).

\* What is proved of FlashPool, in terms of Crank's own definitions.
LiveOK ==
  /\ initialized \in BOOLEAN
  /\ Live \in Pool
  /\ receipts \in [Users -> Buckets \cup {L1!NoReceipt}]
  /\ vault \in Nat
  /\ wallet \in [Users -> Nat]

LEMMA LiveIsTyped == Spec => []LiveOK
<1>1. FP!IInv => LiveOK
  BY DEF FP!IInv, FP!TypeOK, FP!Pool, Pool, Buckets, LiveOK
<1> QED BY <1>1, LiveInvariant, PTL

\* p has counted all that q has.
Counts(p, q) ==
  /\ p.total_participants >= q.total_participants
  /\ \A b \in Buckets : p.histogram_buckets[b] >= q.histogram_buckets[b]

CopiesInv ==
  /\ LiveOK /\ Created
  /\ l1pool \in Pool /\ erpool \in Pool
  /\ initialized => Counts(Live, l1pool)

LEMMA Counters ==
  ASSUME NEW p \in Pool
  PROVE  /\ p.total_participants \in Nat
         /\ \A b \in Buckets : p.histogram_buckets[b] \in Nat
BY PoolAssumption DEF Pool, Buckets

\* The program only ever adds to its counters.
LEMMA LiveGrows ==
  ASSUME LiveOK, initialized, [F!Next]_F!vars
  PROVE  initialized' /\ Counts(Live', Live)
<1>1. Live \in Pool /\ Counts(Live, Live)
  BY Counters DEF LiveOK, Counts
<1>2. CASE F!vars' = F!vars
  BY <1>1, <1>2 DEF F!vars
<1>3. ASSUME NEW u \in Users, NEW v \in Predictions, F!place_prediction(u, v)
      PROVE  initialized' /\ Counts(Live', Live)
  <2>1. Live' = F!Counted(Live, F!BucketIndex(Live, v)) /\ initialized'
    BY <1>3 DEF F!place_prediction
  <2>2. /\ Live'.total_participants = Live.total_participants + 1
        /\ \A b \in Buckets :
             \/ Live'.histogram_buckets[b] = Live.histogram_buckets[b]
             \/ Live'.histogram_buckets[b] = Live.histogram_buckets[b] + 1
    BY <1>1, <2>1 DEF F!Counted, Pool, Buckets
  <2> QED BY <1>1, <2>1, <2>2, Counters DEF Counts
<1>4. ASSUME NEW a \in PriceAccounts, F!resolve_market(a)
      PROVE  initialized' /\ Counts(Live', Live)
  <2>1. Live' = F!Resolved(Live, F!OraclePrice(a)) /\ initialized'
    BY <1>4 DEF F!resolve_market
  <2> QED BY <1>1, <2>1 DEF F!Resolved, Counts, Pool
<1>5. ASSUME NEW u \in Users, F!claim_reward(u)
      PROVE  initialized' /\ Counts(Live', Live)
  BY <1>1, <1>5 DEF F!claim_reward
<1>6. ASSUME NEW p \in PoolParams, F!initialize_pool(p[1], p[2])
      PROVE  FALSE
  BY <1>6 DEF F!initialize_pool
<1> QED BY <1>2, <1>3, <1>4, <1>5, <1>6 DEF F!Next

\* NewPool(0, 0), which stands for no copy and for no view.
LEMMA NoPool == NewPool(0, 0) \in Pool
<1>1. 0 \in Buckets /\ 0 \in 0..U32Max /\ 0 \in 0..U64Max /\ ENTRY_FEE \in Nat
  BY PoolAssumption DEF Buckets
<1>2. [b \in Buckets |-> 0] \in [Buckets -> 0..U32Max]
  BY <1>1
<1> QED BY <1>1, <1>2 DEF NewPool, Pool

LEMMA CountsIsTransitive ==
  ASSUME NEW p \in Pool, NEW q \in Pool, NEW r \in Pool, Counts(p, q), Counts(q, r)
  PROVE  Counts(p, r)
<1>1. /\ p.total_participants >= r.total_participants
      /\ \A b \in Buckets : p.histogram_buckets[b] >= r.histogram_buckets[b]
  BY Counters DEF Counts
<1> QED BY <1>1 DEF Counts

LEMMA CopiesInvInit == Init /\ LiveOK => CopiesInv
<1>1. Init => l1pool = NewPool(0, 0) /\ ~initialized
  BY DEF Init, RInit, L1!Init, L1!NewPool, NewPool, Buckets
<1> QED BY <1>1, NoPool, InitIsOneLedgerInit DEF Init, RInit, CopiesInv

\* The pool is created on L1.
LEMMA CreationIsOnL1 ==
  ASSUME CopiesInv, [Next]_vars, ~initialized, initialized'
  PROVE  l1pool' = Live'
<1>1. ~delegated
  BY DEF CopiesInv, Created
<1>2. ASSUME delegated' PROVE FALSE
  BY <1>1, <1>2
  DEF Next, Environment, CrankStep, Start, Resolve, ResolveFails, Read, ReadFails,
     List, ListFails, StartBatch, Claim, ClaimFails, Complete, initialize_pool, place_prediction,
     resolve_market, claim_reward, delegate_proxy, Commit, Undelegate, OnL1, OnER,
     rollup, rvars, vars
<1> QED BY <1>2 DEF Live

LEMMA CopiesInvStep ==
  ASSUME CopiesInv, LiveOK', [Next]_vars
  PROVE  /\ CopiesInv'
         /\ initialized => Counts(l1pool', l1pool)
<1>1. /\ Created' /\ [F!Next]_F!vars
      /\ l1pool' = l1pool \/ l1pool' = Live'
      /\ erpool' = erpool \/ erpool' = Live' \/ erpool' = NewPool(0, 0)
  BY StepIsOneLedgerStep DEF CopiesInv
<1>2. Live \in Pool /\ Live' \in Pool /\ l1pool \in Pool
  BY DEF CopiesInv, LiveOK
<1>3. l1pool' \in Pool /\ erpool' \in Pool
  BY <1>1, <1>2, NoPool DEF CopiesInv
<1>4. ASSUME NEW p \in Pool PROVE Counts(p, p)
  BY Counters DEF Counts
<1>5. CASE initialized
  <2>1. Counts(Live', Live) /\ Counts(Live, l1pool)
    BY <1>1, <1>5, LiveGrows DEF CopiesInv
  <2>2. Counts(Live', l1pool)
    BY <2>1, <1>2, CountsIsTransitive
  <2> QED BY <2>2, <1>1, <1>2, <1>3, <1>4 DEF CopiesInv
<1>6. CASE ~initialized
  <2>1. initialized' => l1pool' = Live'
    BY <1>1, <1>6, CreationIsOnL1 DEF CopiesInv
  <2> QED BY <2>1, <1>1, <1>2, <1>3, <1>4, <1>6 DEF CopiesInv
<1> QED BY <1>5, <1>6

LEMMA CopiesInvariant == Spec => []CopiesInv
BY CopiesInvInit, CopiesInvStep, LiveIsTyped, PTL DEF Spec

\* No commit takes a counted bet away from L1 (delegate.rs, setup-pool.ts).
THEOREM CommitsKeep == Spec => CommitsKeepBets
<1>1. CopiesInv /\ LiveOK' /\ [Next]_vars =>
        [initialized => /\ l1pool'.total_participants >= l1pool.total_participants
                        /\ \A b \in Buckets : l1pool'.histogram_buckets[b]
                                              >= l1pool.histogram_buckets[b]]_vars
  BY CopiesInvStep DEF Counts
<1> QED BY <1>1, CopiesInvariant, LiveIsTyped, PTL DEF Spec, CommitsKeepBets
-----------------------------------------------------------------------------
(* The crank's own variables *)

Locals ==
  /\ delegated \in BOOLEAN
  /\ pc \in [Cranks -> {"off", "resolve", "read", "list", "pay"}]
  /\ view \in [Cranks -> Pool]
  /\ due \in [Cranks -> SUBSET Users]
  /\ batch \in [Cranks -> SUBSET Users]
  /\ \A c \in Cranks : pc[c] = "list" => Usable(view[c])

LEMMA LocalsInit == Init => Locals
<1>1. NoView \in Pool
  BY NoPool DEF NoView
<1> QED BY <1>1 DEF Init, RInit, Locals

LEMMA DelegatedStep ==
  ASSUME Locals, [Next]_vars
  PROVE  delegated' \in BOOLEAN
<1>1. ASSUME UNCHANGED rvars \/ UNCHANGED rollup
      PROVE  delegated' = delegated
  BY <1>1 DEF rvars, rollup
<1>2. ASSUME NEW u \in Users, NEW v \in Predictions, place_prediction(u, v)
      PROVE  delegated' = delegated
  BY <1>1, <1>2 DEF place_prediction, OnL1, OnER
<1>3. ASSUME NEW a \in PriceAccounts, resolve_market(a)
      PROVE  delegated' = delegated
  BY <1>1, <1>3 DEF resolve_market, OnL1, OnER
<1>4. ASSUME NEW c \in Cranks, CrankStep(c) \/ Start(c)
      PROVE  delegated' = delegated
  BY <1>1, <1>3, <1>4, CrankAssumption
  DEF CrankStep, Start, Resolve, ResolveFails, Read, ReadFails, List, ListFails,
      StartBatch, Claim, ClaimFails, Complete, claim_reward, OnL1
<1>5. CASE Environment
  BY <1>1, <1>2, <1>3, <1>5
  DEF Environment, initialize_pool, claim_reward, OnL1, delegate_proxy, Commit,
      Undelegate, Locals
<1> QED BY <1>1, <1>4, <1>5 DEF Next, vars, Locals

LEMMA LocalsStep ==
  ASSUME Locals, CopiesInv, [Next]_vars
  PROVE  Locals'
<1> USE DEF Locals
<1>1. delegated' \in BOOLEAN
  BY DelegatedStep
<1>2. CASE UNCHANGED crank
  BY <1>1, <1>2 DEF crank
<1>3. ASSUME NEW c \in Cranks,
             \/ Start(c) \/ Resolve(c) \/ ResolveFails(c)
             \/ ReadFails(c) \/ Complete(c)
      PROVE  Locals'
  BY <1>1, <1>3 DEF Start, Resolve, ResolveFails, ReadFails, Complete, Goto
<1>4. ASSUME NEW c \in Cranks, Read(c)
      PROVE  Locals'
  <2>1. l1pool \in Pool /\ NoView \in Pool
    BY NoPool DEF CopiesInv, NoView
  <2>2. view' \in [Cranks -> Pool]
    BY <1>4, <2>1 DEF Read
  <2>3. pc' \in [Cranks -> {"off", "resolve", "read", "list", "pay"}]
    BY <1>4 DEF Read, Goto
  <2>4. \A d \in Cranks : pc'[d] = "list" => Usable(view'[d])
    BY <1>4 DEF Read, Goto
  <2> QED BY <1>1, <1>4, <2>2, <2>3, <2>4 DEF Read
<1>5. ASSUME NEW c \in Cranks, List(c)
      PROVE  Locals'
  <2>1. NoView \in Pool /\ Winners(view[c]) \subseteq Users
    BY NoPool DEF NoView, Winners
  <2>2. view' \in [Cranks -> Pool] /\ due' \in [Cranks -> SUBSET Users]
    BY <1>5, <2>1 DEF List
  <2>3. pc' \in [Cranks -> {"off", "resolve", "read", "list", "pay"}]
    BY <1>5 DEF List, Goto
  <2>4. \A d \in Cranks : pc'[d] = "list" => Usable(view'[d])
    BY <1>5 DEF List, Goto
  <2> QED BY <1>1, <1>5, <2>2, <2>3, <2>4 DEF List
<1>6. ASSUME NEW c \in Cranks, StartBatch(c)
      PROVE  Locals'
  BY <1>1, <1>6 DEF StartBatch
<1>7. ASSUME NEW c \in Cranks, NEW u \in Users, Claim(c, u) \/ ClaimFails(c, u)
      PROVE  Locals'
  BY <1>1, <1>7 DEF Claim, ClaimFails, Settled
<1>8. ASSUME NEW c \in Cranks, ListFails(c)
      PROVE  Locals'
  <2>1. NoView \in Pool
    BY NoPool DEF NoView
  <2> QED BY <1>1, <1>8, <2>1 DEF ListFails, Goto
<1> QED BY <1>2, <1>3, <1>4, <1>5, <1>6, <1>7, <1>8
        DEF Next, Environment, CrankStep, vars

LEMMA LocalsInvariant == Spec => []Locals
BY LocalsInit, LocalsStep, CopiesInvariant, PTL DEF Spec

\* Both copies, the vault, the wallets and the cranks' variables keep their types.
THEOREM TypeCorrect == Spec => []TypeOK
<1>1. CopiesInv /\ Locals => TypeOK
  BY DEF CopiesInv, LiveOK, Locals, TypeOK, L1!TypeOK, L1!Pool, Pool, Buckets
<1> QED BY <1>1, CopiesInvariant, LocalsInvariant, PTL

-----------------------------------------------------------------------------
(* The list of winners *)

\* Whoever has a receipt has been counted.
OpenAreCounted ==
  \A u \in Users : receipts[u] # L1!NoReceipt =>
    initialized /\ Live.total_participants > 0

LEMMA OpenAreCountedStep ==
  ASSUME LiveOK, OpenAreCounted, [F!Next]_F!vars
  PROVE  OpenAreCounted'
<1>1. Live \in Pool /\ Live.total_participants \in Nat
  BY Counters DEF LiveOK
<1>2. CASE UNCHANGED F!vars
  BY <1>2 DEF F!vars, OpenAreCounted
<1>3. ASSUME NEW p \in PoolParams, F!initialize_pool(p[1], p[2])
      PROVE  OpenAreCounted'
  BY <1>3 DEF F!initialize_pool, OpenAreCounted
<1>4. ASSUME NEW u \in Users, NEW v \in Predictions, F!place_prediction(u, v)
      PROVE  OpenAreCounted'
  <2>1. Live' = F!Counted(Live, F!BucketIndex(Live, v)) /\ initialized'
    BY <1>4 DEF F!place_prediction
  <2>2. Live'.total_participants = Live.total_participants + 1
    BY <1>1, <2>1 DEF F!Counted, Pool
  <2> QED BY <1>1, <2>1, <2>2 DEF OpenAreCounted
<1>5. ASSUME NEW a \in PriceAccounts, F!resolve_market(a)
      PROVE  OpenAreCounted'
  <2>1. Live' = F!Resolved(Live, F!OraclePrice(a)) /\ UNCHANGED <<initialized, receipts>>
    BY <1>5 DEF F!resolve_market
  <2>2. Live'.total_participants = Live.total_participants
    BY <1>1, <2>1 DEF F!Resolved, Pool
  <2> QED BY <2>1, <2>2 DEF OpenAreCounted
<1>6. ASSUME NEW u \in Users, F!claim_reward(u)
      PROVE  OpenAreCounted'
  BY <1>6 DEF F!claim_reward, OpenAreCounted, LiveOK
<1> QED BY <1>2, <1>3, <1>4, <1>5, <1>6 DEF F!Next

LEMMA OpenAlwaysCounted == Spec => []OpenAreCounted
<1>1. Init => OpenAreCounted
  BY DEF Init, RInit, L1!Init, OpenAreCounted
<1>2. CopiesInv /\ OpenAreCounted /\ [Next]_vars => OpenAreCounted'
  BY StepIsOneLedgerStep, OpenAreCountedStep DEF CopiesInv
<1> QED BY <1>1, <1>2, CopiesInvariant, PTL DEF Spec

\* The crank lists the players whose claims the program would accept (crank.ts:143
\* and claim_reward.rs), if the pool is on L1 and has not changed since.
THEOREM ListsExact == Spec => []ListsAreExact
<1>1. ASSUME CopiesInv, Locals, OpenAreCounted,
             NEW c \in Cranks, pc[c] = "list", view[c] = l1pool, ~delegated,
             NEW u \in Users, receipts[u] # L1!NoReceipt
      PROVE  Distance(receipts[u], winBucket(view[c])) <= view[c].median_error
               <=> IsWinner(l1pool, receipts[u])
  <2>1. l1pool \in Pool /\ l1pool.outcome # 0
        /\ HasWinningBucket(l1pool, l1pool.outcome)
    BY <1>1 DEF CopiesInv, Locals, Usable
  <2>2. l1pool.outcome > 0
    BY <2>1, PoolAssumption DEF Pool
  <2>3. l1pool.total_participants > 0
    BY <1>1 DEF OpenAreCounted, Live
  <2>4. winBucket(l1pool) = WinningBucket(l1pool, l1pool.outcome)
    <3>1. CASE l1pool.outcome < l1pool.base_price
      BY <3>1 DEF winBucket, WinningBucket
    <3>2. CASE ~(l1pool.outcome < l1pool.base_price)
      <4>1. /\ l1pool.outcome - l1pool.base_price \in Nat
            /\ l1pool.precision_step \in Nat \ {0}
        BY <2>1, <3>2, PoolAssumption DEF Pool, HasWinningBucket
      <4>2. \A m \in Nat, n \in Nat \ {0} : m \div n \in Nat
        OBVIOUS
      <4>3. BucketIndex(l1pool, l1pool.outcome) \in Nat
        BY <4>1, <4>2 DEF BucketIndex
      <4> QED BY <3>2, <4>3, PoolAssumption DEF winBucket, WinningBucket
    <3> QED BY <3>1, <3>2
  <2> QED BY <1>1, <2>1, <2>2, <2>3, <2>4 DEF IsWinner
<1>2. CopiesInv /\ Locals /\ OpenAreCounted => ListsAreExact
  BY <1>1 DEF ListsAreExact, Winners
<1> QED BY <1>2, CopiesInvariant, LocalsInvariant, OpenAlwaysCounted, PTL
-----------------------------------------------------------------------------
(* What L1 shows *)

\* The counters of a pool account fit each other.
Consistent(p) ==
  /\ FP!SumOver(p.histogram_buckets, FP!Buckets) = p.total_participants
  /\ p.total_pool_amount = ENTRY_FEE * p.total_participants

LEMMA LiveIsConsistent ==
  /\ FP!HistogramCountsBets => Consistent(Live)
  /\ FP!HistogramCountsBets' => Consistent(Live')
BY FP!HistogramFacts, Assumed, FP!PoolAssumption, Zenon DEF Consistent

LEMMA NewIsConsistent == Consistent(NewPool(0, 0))
<1>1. FP!SumOver([b \in FP!Buckets |-> 0], FP!Buckets) = 0
  BY FP!EmptyHistogram, Assumed, FP!PoolAssumption
<1> QED BY <1>1, PoolAssumption DEF Consistent, NewPool, Buckets

\* The account that L1 shows while the rollup has the pool may be old, but never
\* mixes bets of different times: its counters are always those of one history.
THEOREM ShownOnL1 == Spec => []Consistent(l1pool)
<1>1. Init => Consistent(l1pool)
  BY NewIsConsistent DEF Init, RInit, L1!Init, L1!NewPool, NewPool, L1!Buckets, Buckets
<1>2. Created /\ FP!HistogramCountsBets' /\ Consistent(l1pool) /\ [Next]_vars
        => Consistent(l1pool)'
  <2> SUFFICES ASSUME Created, FP!HistogramCountsBets', Consistent(l1pool), [Next]_vars
               PROVE  Consistent(l1pool')
    BY DEF Consistent
  <2>1. l1pool' = l1pool \/ l1pool' = Live'
    BY StepIsOneLedgerStep
  <2> QED BY <2>1, LiveIsConsistent
<1> QED BY <1>1, <1>2, AlwaysCreated, HistogramCounts, PTL DEF Spec
=============================================================================
