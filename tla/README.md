# FlashPool in TLA+

A model of [FlashPool](../src/Readme.md), the SOL/USD prediction market: the
Anchor program, the crank that pays the winners, the rollup in between, the
setup and bot scripts, and the web page with its rounds, wallets, price feed and
settlement. TLC checks the modules on small instances; TLAPS proves every safety
property that the runs check, and the refinement from the crank down to an
escrow, for all values of the constants.

## 1. The system

| Component | Source | State | Operations |
|---|---|---|---|
| flash_pool program | `programs/flash_pool/src` | `FlashPool` account (histogram, counters, outcome, median error), vault, one `UserPrediction` receipt per player, token accounts | `initialize_pool`, `place_prediction`, `resolve_market`, `claim_reward`, `delegate_proxy` |
| price oracle decoding | `instructions/resolve_market.rs` | none: reads a Pyth price account | owner, feed and age checks, scaling to cents |
| delegation | `instructions/delegate.rs`, `scripts/setup-pool.ts` | owner of the pool account on L1; the rollup's copy of it | delegate; the sequencer's commits and undelegation (not in this repository) |
| crank | `scripts/crank.ts` | local variables between awaits | resolve, sleep, read, list receipts, claim in batches |
| setup script | `scripts/setup-pool.ts` | local variables; the mint remembered in `frontend/.env` | make or find the mint, mint tokens, initialize, delegate |
| bot stress script | `scripts/bot-stress.ts` | its batch, its counters | reads the pool, fires bets in batches of concurrent calls |
| round in the page | `frontend/app/page.tsx` | React state, two interval timers, refs to them | start a round, tick, place bots, place a bet, lock, resolve, modal |
| wallets in the page | `frontend/app/page.tsx` | active wallet, buttons that are connecting | connect, adopt an authorised wallet, disconnect |
| price feed and settlement in the page | `frontend/app/page.tsx` | socket, timeout, simulation intervals, price, badge; winning bucket, median error | message, error, timeout, clean-up; resolve and derive the figures shown |
| burst of transactions | `frontend/app/page.tsx` (`unleashTheBots`) | none | not modelled, section 7 |

**Interactions.** Players, the crank and anybody else send instructions to the
program; the ledger serialises those that name the pool. The pool account can be
handed to a rollup, and then exists twice: the copy there is live, commits bring
it back to L1 from time to time. The scripts reach the live copy through the
Magic Router, but the crank reads the pool and sends its claims on L1. The setup
script writes the mint to a file from which the page is built and its own next
run starts; the bot script needs the pool it creates. The page
is a simulation that repeats the program's rules in JavaScript. At the start of a
round it also fires up to 50 transactions at the program (`unleashTheBots`), but
with a placeholder for the instruction's discriminator, which the program refuses.

**What is hard here.** The program has no notion of a round: bets, resolutions
and claims come in any order and any number, `total_pool_amount` never shrinks,
and nothing compares the vault with the counters. The median walk has edges on
both sides. The crank works from data that may be stale at every await, and drops
what fails. The setup script can stop at every await, before or after a call took
effect, and is then run again. In the page, timeouts and intervals of one round
live on in the next, wallet requests overlap, and the feed's timeout races its
first message.
`hazards` in PROJECT.json has the full list, with the line at which each bites.

**What makes each part correct.**

* Program: the vault covers the receipts; nobody gets more than they staked in;
  the histogram is the bets; the walk finds the smallest distance that holds
  half of them; winners can all be paid in any order.
* Rollup: the two copies behave as one pool; no commit undoes a bet.
* Crank: it lists exactly the winners, always exits, and winners are paid in the
  end although single claims fail.
* Setup: the file, the vault and the operator's tokens agree on the mint, and the
  pool ends up delegated; bots: every call is counted once, and a run ends.
* Page: the figures shown agree with each other; every round is resolved; the
  settlement is the program's; an authorised wallet gets used.

## 2. The modules

    PoolMath <- PriceOracle <- FlashPool <- MCFlashPool
                     |             \---- INSTANCE Escrow   (refinement)
                     \--- Rollup <- Crank <- MCCrank
                             \--------\----- INSTANCE FlashPool (L1, ER copies; refinement)

    Setup <- Bots                           (Bots: INSTANCE PoolMath)

    Round, Wallets <- Page <- MCPage

    PriceFeed <- Settlement                 (Settlement: INSTANCE PoolMath)

The proofs, each module beside what it is about:

    SumProofs <- WalkProofs <- FlashPoolProofs <- HistogramProofs
                 (PoolMath)    (FlashPool)             |
        |            |                             INSTANCE in CrankProofs (Crank)
        |        INSTANCE
        \------- SettlementProofs (Settlement)
    BotsProofs (Bots)    PageProofs (Page)

* **PoolMath** – the arithmetic on the pool account as operators: `BucketIndex`,
  `Counted` (the three `checked_add`), `WinningBucket`, the outward walk
  (`Ring`, `Accumulated`, `StopDistance`, `MedianError`), `IsWinner`, `Payout`.
  The build has `overflow-checks = true`, so an overflow or a division by zero
  aborts the transaction; `CanCount` and `HasWinningBucket` say when it does not.
  The loop of `resolve_market` adds the bucket(s) at distance `d` each round and
  stops at the first round that reaches the target: `Accumulated` is what it has
  added after each round, as a recursive function, and `StopDistance` the round
  in which it stops.
* **PriceOracle** – which price accounts are accepted, and the price in cents.
  The account's bytes are abstracted to a record of the fields that are decoded.
* **FlashPool** – the program on one ledger. One action per instruction. A
  failed instruction changes nothing, so its checks are the action's guards.
* **Escrow** – what the vault promises: a deposit of one fee per player, and that
  fee back, once. `FlashPool!ImplementsEscrow` is the refinement, with the open
  receipts as the stakes.
* **Rollup** – two copies of the pool (`L1!`, `ER!` are FlashPool on each),
  `delegate_proxy`, `Commit` and `Undelegate`. The last two belong to MagicBlock
  and are modelled from the parameters the script passes and from its comments.
* **Crank** – `crank.ts` on top of Rollup. An action is the code between two
  awaits; `Environment` is everybody else, at any moment.
  `ImplementsFlashPool` says that with the copy the router reaches as the pool,
  the two-ledger system with commits and cranks still runs the one-ledger
  program.
* **Setup** – `setup-pool.ts`, run again and again. An action is the code between
  two awaits with the effect of the call awaited; every call may also throw
  without effect, or after it (`Lost`). The file starts without the line, with
  the line as the script writes it, or with a line without quotes.
* **Bots** – `bot-stress.ts` beside Setup. `Fire` starts a batch; each call then
  has two awaits, which interleave with those of the others. The program derives
  the receipt's address from the user it is given, the script from the bot's key
  (`UserPrediction`): every bet is refused, in the model as in the code.
* **Round** – the page's timers, bets and modal. A handler is an action. Time
  passes one unit at a time, only when no handler is due; handlers due at the
  same time run in any order.
* **Wallets** – the connect buttons, the effect that adopts a wallet already
  authorised (`AutoConnect`), and disconnecting. The wallets are external: their
  owner approves, rejects and revokes. `Approve` may find the accounts of before
  (the handler reads the wallet object it was rendered with).
* **Page** – Round with Wallets: the controls of a round are there for a
  connected player; timers, popups and the modal do not ask.
* **PriceFeed** – the WebSocket handlers, the timeout, the simulated price and the
  clean-up. `priceRef` is the one interval that can still be cleared.
* **Settlement** – `priceToBucket`, the walk of `resolveMarket` and the figures
  shown, on top of PriceFeed. A round starts with any bets that
  `Round!BooksAgree` allows, and late bets land at any time.

* **SumProofs** – the facts about sums over a set of buckets, `MapThenSumSet` of the
  community modules, that the other proofs need: splitting a set, adding one,
  comparing terms, counting the members of a class.
* **WalkProofs** – the arithmetic of PoolMath: quotients, the winning bucket, and
  the median walk as a sum. Used for the program and, through an instance, for
  the page.

Operators whose names have a suffix (`Counted_FeeTwice`, `Lock_StopsRound`, ...)
are deliberate mistakes, each placed just before the definition it varies. They
are not part of any specification; PROJECT.json names the property that each one
breaks when it is put in the place of the original.

`map` in PROJECT.json gives the source lines of every definition.

## 3. The runs

| Run | Checks | Result |
|---|---|---|
| flash_pool (`MCFlashPool.cfg`) | `TypeOK`, `VaultBacksReceipts`, `StakeConserved`, `WinnersArePayable`, `HistogramCountsBets`, `ResolveFindsMedian`, `HalfOfReceiptsWin`, `ImplementsEscrow` | hold |
| crank (`MCCrank.cfg`) | `TypeOK`, `ListsAreExact`, `ImplementsFlashPool`, `CommitsKeepBets`, `CrankExits`, `WinnersArePaid` | hold |
| scripts (`Bots.cfg`) | `TypeOK`, `FileNamesVaultMint`, `OperatorHasTokens`, `BotsHitTheirBucket`, `EveryBotIsCounted`, `BotsReachResults`, `SetupDelegates` | hold |
| page (`MCPage.cfg`) | `PageTypeOK`, `BooksAgree`, `RoundsResolve`, `AuthorisedWalletIsUsed` | hold |
| settlement (`Settlement.cfg`) | `TypeOK`, `ShownFiguresAgree`, `HalfOfBetsWin`, `WalkMirrorsProgram`, `FeedOrSimulation` | hold |
| pool_locked, payout_share, crank_undelegated, late_bet, short_round, mock_badge, mint_reused | one statement of the documents or comments each | violated (section 6) |

**Bounds of flash_pool.** Three players, four buckets of two cents, fee 2 (so
that a product and a count differ). One player can pay once, the others twice.
Predictions and prices lie below the range, on both edges of buckets, in the last
bucket and past the range; one pool has a step of zero. The price accounts have a
case for each check and each branch of the scaling, an exponent that overflows
included. `U32Max = 4`: four bets fill a counter, so the fifth is refused; this
bounds the state space without any other bound. Claims give players their fee
back, so every run goes through several rounds. About 24,000 distinct states.
Four buckets suffice for the walk to run out on the left, on the right and on
both sides, from every winning bucket.

**Bounds of crank.** One crank, two players, three buckets, batches of one claim,
three bets in all (`U32Max = 3`), any number of delegations. The crank's account
shows three readings, one of them stale; other callers also pass one without a
price and one of another feed. One crank is enough for interference, since
`Environment` resolves, bets and claims between any two of its steps, as a second
crank would; with two cranks the safety properties also hold (579,000 states).
`BATCH = 1` makes the loop take several slices. About 30,000 distinct states.

**Bounds of scripts.** Three mints, one counted `mintTo` per mint (whether there
are tokens is all that matters), three bots in batches of two: two batches, the
second one partial. Prices below, inside and above the range. About 10,000
distinct states. The bound on mints leaves room for one more after a mint whose
answer is lost, so that losses in a row do not stop the script in the model.

**Bounds of page.** Rounds of 3 ticks that lock at 1; a tick is 3 units of time, a
bot tick, a popup and the modal 1, 1 and 2, which keeps the order of the real
delays (the bot tick is the shortest timer, then 500 ms, 600 ms, 1000 ms; a popup
and a bot tick may be due together). Five bots in batches of two leave a partial
last batch. Three rounds are needed for the modal of one round to restart another
while the timer of the second still runs; two popups let a second click come
before the first bet is confirmed. Two wallets: one that can be asked to
disconnect and sits behind `window.solana`, and one that is asked through it and
cannot be disconnected. About 408,000 distinct states. late_bet and short_round
run Round alone with four ticks and a lock at two.

**Bounds of settlement.** Four buckets and any histogram of up to three bets, late
ones included, batches of two (one participant too many). Prices below the range,
within it, half-way between two buckets (where a floating-point quotient rounds
to either) and past it, two of which are one simulated tick apart. About 65,000
distinct states. Deadlock is not checked: a page that is gone with its socket
closed does nothing more.

## 4. Fairness

* `CrankExits` assumes only that a script that runs takes its next step
  (`WF_vars(CrankStep(c))`): calls return or throw, and both are steps, for
  resolving, the two reads and the claims alike. A call whose effect takes place
  although it throws is the same step by somebody else in `Environment`, followed
  by the failing step.
  `BotsReachResults` rests on the same for the bot script.
* `WinnersArePaid` and `SetupDelegates` are implications. Their premise,
  `Operated`, says what the operators of the system provide and the code does not:
  a script is run again after it exits, and a call which the other side would
  answer does not fail for ever (strong fairness, since the scripts come back to
  their calls rather than staying there). Bets, other resolutions and further
  claims have no fairness. `SetupDelegates` leaves out a file that cannot hold the
  mint (mint_reused).
* For `WinnersArePaid` the calls are `Resolve`, the two reads from L1 (`Read`,
  `List`) and each player's `Claim`; the sequencer undelegates (weak fairness); the
  account that the script passes is one the program accepts; and from some point
  on the pool is not delegated again (`<>[][~delegate_proxy]_vars`). Each of the
  fairness conditions and the last premise is needed: TLC finds a winner who is
  never paid when any one of them is dropped. In particular, a pool that setup
  delegates again between each read and its claims makes every claim fail.
* `Page!PageSpec` has weak fairness on the browser's steps (the event loop runs
  due handlers and time does not stop) and on `AutoConnect` (React runs its
  effects). The player's clicks and the wallets have none.
* `Settlement!Spec` has weak fairness on `TimesOut` alone: a timeout that is not
  cleared fires.

## 5. What is proved

Every theorem holds for all values of the constants that the named assumptions
admit; TLC evaluates the assumptions in the runs.

| Theorem | States | Assumes |
|---|---|---|
| `FlashPoolProofs!TypeCorrect` | `Spec => []TypeOK` | `PoolAssumption`, `FlashPoolAssumption` |
| `FlashPoolProofs!VaultIsBacked` | `Spec => []VaultBacksReceipts` | same |
| `FlashPoolProofs!StakesConserved` | `Spec => []StakeConserved` | same |
| `FlashPoolProofs!WinnersPayable` | `Spec => []WinnersArePayable` | same |
| `FlashPoolProofs!Refinement` | `Spec => ImplementsEscrow` | same |
| `HistogramProofs!HistogramCounts` | `Spec => []HistogramCountsBets` | same |
| `HistogramProofs!ResolveIsMedian` | `Spec => ResolveFindsMedian` | same |
| `HistogramProofs!HalfWin` | `Spec => HalfOfReceiptsWin` | same |
| `CrankProofs!Refinement` | `Spec => ImplementsFlashPool` | `CrankAssumption` |
| `CrankProofs!VaultIsBacked` | the vault's invariant on the two ledgers | `PoolAssumption`, `RollupAssumption`, `CrankAssumption` |
| `CrankProofs!HistogramCounts`, `ResolveIsMedian`, `HalfWin`, `StakesConserved` | the properties of FlashPool of the copy that the router reaches | same |
| `CrankProofs!ShownOnL1` | `Spec => []Consistent(l1pool)`: the counters L1 shows fit each other | same |
| `CrankProofs!TypeCorrect` | `Spec => []TypeOK` | same |
| `CrankProofs!CommitsKeep` | `Spec => CommitsKeepBets` | same |
| `CrankProofs!ListsExact` | `Spec => []ListsAreExact` | same |
| `BotsProofs!FileAgrees` | `Spec => []FileNamesVaultMint` | `SetupAssumption` |
| `BotsProofs!TokensFirst` | `Spec => []OperatorHasTokens` | same |
| `BotsProofs!TypeCorrect` | `Spec => []TypeOK` | `SetupAssumption`, `BotsAssumption` |
| `BotsProofs!BotsCounted` | `Spec => []EveryBotIsCounted` | `BotsAssumption` |
| `BotsProofs!BotsHit` | `Spec => []BotsHitTheirBucket` | `BotsAssumption` |
| `PageProofs!BooksAlwaysAgree` | `PageSpec => []BooksAgree` | `RoundAssumption` |
| `PageProofs!PageTypes` | `PageSpec => []PageTypeOK` | `RoundAssumption`, `WalletsAssumption` |
| `SettlementProofs!TypeCorrect` | `Spec => []TypeOK` | `SettlementAssumption`, `FeedAssumption` |
| `SettlementProofs!ShownAgree` | `Spec => []ShownFiguresAgree` | same |
| `SettlementProofs!HalfWin` | `Spec => HalfOfBetsWin` | same |
| `SettlementProofs!WalkMirrors` | `Spec => WalkMirrorsProgram` | same |
| `SettlementProofs!OneBucketApart` | for every price, the page's winning bucket is the program's or the next one up | `SettlementAssumption` |

`PoolAssumption`: 1 to 256 buckets, a positive fee, natural widths.
`FlashPoolAssumption` and `RollupAssumption`: finitely many players with natural
funds, prices and parameters that fit in a u64. `CrankAssumption`: what the
crank's price account shows is among the accounts, with one owner and one feed.
`SettlementAssumption`: 1 to 256 buckets, a positive fee, step and batch, a
natural base price. `RoundAssumption`: the order of the delays (bot tick < tick,
popup < modal < tick), a lock before the end of the round, one bot or more.
`WalletsAssumption`: the injected wallet and the legacy ones are among the
wallets. `FeedAssumption`, `SetupAssumption` and `BotsAssumption` are about the
sets of prices, mints and bots. The bounds on rounds and bets are any natural
numbers; delegations have no bound.

**The program.** The vault changes by the fee in `place_prediction` and by
`Payout(pool)` in `claim_reward`, and these are different expressions. None of
the three vault properties is inductive alone: a claim keeps them only if the payout
is the fee. Hence the conjunct

    Totals == /\ pool.entry_fee = ENTRY_FEE
              /\ pool.total_pool_amount = ENTRY_FEE * pool.total_participants

and the inductive invariant `IInv == TypeOK /\ Totals /\ VaultBacksReceipts /\
StakeConserved`. Under `Totals` and one participant or more, lemma `PayoutIsFee`
gives `Payout(pool) = ENTRY_FEE`; a claim then removes one receipt and one fee.
`TypeOK` needs that the walk stops in range: `LeastNatural` provides the least
distance that reaches the target and `MedianErrorType` that `StopDistance` is a
bucket distance. There is one lemma per instruction, one step per conjunct it can
disturb. `WinnersPayable` counts: the winners are among the open receipts and each
is paid one fee. For the refinement a bet is `Deposit`, a claim is `Refund`, the
rest stutters.

**Sums.** The histogram's properties are about sums over sets of buckets, that is
about a fold, and the prover has no induction. `LeastNatural` (a non-empty set of
naturals has a least member, from the well-foundedness of `<`) takes its place:
`UpTo` says that a set with 0 that climbs reaches every number, by looking at the
least one it misses. A recursive function, and the fold in `MapThenSumSet`, are
`CHOOSE`s of a function satisfying an equation; so each proof exhibits one
solution and shows it to be the only one. `SumProofs` numbers the set, sums its
prefixes (`IndexSum`), and shows that the fold over *any* order of picking members
gives the same (`SumIsIndexSum`). The walk is treated in the same way: `NearSum`
says that the buckets within `d` are those within `d - 1` and a ring, hence
`AccumulatedIsSum`: as long as all bets fit in a u32, the saturating additions of
the program have accumulated the bets within `d` after `d` rounds.

**The histogram.** `HistogramCountsBets` is not inductive: creating a pool empties
the histogram, which keeps the property only if nobody has a receipt by then. Hence
`HInv == IInv /\ NoReceiptWithoutPool /\ HistogramCountsBets`. A bet adds one to
the sum, to one bucket and, at most, to the receipts of that bucket; the rest of
the handlers only take receipts away (`CountsStay`). `ResolveIsMedian` is
`MedianErrorIsLeast` with that sum; the program's winning bucket is the number of
edges at or below the price (`WinningBucketCountsEdges`). For `HalfWin`, no bucket
has more receipts than bets and all together have as many, so that any part of
them has as many (`ReceiptsNear`).

**Two ledgers and the crank.** `StepIsOneLedgerStep` maps every step to a step of
FlashPool on `Live`, the copy that the router reaches, or to a stutter; it needs
`Created` (only a pool that exists is delegated), without which the pool could be
created on L1 behind a live copy. The lemmas `Same...` say that the instances of
FlashPool compute the same. Through the refinement, what is proved of FlashPool
holds of `Live` (`LiveInvariant`), and the same step lemma says that the L1 copy
only ever stays or becomes the live one, so that what L1 shows, although old, is
one state of the pool (`ShownOnL1`). `CommitsKeepBets` then follows from
`CopiesInv`: the live copy has counted all that L1 has, and only grows.
`ListsAreExact` needs two more facts, that a crank which lists has read a usable
pool (`Locals`) and that whoever has a receipt has been counted
(`OpenAreCounted`).

**The scripts.** That two mints never get mixed up is not inductive: what the
script holds at each await must be the file's mint (`HoldsMint`), must have been
minted before the pool is created (`HoldsTokens`), and a new mint is made only
while the file has none (`FileIsFirst`). For the bots, the counts add up only with
`Underway`, which says which bots are under way in which part of the loop.

**The round.** `BooksAgree` alone would let a second batch count more bots than it
places. `BooksInv` adds that the books differ only once the last bot is placed.
For the types, time passes unless the *oldest* popup is due, and no other delay
runs below zero only because the popups are answered in the order in which they
were opened (`InOrder`).

**The settlement.** `SInv` joins the types, `FeedInv` and `BooksInv`. `TypeOK` allows
two simulations and is not inductive, since each error or timeout starts one:
`Started` says that the timeout fires once and that an error starts one only before
the first message. `BooksInv` says that participants may be ahead of the bets,
never behind, and that the player's bet is one of them. The page's walk, a loop
with another shape than the program's, also accumulates the bets within a
distance (`PageAccIsSum`); both stop at the least distance that reaches the same
target or else at the last one, and there is only one such distance (`LeastIsUnique`).
For `HalfWin`, a target that is too high because participants are ahead is never
reached, and then the walk covers all buckets.

**Only model-checked.** The liveness properties `CrankExits`, `WinnersArePaid`,
`BotsReachResults`, `SetupDelegates`, `RoundsResolve`, `AuthorisedWalletIsUsed` and
`FeedOrSimulation`: their proofs need ENABLED and fairness, which the prover used
here does not support. TLC finds `HInv`, `SInv` and the page's `InOrder` and
`BooksInv` to hold on the bounds of section 3 too.

## 6. Where the program and its documents differ

| Run | Said | Done |
|---|---|---|
| pool_locked | `Readme.md:220` resolving locks the pool | bets and further resolutions are accepted afterwards; no handler compares `outcome` with zero but `claim_reward` |
| payout_share | `Readme.md:226` a claim pays pool / winners | it divides by *all* participants, which is always the fee: winners get their stake back, and losers' fees stay in the vault |
| crank_undelegated | `crank.ts:29` claims go to L1 after undelegation | the script waits five seconds and claims, whoever owns the pool; failed claims are dropped until the next run |
| late_bet | `Readme.md:680` no bets after the lock | a bet waiting in the wallet popup is counted after the lock, or in the next round |
| short_round | `page.tsx:28` a round lasts 60 seconds | the late modal restarts a round over a running timer, which then ends the new round early |
| mock_badge | `Readme.md:358` falls back to mock data with a MOCK badge | a message after the timeout turns the badge to LIVE and leaves the simulation running (`page.tsx:285`) |
| mint_reused | `setup-pool.ts:50` the mint is created once and reused forever | a line without quotes is neither read nor replaced nor followed by another (`setup-pool.ts:155`): every run makes a mint |

None of them breaks the properties of section 3: for example, a pool that takes
bets after it was resolved still has its receipts backed.

Four more are visible in the text alone and have no run. The bot script's receipt
address is not the one that the program derives from the user the script passes
(`bot-stress.ts:235`), so the program refuses every bot. The bot script and the
crank name a mint (`bot-stress.ts:181`, "same one used in setup-pool.ts", and
`crank.ts:74`) that the setup script takes for a placeholder and replaces; Crank
is modelled with the mint of the pool. The crank always passes the account of
`crank.ts:71-73`: by default one that `setup-pool.ts:42-46` describes as
MagicBlock's Pyth Lazer BTC/USD feed, where `resolve_market` accepts only accounts
of the Pyth receiver for SOL/USD (`resolve_market.rs:96-115`), so that resolving
fails and the script exits before it pays anybody; Crank has the readings of that
account as the constant `OracleFeed`, `WinnersArePaid` has a premise that the
program accepts one of them, and the run gives it such an account. And the page
rounds a price to the nearest bucket where the program rounds down
(`page.tsx:52`), so that the two can settle the same price one bucket apart, and
never more (`SettlementProofs!OneBucketApart`).

## 7. What is not modelled, and why

* Error codes and logs; rent; signatures and account addresses. `place_prediction`
  and `claim_reward` are given the accounts that belong together; of the bots'
  addresses only the comparison that fails is modelled.
* Token transfers to the vault from outside the program (they could only add
  funds), and claims paid to somebody else's token account.
* Several pools: an account of one pool never appears in an instruction on
  another, the receipt's seeds contain the pool.
* The delegation program: that it refuses an account it already owns or that does
  not exist is assumed (the guards of `delegate_proxy`).
* An interval that outlived its round settles the page's round again every second
  (`page.tsx:447`). Round has these repeated settlements; Settlement settles from
  the open phase only, where every histogram, count and price of a repeated one
  occurs too.
* The second of the two connect buttons (`page.tsx:571`, `page.tsx:611`): they
  have the same handlers and Wallets has one.
* The vault and receipts on the rollup: the scripts assume that they are reachable
  from both sides, and so does Rollup.
* `unleashTheBots`, the page's burst of up to 50 transactions: their
  discriminator is a placeholder of no instruction, their errors are dropped, and
  no state depends on them.
* The page's price history and chart, and the walk of prices before the round. The
  bot slider is a constant of Round, since it is shown only before the first
  round. Settlement does not repeat the timers: Round has them.
* The pool addresses that the setup script writes to the file beside the mint;
  the pauses between batches; a bot's transaction that lands after the script has
  ended (the program refuses it in any case).
* Layout, styles and the migration stub have no state.

## 8. Plan

1. Proofs: that `RoundsRunInFull` holds of a round started from the resolved phase
   without a pending modal; that the mint of a file which can hold it is found
   again by every later run of the setup script.
2. Several pools on one operator account, if the program is given more than one.
