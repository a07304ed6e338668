----------------------------- MODULE MCFlashPool -----------------------------
(***************************************************************************)
(* FlashPool on a small ledger: four buckets of two cents from 10 to 18    *)
(* cents, and a u32 so small that the counters reach it.                    *)
(***************************************************************************)
EXTENDS FlashPool

CONSTANTS alice, bob, carol

MCUsers == {alice, bob, carol}

\* Everybody can pay one fee or more, except that carol can pay exactly one.
MCWallet == [u \in MCUsers |-> IF u = carol THEN ENTRY_FEE ELSE 2 * ENTRY_FEE + 1]

\* The second pool divides by zero for every price from its base up.
MCPoolParams == { <<10, 2>>, <<12, 0>> }

\* Below the range, the first or last value of each bucket, and past the range.
MCPredictions == {9, 10, 13, 14, 17, 18}

Account(owner, complete, feed, price, exponent, age) ==
    [ owner |-> owner, complete |-> complete, feed |-> feed,
      price |-> price, exponent |-> exponent, age |-> age ]

Fresh(price, exponent) == Account(Receiver, TRUE, SolUsd, price, exponent, 0)

\* Prices in cents 9, 10, 12 (dated in the future), 15 and 30, the oldest
\* price allowed, one that is rounded down to zero, a negative one, one whose
\* exponent overflows the scale, and one account for each check of the
\* handler that should reject it.
MCPriceAccounts ==
    { Fresh(99, -3), Fresh(10, -2), Account(Receiver, TRUE, SolUsd, 129, -3, -5),
      Fresh(15, -1), Fresh(-170, 3), Fresh(30, -2), Fresh(9, -3), Fresh(100, -6),
      Account(Receiver, TRUE, SolUsd, 15, -2, MAX_PRICE_AGE_SECONDS),
      Account(Receiver, TRUE, SolUsd, 18, -2, MAX_PRICE_AGE_SECONDS + 1),
      Account("price_pusher", TRUE, SolUsd, 18, -2, 0),
      Account(Receiver, FALSE, SolUsd, 18, -2, 0),
      Account(Receiver, TRUE, "BTC/USD", 18, -2, 0) }
=============================================================================
