------------------------------- MODULE MCCrank -------------------------------
(***************************************************************************)
(* Two players, one bet each in the first or the last of three buckets, a  *)
(* third bet for whoever was paid, and batches of one claim.                *)
(***************************************************************************)
EXTENDS Crank

CONSTANTS alice, bob

MCUsers == {alice, bob}
MCWallet == [u \in MCUsers |-> ENTRY_FEE]
MCPoolParams == { <<10, 2>> }
MCPredictions == {10, 14}

Account(price, age) ==
    [ owner |-> Receiver, complete |-> TRUE, feed |-> SolUsd,
      price |-> price, exponent |-> -2, age |-> age ]

\* The account that the crank passes, fresh and stale.
MCOracleFeed == { Account(11, 0), Account(17, 0), Account(12, 61) }

\* Other callers pass others, one without a price and one of another feed.
MCPriceAccounts ==
    MCOracleFeed \cup { Account(0, 0), [Account(17, 0) EXCEPT !.feed = "BTC/USD"] }
=============================================================================
