----------------------------- MODULE PriceOracle -----------------------------
(***************************************************************************)
(* The price account that resolve_market decodes by hand: which accounts   *)
(* it accepts and which price, in cents, it takes from one.                 *)
(*                                                                         *)
(* An account is a record: the program that owns it, whether its data      *)
(* reaches the publish time (`complete'), the feed it names, the raw price  *)
(* and exponent, and `age', the clock's time less the publish time (which   *)
(* is negative when the price is dated in the future).                     *)
(***************************************************************************)
EXTENDS PoolMath

CONSTANTS Receiver,                \* PYTH_RECEIVER_PROGRAM_ID
          SolUsd,                  \* SOL_USD_FEED_ID
          MAX_PRICE_AGE_SECONDS    \* 60 in the code

Accepted(account) ==
    /\ account.owner = Receiver
    /\ account.complete
    /\ account.feed = SolUsd
    /\ account.age <= MAX_PRICE_AGE_SECONDS

Magnitude(i) == IF i < 0 THEN -i ELSE i

\* 10_u64.pow(exponent.unsigned_abs().saturating_sub(2))
Scale(exponent) ==
    10 ^ (IF Magnitude(exponent) >= 2 THEN Magnitude(exponent) - 2 ELSE 0)

\* pow aborts the transaction when the power does not fit in a u64.
Scalable(account) == Scale(account.exponent) \in 0..U64Max

OraclePrice(account) ==
    IF Scale(account.exponent) > 0
    THEN Magnitude(account.price) \div Scale(account.exponent)
    ELSE Magnitude(account.price)
=============================================================================
