------------------------------ MODULE PriceFeed ------------------------------
(***************************************************************************)
(* The live price of frontend/app/page.tsx: a WebSocket that delivers       *)
(* trades, a timeout after 3 s and an error handler that both fall back to  *)
(* a simulated price, and the clean-up when the page goes away.  Handlers   *)
(* run one at a time; they share hasReceivedMessage and priceRef.           *)
(***************************************************************************)
EXTENDS Integers, FiniteSets

CONSTANTS Prices,         \* prices in cents
          SOL_FALLBACK,   \* the first of them
          Drift           \* the most a simulated tick moves the price, 4 cents

ASSUME FeedAssumption == Prices \subseteq Nat /\ SOL_FALLBACK \in Prices

VARIABLES mounted,
          socket,               \* "connecting", "open", "closing" or "closed"
          hasReceivedMessage,
          waiting,              \* the timeout is pending
          simulations,          \* the intervals that run, named 1, 2, ... as started
          priceRef,             \* the one the page would clear, or 0
          priceVal,
          oracleConnected       \* the page shows LIVE rather than MOCK

fvars == <<mounted, socket, hasReceivedMessage, waiting, simulations, priceRef,
           priceVal, oracleConnected>>

FInit ==
    /\ mounted = TRUE
    /\ socket = "connecting"
    /\ hasReceivedMessage = FALSE
    /\ waiting = TRUE
    /\ simulations = {}
    /\ priceRef = 0
    /\ priceVal = SOL_FALLBACK
    /\ oracleConnected = FALSE

startFallback ==
    /\ priceRef' = priceRef + 1
    /\ simulations' = simulations \cup {priceRef + 1}

Opens ==
    /\ socket = "connecting" /\ mounted
    /\ socket' = "open"
    /\ UNCHANGED <<mounted, hasReceivedMessage, waiting, simulations, priceRef,
                   priceVal, oracleConnected>>

\* Mutant: the timeout gives up where it should fall back.
TimesOut_GivesUp ==
    /\ waiting
    /\ waiting' = FALSE
    /\ UNCHANGED <<mounted, socket, hasReceivedMessage, simulations, priceRef,
                   priceVal, oracleConnected>>

\* It leaves hasReceivedMessage alone, so an error may start a second simulation.
TimesOut ==
    /\ waiting
    /\ waiting' = FALSE
    /\ IF hasReceivedMessage THEN UNCHANGED <<simulations, priceRef>>
                             ELSE startFallback
    /\ UNCHANGED <<mounted, socket, hasReceivedMessage, priceVal, oracleConnected>>

\* onmessage; the second disjunct is a message that does not parse or whose
\* price is out of the plausible range.
Message ==
    /\ socket = "open"
    /\ hasReceivedMessage' = TRUE
    /\ \/ priceVal' \in Prices /\ oracleConnected' = TRUE
       \/ UNCHANGED <<priceVal, oracleConnected>>
    /\ UNCHANGED <<mounted, socket, waiting, simulations, priceRef>>

\* onerror, which a socket closed while connecting also gets, after the page
\* has gone.
Error ==
    /\ socket # "closed"
    /\ socket' = "closed"
    /\ hasReceivedMessage' = TRUE
    /\ IF hasReceivedMessage THEN UNCHANGED <<simulations, priceRef>>
                             ELSE startFallback
    /\ UNCHANGED <<mounted, waiting, priceVal, oracleConnected>>

\* The exchange closes the connection: the page has no handler for it.
Closes ==
    /\ socket = "open"
    /\ socket' = "closed"
    /\ UNCHANGED <<mounted, hasReceivedMessage, waiting, simulations, priceRef,
                   priceVal, oracleConnected>>

Simulate ==
    /\ simulations # {}
    /\ priceVal' \in {p \in Prices : p - priceVal \in -Drift..Drift}
    /\ UNCHANGED <<mounted, socket, hasReceivedMessage, waiting, simulations,
                   priceRef, oracleConnected>>

\* The effect's clean-up and that of the page clear the same interval.
Unmount ==
    /\ mounted
    /\ mounted' = FALSE
    /\ waiting' = FALSE
    /\ socket' = IF socket = "connecting" THEN "closing" ELSE "closed"
    /\ simulations' = simulations \ {priceRef}
    /\ UNCHANGED <<hasReceivedMessage, priceRef, priceVal, oracleConnected>>

FNext == \/ Opens \/ TimesOut \/ Message \/ Error \/ Closes \/ Simulate \/ Unmount

FTypeOK ==
    /\ mounted \in BOOLEAN
    /\ socket \in {"connecting", "open", "closing", "closed"}
    /\ hasReceivedMessage \in BOOLEAN
    /\ waiting \in BOOLEAN
    /\ simulations \subseteq 1..2
    /\ priceRef \in 0..2
    /\ priceVal \in Prices
    /\ oracleConnected \in BOOLEAN
=============================================================================
