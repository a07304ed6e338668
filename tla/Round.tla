-------------------------------- MODULE Round --------------------------------
(***************************************************************************)
(* The 60-second round that the page frontend/app/page.tsx runs in the     *)
(* browser: the round timer, the bot timer, the bets of the player at the   *)
(* keyboard and the settlement modal.  The event loop runs one handler at a *)
(* time; a handler is an action.  Time is counted in units small enough to  *)
(* keep the order of the delays: wallet popup 500 ms, modal 600 ms, tick of *)
(* the round 1000 ms.  Handlers due at the same time run in any order.      *)
(*                                                                         *)
(* Prices and the histogram are abstracted to the number of bets counted in *)
(* it; the walk that settles a round is PoolMath's.                         *)
(***************************************************************************)
EXTENDS Integers, Sequences

CONSTANTS ROUND_DURATION, LOCK_AT,        \* 60 and 30 ticks in the code
          TICK, BOT_TICK, POPUP, MODAL,   \* delays, in units of time
          BOTS,                           \* the bot slider
          StartBalance,                   \* 100 in the code
          MaxRounds,                      \* bound: rounds started
          MaxPopups                       \* bound: wallet popups open at once

ASSUME RoundAssumption ==
    /\ {ROUND_DURATION, LOCK_AT, TICK, BOT_TICK, POPUP, MODAL} \subseteq Nat
    /\ BOTS \in Nat \ {0}   \* 1000 or more on the slider
    /\ 0 < BOT_TICK /\ BOT_TICK < TICK
    /\ 0 < POPUP /\ POPUP < MODAL /\ MODAL < TICK
    /\ 0 < LOCK_AT /\ LOCK_AT < ROUND_DURATION
    /\ StartBalance \in Nat /\ MaxRounds \in Nat

ENTRY_FEE == 1
Rounds == 1..MaxRounds

\* startBots: the batch that places every bot before the lock, rounded up.
BOT_TICKS == (LOCK_AT * TICK) \div BOT_TICK
Batch == (BOTS + BOT_TICKS - 1) \div BOT_TICKS

Stopped == -1   \* a timer that is not running; others hold the time left

VARIABLES phase,          \* "idle", "open", "locked" or "resolved"
          started,        \* rounds started so far; the latest is `started'
          timer,          \* time left to the next tick of each round's timer
          tick,           \* countdown of each round's timer
          timerRef,       \* the round whose timer the page would clear
          bots,           \* time left to the next batch of each bot timer
          botRef,         \* the round whose bot timer the page would clear
          botPlaced,      \* bots placed
          counted,        \* bets in the histogram
          participants, totalPool,
          userBet,        \* the player's bet is shown as placed
          userBalance,
          popups,         \* time left of the wallet popups, oldest first
          modals,         \* time left of the pending setShowModal(true)
          showModal

timers == <<timer, tick, timerRef>>
botv   == <<bots, botRef, botPlaced>>
books  == <<counted, participants, totalPool>>
player == <<userBet, userBalance, popups>>
modalv == <<modals, showModal>>
vars   == <<phase, started, timers, botv, books, player, modalv>>

Init ==
    /\ phase = "idle"
    /\ started = 0
    /\ timer = [r \in Rounds |-> Stopped]
    /\ tick = [r \in Rounds |-> 0]
    /\ timerRef = 0
    /\ bots = [r \in Rounds |-> Stopped]
    /\ botRef = 0
    /\ botPlaced = 0
    /\ counted = 0 /\ participants = 0 /\ totalPool = 0
    /\ userBet = FALSE
    /\ userBalance = StartBalance
    /\ popups = <<>>
    /\ modals = {}
    /\ showModal = FALSE

\* Mutant: the player's own bet is not added to the participants.
BetAdded_NoParticipant ==
    /\ counted' = counted + 1
    /\ totalPool' = totalPool + ENTRY_FEE
    /\ UNCHANGED participants

BetAdded ==
    /\ counted' = counted + 1
    /\ totalPool' = totalPool + ENTRY_FEE
    /\ participants' = participants + 1

\* startRound: nothing is cleared but the state; the timers of an earlier round
\* that still run go on, and are no longer reachable through the refs.
startRound ==
    LET r == started + 1 IN
    /\ started < MaxRounds
    /\ started' = r
    /\ phase' = "open"
    /\ timer' = [timer EXCEPT ![r] = TICK]
    /\ tick' = [tick EXCEPT ![r] = ROUND_DURATION]
    /\ timerRef' = r
    /\ bots' = [bots EXCEPT ![r] = BOT_TICK]
    /\ botRef' = r
    /\ botPlaced' = 0
    /\ counted' = 0 /\ participants' = 0 /\ totalPool' = 0
    /\ userBet' = FALSE
    /\ userBalance' = StartBalance
    /\ showModal' = FALSE
    /\ UNCHANGED <<popups, modals>>

Start     == phase = "idle" /\ startRound
NextRound == phase = "resolved" /\ startRound
PlayAgain == showModal /\ startRound

CloseModal ==
    /\ showModal
    /\ showModal' = FALSE
    /\ UNCHANGED <<phase, started, timers, botv, books, player, modals>>

\* placeBet up to its await: what it checks is not checked again.
placeBet ==
    /\ phase = "open" /\ ~userBet
    /\ userBalance >= ENTRY_FEE
    /\ Len(popups) < MaxPopups
    /\ popups' = Append(popups, POPUP)
    /\ UNCHANGED <<phase, started, timers, botv, books, modalv, userBet, userBalance>>

\* placeBet after its await.
BetLands ==
    /\ popups # <<>> /\ Head(popups) = 0
    /\ popups' = Tail(popups)
    /\ BetAdded
    /\ userBet' = TRUE
    /\ userBalance' = userBalance - ENTRY_FEE
    /\ UNCHANGED <<phase, started, timers, botv, modalv>>

\* Mutant: the loop over a batch does not stop at the number of bots.
NextBots_Whole == Batch

\* The bots that the next batch places.
NextBots == IF BOTS - botPlaced < Batch THEN BOTS - botPlaced ELSE Batch

\* The bot interval.  totalPool and participants grow by a whole batch even
\* when fewer bots are left; a timer that finds nothing to do clears botRef,
\* which need not be itself.
BotTick(r) ==
    LET rearmed == [bots EXCEPT ![r] = BOT_TICK] IN
    /\ bots[r] = 0
    /\ IF botPlaced >= BOTS
       THEN /\ bots' = [rearmed EXCEPT ![botRef] = Stopped]
            /\ UNCHANGED <<botPlaced, books>>
       ELSE /\ bots' = rearmed
            /\ botPlaced' = botPlaced + NextBots
            /\ counted' = counted + NextBots
            /\ totalPool' = totalPool + Batch
            /\ participants' = participants + Batch
    /\ UNCHANGED <<phase, started, timers, botRef, player, modalv>>

\* Mutant: reaching the lock clears the wrong timer.
Lock_StopsRound(r) ==
    /\ phase' = "locked"
    /\ timer' = [[timer EXCEPT ![r] = TICK] EXCEPT ![timerRef] = Stopped]
    /\ UNCHANGED <<bots, modals>>

\* What a tick does besides counting down.
Lock(r) ==
    /\ phase' = "locked"
    /\ timer' = [timer EXCEPT ![r] = TICK]
    /\ bots' = [bots EXCEPT ![botRef] = Stopped]
    /\ UNCHANGED modals

\* resolveMarket; clearInterval is given the latest timer, not this one.
Resolve(r) ==
    /\ phase' = "resolved"
    /\ timer' = [[timer EXCEPT ![r] = TICK] EXCEPT ![timerRef] = Stopped]
    /\ modals' = modals \cup {MODAL}
    /\ UNCHANGED bots

\* A timer below zero does the same for ever; the count is not kept below -1.
Tick(r) ==
    LET t == IF tick[r] > -1 THEN tick[r] - 1 ELSE -1 IN
    /\ timer[r] = 0
    /\ tick' = [tick EXCEPT ![r] = t]
    /\ \/ t = LOCK_AT /\ Lock(r)
       \/ t <= 0 /\ Resolve(r)
       \/ /\ t # LOCK_AT /\ t > 0
          /\ timer' = [timer EXCEPT ![r] = TICK]
          /\ UNCHANGED <<phase, bots, modals>>
    /\ UNCHANGED <<started, timerRef, botRef, botPlaced, books, player, showModal>>

ModalShows ==
    /\ 0 \in modals
    /\ modals' = modals \ {0}
    /\ showModal' = TRUE
    /\ UNCHANGED <<phase, started, timers, botv, books, player>>

\* Time passes when no handler is due.
Elapse ==
    /\ \A r \in Rounds : timer[r] # 0 /\ bots[r] # 0
    /\ popups # <<>> => Head(popups) # 0
    /\ 0 \notin modals
    /\ timer' = [r \in Rounds |-> IF timer[r] = Stopped THEN Stopped ELSE timer[r] - 1]
    /\ bots' = [r \in Rounds |-> IF bots[r] = Stopped THEN Stopped ELSE bots[r] - 1]
    /\ popups' = [i \in DOMAIN popups |-> popups[i] - 1]
    /\ modals' = {m - 1 : m \in modals}
    /\ UNCHANGED <<phase, started, tick, timerRef, botRef, botPlaced, books,
                   userBet, userBalance, showModal>>

\* What the browser does by itself, and what the player does.
Browser == \/ BetLands \/ ModalShows \/ Elapse
           \/ \E r \in Rounds : Tick(r) \/ BotTick(r)

User == Start \/ NextRound \/ PlayAgain \/ CloseModal \/ placeBet

Next == Browser \/ User

\* The event loop runs every handler that is due, and time does not stop.
Spec == Init /\ [][Next]_vars /\ WF_vars(Browser)

-----------------------------------------------------------------------------

TypeOK ==
    /\ phase \in {"idle", "open", "locked", "resolved"}
    /\ started \in 0..MaxRounds
    /\ timer \in [Rounds -> Stopped..TICK]
    /\ tick \in [Rounds -> -1..ROUND_DURATION]
    /\ timerRef \in 0..MaxRounds /\ botRef \in 0..MaxRounds
    /\ bots \in [Rounds -> Stopped..BOT_TICK]
    /\ botPlaced \in 0..BOTS
    /\ counted \in Nat /\ participants \in Nat /\ totalPool \in Nat
    /\ userBet \in BOOLEAN
    /\ userBalance \in Int
    /\ popups \in Seq(0..POPUP)
    /\ modals \subseteq 0..MODAL
    /\ showModal \in BOOLEAN

\* The figures the settlement is computed from and the modal shows: the pool
\* is one fee per participant, and the participants are the bets in the
\* histogram, but for less than one batch of bots, whichever timers of earlier
\* rounds are still running and whichever late bets land.
BooksAgree ==
    /\ totalPool = ENTRY_FEE * participants
    /\ counted <= participants
    /\ participants - counted < Batch

\* A round that starts is resolved, even when timers of earlier rounds act on
\* it or its own timer has been cleared by one of them.
RoundsResolve == phase \in {"open", "locked"} ~> phase = "resolved"

-----------------------------------------------------------------------------
(* What the documents say, and the page does not do *)

\* Readme.md:680: "Locked: The market locks. No more predictions are
\* accepted": the histogram takes no bet of the player outside the open phase.
NoBetWhileLocked == [][BetLands => phase = "open"]_vars

\* page.tsx:28: "ROUND_DURATION = 60; // seconds total": a round is resolved at
\* the end of its own countdown.
RoundsRunInFull ==
    [][phase # "resolved" /\ phase' = "resolved" => tick'[timerRef] = 0]_vars
=============================================================================
