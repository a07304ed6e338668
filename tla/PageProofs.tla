----------------------------- MODULE PageProofs -----------------------------
(***************************************************************************)
(* The types of the page's variables and the figures of a round, for any    *)
(* durations, bots, rounds, popups and wallets.                             *)
(***************************************************************************)
EXTENDS Page, SequenceTheorems, TLAPS

LEMMA Durations ==
  /\ ROUND_DURATION \in Nat /\ LOCK_AT \in Nat /\ BOTS \in Nat \ {0}
  /\ TICK \in Nat /\ BOT_TICK \in Nat /\ POPUP \in Nat /\ MODAL \in Nat
  /\ StartBalance \in Nat /\ MaxRounds \in Nat
BY RoundAssumption

LEMMA TimerValues ==
  /\ Stopped \in Stopped..TICK /\ TICK \in Stopped..TICK
  /\ Stopped \in Stopped..BOT_TICK /\ BOT_TICK \in Stopped..BOT_TICK
  /\ 0 \in -1..ROUND_DURATION /\ ROUND_DURATION \in -1..ROUND_DURATION
BY Durations DEF Stopped

-----------------------------------------------------------------------------
(* Types *)

\* Time passes unless the oldest popup is due: that no other popup is then due
\* rests on the popups being answered in the order in which they were opened.
InOrder(s) == \A i, j \in DOMAIN s : i <= j => s[i] <= s[j]

TypeInv == TypeOK /\ InOrder(popups)

LEMMA OpenedLast ==
  ASSUME NEW s \in Seq(0..POPUP), InOrder(s)
  PROVE  Append(s, POPUP) \in Seq(0..POPUP) /\ InOrder(Append(s, POPUP))
<1>1. POPUP \in 0..POPUP
  BY Durations
<1>2. /\ Append(s, POPUP) \in Seq(0..POPUP)
      /\ DOMAIN Append(s, POPUP) = 1..(Len(s) + 1)
      /\ \A i \in 1..Len(s) : Append(s, POPUP)[i] = s[i]
      /\ Append(s, POPUP)[Len(s) + 1] = POPUP
      /\ Len(s) \in Nat /\ DOMAIN s = 1..Len(s)
  BY <1>1
<1>3. \A i \in 1..Len(s) : s[i] \in 0..POPUP
  BY <1>2
<1> DEFINE t == Append(s, POPUP)
<1>4. ASSUME NEW i \in DOMAIN t, NEW j \in DOMAIN t, i <= j
      PROVE  t[i] <= t[j]
  <2> HIDE DEF t
  <2>1. CASE j = Len(s) + 1
    <3>1. t[i] \in 0..POPUP
      BY <1>1, <1>2, <1>3 DEF t
    <3> QED BY <1>2, <2>1, <3>1 DEF t
  <2>2. CASE j # Len(s) + 1
    <3>1. i \in 1..Len(s) /\ j \in 1..Len(s)
      BY <1>2, <1>4, <2>2 DEF t
    <3>2. t[i] = s[i] /\ t[j] = s[j]
      BY <1>2, <3>1 DEF t
    <3>3. s[i] <= s[j]
      BY <1>2, <1>4, <3>1 DEF InOrder
    <3> QED BY <3>2, <3>3
  <2> QED BY <2>1, <2>2
<1> QED BY <1>2, <1>4 DEF InOrder

LEMMA AnsweredFirst ==
  ASSUME NEW s \in Seq(0..POPUP), InOrder(s), s # <<>>
  PROVE  Tail(s) \in Seq(0..POPUP) /\ InOrder(Tail(s))
<1>1. /\ Tail(s) \in Seq(0..POPUP)
      /\ Len(s) \in Nat \ {0} /\ DOMAIN s = 1..Len(s)
      /\ DOMAIN Tail(s) = 1..(Len(s) - 1)
      /\ \A i \in 1..(Len(s) - 1) : Tail(s)[i] = s[i + 1]
  OBVIOUS
<1>2. ASSUME NEW i \in 1..(Len(s) - 1), NEW j \in 1..(Len(s) - 1), i <= j
      PROVE  s[i + 1] <= s[j + 1]
  BY <1>1, <1>2 DEF InOrder
<1> QED BY <1>1, <1>2 DEF InOrder

\* What Elapse does to the popups.
LEMMA Elapsed ==
  ASSUME NEW s \in Seq(0..POPUP), InOrder(s), s # <<>> => Head(s) # 0
  PROVE  LET t == [i \in DOMAIN s |-> s[i] - 1]
         IN  t \in Seq(0..POPUP) /\ InOrder(t)
<1>1. Len(s) \in Nat /\ DOMAIN s = 1..Len(s) /\ \A i \in 1..Len(s) : s[i] \in 0..POPUP
  <2>1. \A i \in 1..Len(s) : s[i] \in 0..POPUP
    BY ElementOfSeq
  <2> QED BY <2>1
<1>2. ASSUME NEW i \in 1..Len(s) PROVE s[i] - 1 \in 0..POPUP
  <2>1. s # <<>> /\ 1 \in 1..Len(s) /\ Head(s) = s[1]
    BY <1>1
  <2>2. s[1] <= s[i]
    BY <1>1, <2>1 DEF InOrder
  <2>3. POPUP \in Nat
    BY Durations
  <2> QED BY <1>1, <2>1, <2>2, <2>3
<1>3. [i \in 1..Len(s) |-> s[i] - 1] \in Seq(0..POPUP)
  BY <1>1, <1>2
<1>4. ASSUME NEW i \in 1..Len(s), NEW j \in 1..Len(s), i <= j
      PROVE  s[i] - 1 <= s[j] - 1
  <2>1. s[i] <= s[j]
    BY <1>1, <1>4 DEF InOrder
  <2>2. s[i] \in 0..POPUP /\ s[j] \in 0..POPUP /\ POPUP \in Nat
    BY <1>1, Durations
  <2> QED BY <2>1, <2>2
<1> QED BY <1>1, <1>3, <1>4 DEF InOrder


\* A batch has at least one bot.
LEMMA BatchIsPositive == Batch \in Nat \ {0}
<1>1. /\ LOCK_AT \in Nat \ {0} /\ TICK \in Nat \ {0} /\ BOT_TICK \in Nat \ {0}
      /\ BOT_TICK < TICK
      /\ BOTS \in Nat \ {0}
  BY RoundAssumption
<1>2. /\ LOCK_AT * TICK \in Nat
      /\ LOCK_AT * TICK >= TICK
  BY <1>1
<1>3. \A m \in Nat, n \in Nat \ {0} : m >= n => m \div n \in Nat \ {0}
  OBVIOUS
<1>4. BOT_TICKS \in Nat \ {0}
  BY <1>1, <1>2, <1>3 DEF BOT_TICKS
<1>5. BOTS + BOT_TICKS - 1 \in Nat /\ BOTS + BOT_TICKS - 1 >= BOT_TICKS
  BY <1>1, <1>4
<1> QED BY <1>3, <1>4, <1>5 DEF Batch

LEMMA TypeInvInit == Init => TypeInv
<1> SUFFICES ASSUME Init PROVE TypeInv
  OBVIOUS
<1>1. popups \in Seq(0..POPUP) /\ InOrder(popups)
  BY DEF Init, InOrder
<1>2. /\ timer \in [Rounds -> Stopped..TICK] /\ bots \in [Rounds -> Stopped..BOT_TICK]
      /\ tick \in [Rounds -> -1..ROUND_DURATION]
  BY TimerValues DEF Init
<1>3. /\ started \in 0..MaxRounds /\ timerRef \in 0..MaxRounds /\ botRef \in 0..MaxRounds
      /\ botPlaced \in 0..BOTS /\ userBalance \in Int
  BY Durations DEF Init
<1>4. TypeOK
  BY <1>1, <1>2, <1>3 DEF Init, TypeOK
<1> QED BY <1>1, <1>4 DEF TypeInv

LEMMA StartTypes ==
  ASSUME TypeInv, startRound
  PROVE  TypeInv'
<1>1. /\ timer' = [timer EXCEPT ![started + 1] = TICK]
      /\ bots' = [bots EXCEPT ![started + 1] = BOT_TICK]
      /\ tick' = [tick EXCEPT ![started + 1] = ROUND_DURATION]
      /\ started' = started + 1 /\ timerRef' = started + 1 /\ botRef' = started + 1
      /\ started < MaxRounds
  BY DEF startRound
<1>2. /\ timer' \in [Rounds -> Stopped..TICK] /\ bots' \in [Rounds -> Stopped..BOT_TICK]
      /\ tick' \in [Rounds -> -1..ROUND_DURATION]
  BY <1>1, TimerValues DEF TypeInv, TypeOK
<1>3. started + 1 \in 0..MaxRounds
  BY <1>1, Durations DEF TypeInv, TypeOK
<1>4. /\ phase' = "open" /\ botPlaced' = 0 /\ counted' = 0 /\ participants' = 0
      /\ totalPool' = 0 /\ userBet' = FALSE /\ userBalance' = StartBalance
      /\ showModal' = FALSE /\ popups' = popups /\ modals' = modals
  BY DEF startRound
<1>5. userBalance' \in Int /\ 0 \in 0..BOTS
  BY <1>4, Durations
<1>6. TypeOK'
  <2>1. /\ popups \in Seq(0..POPUP) /\ modals \subseteq 0..MODAL
    BY DEF TypeInv, TypeOK
  <2>2. started' \in 0..MaxRounds /\ timerRef' \in 0..MaxRounds /\ botRef' \in 0..MaxRounds
    BY <1>1, <1>3
  <2> QED BY <1>2, <1>4, <1>5, <2>1, <2>2 DEF TypeOK
<1> QED BY <1>4, <1>6 DEF TypeInv

LEMMA PlaceBetTypes ==
  ASSUME TypeInv, placeBet
  PROVE  TypeInv'
<1>1. popups' \in Seq(0..POPUP) /\ InOrder(popups')
  BY OpenedLast DEF TypeInv, TypeOK, placeBet
<1> QED BY <1>1 DEF TypeInv, TypeOK, placeBet, timers, botv, books, modalv

LEMMA BetLandsTypes ==
  ASSUME TypeInv, BetLands
  PROVE  TypeInv'
<1>1. popups' \in Seq(0..POPUP) /\ InOrder(popups')
  BY AnsweredFirst DEF TypeInv, TypeOK, BetLands
<1> QED BY <1>1 DEF TypeInv, TypeOK, BetLands, BetAdded, ENTRY_FEE, timers, botv, modalv

LEMMA BotTickTypes ==
  ASSUME TypeInv, NEW r \in Rounds, BotTick(r)
  PROVE  TypeInv'
<1>1. bots' \in [Rounds -> Stopped..BOT_TICK]
  BY TimerValues DEF TypeInv, TypeOK, BotTick
<1>2. /\ botPlaced' \in 0..BOTS
      /\ counted' \in Nat /\ participants' \in Nat /\ totalPool' \in Nat
  <2>1. CASE botPlaced >= BOTS
    BY <2>1 DEF TypeInv, TypeOK, BotTick, books
  <2>2. CASE ~(botPlaced >= BOTS)
    BY <2>2, BatchIsPositive, Durations DEF TypeInv, TypeOK, BotTick, NextBots
  <2> QED BY <2>1, <2>2
<1> QED BY <1>1, <1>2 DEF TypeInv, TypeOK, BotTick, timers, player, modalv

LEMMA TickTypes ==
  ASSUME TypeInv, NEW r \in Rounds, Tick(r)
  PROVE  TypeInv'
<1>1. tick' \in [Rounds -> -1..ROUND_DURATION]
  BY Durations DEF TypeInv, TypeOK, Tick
<1>2. /\ phase' \in {"idle", "open", "locked", "resolved"}
      /\ timer' \in [Rounds -> Stopped..TICK]
      /\ bots' \in [Rounds -> Stopped..BOT_TICK]
      /\ modals' \subseteq 0..MODAL
  <2>1. /\ [timer EXCEPT ![r] = TICK] \in [Rounds -> Stopped..TICK]
        /\ [bots EXCEPT ![botRef] = Stopped] \in [Rounds -> Stopped..BOT_TICK]
    BY TimerValues DEF TypeInv, TypeOK
  <2>2. CASE Lock(r)
    BY <2>1, <2>2 DEF TypeInv, TypeOK, Lock
  <2>3. CASE Resolve(r)
    <3>1. modals' \subseteq 0..MODAL
      BY <2>3, Durations DEF TypeInv, TypeOK, Resolve
    <3> QED BY <2>1, <2>3, <3>1, TimerValues DEF TypeInv, TypeOK, Resolve
  <2>4. CASE /\ timer' = [timer EXCEPT ![r] = TICK]
             /\ UNCHANGED <<phase, bots, modals>>
    BY <2>1, <2>4 DEF TypeInv, TypeOK
  <2> QED BY <2>2, <2>3, <2>4 DEF Tick
<1> QED BY <1>1, <1>2 DEF TypeInv, TypeOK, Tick, books, player

LEMMA ElapseTypes ==
  ASSUME TypeInv, Elapse
  PROVE  TypeInv'
<1>1. popups' \in Seq(0..POPUP) /\ InOrder(popups')
  BY Elapsed DEF TypeInv, TypeOK, Elapse
<1>2. /\ timer' \in [Rounds -> Stopped..TICK]
      /\ bots' \in [Rounds -> Stopped..BOT_TICK]
  BY Durations DEF TypeInv, TypeOK, Elapse, Stopped
<1>3. modals' \subseteq 0..MODAL
  BY Durations DEF TypeInv, TypeOK, Elapse
<1> QED BY <1>1, <1>2, <1>3 DEF TypeInv, TypeOK, Elapse, books

LEMMA RestTypes ==
  ASSUME TypeInv, CloseModal \/ ModalShows \/ UNCHANGED vars
  PROVE  TypeInv'
<1>1. CASE CloseModal
  BY <1>1 DEF TypeInv, TypeOK, CloseModal, timers, botv, books, player
<1>2. CASE ModalShows
  BY <1>2 DEF TypeInv, TypeOK, ModalShows, timers, botv, books, player
<1>3. CASE UNCHANGED vars
  BY <1>3 DEF TypeInv, TypeOK, vars, timers, botv, books, player, modalv
<1> QED BY <1>1, <1>2, <1>3

LEMMA WTypeInit == WInit => WTypeOK
BY DEF WInit, WTypeOK

LEMMA WTypeStep ==
  ASSUME WTypeOK, WNext \/ UNCHANGED wvars
  PROVE  WTypeOK'
<1> USE WalletsAssumption DEF WTypeOK
<1>1. CASE AutoConnect
  <2>1. \A i \in DOMAIN WalletList :
           [name |-> WalletList[i], account |-> WalletList[i]]
             \in [name : Wallets, account : Wallets]
    BY DEF Wallets
  <2> QED BY <1>1, <2>1 DEF AutoConnect
<1>2. CASE Disconnect
  BY <1>2 DEF Disconnect, Connected, Becomes, Scans
<1>3. ASSUME NEW w \in Wallets, Connect(w) PROVE WTypeOK'
  BY <1>3 DEF Connect
<1>4. ASSUME NEW w \in Wallets, Approve(w) PROVE WTypeOK'
  <2>1. Asked(w) \in Wallets
    BY DEF Asked
  <2>2. [name |-> w, account |-> Asked(w)] \in [name : Wallets, account : Wallets]
    BY <2>1
  <2>3. authorised' \subseteq Wallets /\ connecting' \subseteq Wallets
    BY <1>4, <2>1 DEF Approve, Becomes
  <2>4. activeWallet' \in {[name |-> w, account |-> Asked(w)], activeWallet}
    BY <1>4 DEF Approve, Becomes
  <2>5. scan' \in BOOLEAN /\ disconnecting' \subseteq Wallets
    BY <1>4 DEF Approve, Becomes, Scans
  <2> QED BY <2>2, <2>3, <2>4, <2>5
<1>5. ASSUME NEW w \in Wallets, Reject(w) PROVE WTypeOK'
  BY <1>5 DEF Reject
<1>6. ASSUME NEW w \in Wallets, Revoke(w) PROVE WTypeOK'
  BY <1>6 DEF Revoke, Becomes, Scans
<1>7. ASSUME NEW w \in Wallets, Disconnected(w) PROVE WTypeOK'
  BY <1>7 DEF Disconnected, Becomes, Scans
<1>8. CASE UNCHANGED wvars
  BY <1>8 DEF wvars
<1> QED BY <1>1, <1>2, <1>3, <1>4, <1>5, <1>6, <1>7, <1>8 DEF WNext

LEMMA PageTypesStep ==
  ASSUME TypeInv, WTypeOK, [PageNext]_pageVars
  PROVE  TypeInv' /\ WTypeOK'
<1>1. TypeInv'
  BY StartTypes, PlaceBetTypes, BetLandsTypes, BotTickTypes, TickTypes, ElapseTypes,
     RestTypes
  DEF PageNext, Browser, WithWallet, Anyway, Start, NextRound, PlayAgain, pageVars
<1>2. WTypeOK'
  BY WTypeStep DEF PageNext, pageVars
<1> QED BY <1>1, <1>2

\* Every variable of the round and of the wallets keeps its type: timers that
\* earlier rounds left behind included, no delay runs below zero.
THEOREM PageTypes == PageSpec => []PageTypeOK
<1>1. PageInit => TypeInv /\ WTypeOK
  BY TypeInvInit, WTypeInit DEF PageInit
<1>2. TypeInv /\ WTypeOK => PageTypeOK
  BY DEF TypeInv, PageTypeOK
<1> QED BY <1>1, <1>2, PageTypesStep, PTL DEF PageSpec

-----------------------------------------------------------------------------
(* The figures of a round.  BooksAgree is not inductive: a second batch that *)
(* counts more bots than it places would add to the difference.  It cannot   *)
(* happen, because the books differ only after the last bot of the round is  *)
(* placed.                                                                   *)

BooksInv ==
  /\ botPlaced \in 0..BOTS
  /\ counted \in Nat /\ participants \in Nat
  /\ participants # counted => botPlaced = BOTS
  /\ BooksAgree

LEMMA BooksInvInit == PageInit => BooksInv
  BY BatchIsPositive, RoundAssumption
  DEF PageInit, Init, BooksInv, BooksAgree, ENTRY_FEE

\* Each action of the page keeps BooksInv.
LEMMA BooksInvStep ==
  ASSUME BooksInv, [PageNext]_pageVars
  PROVE  BooksInv'
<1> USE BatchIsPositive, RoundAssumption DEF BooksInv, BooksAgree, ENTRY_FEE
<1>1. CASE startRound
  BY <1>1 DEF startRound
<1>2. CASE BetLands
  BY <1>2 DEF BetLands, BetAdded, botv
<1>3. ASSUME NEW r \in Rounds, BotTick(r)
      PROVE  BooksInv'
  <2>1. CASE botPlaced >= BOTS
    BY <1>3, <2>1 DEF BotTick, books
  <2>2. CASE ~(botPlaced >= BOTS)
    <3>1. /\ botPlaced' = botPlaced + NextBots
          /\ counted' = counted + NextBots
          /\ totalPool' = totalPool + Batch
          /\ participants' = participants + Batch
      BY <1>3, <2>2 DEF BotTick
    <3>2. /\ NextBots \in Nat \ {0}
          /\ NextBots <= Batch
          /\ botPlaced + NextBots <= BOTS
          /\ NextBots # Batch => botPlaced + NextBots = BOTS
      BY <2>2 DEF NextBots
    <3>3. participants = counted
      BY <2>2
    <3> QED BY <3>1, <3>2, <3>3
  <2> QED BY <2>1, <2>2
<1>4. CASE UNCHANGED <<botPlaced, counted, participants, totalPool>>
  BY <1>4
<1>5. ASSUME NEW r \in Rounds, Tick(r)
      PROVE  BooksInv'
  BY <1>4, <1>5 DEF Tick, books
<1>6. CASE CloseModal \/ placeBet \/ ModalShows \/ Elapse
  BY <1>4, <1>6 DEF CloseModal, placeBet, ModalShows, Elapse, books, botv
<1>7. CASE UNCHANGED vars
  BY <1>4, <1>7 DEF vars, books, botv
<1> QED BY <1>1, <1>2, <1>3, <1>5, <1>6, <1>7
        DEF PageNext, Browser, WithWallet, Anyway, Start, NextRound, PlayAgain, pageVars

\* The modal's pool and participants agree with the histogram, but for less
\* than a batch of bots (page.tsx:387), whatever is clicked and whenever.
THEOREM BooksAlwaysAgree == PageSpec => []BooksAgree
<1>1. BooksInv => BooksAgree
  BY DEF BooksInv
<1> QED BY <1>1, BooksInvInit, BooksInvStep, PTL DEF PageSpec
=============================================================================
