------------------------------- MODULE Escrow -------------------------------
(***************************************************************************)
(* What the vault promises, whatever the rounds and prices do: a player    *)
(* puts one entry fee in, and the only thing that can ever come out for a  *)
(* player is that same fee, once.  FlashPool is shown to implement this.    *)
(***************************************************************************)
EXTENDS Integers, FiniteSets

CONSTANTS Players, Fee, InitialFunds

VARIABLES stakes,   \* the players whose fee the escrow holds
          held,     \* what the escrow holds
          funds     \* what each player has outside

evars == <<stakes, held, funds>>

EInit == /\ stakes = {}
         /\ held = 0
         /\ funds = InitialFunds

Deposit(p) ==
    /\ p \notin stakes
    /\ funds[p] >= Fee
    /\ stakes' = stakes \cup {p}
    /\ held' = held + Fee
    /\ funds' = [funds EXCEPT ![p] = @ - Fee]

Refund(p) ==
    /\ p \in stakes
    /\ stakes' = stakes \ {p}
    /\ held' = held - Fee
    /\ funds' = [funds EXCEPT ![p] = @ + Fee]

ENext == \E p \in Players : Deposit(p) \/ Refund(p)

ESpec == EInit /\ [][ENext]_evars
=============================================================================
