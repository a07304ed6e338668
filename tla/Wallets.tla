------------------------------- MODULE Wallets -------------------------------
(***************************************************************************)
(* The wallet that frontend/app/page.tsx plays with.  The connect buttons   *)
(* are there while there is none, and an effect of theirs adopts a wallet   *)
(* that has already authorised the page, when the buttons appear and when   *)
(* the wallets change.  The wallets themselves are external: they approve,  *)
(* reject and revoke as their owner likes.                                  *)
(***************************************************************************)
EXTENDS Integers

CONSTANTS WalletList,   \* names, in the order of useWallets
          Legacy,       \* those without standard:connect
          Injected      \* the wallet behind window.solana

Wallets == {WalletList[i] : i \in DOMAIN WalletList}

ASSUME WalletsAssumption ==
    /\ Legacy \subseteq Wallets
    /\ Injected \in Wallets

VARIABLES authorised,     \* wallets with an account for the page
          connecting,     \* buttons that show "Connecting..."
          activeWallet,   \* its name and whose account is used, or NoWallet
          scan,           \* the effect of the buttons is to run
          disconnecting   \* names of wallets whose disconnect() is awaited

wvars == <<authorised, connecting, activeWallet, scan, disconnecting>>

NoWallet == [name |-> "none", account |-> "none"]
Connected == activeWallet # NoWallet

WInit ==
    /\ authorised \in SUBSET Wallets
    /\ connecting = {}
    /\ activeWallet = NoWallet
    /\ scan = TRUE
    /\ disconnecting = {}

\* The wallet that a click on w's button asks, and the one that disconnecting
\* from w asks (nobody for most wallets).
Asked(w) == IF w \notin Legacy \/ w = "Backpack" THEN w ELSE Injected
Released(w) == IF w = "Phantom" THEN {Injected}
               ELSE IF w = "Backpack" THEN {w} ELSE {}

\* Mutant: the effect runs only when the buttons appear.
Scans_OnMount(next, wallets) ==
    scan' = (next = NoWallet /\ (scan \/ Connected))

\* With next as active wallet and wallets as the authorised ones: the buttons
\* appear, or are there and see the wallets change, or are gone.
Scans(next, wallets) ==
    scan' = (next = NoWallet /\ (scan \/ Connected \/ wallets # authorised))

Becomes(next, wallets) ==
    /\ activeWallet' = next
    /\ authorised' = wallets
    /\ Scans(next, wallets)

\* For a wallet whose button still shows its earlier accounts, see Approve.
Connect(w) ==
    /\ ~Connected /\ w \notin connecting
    /\ connecting' = connecting \cup {w}
    /\ UNCHANGED <<authorised, activeWallet, scan, disconnecting>>

\* The handler of a standard wallet looks for the account in the wallet object
\* it was rendered with, and may not find it.  The buttons may be gone by now.
Approve(w) ==
    LET wallets == authorised \cup {Asked(w)} IN
    /\ w \in connecting
    /\ connecting' = connecting \ {w}
    /\ \/ Becomes([name |-> w, account |-> Asked(w)], wallets)
       \/ w \notin Legacy /\ Becomes(activeWallet, wallets)
    /\ UNCHANGED disconnecting

Reject(w) ==
    /\ w \in connecting
    /\ connecting' = connecting \ {w}
    /\ UNCHANGED <<authorised, activeWallet, scan, disconnecting>>

\* The effect calls onConnect for every authorised wallet: the last one stays.
AutoConnect ==
    LET found == {i \in DOMAIN WalletList : WalletList[i] \in authorised} IN
    /\ scan /\ scan' = FALSE
    /\ \/ found = {} /\ activeWallet' = NoWallet
       \/ \E i \in found :
             /\ \A j \in found : j <= i
             /\ activeWallet' = [name |-> WalletList[i], account |-> WalletList[i]]
    /\ UNCHANGED <<authorised, connecting, disconnecting>>

\* In the wallet itself; the page has no handler for it once it is connected.
Revoke(w) ==
    /\ w \in authorised
    /\ Becomes(activeWallet, authorised \ {w})
    /\ UNCHANGED <<connecting, disconnecting>>

\* A click on the connected wallet, up to the await, if there is one.
Disconnect ==
    LET w == activeWallet.name IN
    /\ Connected
    /\ IF Released(w) = {}
       THEN Becomes(NoWallet, authorised) /\ UNCHANGED disconnecting
       ELSE /\ disconnecting' = disconnecting \cup {w}
            /\ UNCHANGED <<authorised, activeWallet, scan>>
    /\ UNCHANGED connecting

\* The await returns or throws, and whichever wallet is active by now is
\* dropped.
Disconnected(w) ==
    /\ w \in disconnecting
    /\ disconnecting' = disconnecting \ {w}
    /\ \/ Becomes(NoWallet, authorised \ Released(w))
       \/ Becomes(NoWallet, authorised)
    /\ UNCHANGED connecting

WNext == \/ AutoConnect \/ Disconnect
         \/ \E w \in Wallets : \/ Connect(w) \/ Approve(w) \/ Reject(w)
                               \/ Revoke(w) \/ Disconnected(w)

WTypeOK ==
    /\ authorised \subseteq Wallets
    /\ connecting \subseteq Wallets
    /\ activeWallet \in [name : Wallets, account : Wallets] \cup {NoWallet}
    /\ scan \in BOOLEAN
    /\ disconnecting \subseteq Wallets
=============================================================================
