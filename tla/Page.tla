-------------------------------- MODULE Page --------------------------------
(***************************************************************************)
(* The round of page.tsx with the wallet it asks for.  A player without a   *)
(* wallet does not see the controls of the round, but the modal; timers and *)
(* popups go on whether or not there is a wallet.                           *)
(***************************************************************************)
EXTENDS Round, Wallets

pageVars == <<vars, wvars>>

PageInit == Init /\ WInit

\* placeBet asks for a wallet, and so does the grid with the other controls.
WithWallet == Connected /\ (Start \/ NextRound \/ placeBet)
Anyway     == PlayAgain \/ CloseModal

PageNext == \/ (Browser \/ WithWallet \/ Anyway) /\ UNCHANGED wvars
            \/ WNext /\ UNCHANGED vars

\* Handlers that are due run, time does not stop, and React runs its effects.
PageSpec ==
    /\ PageInit /\ [][PageNext]_pageVars
    /\ WF_pageVars(Browser /\ UNCHANGED wvars)
    /\ WF_pageVars(AutoConnect /\ UNCHANGED vars)

-----------------------------------------------------------------------------

PageTypeOK == TypeOK /\ WTypeOK

\* A wallet that the player let the page use gets used, although the handler of
\* its button may look at outdated accounts and do nothing, and although other
\* connects and disconnects are under way: the player does not stay shut out of
\* the round.
AuthorisedWalletIsUsed == authorised # {} ~> (Connected \/ authorised = {})
=============================================================================
