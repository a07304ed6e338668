------------------------------- MODULE MCPage -------------------------------
(***************************************************************************)
(* Two wallets: Phantom, which is behind window.solana and can be asked to  *)
(* disconnect, and one without standard:connect that cannot.                *)
(***************************************************************************)
EXTENDS Page

MCWalletList == <<"Phantom", "Solflare">>
=============================================================================
