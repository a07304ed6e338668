-------------------------------- MODULE Setup --------------------------------
(***************************************************************************)
(* scripts/setup-pool.ts: it makes a mint and remembers it in frontend/.env, *)
(* mints tokens to the operator, creates the pool and delegates it.  Any of *)
(* its awaits may throw, before or after the call took effect; main's catch *)
(* then ends the script, and the operator runs it again.  An action is what *)
(* runs between two awaits, with the effect of the call awaited.            *)
(*                                                                         *)
(* The pool is what Rollup describes; here only its mint counts.            *)
(***************************************************************************)
EXTENDS Integers

CONSTANTS MaxMints,   \* bound on the mints ever created, named 1, 2, ...
          MaxFunds    \* bound on the counted mintTo calls for one mint

ASSUME SetupAssumption == MaxMints \in Nat \ {0} /\ MaxFunds \in Nat \ {0}

VARIABLES setup,       \* "idle", or the call that the script awaits
          usdcMint,    \* its local variable, or None
          line,        \* the file's NEXT_PUBLIC_USDC_MINT: "absent", "quoted"
                       \* as the script writes it, or "bare" (no quotes)
          cached,      \* the mint the script finds there, or None
          mints,       \* mints created
          funds,       \* mintTo calls, of 10,000 tokens, per mint
          vaultMint,   \* the mint the pool's vault was created with, or None
          delegated

svars == <<setup, usdcMint, line, cached, mints, funds, vaultMint, delegated>>

None  == 0
Mints == 1..MaxMints

\* The placeholder that a quoted line may hold counts as no mint.
SInit ==
    /\ setup = "idle"
    /\ usdcMint = None
    /\ line \in {"absent", "quoted", "bare"}
    /\ cached = None
    /\ mints = 0
    /\ funds = [m \in Mints |-> 0]
    /\ vaultMint = None
    /\ delegated = FALSE

\* Mutant: the cached mint is not reused.
Begin_NewMint ==
    /\ setup = "idle"
    /\ usdcMint' = None
    /\ setup' = "createMint"
    /\ UNCHANGED <<line, cached, mints, funds, vaultMint, delegated>>

Begin ==
    /\ setup = "idle"
    /\ usdcMint' = cached
    /\ setup' = IF cached # None THEN "mintTo" ELSE "createMint"
    /\ UNCHANGED <<line, cached, mints, funds, vaultMint, delegated>>

\* The script's next await, or its end when the answer is lost on the way.
Goes(next) == setup' = next
Lost       == setup' = "idle"

\* The replacement wants quotes, and a line without them is not appended to:
\* the file then stays as it was.
createMint ==
    /\ setup = "createMint" /\ mints < MaxMints
    /\ mints' = mints + 1
    /\ Goes("mintTo")
    /\ usdcMint' = mints'
    /\ IF line = "bare" THEN UNCHANGED <<line, cached>>
                        ELSE line' = "quoted" /\ cached' = mints'
    /\ UNCHANGED <<funds, vaultMint, delegated>>

\* The mint exists, and nobody has written down which it is.  The bound leaves
\* room for one more.
createMintLost ==
    /\ setup = "createMint" /\ mints < MaxMints - 1
    /\ mints' = mints + 1
    /\ Lost
    /\ UNCHANGED <<usdcMint, line, cached, funds, vaultMint, delegated>>

\* Mutant: nothing is minted to the operator.
mintTo_Skipped ==
    /\ setup = "mintTo"
    /\ Goes("getAccountInfo") \/ Lost
    /\ UNCHANGED <<usdcMint, line, cached, mints, funds, vaultMint, delegated>>

\* With the token account that it gets or creates first.
mintTo ==
    /\ setup = "mintTo"
    /\ funds' = [funds EXCEPT ![usdcMint] = IF @ < MaxFunds THEN @ + 1 ELSE @]
    /\ Goes("getAccountInfo") \/ Lost
    /\ UNCHANGED <<usdcMint, line, cached, mints, vaultMint, delegated>>

\* Mutant: the script does not look whether the pool exists.
getAccountInfo_Ignored ==
    /\ setup = "getAccountInfo"
    /\ Goes("initializePool")
    /\ UNCHANGED <<usdcMint, line, cached, mints, funds, vaultMint, delegated>>

getAccountInfo ==
    /\ setup = "getAccountInfo"
    /\ Goes(IF vaultMint # None THEN "delegateProxy" ELSE "initializePool")
    /\ UNCHANGED <<usdcMint, line, cached, mints, funds, vaultMint, delegated>>

initializePool ==
    /\ setup = "initializePool" /\ vaultMint = None
    /\ vaultMint' = usdcMint
    /\ Goes("delegateProxy") \/ Lost
    /\ UNCHANGED <<usdcMint, line, cached, mints, funds, delegated>>

\* The last call: the script ends either way.
delegateProxy ==
    /\ setup = "delegateProxy" /\ ~delegated
    /\ delegated' = TRUE
    /\ setup' = "idle"
    /\ UNCHANGED <<usdcMint, line, cached, mints, funds, vaultMint>>

\* A call that throws and had no effect; one that the program or the
\* delegation program refuses can only do this.
Throws ==
    /\ setup # "idle"
    /\ setup' = "idle"
    /\ UNCHANGED <<usdcMint, line, cached, mints, funds, vaultMint, delegated>>

\* The sequencer gives the pool back.
Undelegate ==
    /\ delegated
    /\ delegated' = FALSE
    /\ UNCHANGED <<setup, usdcMint, line, cached, mints, funds, vaultMint>>

SNext == \/ Begin \/ createMint \/ createMintLost \/ mintTo \/ getAccountInfo
         \/ initializePool \/ delegateProxy \/ Throws \/ Undelegate

STypeOK ==
    /\ setup \in {"idle", "createMint", "mintTo", "getAccountInfo",
                  "initializePool", "delegateProxy"}
    /\ usdcMint \in Mints \cup {None}
    /\ line \in {"absent", "quoted", "bare"}
    /\ cached \in Mints \cup {None}
    /\ mints \in 0..MaxMints
    /\ funds \in [Mints -> 0..MaxFunds]
    /\ vaultMint \in Mints \cup {None}
    /\ delegated \in BOOLEAN

-----------------------------------------------------------------------------

\* The page is built with the mint that the vault holds: whichever awaits threw
\* and however often the script ran, the mint in the file is that of the pool.
FileNamesVaultMint ==
    cached # None /\ vaultMint # None => cached = vaultMint

\* "so they can fund bot wallets" (setup-pool.ts:162): whoever sets up a pool
\* has been minted tokens that its vault takes.
OperatorHasTokens == vaultMint # None => funds[vaultMint] > 0

-----------------------------------------------------------------------------

\* setup-pool.ts:50: "The mint is created once and reused forever": once there
\* is a pool, whose mint is fixed, no other is created.
MintReusedForever == [][createMint => vaultMint = None]_svars
=============================================================================
