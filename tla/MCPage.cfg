SPECIFICATION PageSpec
CONSTANTS
    ROUND_DURATION = 3
    LOCK_AT = 1
    TICK = 3
    BOT_TICK = 1
    POPUP = 1
    MODAL = 2
    BOTS = 5
    StartBalance = 2
    MaxRounds = 3
    MaxPopups = 2
    WalletList <- MCWalletList
    Legacy = {"Solflare"}
    Injected = "Phantom"
INVARIANTS
    PageTypeOK
    BooksAgree
PROPERTIES
    RoundsResolve
    AuthorisedWalletIsUsed
