SPECIFICATION Spec
CONSTANTS
    HISTOGRAM_BUCKETS = 4
    ENTRY_FEE = 2
    U32Max = 4
    U64Max = 999
    MAX_PRICE_AGE_SECONDS = 60
    Receiver = "receiver"
    SolUsd = "SOL/USD"
    alice = alice
    bob = bob
    carol = carol
    Users <- MCUsers
    InitialWallet <- MCWallet
    PoolParams <- MCPoolParams
    Predictions <- MCPredictions
    PriceAccounts <- MCPriceAccounts
INVARIANTS
    TypeOK
    VaultBacksReceipts
    StakeConserved
    WinnersArePayable
    HistogramCountsBets
PROPERTIES
    ResolveFindsMedian
    HalfOfReceiptsWin
    ImplementsEscrow
