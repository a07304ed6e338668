SPECIFICATION Spec
CONSTANTS
    HISTOGRAM_BUCKETS = 3
    ENTRY_FEE = 1
    U32Max = 3
    U64Max = 99
    MAX_PRICE_AGE_SECONDS = 60
    Receiver = "receiver"
    SolUsd = "SOL/USD"
    BATCH = 1
    alice = alice
    bob = bob
    Users <- MCUsers
    InitialWallet <- MCWallet
    PoolParams <- MCPoolParams
    Predictions <- MCPredictions
    PriceAccounts <- MCPriceAccounts
    OracleFeed <- MCOracleFeed
    Cranks = {1}
INVARIANT
    ClaimsFollowUndelegation
