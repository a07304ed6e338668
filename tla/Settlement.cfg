SPECIFICATION Spec
CONSTANTS
    Prices = {15, 24, 25, 33, 58}
    SOL_FALLBACK = 24
    Drift = 4
    HISTOGRAM_BUCKETS = 4
    ENTRY_FEE = 1
    basePrice = 20
    PRECISION = 10
    Batch = 2
    MaxBets = 3
INVARIANTS
    TypeOK
    ShownFiguresAgree
PROPERTIES
    HalfOfBetsWin
    WalkMirrorsProgram
    FeedOrSimulation
CHECK_DEADLOCK FALSE
