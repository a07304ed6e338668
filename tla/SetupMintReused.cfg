SPECIFICATION Spec
CONSTANTS
    MaxMints = 3
    MaxFunds = 1
    BOT_COUNT = 3
    BATCH_SIZE = 2
    HISTOGRAM_BUCKETS = 4
    basePrice = 20
    precisionStep = 10
    Prices = {7, 45, 71}
PROPERTY
    MintReusedForever
