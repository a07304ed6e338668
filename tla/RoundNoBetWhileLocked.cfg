SPECIFICATION Spec
CONSTANTS
    ROUND_DURATION = 4
    LOCK_AT = 2
    TICK = 4
    BOT_TICK = 2
    POPUP = 2
    MODAL = 3
    BOTS = 5
    StartBalance = 2
    MaxRounds = 3
    MaxPopups = 2
PROPERTY
    NoBetWhileLocked
