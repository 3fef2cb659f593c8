SPECIFICATION FairSpec
CONSTANTS
    m = m
    f = f
    None = None
    Order <- Alone
    MaxLevel = 1
    ControlCap = 3
    MaxFaults = 1
    MaxMoves = None
PROPERTY
    FreelyAdjusted
CHECK_DEADLOCK FALSE
