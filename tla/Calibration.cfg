SPECIFICATION FairSpec
CONSTANTS
    m = m
    f = f
    None = None
    Order <- Pair
    MaxLevel = 1
    ControlCap = 3
    MaxFaults = 1
    MaxMoves = 3
INVARIANTS
    TypeOK
    RestoredOrTold
    CancelledIsDropped
PROPERTIES
    SessionEnds
    RunEnds
CHECK_DEADLOCK FALSE
