SPECIFICATION FairSpec
CONSTANTS
    MaxSessions = 2
    MaxRejects = 1
    MaxOutages = 1
    MaxBreaks = 1
    MaxWorkers = 3
INVARIANTS
    TypeOK
    OneTrack
PROPERTIES
    Plays
    Rests
    Retries
CHECK_DEADLOCK FALSE
