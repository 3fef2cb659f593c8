SPECIFICATION FairSpec
CONSTANTS
    MaxRequests = 2
    MaxEvents = 1
INVARIANTS
    TypeOK
PROPERTIES
    KeepsPromise
    Answered
    ToneEnds
CHECK_DEADLOCK FALSE
