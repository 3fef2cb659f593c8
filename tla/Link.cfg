SPECIFICATION FairSpec
CONSTANTS
    None = None
    Modulus = 16
    FirstPacket = 13
    LastPacket = 19
    PacketsPerBlock = 2
    Grace = 1
    ControlCap = 2
    InitialTarget = 1
    TargetStep = 1
    MaxTarget = 2
    Cooldown = 1
INVARIANTS
    TypeOK
    CountedOnce
    NeverOverfull
    StreamIsHeard
PROPERTIES
    InOrder
    FallsSilent
