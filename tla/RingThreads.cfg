SPECIFICATION FairSpec
CONSTANTS
    Silence = Silence
    Capacity = 4
    Numbers = 8
    Packet = 2
    Chunk = 2
    Targets <- TwoTargets
INVARIANTS
    TypeOK
    KeepsNewest
PROPERTY PrefillEnds
