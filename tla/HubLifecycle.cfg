SPECIFICATION FairSpec
CONSTANTS
    s1 = s1
    s2 = s2
    s3 = s3
    None = None
    Sessions = {s1, s2, s3}
    StartFaults = {"loopback", "fanout"}
    MaxFaults = 1
INVARIANTS
    SharedCapture
    RegisteredIsSubscribed
    EveryThreadOwned
PROPERTIES
    ShutdownCompletes
