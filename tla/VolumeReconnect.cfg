SPECIFICATION Spec
CONSTANTS
    A = A
    B = B
    r1 = r1
    r2 = r2
    None = None
    NoRange = NoRange
    MaxLevel = 1
    Devices = {A}
    Receivers = {r1, r2}
    DeviceOf <- Reconnecting
    Stored <- StoredTwo
    Drafts <- NoDrafts
    ControlCap = 2
    WindowCap = 2
    ReportCap = 2
    MaxFaults = 1
    MaxUser = 1
    MaxPanel = 1
    MaxQueries = 0
INVARIANTS
    GateMatchesProfile
    EventNewerThanPanel
    DiskHoldsConfirmed
PROPERTIES
    AdoptionAfterSwitch
