SPECIFICATION FairSpec
CONSTANTS
    A = A
    B = B
    r1 = r1
    r2 = r2
    None = None
    NoRange = NoRange
    MaxLevel = 1
    Devices = {A, B}
    Receivers = {r1}
    DeviceOf <- Single
    Stored <- StoredOrUnreadable
    Drafts <- SavedDrafts
    ControlCap = 2
    WindowCap = 2
    ReportCap = 2
    MaxFaults = 1
    MaxUser = 0
    MaxPanel = 2
    MaxQueries = 1
INVARIANTS
    DiskHoldsConfirmed
    UnreadableKept
PROPERTY Settles
