SPECIFICATION FairSpec
CONSTANTS
    Ids = {a, b}
    NoOne = NoOne
    MaxLog = 2
    MaxRequests = 2
    MaxPending = 1
    SignalMax = 2
    Faults = {"io", "seal"}
    MaxFaults = 1
INVARIANTS
    NoOrphanedEvents
PROPERTY
    EraseAnswered
