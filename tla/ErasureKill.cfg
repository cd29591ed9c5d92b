SPECIFICATION Spec
CONSTANTS
    Ids = {a, b}
    NoOne = NoOne
    MaxLog = 2
    MaxRequests = 2
    MaxPending = 2
    SignalMax = 2
    Faults = {"kill"}
    MaxFaults = 2
SYMMETRY IdSymmetry
INVARIANTS
    ErasedIsGone
    LaterEventsKept
