SPECIFICATION Spec
CONSTANTS
    MaxRecords = 5
    Size <- MCSize
    MaxRecordBytes = 3
    SegmentTarget = 3
    WindowBytes = 2
    RaceAttempts = 2
    Faults = {"io", "kill", "power"}
    MaxFailures = 2
INVARIANTS
    AckedNeverLost
    StopsAreSafe
PROPERTY
    ImplementsEventStore
