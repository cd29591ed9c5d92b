SPECIFICATION Spec
CONSTANTS
    MaxRecords = 1
    Size <- MCSize
    MaxRecordBytes = 3
    SegmentTarget = 3
    WindowBytes = 2
    RaceAttempts = 2
    Faults = {"kill"}
    MaxFailures = 1
INVARIANT
    NeverRefusesToStart
