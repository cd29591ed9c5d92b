SPECIFICATION ProgressSpec
CONSTANTS
    Faults = {}
    \* the log
    MaxRecords = 5
    Size <- MCSize
    MaxRecordBytes = 3
    SegmentTarget = 3
    WindowBytes = 2
    RaceAttempts = 2
    MaxFailures = 0
    \* the lake
    Events = {"e1", "e2"}
    Part <- LakePart
    Who <- LakeWho
    Readers = {r1}
    MaxDay = 2
    RetentionDays = 1
    ActiveThreshold = 2
    BigRows = 4
    MaxMergeFiles = 3
    MaxMergeRows = 4
    MaxGen = 3
PROPERTIES
    AckedEventuallyPublished
    RetiredEventuallyUnlinked
