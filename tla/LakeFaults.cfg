SPECIFICATION Spec
CONSTANTS
    Events = {"e1", "e2", "e3"}
    Part <- MCPart
    Who <- MCWho
    Readers = {r1}
    MaxDay = 3
    RetentionDays = 1
    ActiveThreshold = 2
    BigRows = 4
    MaxMergeFiles = 3
    MaxMergeRows = 4
    MaxGen = 3
    Faults = {"io", "kill", "power"}
    MaxFaults = 1
INVARIANTS
    LiveFilesDurable
    CatalogHoldsStored
    LeasedFilesReadable
    SnapshotsHonest
