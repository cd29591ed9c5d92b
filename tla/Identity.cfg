SPECIFICATION IdentitySpec
CONSTANTS
    Ids = {d1, d2, d3}
    Nobody = Nobody
    Times = {1, 2}
    MaxSeq = 3
    MaxBatch = 1
INVARIANTS
    PersonsOwnThemselves
    PersonRowExact
    MirrorMatchesVersion
PROPERTIES
    IdentifiedNeverFolded
    SyncTerminates
