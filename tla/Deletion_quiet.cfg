CONSTANTS
    u1 = u1
    u2 = u2
    u3 = u3
    n1 = n1
    n2 = n2
    Uploads = {u1, u2}
    Names = {n1, n2}
    None = None
    MaxChunks = 1
    MaxIncrementalChainDepth = 0
    SlowChunks = FALSE
    CutStreams = FALSE
    CleanupEnabled = FALSE
    MaxFaults = 1
    MaxDeletes = 1
    QuietDeletes = TRUE
SPECIFICATION DeletionFairSpec
CHECK_DEADLOCK FALSE
INVARIANTS
    DeletionTypeOK
    CommittedChunksIntact
    CommittedManifestIntact
    CommittedChainRooted
    DeletedLeavesNoObjects
PROPERTIES
    OnlyRequestedDeleted
    KeepsPromiseUntilRemoved
    DeletionsSettle
