CONSTANTS
    u1 = u1
    u2 = u2
    u3 = u3
    n1 = n1
    n2 = n2
    Uploads = {u1, u2}
    Names = {n1}
    None = None
    MaxChunks = 1
    MaxIncrementalChainDepth = 0
    SlowChunks = FALSE
    CutStreams = FALSE
    CleanupEnabled = FALSE
    MaxFaults = 0
    MaxDeletes = 1
    QuietDeletes = FALSE
SPECIFICATION DeletionSpec
PROPERTY OnlyRequestedDeleted
CHECK_DEADLOCK FALSE
