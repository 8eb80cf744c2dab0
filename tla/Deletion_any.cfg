CONSTANTS
    u1 = u1
    u2 = u2
    u3 = u3
    n1 = n1
    n2 = n2
    Uploads = {u1, u2}
    Names = {n1, n2}
    None = None
    MaxChunks = 1
    MaxIncrementalChainDepth = 0
    SlowChunks = TRUE
    CutStreams = FALSE
    CleanupEnabled = TRUE
    MaxFaults = 1
    MaxDeletes = 1
    QuietDeletes = FALSE
SPECIFICATION DeletionSpec
CHECK_DEADLOCK FALSE
CONSTRAINT OneMishap
SYMMETRY Symmetric
INVARIANT CommittedRowsComplete
