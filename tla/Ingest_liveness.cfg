CONSTANTS
    u1 = u1
    u2 = u2
    u3 = u3
    n1 = n1
    n2 = n2
    Uploads = {u1, u2}
    Names = {n1, n2}
    None = None
    MaxChunks = 1
    MaxIncrementalChainDepth = 2
    SlowChunks = FALSE
    CutStreams = TRUE
    CleanupEnabled = TRUE
    MaxFaults = 2
CHECK_DEADLOCK FALSE
SPECIFICATION FairSpec
PROPERTIES
    DeadUploadsSettle
    ServerComesUp
