CONSTANTS
    u1 = u1
    u2 = u2
    u3 = u3
    n1 = n1
    n2 = n2
    n3 = n3
    Uploads = {u1, u2, u3}
    Names = {n1, n2, n3}
    None = None
    MaxChunks = 1
    MaxIncrementalChainDepth = 2
    SlowChunks = FALSE
    CutStreams = FALSE
    CleanupEnabled = TRUE
    MaxFaults = 1
SYMMETRY Symmetric
SPECIFICATION Spec
INVARIANTS
    TypeOK
    CommittedChunksIntact
    AckedIsCommitted
    CommittedChainRooted
    ChainDepthBounded
    OneOwnerPerName
CHECK_DEADLOCK FALSE
