CONSTANTS
    Texts = {0, 5, 50, 6000}
    NoText = NoText
    Uploads = {u1}
    BufferSizes = {1048576}
    Arrivals = {0, 700000}
    TicksPerSecond = 4
    MaxTime = 2
SPECIFICATION Spec
CHECK_DEADLOCK FALSE
INVARIANTS
    TypeOK
    CacheIsStored
    ServerLimitHolds
PROPERTIES
    IntervalLimitHolds
