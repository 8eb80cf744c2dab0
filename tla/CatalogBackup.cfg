CONSTANTS
    Runners = {r1, r2}
    MaxBackups = 3
    Retention = 1
    MaxTime = 3
    MaxFaults = 1
SPECIFICATION FairSpec
CHECK_DEADLOCK FALSE
INVARIANTS
    TypeOK
    UnexpiredUsable
    AlwaysOneUsable
    NothingLeaks
PROPERTY RunsEnd
