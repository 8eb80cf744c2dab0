CONSTANTS
    NumSnapshots = 2
    Scheduler = sched
    Requests = {r1}
    Limit = 2
    MaxEvents = 2
SPECIFICATION FairSpec
CHECK_DEADLOCK FALSE
INVARIANTS
    TypeOK
    SuccessIsEarned
    RunningHasJob
PROPERTIES
    StartupSettlesStale
    DamageIsFound
