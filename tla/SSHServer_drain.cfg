CONSTANT Sessions = {c1, c2}
SPECIFICATION FairSpec
CHECK_DEADLOCK FALSE
INVARIANTS
    TypeOK
    DrainFinishesUploads
PROPERTIES
    ShutdownEnds
    StalledSessionsEnd
