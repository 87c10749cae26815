CONSTANTS
    Sessions = {s1, s2}
    NTurns = 2
    MaxSaved = 3
    MaxAttempts = 2
    MaxQueues = 1
    Backoff <- AlwaysOne
SPECIFICATION FairSpec
INVARIANTS
    TypeOK
    NeverStranded
    RunningIsHeld
    SlotsAccounted
    DeletedQuiescent
PROPERTIES
    TurnsSettle
    DeletionCompletes
CHECK_DEADLOCK FALSE
