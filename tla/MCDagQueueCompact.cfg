CONSTANTS
    Sessions = {s1}
    NTurns = 2
    MaxSaved = 2
    MaxAttempts = 3
    MaxQueues = 1
    Backoff <- ZeroThenOne
SPECIFICATION Spec
INVARIANTS
    CompactedTurnsDone
CHECK_DEADLOCK FALSE
