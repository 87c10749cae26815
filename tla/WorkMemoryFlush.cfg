SPECIFICATION Spec
CONSTANTS
    Session = {s1}
    IdleTimeout = 2 MaxAttempts = 2 Ages = {0, 1} MaxTurns = 3 MaxNow = 5 MaxCrashes = 1
INVARIANTS TypeOK ExactlyOnce ClosedExtracted
