SPECIFICATION Spec
CONSTANTS
    Memory = {m1} Checked = {m1} Runner = {r1, r2} Drain = r1
    Limit = 2 MaxAttempts = 3 LeaseLen = 1 Backoffs = {1}
    MaxText = 2 MaxEnqueues = 2 MaxNow = 5 MaxCrashes = 1
INVARIANTS TypeOK DoneIsFresh
PROPERTIES VectorsAdvance AttemptsNeverLost
