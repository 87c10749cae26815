SPECIFICATION FairSpec
CONSTANTS
    Memory = {m1, m2} Checked = {m1} Runner = {r1} Drain = r1
    Limit = 2 MaxAttempts = 2 LeaseLen = 1 Backoffs = {1}
    MaxText = 1 MaxEnqueues = 2 MaxNow = 3 MaxCrashes = 0
PROPERTY RetriesEnd
