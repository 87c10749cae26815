SPECIFICATION FairSpec
CONSTANTS
    Job = {j1, j2}
    BatchSize = 1 MaxCycles = 2 MaxAttempts = 2 LeaseLen = 2 Delays = {0, 1}
    MaxNow = 2 MaxSettles = 1 MaxRejects = 1
INVARIANT TypeOK SleepIsCovered
PROPERTY StoppedForGood QueuedJobsRun
CHECK_DEADLOCK FALSE
