SPECIFICATION Spec
CONSTANTS
    OneTime = {a}
    Interval = {e}
    Period = 2
    MaxSleep = 2
    MaxNow = 3
    MaxEdits = 2
    MaxManual = 1
    MaxExternal = 1
    MaxCrashes = 1
CHECK_DEADLOCK FALSE
INVARIANTS TypeOK WakeIsSet NothingToLose OwedIsOnDisk
PROPERTIES DeadlineOnce DueJobsRun
