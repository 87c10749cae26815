SPECIFICATION Spec
CONSTANTS
    w1 = w1 w2 = w2 o1 = o1 o2 = o2 e1 = e1 e2 = e2 f1 = f1 l1 = l1 p1 = p1
    drain = drain http = http s1 = s1
    TypeOf <- MCTypeOf ScopeOf <- MCScopeOf KeyOf <- MCKeyOf
    Scope = {s1}
    WorldModels <- MCWorldModels Targets <- MCTargets Limit <- MCLimit
    Drain = drain
    Job <- DrainJobs Runner = {drain}
    BudgetTypes = {"work_memory_extract", "observation_extract"}
    Concurrency = 1 MaxAttempts = 2 LeaseLen = 1 DeferDelay = 1 IdleTimeout = 1 RunAfters = {0, 1}
    MaxNow = 2 MaxCrashes = 1
CONSTRAINT OneGroup
INVARIANTS TypeOK ScopeFIFO AttemptsCountFailures LeasesOwned NoRunRejects
PROPERTY TerminalStable
