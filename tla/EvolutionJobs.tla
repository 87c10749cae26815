---------------------------- MODULE EvolutionJobs ----------------------------
(***************************************************************************)
(* The durable queue of background jobs of the local memory service (the   *)
(* evolution_jobs table) and the worker runs that lease, execute and       *)
(* settle its rows.                                                        *)
(*                                                                         *)
(* The service is one Node process, so everything between two awaits is    *)
(* atomic: leasing a batch, starting a chunk of it and settling one job    *)
(* are one action each.  Runs overlap because the background drain and     *)
(* every POST /api/v1/worker/run call the same runWorkerOnce; a run in     *)
(* progress is a runner.  A crash loses the runs and keeps the table.      *)
(*                                                                         *)
(* Time is an integer clock and 0 stands for SQL NULL in leasedUntil and   *)
(* runAfter.  The field fails is history: the failJob calls a row has had. *)
(***************************************************************************)
EXTENDS Integers, FiniteSets

CONSTANTS
    Job,           \* identities of table rows, whether or not inserted yet
    TypeOf,        \* job_type of each row
    Scope,         \* FIFO scopes: a job type with a scope_key
    ScopeOf,       \* scope_key of each row of a scoped type
    KeyOf,         \* dedupe_key of each row
    WorldModels,   \* the sets of rows that belong to one L3 world model
    Runner,        \* worker runs that may be in progress at the same time
    Drain,         \* the runner that is the background drain
    Targets,       \* the targetMemoryIds filters of HTTP runs, as sets of rows
    Limit,         \* batch size of each runner
    BudgetTypes,   \* job types that consume the memory token budget
    Concurrency,   \* SUMMARY_WORKER_CONCURRENCY
    MaxAttempts,   \* max_attempts of every row
    LeaseLen,      \* length of a lease
    DeferDelay,    \* delay after ObservationDependenciesPendingError
    IdleTimeout,   \* WORK_MEMORY_IDLE_TIMEOUT_MS
    RunAfters,     \* delays an enqueue may ask for (0: none)
    MaxNow,        \* bound of the clock
    MaxCrashes     \* bound of the crashes

Statuses == {"absent", "queued", "leased", "succeeded", "failed", "dead_letter"}
Active   == {"queued", "leased", "failed"}

ScopedTypes       == {"l3_world_model_update", "work_memory_extract"}
SummaryModelTypes == {"trace_summary", "import_summary", "observation_extract", "episode_title"}
ParallelTypes     == {"trace_summary", "import_summary", "observation_extract", "embedding",
                      "l3_world_model_update", "project_environment_profile"}
RepairTypes       == {"trace_summary", "import_summary", "observation_extract", "embedding"}

OfType(S) == {j \in Job : TypeOf[j] \in S}
Scoped    == OfType(ScopedTypes)

\* allowedMemoryBudgetJobTypes picks from MEMORY_WORKER_JOB_TYPES, where idle
\* flushes are missing: a paused budget stops them whatever model they use.
Stopped == BudgetTypes \cup {"work_memory_idle_flush"}

\* evolutionJobPrioritySql for targets that are neither onboarding reports,
\* imported memories, manual retries nor startup repairs: the smaller the more
\* urgent.
Priority(j) ==
    CASE TypeOf[j] \in {"trace_summary", "observation_extract"} -> 1
      [] TypeOf[j] = "import_summary"              -> 2
      [] TypeOf[j] = "embedding"                   -> 3
      [] TypeOf[j] = "episode_title"               -> 15
      [] TypeOf[j] = "reward"                      -> 30
      [] TypeOf[j] = "project_environment_profile" -> 55
      [] TypeOf[j] = "l3_world_model_update"       -> 60
      [] OTHER                                     -> 100

ASSUME ConstantsAssumption ==
    /\ IsFiniteSet(Job)
    /\ ScopeOf \in [Scoped -> Scope]
    /\ Drain \in Runner
    /\ MaxAttempts \in Nat \ {0} /\ Concurrency \in Nat \ {0}
    /\ LeaseLen \in Nat \ {0}
    /\ DeferDelay \in Nat /\ IdleTimeout \in Nat
    /\ RunAfters \subseteq Nat
    /\ Targets \subseteq SUBSET Job
    /\ WorldModels \subseteq SUBSET OfType({"l3_world_model_update",
                                            "project_environment_profile"})

\* uq_evolution_jobs_l3_immutable_dedupe: an L3 row never shares its key.
ASSUME ImmutableKeyAssumption ==
    \A i \in OfType({"l3_world_model_update", "project_environment_profile"}) :
        \A j \in Job : KeyOf[i] = KeyOf[j] => i = j

\* work_memory_idle_flush:<session> is the key of one row, reused for ever.
ASSUME FlushKeyAssumption ==
    \A i \in OfType({"work_memory_idle_flush"}) :
        \A j \in Job : KeyOf[i] = KeyOf[j] => i = j

VARIABLES
    job,          \* evolution_jobs: one row per element of Job
    lastSeq,      \* last scope_seq handed out per scope (rows are never deleted)
    now,          \* the clock
    run,          \* what each worker run has leased and not settled yet
    dropped,      \* rows a rejected run gave up, until they are leased again
    reconciled,   \* startupReconciled of the drain
    paused,       \* memoryBudgetPaused()
    configured,   \* summaryModelConfigured()
    crashes       \* process restarts so far

vars == <<job, lastSeq, now, run, dropped, reconciled, paused, configured, crashes>>

Row == [status : Statuses, attempts : Nat, leasedUntil : Nat, runAfter : Nat,
        seq : Nat, fails : Nat]

\* held: leased, not started.  batch: what is left of the parallel batch that
\* the run is working through.  active: started.  stray: started by a run
\* that has rejected in the meantime, so that nothing awaits it any more.
NoWork == [held |-> {}, batch |-> {}, active |-> {}, stray |-> {}]

TypeOK ==
    /\ job \in [Job -> Row]
    /\ lastSeq \in [Scope -> Nat]
    /\ now \in Nat
    /\ run \in [Runner -> [held : SUBSET Job, batch : SUBSET Job,
                           active : SUBSET Job, stray : SUBSET Job]]
    /\ dropped \in SUBSET Job
    /\ reconciled \in BOOLEAN /\ paused \in BOOLEAN /\ configured \in BOOLEAN
    /\ crashes \in Nat

Init ==
    /\ job = [j \in Job |-> [status |-> "absent", attempts |-> 0, leasedUntil |-> 0,
                             runAfter |-> 0, seq |-> 0, fails |-> 0]]
    /\ lastSeq = [s \in Scope |-> 0]
    /\ now = 1
    /\ run = [r \in Runner |-> NoWork] /\ dropped = {}
    /\ reconciled = FALSE /\ paused = FALSE /\ configured = TRUE
    /\ crashes = 0

-----------------------------------------------------------------------------
(* Statements on the table.  Each takes a table and returns the table that *)
(* the SQL leaves behind, so that one synchronous handler composes them.   *)


\* The rows other than j that hold j's key in uq_evolution_jobs_active_dedupe.
Rivals(T, j) == {i \in Job \ {j} : KeyOf[i] = KeyOf[j] /\ T[i].status \in Active}

NewRow(after, seq) ==
    [status |-> "queued", attempts |-> 0, leasedUntil |-> 0, runAfter |-> after,
     seq |-> seq, fails |-> 0]

Smaller(m, n) == IF m <= n THEN m ELSE n

\* mergeJobPayload: two deadlines merge to the earlier one, a single one wins.
MergeRunAfter(old, new) ==
    IF new = 0 THEN old ELSE IF old = 0 THEN new ELSE Smaller(old, new)

\* requeueFailedJobs on the rows F that its LIMIT selects.
RequeueFailed(T, F) ==
    [j \in Job |-> IF j \in F THEN [T[j] EXCEPT !.status = "queued", !.leasedUntil = 0]
                              ELSE T[j]]

\* Mutant of RequeueLeased: the statement loses its status = 'leased' and MAX(0, ...).
RequeueAny(T, S) ==
    [j \in Job |-> IF j \in S
                   THEN [T[j] EXCEPT !.status = "queued", !.leasedUntil = 0, !.attempts = @ - 1]
                   ELSE T[j]]

\* Mutant of RequeueLeased: the attempt of the lease is not given back.
RequeueUnrefunded(T, S) ==
    [j \in Job |-> IF j \in S /\ T[j].status = "leased"
                   THEN [T[j] EXCEPT !.status = "queued", !.leasedUntil = 0]
                   ELSE T[j]]

\* requeueLeasedJobsWhere: the leased rows among S go back and get back the
\* attempt their lease took.
RequeueLeased(T, S) ==
    [j \in Job |-> IF j \in S /\ T[j].status = "leased"
                   THEN [T[j] EXCEPT !.status = "queued", !.leasedUntil = 0,
                                     !.attempts = IF @ > 0 THEN @ - 1 ELSE 0]
                   ELSE T[j]]

\* The rows that startup repair and the observation backfill insert: rows of
\* memories whose processing has no pending job.
Backfill(T, N) == [j \in Job |-> IF j \in N THEN NewRow(0, 0) ELSE T[j]]

Insertable(T, types) ==
    {N \in SUBSET {j \in OfType(types) : T[j].status = "absent" /\ Rivals(T, j) = {}} :
        \A i, j \in N : KeyOf[i] = KeyOf[j] => i = j}

\* Mutant of Retryable: dead letters with attempts left are retried too.
RetryableDead(T, S) ==
    {j \in S : T[j].status \in {"failed", "dead_letter"} /\ T[j].attempts < MaxAttempts}

Retryable(T, S) == {j \in S : T[j].status = "failed" /\ T[j].attempts < MaxAttempts}

Expired(T) == {j \in Job : T[j].status = "leased" /\ T[j].leasedUntil <= now}

\* reconcileWorkerStartup on the table: every lease belongs to a dead process.
Reconcile(T) ==
    LET t == RequeueLeased(T, Job) IN RequeueFailed(t, Retryable(t, Job))

\* Mutant of NextInScope: only a leased companion holds a row back.
NextInScopeUnleased(T, j) ==
    \A i \in Scoped \ {j} : ScopeOf[i] = ScopeOf[j] => T[i].status # "leased"

\* The scoped row j is next in its scope: nothing else of the scope is leased
\* and nothing earlier is unfinished.
NextInScope(T, j) ==
    \A i \in Scoped \ {j} :
        ScopeOf[i] = ScopeOf[j] =>
            /\ T[i].status # "leased"
            /\ T[i].seq < T[j].seq => T[i].status \notin Active

\* The WHERE clause of leaseQueuedJobs; gated are the positive rewards whose
\* L1 memory is still being processed.
Leasable(T, S, gated) ==
    {j \in S \ gated :
        /\ T[j].status = "queued" \/ j \in Expired(T)
        /\ T[j].attempts < MaxAttempts
        /\ T[j].runAfter <= now
        /\ j \in Scoped => NextInScope(T, j)
        /\ paused => TypeOf[j] \notin Stopped
        /\ ~configured => TypeOf[j] \notin SummaryModelTypes}

\* ORDER BY priority LIMIT n.
First(S, n) ==
    {L \in SUBSET S :
        /\ Cardinality(L) = Smaller(n, Cardinality(S))
        /\ \A i \in L, j \in S \ L : Priority(i) <= Priority(j)}

\* priorityCohortOnly: only the most urgent tier of the candidates.
Cohort(L) == {i \in L : \A j \in L : Priority(i) <= Priority(j)}

Lease(T, L) ==
    [j \in Job |-> IF j \in L
                   THEN [T[j] EXCEPT !.status = "leased", !.attempts = @ + 1,
                                     !.leasedUntil = now + LeaseLen]
                   ELSE T[j]]

Complete(T, j) == [T EXCEPT ![j].status = "succeeded", ![j].leasedUntil = 0]

\* Mutant of FailStatus: one failure too many before the dead letter.
FailStatusLate(T, j, force) ==
    IF force \/ T[j].attempts > MaxAttempts THEN "dead_letter" ELSE "failed"

\* failJob: a dead-lettered row stays as it is.
FailStatus(T, j, force) ==
    IF force \/ T[j].attempts >= MaxAttempts THEN "dead_letter" ELSE "failed"

Fail(T, j, force) ==
    IF T[j].status = "dead_letter" THEN T
    ELSE [T EXCEPT ![j].status = FailStatus(T, j, force), ![j].leasedUntil = 0,
                   ![j].fails = @ + 1]

\* Mutant of FailRaises: the table lacks uq_evolution_jobs_active_dedupe.
FailRaisesNever(T, j, force) == FALSE

\* The UPDATE of failJob raises: it would bring a finished row back while
\* another row with its key is unfinished.
FailRaises(T, j, force) ==
    /\ T[j].status # "dead_letter" /\ FailStatus(T, j, force) = "failed"
    /\ Rivals(T, j) # {}

\* Mutant of Defer: waiting for a dependency costs the attempt.
DeferCharged(T, j) ==
    IF T[j].status = "leased"
    THEN [T EXCEPT ![j].status = "queued", ![j].leasedUntil = 0, ![j].runAfter = now + DeferDelay]
    ELSE T

\* deferProcessingJob.
Defer(T, j) ==
    LET t == RequeueLeased(T, {j}) IN
    IF T[j].status = "leased" THEN [t EXCEPT ![j].runAfter = now + DeferDelay] ELSE T

-----------------------------------------------------------------------------
(* Producers. *)

\* enqueueJobInTransaction, and insertImmutableJob for L3 rows, without an
\* unfinished row of the same key: insert, with the next number of the scope.
Insert(j, d) ==
    /\ TypeOf[j] # "work_memory_idle_flush"
    /\ job[j].status = "absent" /\ Rivals(job, j) = {}
    /\ job' = [job EXCEPT ![j] =
                  NewRow(IF d = 0 THEN 0 ELSE now + d,
                         IF j \in Scoped THEN lastSeq[ScopeOf[j]] + 1 ELSE 0)]
    /\ lastSeq' = IF j \in Scoped THEN [lastSeq EXCEPT ![ScopeOf[j]] = @ + 1] ELSE lastSeq
    /\ UNCHANGED <<now, run, dropped, reconciled, paused, configured, crashes>>

\* enqueueJobInTransaction with an unfinished row j of the same key: merge,
\* and revive the row if it has failed.  The Work Memory producer comes here
\* only for a failed row, L3 rows and idle flushes never do.
Merge(j, d) ==
    /\ TypeOf[j] \notin {"l3_world_model_update", "project_environment_profile",
                         "work_memory_idle_flush"}
    /\ job[j].status \in Active
    /\ TypeOf[j] = "work_memory_extract" => job[j].status = "failed"
    /\ job' = [job EXCEPT
                  ![j].status = IF @ = "failed" THEN "queued" ELSE @,
                  ![j].leasedUntil = IF job[j].status = "failed" THEN 0 ELSE @,
                  ![j].runAfter = MergeRunAfter(@, IF d = 0 THEN 0 ELSE now + d)]
    /\ UNCHANGED <<lastSeq, now, run, dropped, reconciled, paused, configured, crashes>>

\* armWorkMemoryIdleFlush: the session's only flush row starts afresh,
\* whatever its state was.
Arm(j) ==
    /\ TypeOf[j] = "work_memory_idle_flush"
    /\ job' = [job EXCEPT ![j] = NewRow(now + IdleTimeout, 0)]
    /\ UNCHANGED <<lastSeq, now, run, dropped, reconciled, paused, configured, crashes>>

\* deleteScopeMemory: the updates of a deleted world model count as done,
\* the leased ones too; profile scans only when not leased.
DeleteWorldModel(W) ==
    /\ job' = [j \in Job |->
                  IF /\ j \in W
                     /\ job[j].status \in IF TypeOf[j] = "l3_world_model_update"
                                          THEN Active ELSE {"queued", "failed"}
                  THEN [job[j] EXCEPT !.status = "succeeded", !.leasedUntil = 0]
                  ELSE job[j]]
    /\ UNCHANGED <<lastSeq, now, run, dropped, reconciled, paused, configured, crashes>>

-----------------------------------------------------------------------------
(* Worker runs. *)

\* The observation backfill of a run that is not limited to some memories.
Backfilled(S) == IF S = Job /\ configured /\ ~paused THEN {"observation_extract"} ELSE {}

\* The table ready for leasing: the failures F retried and, while the budget
\* is paused, the expired leases of the types it stops given back.
Retried(T, F) ==
    LET t == RequeueFailed(T, F)
    IN  IF paused THEN RequeueLeased(t, Expired(t) \cap OfType(Stopped)) ELSE t

\* The drain's first step after a start: reconcileWorkerStartup with the rows
\* that it and the observation backfill insert.
StartupReconcile ==
    /\ ~reconciled /\ reconciled' = TRUE
    /\ \E N \in Insertable(job, RepairTypes) : job' = Reconcile(Backfill(job, N))
    /\ UNCHANGED <<lastSeq, now, run, dropped, paused, configured, crashes>>

\* The synchronous head of runWorkerOnce: backfill, retry, lease.  An await
\* separates it from the drain's reconciliation.
RunStart(r) ==
    /\ r = Drain => reconciled
    /\ run[r].held = {} /\ run[r].active = {}
    /\ \E S \in IF r = Drain THEN {Job} ELSE Targets,
          cohort \in IF r = Drain THEN {TRUE} ELSE BOOLEAN,
          gated \in SUBSET OfType({"reward"}) :
       \E N \in Insertable(job, Backfilled(S)) :
       \E F \in First(Retryable(Backfill(job, N), S), Limit[r]) :
       \E L \in First(Leasable(Retried(Backfill(job, N), F), S, gated), Limit[r]) :
       LET batch == IF cohort THEN Cohort(L) ELSE L
       IN  /\ job' = Lease(Retried(Backfill(job, N), F), batch)
           /\ run' = [run EXCEPT ![r].held = batch]
           /\ dropped' = dropped \ batch
    /\ UNCHANGED <<lastSeq, now, reconciled, paused, configured, crashes>>

\* What the run takes off the head of its queue S, which is in lease order:
\* one job, or the jobs of one parallel type up to the next job of another.
Batches(S) ==
    {B \in SUBSET Cohort(S) :
        \E t \in {TypeOf[j] : j \in B} :
            /\ B \subseteq OfType({t})
            /\ t \notin ParallelTypes => Cardinality(B) = 1
            /\ t \in ParallelTypes /\ Cohort(S) \subseteq OfType({t}) => B = Cohort(S)}

\* The jobs of batch B that start together.
Chunks(B) ==
    IF B \subseteq OfType({"embedding"}) THEN {B}
    ELSE {C \in SUBSET B : Cardinality(C) = Smaller(Concurrency, Cardinality(B))}

\* The run goes on with the parallel batch it is in: inside one, only a pause
\* that stops the type of the batch counts.
GoesOn(r) == run[r].batch # {} /\ ~(paused /\ run[r].batch \subseteq OfType(BudgetTypes))

\* The budgeted jobs that a paused run gives back at the head of its queue.
GivenBack(r) == IF paused /\ ~GoesOn(r) THEN run[r].held \cap OfType(BudgetTypes) ELSE {}

\* Mutant of Started: the first chunk of a batch is not taken off the queue.
StartedKept(r, rest) ==
    \E B \in IF GoesOn(r) THEN {run[r].batch} ELSE Batches(rest) : \E C \in Chunks(B) :
        run' = [run EXCEPT ![r].held = rest, ![r].batch = B \ C, ![r].active = C]

\* Run r starts a chunk of its batch, or of the next one among the rows rest.
Started(r, rest) ==
    \E B \in IF GoesOn(r) THEN {run[r].batch} ELSE Batches(rest) : \E C \in Chunks(B) :
        run' = [run EXCEPT ![r].held = rest \ C, ![r].batch = B \ C, ![r].active = C]

\* Mutant of Dispatch: a pause drops the jobs not started without giving them back.
DispatchForgets(r) ==
    /\ run[r].held # {} /\ run[r].active = {}
    /\ LET rest == run[r].held \ GivenBack(r)
       IN \/ rest = {} /\ run' = [run EXCEPT ![r].held = {}, ![r].batch = {}]
          \/ Started(r, rest)
    /\ UNCHANGED <<job, lastSeq, now, dropped, reconciled, paused, configured, crashes>>

\* Between two awaits of runWorkerOnce: while the budget is paused give back
\* the budgeted jobs not started yet, then start the next chunk.
Dispatch(r) ==
    /\ run[r].held # {} /\ run[r].active = {}
    /\ LET rest == run[r].held \ GivenBack(r)
       IN /\ job' = RequeueLeased(job, GivenBack(r))
          /\ \/ rest = {} /\ run' = [run EXCEPT ![r].held = {}, ![r].batch = {}]
             \/ Started(r, rest)
    /\ UNCHANGED <<lastSeq, now, dropped, reconciled, paused, configured, crashes>>

\* Runner r's execution of j has ended.
Settled(r, j) ==
    IF j \in run[r].active THEN [run EXCEPT ![r].active = @ \ {j}]
                           ELSE [run EXCEPT ![r].stray = @ \ {j}]

InFlight(r) == run[r].active \cup run[r].stray

\* completeLeasedWorkerJob.
JobSucceeds(r, j) ==
    /\ j \in InFlight(r)
    /\ job' = Complete(job, j) /\ run' = Settled(r, j)
    /\ UNCHANGED <<lastSeq, now, dropped, reconciled, paused, configured, crashes>>

\* failLeasedWorkerJob; force is forceDeadLetter.
JobFails(r, j, force) ==
    /\ j \in InFlight(r) /\ ~FailRaises(job, j, force)
    /\ job' = Fail(job, j, force) /\ run' = Settled(r, j)
    /\ UNCHANGED <<lastSeq, now, dropped, reconciled, paused, configured, crashes>>

\* failJob throws inside the catch block: runWorkerOnce rejects, forgets the
\* jobs it has not started and no longer waits for the rest of the chunk, of
\* which only an embedding batch is certain to be left.
RunRejects(r, j, force) ==
    /\ j \in InFlight(r) /\ FailRaises(job, j, force)
    /\ IF j \in run[r].active
       THEN /\ run' = [run EXCEPT ![r] = [held |-> {}, batch |-> {}, active |-> {},
                                          stray |-> run[r].stray \cup (run[r].active \ {j})]]
            /\ dropped' = dropped \cup run[r].held
                                  \cup (run[r].active \cap OfType({"embedding"}))
       ELSE run' = [run EXCEPT ![r].stray = @ \ {j}] /\ dropped' = dropped
    /\ UNCHANGED <<job, lastSeq, now, reconciled, paused, configured, crashes>>

\* failLeasedWorkerJob on ObservationDependenciesPendingError.
JobDefers(r, j) ==
    /\ j \in InFlight(r) /\ TypeOf[j] = "observation_extract"
    /\ job' = Defer(job, j) /\ run' = Settled(r, j)
    /\ UNCHANGED <<lastSeq, now, dropped, reconciled, paused, configured, crashes>>

\* Mutant of JobHeld: the held job keeps its lease.
JobHeldForgets(r, j) ==
    /\ j \in InFlight(r) /\ TypeOf[j] \in SummaryModelTypes /\ ~configured
    /\ run' = Settled(r, j)
    /\ UNCHANGED <<job, lastSeq, now, dropped, reconciled, paused, configured, crashes>>

\* holdUnconfiguredSummaryJob.
JobHeld(r, j) ==
    /\ j \in InFlight(r) /\ TypeOf[j] \in SummaryModelTypes /\ ~configured
    /\ job' = RequeueLeased(job, {j}) /\ run' = Settled(r, j)
    /\ UNCHANGED <<lastSeq, now, dropped, reconciled, paused, configured, crashes>>

-----------------------------------------------------------------------------
(* Environment. *)

Tick ==
    /\ now < MaxNow /\ now' = now + 1
    /\ UNCHANGED <<job, lastSeq, run, dropped, reconciled, paused, configured, crashes>>

\* The ledger crosses or leaves the memory token budget.
SetPaused ==
    /\ paused' = ~paused
    /\ UNCHANGED <<job, lastSeq, now, run, dropped, reconciled, configured, crashes>>

\* A reloaded configuration adds or drops the summary model.
SetConfigured ==
    /\ configured' = ~configured
    /\ UNCHANGED <<job, lastSeq, now, run, dropped, reconciled, paused, crashes>>

\* The process dies and starts again on the same database.
Crash ==
    /\ crashes < MaxCrashes /\ crashes' = crashes + 1
    /\ run' = [r \in Runner |-> NoWork] /\ dropped' = {}
    /\ reconciled' = FALSE
    /\ UNCHANGED <<job, lastSeq, now, paused, configured>>

Next ==
    \/ \E j \in Job, d \in RunAfters : Insert(j, d) \/ Merge(j, d)
    \/ \E j \in Job : Arm(j)
    \/ \E W \in WorldModels : DeleteWorldModel(W)
    \/ StartupReconcile
    \/ \E r \in Runner : RunStart(r) \/ Dispatch(r)
    \/ \E r \in Runner, j \in Job :
          \/ JobSucceeds(r, j) \/ JobDefers(r, j) \/ JobHeld(r, j)
          \/ \E force \in BOOLEAN : JobFails(r, j, force) \/ RunRejects(r, j, force)
    \/ Tick \/ SetPaused \/ SetConfigured \/ Crash

Spec == Init /\ [][Next]_vars

-----------------------------------------------------------------------------
(* Properties of any number of overlapping runs. *)

\* However runs overlap, every unfinished row can still be taken up.  What
\* waits has an attempt left, for leaseQueuedJobs and requeueFailedJobs both
\* skip rows without one; a lease has taken an attempt, so that giving it back
\* never meets the MAX(0, ...) floor; and once started up a leased row is in
\* the hands of a run, except those a rejected run gave up.  One of these at
\* its last attempt is not leased again when its lease expires (attempts <
\* max_attempts) and stays leased until the next start.
NoRowStranded ==
    \A j \in Job :
        /\ job[j].status \in {"queued", "failed"} => job[j].attempts < MaxAttempts
        /\ job[j].status = "leased" =>
              /\ job[j].attempts \in 1 .. MaxAttempts
              /\ reconciled => \/ j \in dropped
                               \/ \E r \in Runner : j \in run[r].held \cup InFlight(r)

\* No two unfinished rows share a dedupe key, whatever mixture of enqueues,
\* backfills, re-armed flushes and late failures of finished rows happens.
DedupeUnique ==
    \A i, j \in Job :
        KeyOf[i] = KeyOf[j] /\ job[i].status \in Active /\ job[j].status \in Active => i = j

(* Properties that hold while the drain is the only runner. *)

\* The jobs of one scope execute one at a time and in order: a leased row has
\* no leased companion and no unfinished predecessor (leaseQueuedJobs).
ScopeFIFO ==
    \A i, j \in Scoped :
        /\ ScopeOf[i] = ScopeOf[j] /\ i # j
        /\ job[j].status = "leased" /\ job[i].status \in Active
        => job[i].status # "leased" /\ job[i].seq > job[j].seq

\* Attempts count failed executions and nothing else: leases given back by a
\* pause, a missing model, a pending dependency or a restart are free
\* (requeueLeasedJobsWhere, deferProcessingJob), and a row dies only of
\* failures.  Re-armed flush rows restart both counters and are left out.
AttemptsCountFailures ==
    \A j \in Job \ OfType({"work_memory_idle_flush"}) :
        /\ job[j].status \in {"queued", "failed", "dead_letter"} => job[j].attempts = job[j].fails
        /\ job[j].status = "leased" => job[j].attempts = job[j].fails + 1

\* Once started up, the service knows every lease it has given: a leased row
\* is in the hands of some run, so it is settled without waiting for expiry.
LeasesOwned ==
    reconciled => \A j \in Job : job[j].status = "leased" =>
                      \E r \in Runner : j \in run[r].held \cup InFlight(r)

\* Settling a job never violates the unique index, hence never rejects a run
\* and abandons the jobs it holds (failLeasedWorkerJob calls failJob in a
\* catch block).
NoRunRejects ==
    \A r \in Runner : /\ run[r].stray = {}
                      /\ \A j \in InFlight(r) : ~FailRaises(job, j, FALSE)

\* A finished row is never executed, failed or queued again.  Flush rows are
\* reused by design; L3 rows of a deleted world model can still fail late.
TerminalStable ==
    [][\A j \in Job \ OfType({"work_memory_idle_flush", "l3_world_model_update"}) :
          job[j].status \in {"succeeded", "dead_letter"} => job'[j].status = job[j].status]_vars

=============================================================================
