--------------------------- MODULE AutoWorkerDrain ---------------------------
(***************************************************************************)
(* The background drain of the memory HTTP server (createAutoWorkerDrain): *)
(* the flags and timers that decide when runWorkerOnce is called, on top   *)
(* of a queue reduced to what wakes the drain: a row's status, the time    *)
(* after which it may run, its lease and its attempts.  A row stands for   *)
(* an evolution job or for an embedding retry; only the drain runs them.   *)
(*                                                                         *)
(* The drain's variables are one record d.  phase is "off" while no drain  *)
(* runs, "call" while runWorkerOnce waits for the token budget, "work"     *)
(* while its batch runs and "yield" in yieldToEventLoop.  plain and again  *)
(* are the zero-delay callbacks pending from schedule() and from the end   *)
(* of a drain; both were stored in scheduledTimer, and handle names the    *)
(* one it still refers to.  startup is startupTimer; delayed is the        *)
(* deadline of delayedTimer.  0 stands for undefined and for SQL NULL.     *)
(***************************************************************************)
EXTENDS Integers, FiniteSets

CONSTANTS
    Job,
    BatchSize,     \* workerBatchSize
    MaxCycles,     \* maxCycles
    MaxAttempts,   \* max_attempts of every row
    LeaseLen,      \* length of a lease
    Delays,        \* delays of new and of deferred jobs (0: none)
    MaxNow,        \* bound of the deadlines
    MaxSettles,    \* bound of the calls of the two listeners
    MaxRejects     \* bound of the rejected runs

ASSUME DrainAssumption ==
    /\ IsFiniteSet(Job)
    /\ BatchSize \in Nat \ {0} /\ MaxCycles \in Nat \ {0} /\ MaxAttempts \in Nat \ {0}
    /\ LeaseLen \in Nat \ {0} /\ Delays \subseteq Nat

VARIABLES job, batch, d, now, settles, rejects

vars == <<job, batch, d, now, settles, rejects>>

Row == [status : {"absent", "queued", "leased", "failed", "succeeded", "dead_letter"},
        after : Nat, until : Nat, attempts : 0 .. MaxAttempts]

TypeOK ==
    /\ job \in [Job -> Row] /\ batch \subseteq Job
    /\ d \in [phase : {"off", "call", "work", "yield"}, cycle : 0 .. MaxCycles - 1,
              any : BOOLEAN, soon : BOOLEAN, requested : BOOLEAN, scheduled : BOOLEAN,
              disposed : BOOLEAN, released : BOOLEAN, started : BOOLEAN,
              reconciled : BOOLEAN, startup : BOOLEAN, delayed : Nat,
              plain : BOOLEAN, again : Nat, handle : {"none", "plain", "again"}]
    /\ now \in Nat /\ settles \in Nat /\ rejects \in Nat

NewRow(after) == [status |-> "queued", after |-> after, until |-> 0, attempts |-> 0]

Absent == [status |-> "absent", after |-> 0, until |-> 0, attempts |-> 0]

\* Rows an earlier process left behind.  A failed one has attempts left: failJob
\* makes it a dead letter otherwise.
LeftBehind ==
    {Absent, NewRow(2), [status |-> "leased", after |-> 0, until |-> 2, attempts |-> 1]}
    \cup {r \in {[status |-> "failed", after |-> 0, until |-> 0, attempts |-> 1]} :
            r.attempts < MaxAttempts}

\* The server listens.
Init ==
    /\ job \in [Job -> LeftBehind]
    /\ batch = {}
    /\ d = [phase |-> "off", cycle |-> 0, any |-> FALSE, soon |-> FALSE, requested |-> FALSE,
            scheduled |-> FALSE, disposed |-> FALSE, released |-> FALSE, started |-> FALSE,
            reconciled |-> FALSE, startup |-> TRUE, delayed |-> 0,
            plain |-> FALSE, again |-> 0, handle |-> "none"]
    /\ now = 1 /\ settles = 0 /\ rejects = 0

-----------------------------------------------------------------------------
(* The queue. *)

\* requeueLeasedJobsAfterRestart and requeueFailedJobs.
Reconciled(T) ==
    [j \in Job |->
        CASE T[j].status = "leased" ->
                [T[j] EXCEPT !.status = "queued", !.until = 0, !.attempts = @ - 1]
          [] T[j].status = "failed" /\ T[j].attempts < MaxAttempts ->
                [T[j] EXCEPT !.status = "queued"]
          [] OTHER -> T[j]]

Retried(T) ==
    [j \in Job |-> IF T[j].status = "failed" /\ T[j].attempts < MaxAttempts
                   THEN [T[j] EXCEPT !.status = "queued"] ELSE T[j]]

\* What leaseQueuedJobs may take.
Due(T) ==
    {j \in Job : /\ \/ T[j].status = "queued"
                    \/ T[j].status = "leased" /\ T[j].until <= now
                 /\ T[j].attempts < MaxAttempts
                 /\ T[j].after <= now}

Leased(T, B) ==
    [j \in Job |-> IF j \in B THEN [T[j] EXCEPT !.status = "leased", !.until = now + LeaseLen,
                                                !.attempts = @ + 1]
                              ELSE T[j]]

\* nextWorkerRunAt considers queued rows that have a runAfter and leases that
\* can be taken over; rows that have failed or are due at once are not asked.
\* The budget's own wake-up times only add runs and are left out.
RunTimes(T) ==
    {T[j].after : j \in {k \in Job : /\ T[k].status = "queued" /\ T[k].after # 0
                                     /\ T[k].attempts < MaxAttempts}}
    \cup {T[j].until : j \in {k \in Job : T[k].status = "leased" /\ T[k].attempts < MaxAttempts}}

-----------------------------------------------------------------------------
(* The functions of the drain, on its record x. *)

\* scheduleNextDueJob: at the earliest run time, not before the next instant.
NextDue(x, T) ==
    LET times == RunTimes(T)
        first == CHOOSE t \in times : \A u \in times : t <= u
    IN  IF x.disposed \/ x.delayed # 0 \/ times = {} THEN x
        ELSE [x EXCEPT !.delayed = IF first <= now THEN now + 1 ELSE first]

\* schedule().
Schedule(x) ==
    IF x.disposed THEN x
    ELSE LET y == [x EXCEPT !.released = TRUE, !.requested = TRUE, !.startup = FALSE,
                            !.delayed = 0]
         IN  IF x.scheduled THEN y
             ELSE [y EXCEPT !.scheduled = TRUE, !.plain = TRUE, !.handle = "plain"]

\* Mutant of Drain: only the timers are trusted to know about dispose().
DrainBlind(x) ==
    IF x.phase # "off" THEN [x EXCEPT !.started = TRUE, !.requested = TRUE]
    ELSE [x EXCEPT !.started = TRUE, !.reconciled = TRUE, !.requested = FALSE,
                   !.phase = "call", !.cycle = 0, !.soon = FALSE]

\* drain() up to its first await.
Drain(x) ==
    CASE x.disposed -> x
      [] ~x.disposed /\ x.phase # "off" -> [x EXCEPT !.started = TRUE, !.requested = TRUE]
      [] OTHER -> [x EXCEPT !.started = TRUE, !.reconciled = TRUE, !.requested = FALSE,
                            !.phase = "call", !.cycle = 0, !.soon = FALSE]

\* Mutant of Finish: a drain that has used up its cycles goes to sleep.
FinishSleeps(x, T) ==
    LET y == [x EXCEPT !.phase = "off"] IN
    CASE y.disposed -> y
      [] ~y.disposed /\ y.requested -> [y EXCEPT !.again = @ + 1, !.handle = "again"]
      [] OTHER -> NextDue(y, T)

\* The finally block of drain().
Finish(x, T) ==
    LET y == [x EXCEPT !.phase = "off"] IN
    CASE y.disposed -> y
      [] ~y.disposed /\ (y.requested \/ y.soon) ->
            [y EXCEPT !.again = @ + 1, !.handle = "again"]
      [] OTHER -> NextDue(y, T)

\* The test of the outer loop: drain again if schedule() was called meanwhile.
LoopTest(x, T) ==
    IF x.requested /\ ~x.soon /\ ~x.disposed
    THEN [x EXCEPT !.requested = FALSE, !.phase = "call", !.cycle = 0]
    ELSE Finish(x, T)

-----------------------------------------------------------------------------
(* Requests. *)

\* An HTTP handler enqueues a job and calls schedule().
Enqueue(j, delay) ==
    /\ job[j].status = "absent" /\ now + delay <= MaxNow
    /\ job' = [job EXCEPT ![j] = NewRow(IF delay = 0 THEN 0 ELSE now + delay)]
    /\ d' = Schedule(d)
    /\ UNCHANGED <<batch, now, settles, rejects>>

\* afterHealthCheck(): the startup timer is set anew.
AfterHealthCheck ==
    /\ ~d.disposed /\ ~d.released
    /\ d' = [d EXCEPT !.released = TRUE, !.startup = TRUE]
    /\ UNCHANGED <<job, batch, now, settles, rejects>>

\* The listener of setAppBudgetReconcileListener.
BudgetSettles ==
    /\ now <= MaxNow /\ settles < MaxSettles /\ settles' = settles + 1
    /\ ~d.disposed /\ d.started
    /\ d' = NextDue([d EXCEPT !.delayed = 0], job)
    /\ UNCHANGED <<job, batch, now, rejects>>

\* The listener of setPersistRecoveredListener.
PersistRecovers ==
    /\ settles < MaxSettles /\ settles' = settles + 1
    /\ ~d.disposed /\ d.started
    /\ d' = Schedule(d)
    /\ UNCHANGED <<job, batch, now, rejects>>

\* dispose() up to its await of activeDrain, that is of phase = "off".
Dispose ==
    /\ ~d.disposed
    /\ d' = [d EXCEPT !.disposed = TRUE, !.requested = FALSE, !.startup = FALSE, !.delayed = 0,
                      !.plain = @ /\ d.handle # "plain",
                      !.again = IF d.handle = "again" THEN @ - 1 ELSE @,
                      !.handle = "none"]
    /\ UNCHANGED <<job, batch, now, settles, rejects>>

-----------------------------------------------------------------------------
(* Timers. *)

\* drain() called by a timer, x being the record after the timer's own lines.
Wake(x) ==
    /\ d' = Drain(x)
    /\ job' = IF Drain(x).reconciled /\ ~x.reconciled THEN Reconciled(job) ELSE job
    /\ UNCHANGED <<batch, now, settles, rejects>>

StartupFires ==
    /\ d.startup
    /\ d' = Schedule([d EXCEPT !.startup = FALSE])
    /\ UNCHANGED <<job, batch, now, settles, rejects>>

ScheduledFires ==
    /\ d.plain
    /\ Wake([d EXCEPT !.plain = FALSE, !.scheduled = FALSE, !.handle = "none"])

AgainFires ==
    /\ d.again > 0
    /\ Wake([d EXCEPT !.again = @ - 1, !.requested = TRUE, !.handle = "none"])

DelayedFires ==
    /\ d.delayed # 0 /\ d.delayed <= now
    /\ Wake([d EXCEPT !.delayed = 0, !.requested = TRUE])

-----------------------------------------------------------------------------
(* A drain in progress. *)

\* runWorkerOnce resumes after ensureAppBudgetReconciled: retry and lease.
LeaseBatch ==
    /\ d.phase = "call"
    /\ \E B \in SUBSET Due(Retried(job)) :
          /\ Cardinality(B) <= BatchSize /\ (B = {} => Due(Retried(job)) = {})
          /\ job' = Leased(Retried(job), B) /\ batch' = B
          /\ d' = [d EXCEPT !.phase = "work", !.any = (B # {})]
    /\ UNCHANGED <<now, settles, rejects>>

\* A job of the batch ends well and may leave a follow-up job in the queue.
JobSucceeds(j) ==
    /\ j \in batch /\ batch' = batch \ {j}
    /\ LET T == [job EXCEPT ![j].status = "succeeded"]
       IN  \/ job' = T
           \/ \E k \in Job, delay \in Delays :
                 /\ job[k].status = "absent" /\ now + delay <= MaxNow
                 /\ job' = [T EXCEPT ![k] = NewRow(IF delay = 0 THEN 0 ELSE now + delay)]
    /\ UNCHANGED <<d, now, settles, rejects>>

\* Mutant of JobFails: a failure does not cost the attempt.
JobFailsFree(j) ==
    /\ j \in batch /\ batch' = batch \ {j}
    /\ job' = [job EXCEPT ![j].status = "failed", ![j].attempts = @ - 1]
    /\ UNCHANGED <<d, now, settles, rejects>>

JobFails(j) ==
    /\ j \in batch /\ batch' = batch \ {j}
    /\ job' = [job EXCEPT ![j].status = IF job[j].attempts >= MaxAttempts THEN "dead_letter"
                                        ELSE "failed"]
    /\ UNCHANGED <<d, now, settles, rejects>>

\* deferProcessingJob.
JobDefers(j) ==
    /\ j \in batch /\ batch' = batch \ {j}
    /\ \E delay \in Delays \ {0} :
          /\ now + delay <= MaxNow
          /\ job' = [job EXCEPT ![j].status = "queued", ![j].attempts = @ - 1,
                                ![j].after = now + delay]
    /\ UNCHANGED <<d, now, settles, rejects>>

\* failClaimedEmbeddingRetry with attempts left.
JobBacksOff(j) ==
    /\ j \in batch /\ batch' = batch \ {j}
    /\ job[j].attempts < MaxAttempts
    /\ \E delay \in Delays \ {0} :
          /\ now + delay <= MaxNow
          /\ job' = [job EXCEPT ![j].status = "queued", ![j].after = now + delay]
    /\ UNCHANGED <<d, now, settles, rejects>>

\* runWorkerOnce returns: an empty batch ends the inner loop.
BatchEnds ==
    /\ d.phase = "work" /\ batch = {}
    /\ d' = IF d.any THEN [d EXCEPT !.phase = "yield", !.soon = @ \/ d.cycle = MaxCycles - 1]
            ELSE LoopTest(d, job)
    /\ UNCHANGED <<job, batch, now, settles, rejects>>

\* Mutant of YieldEnds: the inner loop has no last cycle.
YieldEndsNever ==
    /\ d.phase = "yield"
    /\ d' = IF ~d.disposed THEN [d EXCEPT !.phase = "call", !.cycle = @ + 1] ELSE LoopTest(d, job)
    /\ UNCHANGED <<job, batch, now, settles, rejects>>

\* yieldToEventLoop() returns.
YieldEnds ==
    /\ d.phase = "yield"
    /\ d' = IF d.cycle + 1 < MaxCycles /\ ~d.disposed
            THEN [d EXCEPT !.phase = "call", !.cycle = @ + 1]
            ELSE LoopTest(d, job)
    /\ UNCHANGED <<job, batch, now, settles, rejects>>

\* runWorkerOnce rejects; what it has leased stays leased.
RunRejects ==
    /\ rejects < MaxRejects /\ rejects' = rejects + 1
    /\ d.phase \in {"call", "work"}
    /\ d' = Finish(d, job) /\ batch' = {}
    /\ UNCHANGED <<job, now, settles>>

\* Time passes: until MaxNow, and on while a timer is set for later.
Tick ==
    /\ now < MaxNow \/ now < d.delayed
    /\ now' = now + 1
    /\ UNCHANGED <<job, batch, d, settles, rejects>>

Timers == StartupFires \/ ScheduledFires \/ AgainFires \/ DelayedFires
Cycle  == LeaseBatch \/ BatchEnds \/ YieldEnds
Ends(j) == JobSucceeds(j) \/ JobFails(j) \/ JobDefers(j) \/ JobBacksOff(j)

Next ==
    \/ \E j \in Job, delay \in Delays : Enqueue(j, delay)
    \/ AfterHealthCheck \/ BudgetSettles \/ PersistRecovers \/ Dispose
    \/ Timers \/ Cycle \/ RunRejects
    \/ \E j \in Job : Ends(j)
    \/ Tick

Spec == Init /\ [][Next]_vars

\* Timers fire, promises settle, handlers end and time passes.
Fairness ==
    /\ WF_vars(StartupFires) /\ WF_vars(ScheduledFires)
    /\ WF_vars(AgainFires) /\ WF_vars(DelayedFires)
    /\ WF_vars(Cycle) /\ \A j \in Job : WF_vars(Ends(j))
    /\ WF_vars(Tick)

FairSpec == Spec /\ Fairness

-----------------------------------------------------------------------------

\* Once dispose() has resolved no drain ever starts again, although callbacks
\* that scheduledTimer no longer refers to may still fire.
StoppedForGood ==
    [][d.disposed /\ d.phase = "off" => d'.phase = "off"]_vars

\* A drain that sleeps has something to wake it for every row it has not
\* finished: a pending callback, or a timer if the row waits for a time.  A run
\* that rejects leaves rows behind that wait for the next request.
SleepIsCovered ==
    rejects = 0 /\ ~d.disposed /\ d.phase = "off" /\ ~d.plain /\ d.again = 0 /\ ~d.startup =>
        \A j \in Job :
            \/ job[j].status \in {"absent", "succeeded", "dead_letter"}
            \/ job[j].status = "queued" /\ job[j].after # 0 /\ d.delayed # 0

\* Every queued job is eventually leased, unless the server is shut down or a
\* run rejects.
QueuedJobsRun ==
    \A j \in Job :
        job[j].status = "queued" ~> job[j].status # "queued" \/ d.disposed \/ rejects > 0

=============================================================================
