--------------------------- MODULE SessionDagQueue ---------------------------
(***************************************************************************)
(* The queue that turns the saved turns of a chat session into its DAG:    *)
(* App/memmy-agent/src/session-dag/queue.ts over the SQLite store of        *)
(* store.ts, with the two clients it has in the agent: the agent loop, that *)
(* enqueues a turn when it is saved, and DAG compaction, that waits until   *)
(* the DAG covers a turn before it drops the turn's messages from the       *)
(* prompt (core/agent-runtime/memory.ts).                                   *)
(*                                                                         *)
(* Each session has a store, which survives a crash, and at most one queue *)
(* object, which does not.  A queue runs one worker at a time; all workers *)
(* share maxConcurrentSessionQueues slots.  The worker awaits in          *)
(* buildAndApply alone: the model call before the patch is applied, and the *)
(* debug log after it.  Every action below is one synchronous stretch of   *)
(* the event loop between two awaits.                                      *)
(*                                                                         *)
(* Turns are numbered in message order: a turn's messages start where the  *)
(* previous one's end, so message_start and message_end order them alike.  *)
(* Time is relative: a deadline is kept as the time left until it, and      *)
(* Tick lets one unit pass for all of them.                                *)
(*                                                                         *)
(* The agent loop holds the session's turn lock while it compacts, while it *)
(* saves and enqueues a turn, and while the session is deleted, so those   *)
(* three exclude each other for one session.                               *)
(***************************************************************************)
EXTENDS Integers, Sequences, FiniteSets

CONSTANTS
    Sessions,      \* session keys
    NTurns,        \* bound: turns saved per session
    MaxSaved,      \* bound: turns saved in all sessions together
    MaxAttempts,   \* SessionDagConfig.maxUpdateAttempts
    MaxQueues,     \* SessionDagConfig.maxConcurrentSessionQueues
    Backoff        \* SessionDagConfig.retryBackoffMs, in clock units

ASSUME DagAssumption ==
    /\ NTurns \in Nat
    /\ MaxAttempts \in Nat \ {0}
    /\ MaxQueues \in Nat \ {0}
    /\ Backoff \in Seq(Nat) /\ Backoff # << >>

VARIABLES
    turns,         \* dag_turns: status, attempt_count and time to next_retry_at
    last,          \* dag_meta last_processed_turn_id, 0 if unset
    pc,            \* the session's queue object and where its worker is
    cur,           \* the turn the worker holds while it builds
    timer,         \* retryTimer: time left, or Off
    closed,        \* the queue was closed to delete the session
    gone,          \* the session's DAG files were removed
    active,        \* activeWorkers
    waiters,       \* waiters of runWithSlot, in order
    comp,          \* the turn a compaction waits for, 0 if none
    consolidated   \* the last turn whose messages a compaction dropped

vars == <<turns, last, pc, cur, timer, closed, gone, active, waiters, comp, consolidated>>
store == <<turns, last>>
compaction == <<comp, consolidated>>

Turns == 1..NTurns
Off == -1
Unfinished == {"pending", "running", "retry", "blocked"}

\* Row of a turn that was never saved.
NoTurn == [status |-> "absent", attempts |-> 0, wait |-> 0]
TurnRow == [status : Unfinished \union {"absent", "done"}, attempts : Nat, wait : Nat]

\* retryDelayMs: the last entry repeats.
RetryDelay(n) == IF n < Len(Backoff) THEN Backoff[n + 1] ELSE Backoff[Len(Backoff)]

Init ==
    /\ turns = [s \in Sessions |-> [t \in Turns |-> NoTurn]]
    /\ last = [s \in Sessions |-> 0]
    /\ pc = [s \in Sessions |-> "none"]
    /\ cur = [s \in Sessions |-> 0]
    /\ timer = [s \in Sessions |-> Off]
    /\ closed = [s \in Sessions |-> FALSE]
    /\ gone = [s \in Sessions |-> FALSE]
    /\ active = 0
    /\ waiters = << >>
    /\ comp = [s \in Sessions |-> 0]
    /\ consolidated = [s \in Sessions |-> 0]

-----------------------------------------------------------------------------
(***************************************************************************)
(* wake() on an open queue, which queueFor creates if there is none: the    *)
(* timer is cleared and, unless a worker runs already, one is started with *)
(* a slot or in line for one.                                              *)
(***************************************************************************)
Wake(s) ==
    /\ timer' = [timer EXCEPT ![s] = Off]
    /\ \/ /\ pc[s] \notin {"none", "idle"}
          /\ UNCHANGED <<pc, active, waiters>>
       \/ /\ pc[s] \in {"none", "idle"}
          /\ active >= MaxQueues
          /\ pc' = [pc EXCEPT ![s] = "waiting"]
          /\ waiters' = Append(waiters, s)
          /\ UNCHANGED active
       \/ /\ pc[s] \in {"none", "idle"}
          /\ active < MaxQueues
          /\ pc' = [pc EXCEPT ![s] = "ready"]
          /\ active' = active + 1
          /\ UNCHANGED waiters

\* Mutant: the worker of a closed queue leaves its store open.
ReturnedOpen(s) == "idle"

\* The state of the queue object once its worker has returned: a closed queue
\* closes its store, which resolves closeSession.
Returned(s) == IF closed[s] THEN "none" ELSE "idle"

\* Mutant: a returning worker wakes nobody.
ReturnSilently(s) ==
    /\ active' = active - 1
    /\ pc' = [pc EXCEPT ![s] = Returned(s)]
    /\ UNCHANGED waiters

\* The worker returns: its slot passes to the first waiter, if there is one.
Return(s) ==
    \/ /\ waiters = << >>
       /\ active' = active - 1
       /\ pc' = [pc EXCEPT ![s] = Returned(s)]
       /\ UNCHANGED waiters
    \/ /\ waiters # << >>
       /\ pc' = [pc EXCEPT ![s] = Returned(s), ![Head(waiters)] = "ready"]
       /\ waiters' = Tail(waiters)
       /\ UNCHANGED active

\* scheduleRetry: a closed queue sets no timer.
ScheduleRetry(s, delay) ==
    timer' = IF closed[s] THEN timer ELSE [timer EXCEPT ![s] = delay]

-----------------------------------------------------------------------------
(***************************************************************************)
(* The worker, process().                                                  *)
(***************************************************************************)

\* Mutant: turns left running by a worker that is no more stay so.
NotReclaimed(row) == row

\* The row after claimNextTurn's first UPDATE: a turn left running by a worker
\* that is no more is up for retry.
Reclaimed(row) == IF row.status = "running" THEN [row EXCEPT !.status = "retry"] ELSE row

\* The SELECT of claimNextTurn: blocked turns ignore their deadline.
Due(row) ==
    \/ row.status \in {"pending", "retry"} /\ row.wait = 0
    \/ row.status = "blocked"

Rows(s) == [t \in Turns |-> Reclaimed(turns[s][t])]
Claimable(s) == {t \in Turns : Due(Rows(s)[t])}

\* Mutant: the worker builds without the turn it claimed.
ClaimUnheld(s) ==
    /\ pc[s] = "ready" /\ ~closed[s]
    /\ \E t \in Claimable(s) :
        /\ \A u \in Claimable(s) : t <= u
        /\ turns' = [turns EXCEPT ![s] = [Rows(s) EXCEPT ![t].status = "running"]]
    /\ pc' = [pc EXCEPT ![s] = "building"]
    /\ UNCHANGED <<last, cur, timer, closed, gone, active, waiters, compaction>>

\* claimNextTurn returns the first due turn and the model is called for it.
Claim(s) ==
    /\ pc[s] = "ready" /\ ~closed[s]
    /\ \E t \in Claimable(s) :
        /\ \A u \in Claimable(s) : t <= u
        /\ turns' = [turns EXCEPT ![s] = [Rows(s) EXCEPT ![t].status = "running"]]
        /\ cur' = [cur EXCEPT ![s] = t]
    /\ pc' = [pc EXCEPT ![s] = "building"]
    /\ UNCHANGED <<last, timer, closed, gone, active, waiters, compaction>>

\* The times left of the retries that are not due yet.
RetryWaits(s) == {Rows(s)[t].wait : t \in {u \in Turns : Rows(s)[u].status = "retry"}}

\* Mutant: the worker returns without a look at the retries that are not due.
ClaimNoneForgets(s) ==
    /\ pc[s] = "ready" /\ ~closed[s]
    /\ Claimable(s) = {}
    /\ turns' = [turns EXCEPT ![s] = Rows(s)]
    /\ Return(s)
    /\ UNCHANGED <<last, cur, timer, closed, gone, compaction>>

\* Nothing is due: the timer is set for the earliest retry, if any, and the
\* worker returns.
ClaimNone(s) ==
    /\ pc[s] = "ready" /\ ~closed[s]
    /\ Claimable(s) = {}
    /\ turns' = [turns EXCEPT ![s] = Rows(s)]
    /\ \/ RetryWaits(s) = {} /\ UNCHANGED timer
       \/ \E d \in RetryWaits(s) :
            /\ \A w \in RetryWaits(s) : d <= w
            /\ ScheduleRetry(s, d)
    /\ Return(s)
    /\ UNCHANGED <<last, cur, closed, gone, compaction>>

\* The queue was closed while the worker waited for its slot or was building.
StopClosed(s) ==
    /\ pc[s] = "ready" /\ closed[s]
    /\ Return(s)
    /\ UNCHANGED <<store, cur, timer, closed, gone, compaction>>

\* applyPatch: the patch and markTurnDone are one transaction.
MarkDone(s, next) ==
    /\ turns' = [turns EXCEPT ![s][cur[s]].status = "done", ![s][cur[s]].wait = 0]
    /\ last' = [last EXCEPT ![s] = cur[s]]
    /\ cur' = [cur EXCEPT ![s] = 0]
    /\ pc' = [pc EXCEPT ![s] = next]
    /\ UNCHANGED <<timer, closed, gone, active, waiters, compaction>>

\* The model's patch is applied; buildAndApply still has its log to write.
BuildOk(s) == pc[s] = "building" /\ MarkDone(s, "applied")

\* buildAndApply returns, and the worker goes on to the next turn.
Applied(s) ==
    /\ pc[s] = "applied"
    /\ pc' = [pc EXCEPT ![s] = "ready"]
    /\ UNCHANGED <<store, cur, timer, closed, gone, active, waiters, compaction>>

BudgetLeft(s) == turns[s][cur[s]].attempts + 1 < MaxAttempts

\* Mutant: a failed attempt is not counted.
BuildRetryUncounted(s) ==
    /\ pc[s] = "building" /\ BudgetLeft(s)
    /\ LET row == turns[s][cur[s]] IN
        /\ turns' = [turns EXCEPT ![s][cur[s]] =
             [status |-> "retry", attempts |-> row.attempts, wait |-> RetryDelay(row.attempts)]]
        /\ ScheduleRetry(s, RetryDelay(row.attempts))
    /\ cur' = [cur EXCEPT ![s] = 0]
    /\ Return(s)
    /\ UNCHANGED <<last, closed, gone, compaction>>

\* buildAndApply throws and the attempt budget is not used up: markTurnRetry.
BuildRetry(s) ==
    /\ pc[s] = "building" /\ BudgetLeft(s)
    /\ LET row == turns[s][cur[s]] IN
        /\ turns' = [turns EXCEPT ![s][cur[s]] =
             [status |-> "retry", attempts |-> row.attempts + 1, wait |-> RetryDelay(row.attempts)]]
        /\ ScheduleRetry(s, RetryDelay(row.attempts))
    /\ cur' = [cur EXCEPT ![s] = 0]
    /\ Return(s)
    /\ UNCHANGED <<last, closed, gone, compaction>>

\* buildAndApply throws on the last attempt: applyDeterministicFallback, which
\* does not await.
Fallback(s) == pc[s] = "building" /\ ~BudgetLeft(s) /\ MarkDone(s, "ready")

\* The fallback throws too: markTurnBlocked, which keeps attempt_count.
Block(s) ==
    /\ pc[s] = "building" /\ ~BudgetLeft(s)
    /\ turns' = [turns EXCEPT ![s][cur[s]].status = "blocked", ![s][cur[s]].wait = RetryDelay(0)]
    /\ ScheduleRetry(s, RetryDelay(0))
    /\ cur' = [cur EXCEPT ![s] = 0]
    /\ Return(s)
    /\ UNCHANGED <<last, closed, gone, compaction>>

\* The callback of retryTimer.
TimerFires(s) ==
    /\ timer[s] = 0
    /\ Wake(s)
    /\ UNCHANGED <<store, cur, closed, gone, compaction>>

-----------------------------------------------------------------------------
(***************************************************************************)
(* The queue's clients and its environment.                                *)
(***************************************************************************)

Saved == {x \in Sessions \X Turns : turns[x[1]][x[2]].status # "absent"}

\* enqueueSavedTurn: the next turn of the session is saved as pending.
Enqueue(s) ==
    /\ ~closed[s] /\ ~gone[s] /\ comp[s] = 0
    /\ Cardinality(Saved) < MaxSaved
    /\ \E t \in Turns :
        /\ turns[s][t].status = "absent"
        /\ \A u \in Turns : u < t => turns[s][u].status # "absent"
        /\ turns' = [turns EXCEPT ![s][t].status = "pending"]
    /\ Wake(s)
    /\ UNCHANGED <<last, cur, closed, gone, compaction>>

HasProcessedThrough(s, t) == last[s] # 0 /\ last[s] >= t

\* Compaction picks a saved turn beyond what is consolidated and calls
\* waitUntilProcessed for it, which wakes the queue first.
CompactStart(s) ==
    /\ ~closed[s] /\ ~gone[s] /\ comp[s] = 0
    /\ \E t \in Turns :
        /\ turns[s][t].status # "absent" /\ t > consolidated[s]
        /\ comp' = [comp EXCEPT ![s] = t]
    /\ Wake(s)
    /\ UNCHANGED <<store, cur, closed, gone, consolidated>>

\* waitUntilProcessed returns false: a turn up to the target is blocked, or the
\* time is up.
CompactGiveUp(s) ==
    /\ comp[s] # 0 /\ ~HasProcessedThrough(s, comp[s])
    /\ comp' = [comp EXCEPT ![s] = 0]
    /\ UNCHANGED <<store, pc, cur, timer, closed, gone, active, waiters, consolidated>>

\* It returns true: the messages up to the target, or up to a later finished
\* turn, give way to a snapshot of the DAG, unless no snapshot fits.
CompactCommit(s) ==
    /\ comp[s] # 0 /\ HasProcessedThrough(s, comp[s])
    /\ turns[s][last[s]].status = "done"
    /\ \E b \in {consolidated[s], comp[s]}
              \union {u \in comp[s]..last[s] : turns[s][u].status = "done"} :
          consolidated' = [consolidated EXCEPT ![s] = b]
    /\ comp' = [comp EXCEPT ![s] = 0]
    /\ UNCHANGED <<store, pc, cur, timer, closed, gone, active, waiters>>

\* closeSession, on the way to delete the session; an idle queue closes its
\* store at once.
CloseSession(s) ==
    /\ ~closed[s] /\ ~gone[s] /\ comp[s] = 0
    /\ closed' = [closed EXCEPT ![s] = TRUE]
    /\ timer' = [timer EXCEPT ![s] = Off]
    /\ pc' = IF pc[s] = "idle" THEN [pc EXCEPT ![s] = "none"] ELSE pc
    /\ UNCHANGED <<store, cur, gone, active, waiters, compaction>>

\* Mutant: the files are removed without waiting for the worker.
RemoveFilesAtOnce(s) ==
    /\ closed[s] /\ ~gone[s]
    /\ gone' = [gone EXCEPT ![s] = TRUE]
    /\ turns' = [turns EXCEPT ![s] = [t \in Turns |-> NoTurn]]
    /\ last' = [last EXCEPT ![s] = 0]
    /\ consolidated' = [consolidated EXCEPT ![s] = 0]
    /\ UNCHANGED <<pc, cur, timer, closed, active, waiters, comp>>

\* closeSession has resolved: removeSessionDagFiles.
RemoveFiles(s) ==
    /\ closed[s] /\ ~gone[s] /\ pc[s] = "none"
    /\ gone' = [gone EXCEPT ![s] = TRUE]
    /\ turns' = [turns EXCEPT ![s] = [t \in Turns |-> NoTurn]]
    /\ last' = [last EXCEPT ![s] = 0]
    /\ consolidated' = [consolidated EXCEPT ![s] = 0]
    /\ UNCHANGED <<pc, cur, timer, closed, active, waiters, comp>>

\* One unit of time passes.
Elapsed(n) == IF n > 0 THEN n - 1 ELSE n
Tick ==
    /\ \E s \in Sessions : timer[s] > 0 \/ \E t \in Turns : turns[s][t].wait > 0
    /\ turns' = [s \in Sessions |-> [t \in Turns |->
                    [turns[s][t] EXCEPT !.wait = Elapsed(turns[s][t].wait)]]]
    /\ timer' = [s \in Sessions |-> Elapsed(timer[s])]
    /\ UNCHANGED <<last, pc, cur, closed, gone, active, waiters, compaction>>

\* The process ends and starts again: the stores are all that is left, and no
\* queue exists until somebody asks for one.
Restart ==
    /\ \E s \in Sessions : pc[s] # "none"
    /\ pc' = [s \in Sessions |-> "none"]
    /\ cur' = [s \in Sessions |-> 0]
    /\ timer' = [s \in Sessions |-> Off]
    /\ closed' = [s \in Sessions |-> gone[s]]
    /\ active' = 0
    /\ waiters' = << >>
    /\ comp' = [s \in Sessions |-> 0]
    /\ UNCHANGED <<store, gone, consolidated>>

Worker(s) == Claim(s) \/ ClaimNone(s) \/ StopClosed(s) \/ Applied(s)
Build(s) == BuildOk(s) \/ BuildRetry(s) \/ Fallback(s) \/ Block(s)
Compact(s) == CompactStart(s) \/ CompactGiveUp(s) \/ CompactCommit(s)

Next ==
    \/ \E s \in Sessions :
        \/ Worker(s) \/ Build(s) \/ TimerFires(s)
        \/ Enqueue(s) \/ Compact(s) \/ CloseSession(s) \/ RemoveFiles(s)
    \/ Tick
    \/ Restart

Spec == Init /\ [][Next]_vars

(***************************************************************************)
(* The event loop runs what is ready, timers fire, time passes, and a model *)
(* call ends, if only by the provider's timeout.  Nothing is assumed of     *)
(* which way it ends, nor of the clients.  A session has at most one of     *)
(* these to do at a time.                                                  *)
(***************************************************************************)
Progress(s) == Worker(s) \/ Build(s) \/ TimerFires(s) \/ RemoveFiles(s)

Fairness ==
    /\ \A s \in Sessions : WF_vars(Progress(s))
    /\ WF_vars(Tick)

FairSpec == Spec /\ Fairness

-----------------------------------------------------------------------------
TypeOK ==
    /\ turns \in [Sessions -> [Turns -> TurnRow]]
    /\ last \in [Sessions -> 0..NTurns]
    /\ pc \in [Sessions -> {"none", "idle", "waiting", "ready", "building", "applied"}]
    /\ cur \in [Sessions -> 0..NTurns]
    /\ \A s \in Sessions : pc[s] = "building" => cur[s] \in Turns
    /\ timer \in [Sessions -> Nat \union {Off}]
    /\ closed \in [Sessions -> BOOLEAN]
    /\ gone \in [Sessions -> BOOLEAN]
    /\ active \in Int
    /\ waiters \in Seq(Sessions)
    /\ comp \in [Sessions -> 0..NTurns]
    /\ consolidated \in [Sessions -> 0..NTurns]

IsUnfinished(s, t) == turns[s][t].status \in Unfinished

(***************************************************************************)
(* A queue at rest that still has work has its timer set, whatever failed,  *)
(* was woken early or was left over from before a restart.  This is what    *)
(* the comment in process() asks for: "An early wake must not strand        *)
(* retries whose persisted deadline is still ahead."                        *)
(***************************************************************************)
NeverStranded ==
    \A s \in Sessions :
        pc[s] = "idle" /\ (\E t \in Turns : IsUnfinished(s, t)) => timer[s] # Off

(***************************************************************************)
(* The store and the worker agree on what is in flight: while a worker is   *)
(* building, the turn it holds is the one row marked running, although a    *)
(* restart can leave a running row behind with no worker; a queue at rest   *)
(* has no such row.                                                        *)
(***************************************************************************)
RunningIsHeld ==
    \A s \in Sessions :
        /\ pc[s] = "building" => {t \in Turns : turns[s][t].status = "running"} = {cur[s]}
        /\ pc[s] = "idle" => \A t \in Turns : turns[s][t].status # "running"

SlotHolders == {s \in Sessions : pc[s] \in {"ready", "building", "applied"}}

(***************************************************************************)
(* runWithSlot: activeWorkers counts the workers that hold a slot, there are *)
(* never more than maxConcurrentSessionQueues, nobody waits while a slot is *)
(* free, and the line holds each waiting queue once and nothing else.       *)
(***************************************************************************)
SlotsAccounted ==
    /\ active = Cardinality(SlotHolders)
    /\ active <= MaxQueues
    /\ waiters # << >> => active = MaxQueues
    /\ {waiters[i] : i \in DOMAIN waiters} = {s \in Sessions : pc[s] = "waiting"}
    /\ \A i, j \in DOMAIN waiters : waiters[i] = waiters[j] => i = j

(***************************************************************************)
(* Once the files of a deleted session are removed nothing of its queue is  *)
(* left that could write to them or open them again: no worker, no place in *)
(* line, no timer, no turn.                                                *)
(***************************************************************************)
DeletedQuiescent ==
    \A s \in Sessions : gone[s] =>
        /\ pc[s] = "none" /\ timer[s] = Off /\ closed[s]
        /\ \A t \in Turns : turns[s][t].status = "absent"

(***************************************************************************)
(* Messages a DAG compaction dropped from the prompt belong to turns the    *)
(* DAG has.  memory.ts refuses to go on unless the DAG "has processed       *)
(* through" the boundary.                                                  *)
(***************************************************************************)
CompactedTurnsDone ==
    \A s \in Sessions, t \in Turns :
        t <= consolidated[s] => turns[s][t].status = "done"

(***************************************************************************)
(* Every saved turn is built, by the model or by the fallback, unless one   *)
(* at or before it is blocked or its queue goes away (deletion, restart).   *)
(***************************************************************************)
TurnsSettle ==
    \A s \in Sessions, t \in Turns :
        (pc[s] # "none" /\ IsUnfinished(s, t))
            ~> \/ turns[s][t].status = "done"
               \/ \E u \in 1..t : turns[s][u].status = "blocked"
               \/ pc[s] = "none"

(***************************************************************************)
(* closeSession resolves and the files go, also when the queue was in line  *)
(* for a slot or building when it was closed.                              *)
(***************************************************************************)
DeletionCompletes ==
    \A s \in Sessions : closed[s] ~> (gone[s] \/ ~closed[s])
=============================================================================
