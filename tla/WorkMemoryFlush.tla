--------------------------- MODULE WorkMemoryFlush ---------------------------
(***************************************************************************)
(* Work Memory extraction of sessions: the extraction cursor, the triggers *)
(* that advance it (token compaction, session close, idle flush) and the   *)
(* single work_memory_idle_flush row per session that the turns re-arm.    *)
(*                                                                         *)
(* Sessions are those of protocol version 2; others register no traces.    *)
(* A turn is one input trace: all traces of a turn are registered in one   *)
(* transaction and the boundaries that clients send are heads of the list. *)
(* The cut of a range into windows of 20 turns is left out: a window holds *)
(* as many Q&A pairs as a chunk holds turns, so it is never truncated and  *)
(* the transaction always takes the range.                                 *)
(* The dedupe of jobs by the hash of a turn's text is left out: each turn  *)
(* has a text of its own.                                                  *)
(* The flush row has the life that EvolutionJobs gives it under a single   *)
(* worker run; 0 stands for a deadline that is never waited for.           *)
(***************************************************************************)
EXTENDS Integers

CONSTANTS
    Session,
    IdleTimeout,   \* WORK_MEMORY_IDLE_TIMEOUT_MS
    MaxAttempts,   \* max_attempts of the flush row
    Ages,          \* how old a completed turn may be: 0, and more for imported ones
    MaxTurns,      \* bound of the turns per session
    MaxNow,        \* bound of the clock
    MaxCrashes     \* bound of the crashes

ASSUME FlushAssumption ==
    /\ IdleTimeout \in Nat \ {0} /\ MaxAttempts \in Nat \ {0} /\ MaxTurns \in Nat
    /\ Ages \subseteq Nat

Turn == 1 .. MaxTurns

VARIABLES
    now,        \* the clock
    session,    \* status, last trace, its creation time and the extraction cursor
    hidden,     \* raw turns deleted or redacted since they were completed
    jobs,       \* how many extraction jobs hold a turn's question and answer
    flush,      \* the session's flush row in evolution_jobs
    held,       \* sessions whose flush row the worker run has leased
    armed,      \* history: the last trace for which a turn armed the flush
    crashes     \* process restarts so far

vars == <<now, session, hidden, jobs, flush, held, armed, crashes>>

TypeOK ==
    /\ now \in Nat
    /\ session \in [Session -> [open : BOOLEAN, head : 0 .. MaxTurns, lastAt : Nat,
                                cursor : 0 .. MaxTurns]]
    /\ hidden \in [Session -> SUBSET Turn]
    /\ jobs \in [Session -> [Turn -> Nat]]
    /\ flush \in [Session -> [status : {"absent", "queued", "leased", "succeeded", "failed",
                                        "dead_letter"},
                              runAfter : Nat, attempts : 0 .. MaxAttempts]]
    /\ held \subseteq Session
    /\ armed \in [Session -> 0 .. MaxTurns]
    /\ crashes \in Nat

Init ==
    /\ now = 1
    /\ session = [s \in Session |-> [open |-> TRUE, head |-> 0, lastAt |-> 0, cursor |-> 0]]
    /\ hidden = [s \in Session |-> {}]
    /\ jobs = [s \in Session |-> [i \in Turn |-> 0]]
    /\ flush = [s \in Session |-> [status |-> "absent", runAfter |-> 0, attempts |-> 0]]
    /\ held = {}
    /\ armed = [s \in Session |-> 0]
    /\ crashes = 0

-----------------------------------------------------------------------------
(* Extraction. *)

\* armWorkMemoryIdleFlush for activity at time at: the row starts afresh,
\* whatever its state was.
Armed(at) == [status |-> "queued", runAfter |-> at + IdleTimeout, attempts |-> 0]

\* Mutant of Window: the window starts on the turn the cursor stands on.
WindowOverlaps(s, through) == session[s].cursor .. through

\* listInputTracesInRange from the cursor to the trigger's last trace.
Window(s, through) == (session[s].cursor + 1) .. through

\* The jobs after extractUnextracted: one more for each turn of the window
\* that still has a question and an answer.
Extracted(s, through) ==
    [jobs EXCEPT ![s] = [i \in Turn |->
        IF i \in Window(s, through) \ hidden[s] THEN jobs[s][i] + 1 ELSE jobs[s][i]]]

\* The cursor after extractUnextracted.
CursorAfter(s, through) ==
    IF through <= session[s].cursor THEN session[s].cursor ELSE through

-----------------------------------------------------------------------------
(* Session operations. *)

\* completeTurn: register the input trace and, unless the turn ends the topic,
\* arm the flush.  An imported turn carries the time at which it happened.
CompleteTurn(s, age, endTopic) ==
    /\ session[s].open /\ session[s].head < MaxTurns /\ age < now
    /\ session' = [session EXCEPT ![s].head = @ + 1, ![s].lastAt = now - age]
    /\ flush' = IF endTopic THEN flush ELSE [flush EXCEPT ![s] = Armed(now - age)]
    /\ armed' = IF endTopic THEN armed ELSE [armed EXCEPT ![s] = session[s].head + 1]
    /\ UNCHANGED <<now, hidden, jobs, held, crashes>>

\* A raw turn is deleted or redacted.
HideTurn(s, i) ==
    /\ i \in 1 .. session[s].head
    /\ hidden' = [hidden EXCEPT ![s] = @ \cup {i}]
    /\ UNCHANGED <<now, session, jobs, flush, held, armed, crashes>>

\* l3WorldModelBoundary with trigger token_compaction, through trace i.
Compact(s, i) ==
    /\ i \in 1 .. session[s].head
    /\ jobs' = Extracted(s, i)
    /\ session' = [session EXCEPT ![s].cursor = CursorAfter(s, i)]
    /\ UNCHANGED <<now, hidden, flush, held, armed, crashes>>

\* Mutant of CloseSession: the session is closed without its last extraction.
CloseSessionBare(s) ==
    /\ session' = [session EXCEPT ![s].open = FALSE]
    /\ UNCHANGED <<now, hidden, jobs, flush, held, armed, crashes>>

\* closeSession: close, then extract everything in the same transaction.
CloseSession(s) ==
    /\ jobs' = Extracted(s, session[s].head)
    /\ session' = [session EXCEPT ![s].open = FALSE,
                                  ![s].cursor = CursorAfter(s, session[s].head)]
    /\ UNCHANGED <<now, hidden, flush, held, armed, crashes>>

-----------------------------------------------------------------------------
(* The flush row in the hands of the worker. *)

\* leaseQueuedJobs takes the due row.
LeaseFlush(s) ==
    /\ flush[s].status = "queued" /\ flush[s].runAfter <= now
    /\ flush[s].attempts < MaxAttempts /\ s \notin held
    /\ flush' = [flush EXCEPT ![s].status = "leased", ![s].attempts = @ + 1]
    /\ held' = held \cup {s}
    /\ UNCHANGED <<now, session, hidden, jobs, armed, crashes>>

\* Mutant of GiveBack: the statement loses its status = 'leased'.
GiveBackAny(s) ==
    /\ s \in held
    /\ flush' = [flush EXCEPT ![s].status = "queued", ![s].attempts = @ - 1]
    /\ held' = held \ {s}
    /\ UNCHANGED <<now, session, hidden, jobs, armed, crashes>>

\* requeueUnstartedLeasedJobs while the token budget is paused.
GiveBack(s) ==
    /\ s \in held
    /\ flush' = IF flush[s].status = "leased"
                THEN [flush EXCEPT ![s].status = "queued", ![s].attempts = @ - 1]
                ELSE flush
    /\ held' = held \ {s}
    /\ UNCHANGED <<now, session, hidden, jobs, armed, crashes>>

Quiet(s) == session[s].lastAt + IdleTimeout <= now

\* flushIdle, and the completeJob that the runner calls after it: nothing for
\* a closed session, re-arm an active one, extract an idle one.
FlushIdle(s) ==
    /\ s \in held
    /\ IF session[s].open /\ Quiet(s)
       THEN /\ jobs' = Extracted(s, session[s].head)
            /\ session' = [session EXCEPT ![s].cursor = CursorAfter(s, session[s].head)]
       ELSE UNCHANGED <<jobs, session>>
    /\ LET row == IF session[s].open /\ ~Quiet(s) THEN Armed(session[s].lastAt) ELSE flush[s]
       IN  flush' = [flush EXCEPT ![s] = [row EXCEPT !.status = "succeeded"]]
    /\ held' = held \ {s}
    /\ UNCHANGED <<now, hidden, armed, crashes>>

\* The extraction transaction rolls back and the runner calls failJob.
FlushFails(s) ==
    /\ s \in held
    /\ session[s].open /\ Quiet(s)
    /\ flush' = IF flush[s].status = "dead_letter" THEN flush
                ELSE [flush EXCEPT ![s].status =
                         IF flush[s].attempts >= MaxAttempts THEN "dead_letter" ELSE "failed"]
    /\ held' = held \ {s}
    /\ UNCHANGED <<now, session, hidden, jobs, armed, crashes>>

\* requeueFailedJobs at the head of the next run.
RetryFlush(s) ==
    /\ held = {}
    /\ flush[s].status = "failed" /\ flush[s].attempts < MaxAttempts
    /\ flush' = [flush EXCEPT ![s].status = "queued"]
    /\ UNCHANGED <<now, session, hidden, jobs, held, armed, crashes>>

Tick ==
    /\ now < MaxNow /\ now' = now + 1
    /\ UNCHANGED <<session, hidden, jobs, flush, held, armed, crashes>>

\* The process restarts: requeueLeasedJobsAfterRestart.
Restart ==
    /\ crashes < MaxCrashes /\ crashes' = crashes + 1
    /\ flush' = [s \in Session |->
                    IF flush[s].status = "leased"
                    THEN [flush[s] EXCEPT !.status = "queued", !.attempts = @ - 1]
                    ELSE flush[s]]
    /\ held' = {}
    /\ UNCHANGED <<now, session, hidden, jobs, armed>>

Next ==
    \/ \E s \in Session :
          \/ \E age \in Ages, endTopic \in BOOLEAN : CompleteTurn(s, age, endTopic)
          \/ \E i \in Turn : HideTurn(s, i) \/ Compact(s, i)
          \/ CloseSession(s)
          \/ LeaseFlush(s) \/ GiveBack(s) \/ FlushIdle(s) \/ FlushFails(s) \/ RetryFlush(s)
    \/ Tick \/ Restart

Spec == Init /\ [][Next]_vars

-----------------------------------------------------------------------------

\* However compaction, close, idle flush, its retries and crashes interleave,
\* each turn goes into exactly one extraction job when the cursor passes it
\* and into none before (extractUnextracted moves the cursor and enqueues in
\* one transaction); only a turn hidden in time is skipped.
ExactlyOnce ==
    \A s \in Session, i \in Turn :
        /\ jobs[s][i] <= IF i <= session[s].cursor THEN 1 ELSE 0
        /\ i <= session[s].cursor /\ jobs[s][i] = 0 => i \in hidden[s]

\* The cursor never overtakes the last trace, and a closed session leaves no
\* turn behind: closeSession refuses later turns (requireOpenSession), so the
\* extraction of its own transaction is the last chance they have.
ClosedExtracted ==
    \A s \in Session :
        /\ session[s].cursor <= session[s].head
        /\ ~session[s].open => session[s].cursor = session[s].head

\* "extract the delta when the Session really has been quiet for the full
\* timeout, and re-arm otherwise": as long as a turn that armed the flush is
\* not extracted in an open session, a flush row is pending or has exhausted
\* its attempts.
FlushPending ==
    \A s \in Session :
        session[s].open /\ session[s].cursor < armed[s] =>
            flush[s].status \in {"queued", "leased", "failed", "dead_letter"}

=============================================================================
