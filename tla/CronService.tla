----------------------------- MODULE CronService -----------------------------
(* The scheduled tasks of the agent: the store in memory and on disk, the one   *)
(* timer, the loop that runs what is due, manual runs, and the action log that  *)
(* a command line process appends to while the service runs.                    *)
(*                                                                              *)
(* One action is the code between two awaits.  Only the callback of a task is   *)
(* awaited, so a run of a task is its start and its completion.  A task is a    *)
(* one-time task or an interval; a cron expression behaves like an interval     *)
(* here.  The code recognises an edit made during a run by the identity of the  *)
(* task and schedule objects: runs[r].same says that they are still the same.   *)
(* 0 stands for null in nextRunAtMs.                                            *)
EXTENDS Integers, Sequences, FiniteSets

CONSTANTS
    OneTime,      \* ids of tasks of kind "at"
    Interval,     \* ids of tasks of kind "every"
    Period,       \* everyMs
    MaxSleep,     \* maxSleepMs
    MaxNow,       \* bound on the clock
    MaxEdits,     \* bound on edits by clients of the service
    MaxManual,    \* bound on manual runs
    MaxExternal,  \* bound on the actions of the command line
    MaxCrashes    \* bound on crashes and stops

Job == OneTime \cup Interval

ASSUME CronAssumption ==
    /\ OneTime \cap Interval = {}
    /\ Period \in Nat \ {0} /\ MaxSleep \in Nat \ {0} /\ MaxNow \in Nat \ {0}
    /\ MaxEdits \in Nat /\ MaxManual \in Nat /\ MaxExternal \in Nat /\ MaxCrashes \in Nat

VARIABLES
    now,
    mem,       \* store.jobs of the service
    disk,      \* jobs.json
    log,       \* action.jsonl
    cli,       \* the action a command line process has derived from what it read
    running,   \* the service is started
    timer,     \* when timerTask fires, 0 if there is none
    loop,      \* timerActive
    executed,  \* executed of the timer loop
    runs,      \* activeJobRuns: one of the timer loop, the others started by hand
    begun,     \* history variable: the last deadline that the loop began since the user set one
    lost,      \* history variable: tasks begun by a process that died before it saved that
    unarmed,   \* history variable: tasks taken from the log by a read since the timer was set
    owed,      \* history variable: one-time tasks set by the user and not begun since
    external,  \* history variable: tasks the command line has touched
    edits, manuals, externals, crashes

service == <<running, timer, loop, executed, runs>>
files   == <<disk, log>>
history == <<begun, lost, unarmed, owed, external>>
bounds  == <<edits, manuals, externals, crashes>>
vars    == <<now, mem, files, cli, service, history, bounds>>

\* here: the task is in the store.  at is the deadline of a one-time task.
Row    == [here : BOOLEAN, enabled : BOOLEAN, at : Nat, next : Nat, del : BOOLEAN]
Absent == [here |-> FALSE, enabled |-> FALSE, at |-> 0, next |-> 0, del |-> FALSE]
NoRun  == [active |-> FALSE, due |-> 0, same |-> FALSE, was |-> FALSE]
Run    == [active : BOOLEAN, job : Job, due : Nat, same : BOOLEAN, was : BOOLEAN]
Action == [op : {"add", "update", "del"}, job : Job, row : Row]

\* The timer loop's run, and the manual runs by number.
LoopRun == 0
Runner  == 0..MaxManual

\* One value of each type.
TypeOK ==
    /\ now \in 1..MaxNow
    /\ mem \in [Job -> Row] /\ disk \in [Job -> Row]
    /\ log \in Seq(Action) /\ cli \in Seq(Action)
    /\ running \in BOOLEAN /\ timer \in Nat /\ loop \in BOOLEAN /\ executed \in SUBSET Job
    /\ runs \in [Runner -> Run \cup {NoRun}]
    /\ begun \in [Job -> Nat] /\ lost \in SUBSET Job /\ unarmed \in SUBSET Job
    /\ owed \in SUBSET Job /\ external \in SUBSET Job
    /\ edits \in 0..MaxEdits /\ manuals \in 0..MaxManual /\ externals \in 0..MaxExternal /\ crashes \in 0..MaxCrashes

Init ==
    /\ now = 1
    /\ mem = [j \in Job |-> Absent] /\ disk = mem /\ log = <<>> /\ cli = <<>>
    /\ running = FALSE /\ timer = 0 /\ loop = FALSE /\ executed = {}
    /\ runs = [r \in Runner |-> NoRun]
    /\ begun = [j \in Job |-> 0] /\ lost = {} /\ unarmed = {} /\ owed = {} /\ external = {}
    /\ edits = 0 /\ manuals = 0 /\ externals = 0 /\ crashes = 0

-------------------------------------------------------------------------------
(* Operators on stores *)

Active == {r \in Runner : runs[r].active}
RunsNow(j) == \E r \in Active : runs[r].job = j
Busy == loop \/ Active # {}

\* computeNextRun: an overdue deadline of a one-time task is kept.
ComputeNext(j, row) == IF j \in OneTime THEN row.at ELSE now + Period

NewRow(j, t, del) == LET row == [here |-> TRUE, enabled |-> TRUE, at |-> t, next |-> 0, del |-> del]
                     IN  [row EXCEPT !.next = ComputeNext(j, row)]

\* advanceInterval: the first occurrence of the grid after now, or the one still ahead.
Advance(due) == IF due > now THEN due ELSE due + ((now - due) \div Period + 1) * Period

\* mergeAction: the actions of the log in their order.
Apply(s, a) == [s EXCEPT ![a.job] = IF a.op = "del" THEN Absent ELSE a.row]
Merged(s) == LET f[i \in 0..Len(log)] == IF i = 0 THEN s ELSE Apply(f[i - 1], log[i]) IN f[Len(log)]
Touched == {log[i].job : i \in DOMAIN log}

\* loadStore: the store in memory while something runs, the file and the log otherwise.
Loaded == IF Busy THEN mem ELSE Merged(disk)

\* The log is applied and emptied by the running service.
TakeLog == /\ log' = <<>> /\ external' = external \cup Touched
KeepLog == UNCHANGED <<log, external>>
LoadLog == IF Busy THEN KeepLog ELSE TakeLog

Wanted(s, j) == s[j].here /\ s[j].enabled /\ s[j].next # 0
Due(s) == {j \in Job : Wanted(s, j) /\ s[j].next <= now}

\* getNextWakeMs and armTimer, for store s and the service as it is after the step.
WakeAt(s) == LET times == {s[j].next : j \in {k \in Job : Wanted(s, k)}} \cup {now + MaxSleep}
                 first == CHOOSE t \in times : \A u \in times : t <= u
             IN  IF first < now THEN now ELSE first
\* Mutant: the delay where the time is meant, and not cut off at 0.
ArmTimerDelay(s, isRunning, isBusy) ==
    /\ timer' = (IF isRunning /\ ~isBusy
                  THEN (CHOOSE t \in {s[j].next : j \in Job} : \A j \in Job : t <= s[j].next) - now ELSE 0)
    /\ unarmed' = {}

ArmTimer(s, isRunning, isBusy) ==
    /\ timer' = (IF isRunning /\ ~isBusy THEN WakeAt(s) ELSE 0)
    /\ unarmed' = {}
KeepTimer == UNCHANGED <<timer, unarmed>>

\* saveStore after an edit of the store.
Store(s) == mem' = s /\ disk' = s

\* Edits that replace the task or its schedule end the identity that a run relies on.
Replaced(S) == [r \in Runner |-> IF runs[r].active /\ runs[r].job \in S
                                   THEN [runs[r] EXCEPT !.same = FALSE] ELSE runs[r]]

\* The deadline of j is set by the user.
Reset(j) == begun' = [begun EXCEPT ![j] = 0] /\ lost' = lost \ {j}

-------------------------------------------------------------------------------
(* The service and its clients *)

\* start(): load, recomputeNextRuns, save, arm.
Start ==
    /\ running' = TRUE
    /\ LET s == Loaded
           t == [j \in Job |-> IF s[j].here /\ s[j].enabled /\ (j \in OneTime \/ s[j].next = 0)
                                 THEN [s[j] EXCEPT !.next = ComputeNext(j, s[j])] ELSE s[j]]
       IN  Store(t) /\ ArmTimer(t, TRUE, Busy)
    /\ LoadLog
    /\ UNCHANGED <<now, cli, loop, executed, runs, begun, lost, owed, bounds>>

\* stop(): the timer is cleared; runs in progress go on.
Stop ==
    /\ running /\ crashes < MaxCrashes /\ crashes' = crashes + 1
    /\ running' = FALSE /\ timer' = 0
    /\ UNCHANGED <<now, mem, files, cli, loop, executed, runs, history, edits, manuals, externals>>

\* mergeAction may be at work: it is called while nothing runs, and by the loop between two runs.
MayMerge == ~Busy \/ (loop /\ running /\ ~runs[LoopRun].active)

\* The process ends; the files are left.  mergeAction empties the log before it saves the
\* store: a process that dies in between leaves neither.
Crash ==
    /\ crashes < MaxCrashes /\ crashes' = crashes + 1
    /\ running' = FALSE /\ timer' = 0 /\ loop' = FALSE /\ executed' = {}
    /\ runs' = [r \in Runner |-> NoRun] /\ mem' = disk
    /\ KeepLog \/ (MayMerge /\ TakeLog)
    /\ lost' = lost \cup {j \in executed : Wanted(disk, j) /\ disk[j].next <= begun[j]}
    /\ unarmed' = {}
    /\ UNCHANGED <<now, disk, cli, begun, owed, edits, manuals, externals>>

\* listJobs, getJob, status, and remove, update, enable or unregister of a task that is not
\* there or is protected: they load the store, and do not arm the timer.
Read ==
    /\ ~Busy /\ mem' = Merged(disk)
    /\ IF running THEN disk' = mem' /\ TakeLog /\ unarmed' = unarmed \cup Touched
                  ELSE disk' = disk /\ KeepLog /\ unarmed' = unarmed
    /\ UNCHANGED <<now, cli, running, timer, loop, executed, runs, begun, lost, owed, bounds>>

\* An edit of the running service: f is what it makes of task j.
Edit(j, row, keepsIdentity) ==
    /\ running /\ edits < MaxEdits /\ edits' = edits + 1
    /\ LET s == [Loaded EXCEPT ![j] = row]
       IN  Store(s) /\ ArmTimer(s, TRUE, Busy)
    /\ LoadLog /\ Reset(j)
    /\ runs' = (IF keepsIdentity THEN runs ELSE Replaced({j}))
    /\ UNCHANGED <<now, cli, running, loop, executed, manuals, externals, crashes>>

\* addJob, with deadline t for a one-time task.  Its id is one that nothing refers to.
AddJob(j, t, del) ==
    /\ ~Loaded[j].here /\ ~RunsNow(j) /\ j \notin executed
    /\ Edit(j, NewRow(j, t, del), FALSE)
    /\ owed' = owed \cup ({j} \cap OneTime)

\* removeJob.
RemoveJob(j) == Loaded[j].here /\ Edit(j, Absent, FALSE) /\ owed' = owed \ {j}

\* enableJob, both ways.  The identity of the task stays: one enabled while it runs is
\* settled by that run.
EnableJob(j) ==
    /\ Loaded[j].here
    /\ Edit(j, [Loaded[j] EXCEPT !.enabled = TRUE, !.next = ComputeNext(j, Loaded[j])], TRUE)
    /\ owed' = owed \cup {k \in {j} \cap OneTime : ~RunsNow(k)}

DisableJob(j) ==
    /\ Loaded[j].here
    /\ Edit(j, [Loaded[j] EXCEPT !.enabled = FALSE, !.next = 0], TRUE)
    /\ owed' = owed \ {j}

\* updateJob with a schedule, of the same kind.
UpdateJob(j, t) ==
    /\ Loaded[j].here
    /\ LET row == [Loaded[j] EXCEPT !.at = t]
       IN  Edit(j, IF row.enabled THEN [row EXCEPT !.next = ComputeNext(j, row)] ELSE row, FALSE)
    /\ owed' = (IF Loaded[j].enabled THEN owed \cup ({j} \cap OneTime) ELSE owed)

-------------------------------------------------------------------------------
(* Runs *)

\* The loop takes the next due task of s that is not in done, one-time tasks first.
First(s, done, j) ==
    /\ j \in Due(s) \ done
    /\ \A k \in Due(s) \ done :
         \/ j \in OneTime /\ k \notin OneTime
         \/ (j \in OneTime <=> k \in OneTime) /\ s[j].next <= s[k].next

\* One turn of the loop in onTimer, up to the callback; s is the store with the log merged.
Take(s, done, j) ==
    /\ First(s, done, j)
    /\ mem' = s /\ disk' = (IF log = <<>> THEN disk ELSE s) /\ TakeLog
    /\ loop' = TRUE /\ executed' = done \cup {j}
    /\ runs' = [Replaced(Touched) EXCEPT ![LoopRun] =
                  [active |-> TRUE, job |-> j, due |-> s[j].next, same |-> TRUE, was |-> TRUE]]
    /\ begun' = [begun EXCEPT ![j] = s[j].next] /\ lost' = lost \ {j} /\ owed' = owed \ {j}
    /\ unarmed' = unarmed

\* The end of onTimer: the store is saved, the timer armed.
Leave(s) ==
    /\ Store(s) /\ ArmTimer(s, running, Active # {})
    /\ loop' = FALSE /\ executed' = {}

\* onTimer while something runs, which arms the timer when it ends.
TimerIgnored ==
    /\ timer # 0 /\ timer <= now /\ timer' = 0
    /\ Busy \/ ~running
    /\ UNCHANGED <<now, mem, files, cli, running, loop, executed, runs, history, bounds>>

\* onTimer up to the first callback, or to its end.
TimerFires ==
    /\ timer # 0 /\ timer <= now /\ running /\ ~Busy
    /\ \/ (\E j \in Job : Take(Merged(disk), {}, j)) /\ timer' = 0
       \/ /\ Due(Merged(disk)) = {} /\ Leave(Merged(disk))
          /\ TakeLog /\ UNCHANGED <<runs, begun, lost, owed>>
    /\ UNCHANGED <<now, cli, running, bounds>>

LoopStarts(j) ==
    /\ loop /\ ~runs[LoopRun].active /\ running
    /\ Take(Merged(mem), executed, j)
    /\ UNCHANGED <<now, cli, running, timer, bounds>>

\* Mutant: the completion does not retire a one-time task.
CompletedOpen(s, run) ==
    LET j == run.job IN
    IF ~run.same \/ ~s[j].enabled \/ s[j].next # run.due \/ j \in OneTime THEN s
    ELSE [s EXCEPT ![j] = [@ EXCEPT !.next = Advance(run.due)]]

\* Mutant: the completion forgets to ask.
CompletedAlways(s, run) ==
    LET j == run.job IN
    [s EXCEPT ![j] =
            IF j \in Interval THEN [@ EXCEPT !.next = Advance(run.due)]
            ELSE IF @.del THEN Absent ELSE [@ EXCEPT !.enabled = FALSE, !.next = 0]]

\* What a completion makes of the store: nothing if the task was edited meanwhile.
Completed(s, run) ==
    LET j == run.job IN
    IF ~run.same \/ ~s[j].enabled \/ s[j].next # run.due THEN s
    ELSE [s EXCEPT ![j] =
            IF j \in Interval THEN [@ EXCEPT !.next = Advance(run.due)]
            ELSE IF @.del THEN Absent ELSE [@ EXCEPT !.enabled = FALSE, !.next = 0]]

\* executeJob of the loop ends; the store is saved at the end of the loop only.
LoopRunEnds ==
    /\ runs[LoopRun].active
    /\ mem' = Completed(mem, runs[LoopRun])
    /\ runs' = [runs EXCEPT ![LoopRun] = NoRun]
    /\ UNCHANGED <<now, files, cli, running, timer, loop, executed, history, bounds>>

\* Nothing is due any more, or the service was stopped: save and arm.
LoopEnds ==
    /\ loop /\ ~runs[LoopRun].active
    /\ IF running
         THEN /\ Due(Merged(mem)) \subseteq executed /\ Leave(Merged(mem))
              /\ TakeLog /\ runs' = Replaced(Touched)
         ELSE Leave(mem) /\ KeepLog /\ UNCHANGED runs
    /\ UNCHANGED <<now, cli, running, begun, lost, owed, bounds>>

\* runJob with force: the service counts as running meanwhile, whoever else runs.
RunNow(j) ==
    /\ manuals < MaxManual /\ manuals' = manuals + 1
    /\ Loaded[j].here
    /\ running' = TRUE
    /\ mem' = Loaded /\ disk' = (IF Busy THEN disk ELSE Loaded) /\ LoadLog
    /\ runs' = [runs EXCEPT ![manuals'] =
                  [active |-> TRUE, job |-> j, due |-> Loaded[j].next, same |-> TRUE, was |-> running]]
    /\ owed' = owed \ {j}
    /\ UNCHANGED <<now, cli, timer, loop, executed, begun, lost, unarmed, edits, externals, crashes>>

\* runJob of a task that is not there, or without force of one that is disabled.
RunRefused ==
    /\ mem' = Loaded /\ disk' = (IF Busy THEN disk ELSE Loaded) /\ LoadLog
    /\ IF running THEN ArmTimer(Loaded, TRUE, Busy) ELSE KeepTimer
    /\ UNCHANGED <<now, cli, running, loop, executed, runs, begun, lost, owed, bounds>>

\* Something other than the manual run h runs.
OthersRun(h) == loop \/ Active \ {h} # {}

\* Mutant: the end of a manual run does not arm the timer.
RunNowEndsUnarmed(h) ==
    /\ runs[h].active
    /\ Store(Completed(mem, runs[h]))
    /\ runs' = [runs EXCEPT ![h] = NoRun] /\ running' = runs[h].was
    /\ KeepTimer
    /\ UNCHANGED <<now, log, cli, loop, executed, begun, lost, owed, external, bounds>>

\* Mutant: the end of a manual run does not save the store.
RunNowEndsUnsaved(h) ==
    /\ runs[h].active
    /\ mem' = Completed(mem, runs[h])
    /\ runs' = [runs EXCEPT ![h] = NoRun] /\ running' = runs[h].was
    /\ IF runs[h].was THEN ArmTimer(mem', TRUE, OthersRun(h)) ELSE KeepTimer
    /\ UNCHANGED <<now, files, cli, loop, executed, begun, lost, owed, external, bounds>>

\* Mutant: the run stays in activeJobRuns.
RunNowEndsLeaked(h) ==
    /\ runs[h].active
    /\ Store(Completed(mem, runs[h]))
    /\ UNCHANGED runs /\ running' = runs[h].was
    /\ IF runs[h].was THEN ArmTimer(mem', TRUE, OthersRun(h)) ELSE KeepTimer
    /\ UNCHANGED <<now, log, cli, loop, executed, begun, lost, owed, external, bounds>>

\* The end of a manual run saves the store; running is what it was when the run began, and
\* the timer is armed if that is TRUE.
RunNowEnds(h) ==
    /\ runs[h].active
    /\ Store(Completed(mem, runs[h]))
    /\ runs' = [runs EXCEPT ![h] = NoRun] /\ running' = runs[h].was
    /\ IF runs[h].was THEN ArmTimer(mem', TRUE, OthersRun(h)) ELSE KeepTimer
    /\ UNCHANGED <<now, log, cli, loop, executed, begun, lost, owed, external, bounds>>

-------------------------------------------------------------------------------
(* The command line, a process of its own, and the clock *)

\* It loads the file and the log, and derives its action from what it read.
CliReads(op, j, row) ==
    /\ cli = <<>> /\ externals < MaxExternal /\ externals' = externals + 1
    /\ cli' = <<[op |-> op, job |-> j, row |-> row]>>
    /\ UNCHANGED <<now, mem, files, service, history, edits, manuals, crashes>>

CliAdds(j) ==
    /\ ~Merged(disk)[j].here
    /\ CliReads("add", j, NewRow(j, now + 1, FALSE))
CliRemoves(j) == Merged(disk)[j].here /\ CliReads("del", j, Absent)
CliRenames(j) == Merged(disk)[j].here /\ CliReads("update", j, Merged(disk)[j])

\* appendAction.
CliAppends ==
    /\ cli # <<>> /\ cli' = <<>> /\ log' = log \o cli
    /\ UNCHANGED <<now, mem, disk, service, history, bounds>>

Tick ==
    /\ now < MaxNow /\ now' = now + 1
    /\ UNCHANGED <<mem, files, cli, service, history, bounds>>

-------------------------------------------------------------------------------
\* The values of atMs and deleteAfterRun that matter.
Deadlines(j) == IF j \in OneTime THEN now..MaxNow ELSE {0}
Deletes(j) == IF j \in OneTime THEN BOOLEAN ELSE {FALSE}

Client == \E j \in Job :
    \/ \E t \in Deadlines(j), del \in Deletes(j) : AddJob(j, t, del)
    \/ \E t \in Deadlines(j) : UpdateJob(j, t)
    \/ RemoveJob(j) \/ EnableJob(j) \/ DisableJob(j) \/ RunNow(j)
Loop == LoopRunEnds \/ LoopEnds \/ \E j \in Job : LoopStarts(j)
Cli == CliAppends \/ \E j \in Job : CliAdds(j) \/ CliRemoves(j) \/ CliRenames(j)

Next ==
    \/ Start \/ Stop \/ Crash \/ Read \/ Client \/ RunRefused
    \/ TimerIgnored \/ TimerFires \/ Loop \/ \E h \in 1..MaxManual : RunNowEnds(h)
    \/ Cli \/ Tick

\* Timers fire and callbacks of tasks end; clients and clock are free.
Fairness == WF_vars(TimerFires) /\ WF_vars(Loop) /\ \A h \in 1..MaxManual : WF_vars(RunNowEnds(h))

Spec == Init /\ [][Next]_vars /\ Fairness

-------------------------------------------------------------------------------
(* Properties *)

\* A service at rest has a timer, in time for every task it knows of since the timer was set:
\* neither a timer that fires during a manual run nor an edit during a run loses the wake-up
\* (armTimer, onTimer).  A task that a read took from the action log, which arms no timer,
\* waits until the timer is set for another reason, at most maxSleepMs.
WakeIsSet == running /\ ~Busy =>
    /\ timer # 0 /\ (timer <= now + MaxSleep)
    /\ \A j \in Job \ unarmed : Wanted(mem, j) => timer <= mem[j].next \/ timer <= now

\* At rest the file has all that memory has: loadStore replaces the one by the other.
NothingToLose == running /\ ~Busy => disk = mem

\* The loop begins a deadline for the second time only if the process died after it began it
\* and before the end of the loop, where onTimer saves the store; over stops, restarts, edits
\* and manual runs never.  What the command line brings back is excepted.
DeadlineOnce ==
    [][\A j \in Job \ external' :
          ~runs[LoopRun].active /\ runs'[LoopRun].active /\ runs'[LoopRun].job = j
          => runs'[LoopRun].due > begun[j] \/ j \in lost]_vars

\* A one-time task whose deadline was set stays on disk, to run at that deadline, until it is
\* begun, over crashes and whatever happens to other tasks.
OwedIsOnDisk ==
    \A j \in owed \ external : disk[j].here /\ disk[j].enabled /\ disk[j].next = disk[j].at

\* A due task of a running service is run to its end, unless it is changed before; one taken
\* over by a read is awaited from the next time the timer is set.
Overdue(j) == running /\ j \in Due(mem) \ unarmed
DueJobsRun == \A j \in Job : Overdue(j) ~> ~Overdue(j)
==============================================================================
