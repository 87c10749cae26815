------------------------------ MODULE TurnQueue ------------------------------
(* The queue of turns of one session of the agent loop: messages of the desktop *)
(* composer become slots that wait for the session's lock; a message may be     *)
(* steered into the turn that runs, directly or out of the queue; the queue can *)
(* be reordered, items removed, turns stopped; the process may crash.           *)
(*                                                                              *)
(* One action is the code between two awaits that can be interleaved.  A slot's *)
(* creation and the announcement that opens its gate are one step, as are the   *)
(* sections under the queue mutation lock.  A turn is named by its root: a turn *)
(* that takes steers has recorded its root, which never is a root again.        *)
(* The bus and the slot's queue of steers are sets: the order in which messages *)
(* are taken from them is left free.  Messages are plain text of one route with *)
(* a client_request_id; goals and commands are not part of this module.         *)
EXTENDS Integers, Sequences, FiniteSets

CONSTANTS
    Msg,          \* the messages of the user
    NoMsg,        \* no turn holds the session's lock
    MaxCrashes    \* bound on crashes of the process

ASSUME TurnAssumption == NoMsg \notin Msg /\ MaxCrashes \in Nat

VARIABLES
    sent,         \* messages the client has sent
    bus,          \* bus.inbound: admission of the messages waiting there
    line,         \* waiters of the session's AsyncMutex
    at,           \* metadata.queued_at of each message
    lastAt,       \* lastQueuedAtBySession
    root,         \* root of the slot that holds the lock
    phase,        \* where runTurnWithinLock is
    outcome,      \* stopReason, or how the turn failed
    stopped,      \* the running task is cancelled
    pending,      \* pendingSteer of the running slot
    injected,     \* messages the runner has put into the turn, not yet saved
    admission,    \* queueSteerAdmissionsBySession: phase of each admission
    transfer,     \* WEBUI_QUEUE_STEER_TRANSFERS_KEY, durable
    history,      \* session.messages, durable: turns each message is recorded in
    recovering,   \* transfers that recoverQueueSteerTransfers has yet to handle
    reply,        \* history variable: events published for each message
    reordered,    \* history variable: the user has reordered the queue
    crashes

memory  == <<bus, line, at, lastAt, root, phase, outcome, stopped, pending, injected, admission>>
durable == <<transfer, history>>
aside   == <<sent, recovering, reply, reordered, crashes>>
vars    == <<memory, durable, aside>>

Phases   == {"idle", "start", "build", "prepare", "run", "final", "save", "finalize"}
Outcomes == {"none", "completed", "maxIterations", "returned", "threw", "failed"}
Replies  == {"accepted", "rejected", "removed", "workspace_lost"}

Waiter   == [msg : Msg, at : Nat, st : {"live", "cancelled", "gone"}]
\* turn = NoMsg: there is no transfer.
Transfer == [turn : Msg \cup {NoMsg}, consumed : BOOLEAN, at : Nat]

\* One value of each type, as the code keeps it.
TypeOK ==
    /\ sent \in SUBSET Msg
    /\ bus \in [Msg -> {"none", "queue", "steer"}]
    /\ line \in Seq(Waiter)
    /\ at \in [Msg -> Nat] /\ lastAt \in Nat
    /\ root \in Msg \cup {NoMsg} /\ phase \in Phases /\ outcome \in Outcomes
    /\ stopped \in BOOLEAN
    /\ pending \in SUBSET Msg /\ injected \in SUBSET Msg
    /\ admission \in [Msg -> {"none", "pending", "consumed"}]
    /\ transfer \in [Msg -> Transfer]
    /\ history \in [Msg -> Seq(Msg)]
    /\ recovering \in [Msg -> {"no", "read", "kept"}]
    /\ reply \in [Msg -> SUBSET Replies]
    /\ reordered \in BOOLEAN /\ crashes \in 0..MaxCrashes

None == [turn |-> NoMsg, consumed |-> FALSE, at |-> 0]

Init ==
    /\ sent = {} /\ bus = [m \in Msg |-> "none"] /\ line = <<>>
    /\ at = [m \in Msg |-> 0] /\ lastAt = 0
    /\ root = NoMsg /\ phase = "idle" /\ outcome = "none" /\ stopped = FALSE
    /\ pending = {} /\ injected = {} /\ admission = [m \in Msg |-> "none"]
    /\ transfer = [m \in Msg |-> None] /\ history = [m \in Msg |-> <<>>]
    /\ recovering = [m \in Msg |-> "no"] /\ reply = [m \in Msg |-> {}]
    /\ reordered = FALSE /\ crashes = 0

-------------------------------------------------------------------------------
(* State formulas and operators on the parts *)

Accepting == phase = "run"
Ready == \A m \in Msg : recovering[m] = "no"

\* The waiters whose slot is still in the queue, cancelled or not.
Waiting == {i \in DOMAIN line : line[i].st # "gone"}
Queued  == {line[i].msg : i \in Waiting}

HasTransfer(m) == transfer[m].turn # NoMsg
Persisted(m, t) == \E i \in DOMAIN history[m] : history[m][i] = t
Recorded(m) == history[m] # <<>>

\* addMessage and save, for every message of S, under turn t.
Record(S, t) == history' = [m \in Msg |-> IF m \in S THEN Append(history[m], t) ELSE history[m]]

Publish(m, e) == reply' = [reply EXCEPT ![m] = @ \cup {e}]

\* Where a waiter of priority p goes: before the first one of higher priority.
Index(l, p) == Cardinality({i \in DOMAIN l : \A j \in 1..i : l[j].at <= p}) + 1

InsertAt(l, k, w) == [i \in 1..Len(l) + 1 |-> IF i < k THEN l[i] ELSE IF i = k THEN w ELSE l[i - 1]]

NewWaiter(m, p) == [msg |-> m, at |-> p, st |-> "live"]
Insert(l, m, p) == InsertAt(l, Index(l, p), NewWaiter(m, p))

SetState(m, s) == [i \in DOMAIN line |->
                     IF line[i].msg = m /\ line[i].st # "gone" THEN [line[i] EXCEPT !.st = s] ELSE line[i]]

LockFree == root = NoMsg /\ line = <<>>

\* A turn takes the lock with m as its root.
StartTurn(m) == /\ root' = m /\ phase' = "start"
                /\ outcome' = "none"

-------------------------------------------------------------------------------
(* Messages enter *)

\* The client sends a message, which the channel puts on the bus.
Send(m, a) ==
    /\ m \notin sent
    /\ sent' = sent \cup {m} /\ bus' = [bus EXCEPT ![m] = a]
    /\ UNCHANGED <<line, at, lastAt, root, phase, outcome, stopped, pending, injected, admission,
                   durable, recovering, reply, reordered, crashes>>

\* tryAdmitDirectSteer: into the running turn, as long as it accepts.
ReceiveSteer(m) ==
    /\ Ready /\ bus[m] = "steer" /\ Accepting
    /\ bus' = [bus EXCEPT ![m] = "none"] /\ pending' = pending \cup {m}
    /\ UNCHANGED <<line, at, lastAt, root, phase, outcome, stopped, injected, admission, durable, aside>>

\* A slot of its own; it starts at once in an idle session and waits otherwise.
ReceiveQueue(m) ==
    /\ Ready /\ bus[m] # "none" /\ (bus[m] = "steer" => ~Accepting)
    /\ bus' = [bus EXCEPT ![m] = "none"]
    /\ IF LockFree
         THEN StartTurn(m) /\ stopped' = FALSE /\ UNCHANGED <<line, at, lastAt>>
         ELSE /\ lastAt' = lastAt + 1 /\ at' = [at EXCEPT ![m] = lastAt + 1]
              /\ line' = Insert(line, m, lastAt + 1)
              /\ UNCHANGED <<root, phase, outcome, stopped>>
    /\ UNCHANGED <<pending, injected, admission, durable, aside>>

\* The lock passes to the next waiter: the slot starts, or it was removed or steered
\* meanwhile, or its task is cancelled and cleanupOwnedSlots rejects its message.
Grant ==
    /\ root = NoMsg /\ line # <<>> /\ Head(line).st = "live"
    /\ line' = Tail(line) /\ StartTurn(Head(line).msg) /\ stopped' = FALSE
    /\ UNCHANGED <<bus, at, lastAt, pending, injected, admission, durable, aside>>

GrantGone ==
    /\ root = NoMsg /\ line # <<>> /\ Head(line).st = "gone"
    /\ line' = Tail(line)
    /\ UNCHANGED <<bus, at, lastAt, root, phase, outcome, stopped, pending, injected, admission, durable, aside>>

GrantCancelled ==
    /\ root = NoMsg /\ line # <<>> /\ Head(line).st = "cancelled"
    /\ line' = Tail(line) /\ Publish(Head(line).msg, "rejected")
    /\ UNCHANGED <<bus, at, lastAt, root, phase, outcome, stopped, pending, injected, admission, durable,
                   sent, recovering, reordered, crashes>>

-------------------------------------------------------------------------------
(* The turn that holds the lock *)

\* The finally block settles the slot and discards the queue steers it was not given.
Settle(o) ==
    /\ phase' = "finalize" /\ outcome' = o
    /\ pending' = {m \in pending : admission[m] = "none"} /\ injected' = {}

\* isCancelled() is asked once before the message is processed.
Begin ==
    /\ phase = "start" /\ ~stopped
    /\ phase' = "build"
    /\ UNCHANGED <<bus, line, at, lastAt, root, outcome, stopped, pending, injected, admission, durable, aside>>

StartStopped ==
    /\ phase = "start" /\ stopped
    /\ Settle("returned")
    /\ UNCHANGED <<bus, line, at, lastAt, root, stopped, admission, durable, aside>>

\* stateBuild: one save appends the root and clears its transfer.
PersistRoot ==
    /\ phase = "build"
    /\ Record({root}, root) /\ transfer' = [transfer EXCEPT ![root] = None]
    /\ Publish(root, "accepted") /\ phase' = "prepare"
    /\ UNCHANGED <<bus, line, at, lastAt, root, outcome, stopped, pending, injected, admission,
                   sent, recovering, reordered, crashes>>

\* stateRun opens the slot to steers.
Prepared ==
    /\ phase = "prepare" /\ phase' = "run"
    /\ UNCHANGED <<bus, line, at, lastAt, root, outcome, stopped, pending, injected, admission, durable, aside>>

\* A SessionWorkspaceError is answered and the turn returns.
WorkspaceLost ==
    /\ phase \in {"build", "prepare"}
    /\ Settle("returned") /\ Publish(root, "workspace_lost")
    /\ UNCHANGED <<bus, line, at, lastAt, root, stopped, admission, durable, sent, recovering, reordered, crashes>>

\* Any other error leaves dispatchSlot; the root is rejected if it was not accepted.
Throws ==
    /\ phase \in {"build", "prepare", "run", "final"}
    /\ Settle(IF phase = "build" THEN "failed" ELSE "threw")
    /\ UNCHANGED <<bus, line, at, lastAt, root, stopped, admission, durable, aside>>

GiveToRunner(m, marked) ==
    /\ phase = "run" /\ m \in pending
    /\ pending' = pending \ {m} /\ injected' = injected \cup {m}
    /\ IF admission[m] = "pending"
         THEN admission' = [admission EXCEPT ![m] = "consumed"] /\ transfer' = marked
         ELSE UNCHANGED <<admission, transfer>>
    /\ UNCHANGED <<bus, line, at, lastAt, root, phase, outcome, stopped, history, aside>>

\* Mutant: consumption is only remembered in memory.
InjectUnmarked(m) == GiveToRunner(m, transfer)

\* drainPendingQueue: a queue steer is marked consumed on disk before the runner gets it.
Inject(m) == GiveToRunner(m, [transfer EXCEPT ![m].consumed = TRUE])

\* onMaxFinalizationStarting: the last answer of a turn out of iterations takes no steers.
MaxFinalization ==
    /\ phase = "run" /\ phase' = "final"
    /\ UNCHANGED <<bus, line, at, lastAt, root, outcome, stopped, pending, injected, admission, durable, aside>>

\* The runner returns; a turn that was stopped is not saved.
EndRun ==
    /\ phase \in {"run", "final"}
    /\ IF stopped
         THEN Settle("returned")
         ELSE /\ phase' = "save" /\ outcome' = (IF phase = "run" THEN "completed" ELSE "maxIterations")
              /\ UNCHANGED <<pending, injected>>
    /\ UNCHANGED <<bus, line, at, lastAt, root, stopped, admission, durable, aside>>

\* stateSave appends the messages of the run, then the finally block is entered.
Save ==
    /\ phase = "save"
    /\ Record(injected, root) /\ Settle(outcome)
    /\ UNCHANGED <<bus, line, at, lastAt, root, stopped, admission, transfer, aside>>

-------------------------------------------------------------------------------
(* finalizeQueueSteerAdmissions, one message at a time: its saves may be separated by a crash *)

Consumed(m) == admission[m] = "consumed" \/ transfer[m].consumed

KeepConsumed(m, isMissing) ==
    /\ phase = "finalize" /\ admission[m] # "none"
    /\ isMissing /\ Consumed(m) /\ HasTransfer(m)
    /\ Record({m}, transfer[m].turn)
    /\ UNCHANGED <<memory, transfer, aside>>

\* Mutant: nobody asks whether stateSave has recorded the message.
FinalizeKeepAgain(m) == KeepConsumed(m, TRUE)

\* persistConsumedQueueSteerTransfer: what the runner was given is kept without stateSave.
FinalizeKeep(m) == KeepConsumed(m, ~Persisted(m, root))

CompleteTransfer(m, isDone) ==
    /\ phase = "finalize" /\ admission[m] # "none" /\ isDone
    /\ transfer' = [transfer EXCEPT ![m] = None] /\ admission' = [admission EXCEPT ![m] = "none"]
    /\ Publish(m, "accepted")
    /\ UNCHANGED <<bus, line, at, lastAt, root, phase, outcome, stopped, pending, injected, history,
                   sent, recovering, reordered, crashes>>

\* Mutant: what the runner was given counts as saved.
FinalizeDoneEarly(m) == CompleteTransfer(m, Consumed(m))

\* completeQueueSteerTransfer, then the answer.
FinalizeDone(m) == CompleteTransfer(m, Persisted(m, root))

Requeue(m, newLine, newTransfer) ==
    /\ phase = "finalize" /\ admission[m] # "none"
    /\ ~Persisted(m, root) /\ ~Consumed(m) /\ HasTransfer(m)
    /\ admission' = [admission EXCEPT ![m] = "none"]
    /\ at' = [at EXCEPT ![m] = transfer[m].at]
    /\ line' = newLine /\ transfer' = newTransfer
    /\ UNCHANGED <<bus, lastAt, root, phase, outcome, stopped, pending, injected, history, aside>>

\* Mutants: the message is put behind the queue; its transfer is completed.
FinalizeRequeueLast(m) == Requeue(m, Append(line, NewWaiter(m, transfer[m].at)), transfer)
FinalizeRequeueDone(m) == Requeue(m, Insert(line, m, transfer[m].at), [transfer EXCEPT ![m] = None])

\* scheduleRecoveredQueueSlot: what the runner was not given goes back to its place.
FinalizeRequeue(m) == Requeue(m, Insert(line, m, transfer[m].at), transfer)

TurnOver == phase = "finalize" /\ \A m \in Msg : admission[m] = "none"

LeaveFailed(holder) ==
    /\ TurnOver /\ outcome \in {"failed", "threw"}
    /\ root' = holder /\ phase' = "idle" /\ pending' = {}
    /\ IF outcome = "failed" THEN Publish(root, "rejected") ELSE UNCHANGED reply
    /\ UNCHANGED <<bus, line, at, lastAt, outcome, stopped, injected, admission, durable,
                   sent, recovering, reordered, crashes>>

\* Mutant: an error does not release the lock.
EndFailedLocked == LeaveFailed(root)

\* The error leaves the lock: the steers left are dropped, cleanupOwnedSlots rejects.
EndFailed == LeaveFailed(NoMsg)

\* The first steer left by a turn out of iterations is the root of the next turn.
Successor(m) ==
    /\ TurnOver /\ outcome = "maxIterations" /\ ~stopped /\ m \in pending
    /\ StartTurn(m) /\ pending' = pending \ {m}
    /\ UNCHANGED <<bus, line, at, lastAt, stopped, injected, admission, durable, aside>>

\* The steers left otherwise go back to the bus, or are dropped with a stopped turn.
EndTurn ==
    /\ TurnOver /\ outcome \in {"completed", "maxIterations", "returned"}
    /\ outcome = "maxIterations" => stopped \/ pending = {}
    /\ root' = NoMsg /\ phase' = "idle" /\ pending' = {}
    /\ bus' = [m \in Msg |-> IF m \in pending /\ ~stopped THEN "queue" ELSE bus[m]]
    /\ UNCHANGED <<line, at, lastAt, outcome, stopped, injected, admission, durable, aside>>

-------------------------------------------------------------------------------
(* What the user does to the queue *)

MoveToTurn(m, newLine, time) ==
    /\ Accepting /\ m \in Queued /\ admission[m] = "none"
    /\ transfer' = [transfer EXCEPT ![m] = [turn |-> root, consumed |-> FALSE, at |-> time]]
    /\ pending' = pending \cup {m} /\ line' = newLine
    /\ admission' = [admission EXCEPT ![m] = "pending"]
    /\ UNCHANGED <<bus, at, lastAt, root, phase, outcome, stopped, injected, history, aside>>

\* Mutants: the slot stays in the line; the transfer has no time.
SteerQueuedKept(m) == MoveToTurn(m, line, at[m])
SteerQueuedUntimed(m) == MoveToTurn(m, SetState(m, "gone"), -1)

\* steerQueuedWebuiMessage: the transfer is saved before the slot is given up.
SteerQueued(m) == MoveToTurn(m, SetState(m, "gone"), at[m])

TakeOut(m, newLine) ==
    /\ m \in Queued /\ admission[m] = "none"
    /\ line' = newLine /\ Publish(m, "removed")
    /\ UNCHANGED <<bus, at, lastAt, root, phase, outcome, stopped, pending, injected, admission, durable,
                   sent, recovering, reordered, crashes>>

\* Mutant: the waiter of a removed message still starts its turn.
RemoveQueuedKept(m) == TakeOut(m, line)

\* removeQueuedMessage.
RemoveQueued(m) == TakeOut(m, SetState(m, "gone"))

\* reorderQueuedWebuiMessages: rank is the new order of the queued messages.  Their
\* times are dealt again and reorderWaiters permutes the waiters, a stable sort by rank.
Reorder(rank) ==
    LET mine == {i \in DOMAIN line : line[i].msg \in Queued}
        Before(i, j) == \/ rank[line[i].msg] < rank[line[j].msg]
                        \/ rank[line[i].msg] = rank[line[j].msg] /\ i < j
    IN  /\ \E first \in {at[m] : m \in Queued} :
             /\ \A m \in Queued : first <= at[m]
             /\ at' = [m \in Msg |-> IF m \in Queued THEN first + rank[m] - 1 ELSE at[m]]
        /\ \E f \in [DOMAIN line -> DOMAIN line] :
             /\ \A i \in DOMAIN line \ mine : f[i] = i
             /\ \A i \in mine : f[i] \in mine
             /\ \A i, j \in mine : i < j => Before(f[i], f[j])
             /\ line' = [i \in DOMAIN line |-> line[f[i]]]
        /\ reordered' = TRUE
        /\ UNCHANGED <<bus, lastAt, root, phase, outcome, stopped, pending, injected, admission, durable,
                       sent, recovering, reply, crashes>>

Ranks == {r \in [Queued -> 1..Cardinality(Queued)] : \A m, n \in Queued : r[m] = r[n] => m = n}

ReorderQueue == Cardinality(Queued) >= 2 /\ \E rank \in Ranks : Reorder(rank)

\* stopExpectedTurn cancels the task of the slot that runs or settles.
StopTurn ==
    /\ root # NoMsg /\ ~stopped /\ stopped' = TRUE
    /\ UNCHANGED <<bus, line, at, lastAt, root, phase, outcome, pending, injected, admission, durable, aside>>

\* cancelActiveTasks cancels the tasks of all slots of the session.
CancelAll ==
    /\ Queued # {}
    /\ stopped' = (root # NoMsg)
    /\ line' = [i \in DOMAIN line |-> IF line[i].st = "live" THEN [line[i] EXCEPT !.st = "cancelled"] ELSE line[i]]
    /\ UNCHANGED <<bus, at, lastAt, root, phase, outcome, pending, injected, admission, durable, aside>>

-------------------------------------------------------------------------------
(* Crash and recovery *)

\* The process ends; the session's file is all that is left.
Crash ==
    /\ crashes < MaxCrashes /\ crashes' = crashes + 1
    /\ bus' = [m \in Msg |-> "none"] /\ line' = <<>> /\ at' = [m \in Msg |-> 0]
    /\ root' = NoMsg /\ phase' = "idle" /\ outcome' = "none" /\ stopped' = FALSE
    /\ pending' = {} /\ injected' = {} /\ admission' = [m \in Msg |-> "none"]
    /\ recovering' = [m \in Msg |-> IF HasTransfer(m) THEN "read" ELSE "no"]
    /\ reordered' = FALSE
    /\ UNCHANGED <<lastAt, durable, sent, reply>>

\* recoverQueueSteerTransfers handles the transfers in the order of their times.
NextToRecover(m) ==
    /\ recovering[m] # "no"
    /\ \A n \in Msg : recovering[n] # "no" => transfer[m].at <= transfer[n].at

RecoverKeep(m) ==
    /\ NextToRecover(m) /\ ~Persisted(m, transfer[m].turn) /\ transfer[m].consumed
    /\ Record({m}, transfer[m].turn) /\ recovering' = [recovering EXCEPT ![m] = "kept"]
    /\ UNCHANGED <<memory, transfer, sent, reply, reordered, crashes>>

RecoverDone(m) ==
    /\ NextToRecover(m) /\ Persisted(m, transfer[m].turn)
    /\ transfer' = [transfer EXCEPT ![m] = None] /\ recovering' = [recovering EXCEPT ![m] = "no"]
    /\ IF recovering[m] = "kept" THEN Publish(m, "accepted") ELSE UNCHANGED reply
    /\ UNCHANGED <<memory, history, sent, reordered, crashes>>

RecoverQueue(m) ==
    /\ NextToRecover(m) /\ ~Persisted(m, transfer[m].turn) /\ ~transfer[m].consumed
    /\ recovering' = [recovering EXCEPT ![m] = "no"] /\ at' = [at EXCEPT ![m] = transfer[m].at]
    /\ IF LockFree
         THEN StartTurn(m) /\ stopped' = FALSE /\ UNCHANGED line
         ELSE line' = Insert(line, m, transfer[m].at) /\ UNCHANGED <<root, phase, outcome, stopped>>
    /\ UNCHANGED <<bus, lastAt, pending, injected, admission, durable, sent, reply, reordered, crashes>>

-------------------------------------------------------------------------------
Receive == \E m \in Msg : ReceiveSteer(m) \/ ReceiveQueue(m)
PassLock == Grant \/ GrantGone \/ GrantCancelled
Run == \/ Begin \/ StartStopped \/ PersistRoot \/ Prepared \/ WorkspaceLost \/ Throws
       \/ MaxFinalization \/ EndRun \/ Save \/ \E m \in Msg : Inject(m)
Finalize == \E m \in Msg : FinalizeKeep(m) \/ FinalizeDone(m) \/ FinalizeRequeue(m)
Finish == EndFailed \/ EndTurn \/ \E m \in Msg : Successor(m)
Recover == \E m \in Msg : RecoverKeep(m) \/ RecoverDone(m) \/ RecoverQueue(m)
User == \/ \E m \in Msg : SteerQueued(m) \/ RemoveQueued(m)
        \/ ReorderQueue \/ StopTurn \/ CancelAll
        \/ \E m \in Msg, a \in {"queue", "steer"} : Send(m, a)

Next == Receive \/ PassLock \/ Run \/ Finalize \/ Finish \/ Recover \/ User \/ Crash

\* The loop takes messages, promises settle and model calls end; the user may do nothing.
Fairness == /\ WF_vars(Receive) /\ WF_vars(PassLock) /\ WF_vars(Recover)
            /\ WF_vars(Run) /\ WF_vars(Finalize) /\ WF_vars(Finish)

Spec == Init /\ [][Next]_vars
FairSpec == Spec /\ Fairness

-------------------------------------------------------------------------------
(* Properties *)

\* A message is recorded in the history at most once, however often it was steered,
\* requeued, recovered or left to a crash (finalizeQueueSteerAdmissions, appendUserMessage).
AtMostOnce == \A m \in Msg : Len(history[m]) <= 1

\* A steer that the queue has given up is on disk until it is recorded and completed: the
\* admission of a message never is without its transfer, and a consumed one is so on disk.
SteersAreDurable == \A m \in Msg :
    admission[m] # "none" => /\ transfer[m].turn = root
                             /\ admission[m] = "consumed" => transfer[m].consumed \/ Persisted(m, root)

\* A message is in one place at a time: on the bus, in the queue, root of the turn about
\* to record it, or a steer of the running turn; a recorded one is in none of them.
OnePlace == \A m \in Msg :
    LET places == {p \in {"bus", "queue", "root", "steer", "turn"} :
                     \/ p = "bus" /\ bus[m] # "none"
                     \/ p = "queue" /\ m \in Queued
                     \/ p = "root" /\ root = m /\ phase \in {"start", "build"}
                     \/ p = "steer" /\ m \in pending
                     \/ p = "turn" /\ m \in injected}
    IN  /\ Cardinality(places) <= 1
        /\ Recorded(m) => places = {}
        /\ \A i, j \in Waiting : line[i].msg = m /\ line[j].msg = m => i = j

\* Until the user reorders it, the lock is passed in the order of the times shown, also
\* after a steer was put back or recovered (dispatchSlot, AsyncMutex.runExclusive).  Two
\* times can be equal: a reorder deals times again that steered messages keep on disk.
QueueKeepsOrder == ~reordered =>
    \A i, j \in Waiting : i < j => at[line[i].msg] <= at[line[j].msg]

\* A message that was removed from the queue or rejected is not recorded.
RefusedStaysOut == \A m \in Msg : reply[m] \cap {"removed", "rejected"} # {} => ~Recorded(m)

\* What the client is told is true: an accepted message is in the history, also after a
\* crash, and a refused one is not as long as the process lives (publishWebuiMessageAccepted
\* follows the save, cleanupOwnedSlots rejects what has not started).
AnswersAreTrue ==
    /\ \A m \in Msg : "accepted" \in reply[m] => Recorded(m)
    /\ crashes = 0 => RefusedStaysOut

Held(m) == \/ bus[m] # "none" \/ m \in Queued \/ m \in pending \/ m \in injected
           \/ root = m /\ phase \in {"start", "build"}

\* A message does not wait for ever: it is recorded, refused or dropped with its turn.
NobodyWaits == \A m \in Msg : Held(m) ~> ~Held(m)

StatusOf(m) == CASE Len(history[m]) > 1 -> "twice"
                 [] Len(history[m]) = 1 -> "recorded"
                 [] ~Recorded(m) /\ HasTransfer(m) -> "promised"
                 [] ~Recorded(m) /\ ~HasTransfer(m) /\ Held(m) -> "held"
                 [] ~Recorded(m) /\ ~HasTransfer(m) /\ ~Held(m) ->
                      IF m \in sent THEN "lost" ELSE "unsent"

Ledger == INSTANCE MessageLedger WITH status <- [m \in Msg |-> StatusOf(m)]

\* The queue implements the ledger: promised messages are never lost, recorded ones stay,
\* lost ones never come back.
ImplementsLedger == Ledger!LSpec
==============================================================================
