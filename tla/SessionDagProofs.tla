--------------------------- MODULE SessionDagProofs ---------------------------
(***************************************************************************)
(* Theorems about SessionDagQueue, for every set of sessions, every number *)
(* of turns and slots and every backoff.  A step moves a queue only by      *)
(* Wake, Return, Claim, MarkDone or CloseSession; the first two get a lemma *)
(* each, and every action is then a short case.                            *)
(***************************************************************************)
EXTENDS SessionDagQueue, FiniteSetTheorems, TLAPS

PCs == {"none", "idle", "waiting", "ready", "building", "applied"}

\* The line for a slot holds queues that wait, each once: the slot a returning
\* worker passes on cannot go to a queue that has one, or that is gone.
Line ==
    /\ \A i \in 1..Len(waiters) : pc[waiters[i]] = "waiting"
    /\ \A i, j \in 1..Len(waiters) : waiters[i] = waiters[j] => i = j

\* A turn that was never built has no deadline, so it is due.
FreshIsDue ==
    \A s \in Sessions, t \in Turns :
        turns[s][t].status \in {"absent", "pending"} => turns[s][t].wait = 0

\* Only an open queue at rest has its timer set.
TimerAtRest ==
    \A s \in Sessions : timer[s] # Off => pc[s] = "idle" /\ ~closed[s]

Safe == NeverStranded /\ RunningIsHeld /\ DeletedQuiescent /\ FreshIsDue /\ TimerAtRest
IInv == TypeOK /\ Line /\ Safe

\* How the queues other than s may move when s is woken or returns.
OthersKept(s) ==
    \A r \in Sessions \ {s} :
        pc'[r] = pc[r] \/ (pc[r] = "waiting" /\ pc'[r] = "ready")

-----------------------------------------------------------------------------

LEMMA DelayType == \A n \in Nat : RetryDelay(n) \in Nat
<1> SUFFICES ASSUME NEW n \in Nat PROVE RetryDelay(n) \in Nat
  OBVIOUS
<1>1. Backoff \in Seq(Nat) /\ Len(Backoff) \in Nat /\ Len(Backoff) > 0
  BY DagAssumption
<1>2. \A i \in 1..Len(Backoff) : Backoff[i] \in Nat
  BY <1>1
<1> QED BY <1>1, <1>2 DEF RetryDelay

\* The head of a line is a session, and its tail has the other places.
LEMMA TailFacts ==
    ASSUME NEW S, NEW w \in Seq(S), w # << >>
    PROVE  /\ Len(w) \in Nat /\ Len(w) > 0
           /\ Head(w) = w[1] /\ Head(w) \in S
           /\ Tail(w) \in Seq(S) /\ Len(Tail(w)) = Len(w) - 1
           /\ \A i \in 1..Len(Tail(w)) : Tail(w)[i] = w[i + 1]
OBVIOUS

\* What a returning worker does to the queues.
LEMMA ReturnStep ==
    ASSUME NEW s \in Sessions, TypeOK, Line,
           pc[s] \in {"ready", "building"}, Return(s)
    PROVE  /\ pc' \in [Sessions -> PCs]
           /\ waiters' \in Seq(Sessions)
           /\ active' \in Int
           /\ pc'[s] = Returned(s)
           /\ OthersKept(s)
           /\ Line'
<1>1. pc \in [Sessions -> PCs] /\ waiters \in Seq(Sessions) /\ active \in Int
  BY DEF TypeOK, PCs
<1>2. Returned(s) \in {"none", "idle"}
  BY DEF Returned
<1>3. CASE /\ waiters = << >>
           /\ active' = active - 1
           /\ pc' = [pc EXCEPT ![s] = Returned(s)]
           /\ UNCHANGED waiters
  <2>1. Len(waiters) = 0
    BY <1>3
  <2>2. Line'
    BY <1>3, <2>1 DEF Line
  <2> QED BY <1>1, <1>2, <1>3, <2>2 DEF OthersKept, PCs
<1>4. CASE /\ waiters # << >>
           /\ pc' = [pc EXCEPT ![s] = Returned(s), ![Head(waiters)] = "ready"]
           /\ waiters' = Tail(waiters)
           /\ UNCHANGED active
  <2> DEFINE h == Head(waiters)
  <2>1. /\ Len(waiters) \in Nat /\ Len(waiters) > 0
        /\ h = waiters[1] /\ h \in Sessions
        /\ waiters' \in Seq(Sessions) /\ Len(waiters') = Len(waiters) - 1
        /\ \A i \in 1..Len(waiters') : waiters'[i] = waiters[i + 1]
    BY <1>1, <1>4, TailFacts
  <2>2. pc[h] = "waiting" /\ h # s
    BY <2>1 DEF Line
  <2>3. \A r \in Sessions : pc'[r] = IF r = h THEN "ready" ELSE IF r = s THEN Returned(s) ELSE pc[r]
    BY <1>1, <1>4, <2>1, <2>2
  <2>4. pc' \in [Sessions -> PCs] /\ pc'[s] = Returned(s) /\ OthersKept(s)
    BY <1>1, <1>2, <1>4, <2>1, <2>2, <2>3 DEF OthersKept, PCs
  <2>5. ASSUME NEW i \in 1..Len(waiters')
        PROVE  pc'[waiters'[i]] = "waiting"
    <3>1. i + 1 \in 1..Len(waiters) /\ 1 \in 1..Len(waiters) /\ i + 1 # 1
      BY <2>1
    <3>2. waiters[i + 1] \in Sessions /\ waiters[i + 1] # h /\ pc[waiters[i + 1]] = "waiting"
      BY <1>1, <2>1, <3>1 DEF Line
    <3> QED BY <2>1, <2>3, <3>2
  <2>6. ASSUME NEW i \in 1..Len(waiters'), NEW j \in 1..Len(waiters'), waiters'[i] = waiters'[j]
        PROVE  i = j
    <3>1. i + 1 \in 1..Len(waiters) /\ j + 1 \in 1..Len(waiters) /\ i \in Int /\ j \in Int
      BY <2>1
    <3>2. waiters[i + 1] = waiters[j + 1]
      BY <2>1, <2>6
    <3>3. i + 1 = j + 1
      BY <3>1, <3>2 DEF Line
    <3> QED BY <3>1, <3>3
  <2>7. Line'
    BY <2>5, <2>6 DEF Line
  <2> QED BY <1>1, <1>4, <2>1, <2>4, <2>7
<1> QED BY <1>3, <1>4 DEF Return

\* What waking a queue does to the queues.
LEMMA WakeStep ==
    ASSUME NEW s \in Sessions, TypeOK, Line, Wake(s)
    PROVE  /\ pc' \in [Sessions -> PCs]
           /\ waiters' \in Seq(Sessions)
           /\ active' \in Int
           /\ timer' = [timer EXCEPT ![s] = Off]
           /\ IF pc[s] \in {"none", "idle"} THEN pc'[s] \in {"waiting", "ready"} ELSE pc'[s] = pc[s]
           /\ \A r \in Sessions \ {s} : pc'[r] = pc[r]
           /\ Line'
<1>1. pc \in [Sessions -> PCs] /\ waiters \in Seq(Sessions) /\ active \in Int
  BY DEF TypeOK, PCs
<1>2. CASE pc[s] \notin {"none", "idle"} /\ UNCHANGED <<pc, active, waiters>>
  BY <1>1, <1>2 DEF Wake, Line
<1>3. CASE /\ pc[s] \in {"none", "idle"}
           /\ pc' = [pc EXCEPT ![s] = "waiting"]
           /\ waiters' = Append(waiters, s)
           /\ UNCHANGED active
  <2>1. /\ Len(waiters) \in Nat /\ waiters' \in Seq(Sessions)
        /\ Len(waiters') = Len(waiters) + 1
        /\ \A i \in 1..Len(waiters) : waiters'[i] = waiters[i] /\ waiters[i] \in Sessions
        /\ waiters'[Len(waiters) + 1] = s
    BY <1>1, <1>3
  <2>2. \A i \in 1..Len(waiters) : waiters[i] # s
    BY <1>3 DEF Line
  <2>3. Line'
    <3>1. ASSUME NEW i \in 1..Len(waiters') PROVE pc'[waiters'[i]] = "waiting"
      BY <1>1, <1>3, <2>1 DEF Line
    <3>2. ASSUME NEW i \in 1..Len(waiters'), NEW j \in 1..Len(waiters'), waiters'[i] = waiters'[j]
          PROVE  i = j
      BY <2>1, <2>2, <3>2 DEF Line
    <3> QED BY <3>1, <3>2 DEF Line
  <2> QED BY <1>1, <1>3, <2>1, <2>3 DEF Wake, PCs
<1>4. CASE /\ pc[s] \in {"none", "idle"}
           /\ pc' = [pc EXCEPT ![s] = "ready"]
           /\ active' = active + 1
           /\ UNCHANGED waiters
  <2>1. Line'
    BY <1>1, <1>4 DEF Line
  <2> QED BY <1>1, <1>4, <2>1 DEF Wake, PCs
<1> QED BY <1>2, <1>3, <1>4 DEF Wake

-----------------------------------------------------------------------------
(***************************************************************************)
(* The invariant says of each session what it says of all; the parts that  *)
(* are about one session are named here, for the steps that leave the       *)
(* others alone.                                                           *)
(***************************************************************************)
StrandedOK(s) == pc[s] = "idle" /\ (\E t \in Turns : IsUnfinished(s, t)) => timer[s] # Off
RunningOK(s) ==
    /\ pc[s] = "building" => {t \in Turns : turns[s][t].status = "running"} = {cur[s]}
    /\ pc[s] = "idle" => \A t \in Turns : turns[s][t].status # "running"
GoneOK(s) ==
    gone[s] =>
        /\ pc[s] = "none" /\ timer[s] = Off /\ closed[s]
        /\ \A t \in Turns : turns[s][t].status = "absent"

FreshOK(s) ==
    \A t \in Turns : turns[s][t].status \in {"absent", "pending"} => turns[s][t].wait = 0

TimerOK(s) == timer[s] # Off => pc[s] = "idle" /\ ~closed[s]

SessionOK(s) == StrandedOK(s) /\ RunningOK(s) /\ GoneOK(s) /\ FreshOK(s) /\ TimerOK(s)

LEMMA BySession ==
    Safe <=> \A s \in Sessions : SessionOK(s)
BY DEF Safe, NeverStranded, RunningIsHeld, DeletedQuiescent, FreshIsDue, TimerAtRest,
       SessionOK, StrandedOK, RunningOK, GoneOK, FreshOK, TimerOK

\* A session whose store, timer and deletion a step leaves alone keeps its part
\* of the invariant, also when its queue is passed a slot.
Untouched(r) ==
    /\ turns'[r] = turns[r] /\ cur'[r] = cur[r] /\ timer'[r] = timer[r]
    /\ closed'[r] = closed[r] /\ gone'[r] = gone[r]
    /\ pc'[r] = pc[r] \/ (pc[r] = "waiting" /\ pc'[r] = "ready")

LEMMA UntouchedOK == ASSUME NEW r \in Sessions, SessionOK(r), Untouched(r) PROVE SessionOK(r)'
BY DEF Untouched, SessionOK, StrandedOK, RunningOK, GoneOK, FreshOK, TimerOK, IsUnfinished

\* The invariant after a step of session s, from its parts.
LEMMA StepOfOne ==
    ASSUME NEW s \in Sessions, IInv, TypeOK', Line', SessionOK(s)',
           \A r \in Sessions \ {s} : Untouched(r)
    PROVE  IInv'
<1>1. \A r \in Sessions : SessionOK(r)'
  BY BySession, UntouchedOK DEF IInv
<1>2. Safe'
  BY <1>1 DEF Safe, NeverStranded, RunningIsHeld, DeletedQuiescent, FreshIsDue, TimerAtRest,
              SessionOK, StrandedOK, RunningOK, GoneOK, FreshOK, TimerOK
<1> QED BY <1>2 DEF IInv

\* The line stays what it is while the queues in it go on waiting.
LEMMA LineKept ==
    ASSUME TypeOK, Line, waiters' = waiters,
           \A r \in Sessions : pc[r] = "waiting" => pc'[r] = "waiting"
    PROVE  Line'
<1>1. \A i \in 1..Len(waiters) : waiters[i] \in Sessions
  BY DEF TypeOK
<1> QED BY <1>1 DEF Line

\* The rows claimNextTurn sees: none is running, and those of turns that were
\* never built are the store's.
LEMMA RowsFacts ==
    ASSUME NEW s \in Sessions, TypeOK
    PROVE  /\ Rows(s) \in [Turns -> TurnRow]
           /\ \A t \in Turns :
                /\ Rows(s)[t].status # "running"
                /\ Rows(s)[t].wait \in Nat
                /\ Rows(s)[t].status \in {"absent", "pending"} => Rows(s)[t] = turns[s][t]
<1>1. \A t \in Turns : turns[s][t] \in TurnRow
  BY DEF TypeOK
<1>2. ASSUME NEW t \in Turns
      PROVE  /\ Reclaimed(turns[s][t]) \in TurnRow
             /\ Reclaimed(turns[s][t]).status # "running"
             /\ Reclaimed(turns[s][t]).wait \in Nat
             /\ Reclaimed(turns[s][t]).status \in {"absent", "pending"}
                   => Reclaimed(turns[s][t]) = turns[s][t]
  BY <1>1 DEF Reclaimed, TurnRow, Unfinished
<1> QED BY <1>2 DEF Rows

-----------------------------------------------------------------------------

LEMMA InitOK == Init => IInv
<1> SUFFICES ASSUME Init PROVE IInv
  OBVIOUS
<1>1. NoTurn \in TurnRow /\ NTurns \in Nat
  BY DagAssumption DEF NoTurn, TurnRow
<1>2. TypeOK
  BY <1>1 DEF Init, TypeOK, Off
<1>3. Line
  BY DEF Init, Line
<1>4. \A s \in Sessions : SessionOK(s)
  BY DEF Init, SessionOK, StrandedOK, RunningOK, GoneOK, FreshOK, TimerOK, NoTurn
<1> QED BY <1>2, <1>3, <1>4, BySession DEF IInv

\* Claiming a turn.
LEMMA ClaimOK == ASSUME NEW s \in Sessions, IInv, Claim(s) PROVE IInv'
<1>1. TypeOK /\ Line /\ SessionOK(s)
  BY BySession DEF IInv
<1>2. PICK t \in Claimable(s) :
        /\ turns' = [turns EXCEPT ![s] = [Rows(s) EXCEPT ![t].status = "running"]]
        /\ cur' = [cur EXCEPT ![s] = t]
  BY DEF Claim
<1>3. /\ pc[s] = "ready" /\ pc' = [pc EXCEPT ![s] = "building"]
      /\ UNCHANGED <<last, timer, closed, gone, active, waiters, comp, consolidated>>
  BY DEF Claim, compaction
<1>4. t \in Turns /\ NTurns \in Nat /\ t \in 0..NTurns
  BY DagAssumption DEF Claimable, Turns
<1> DEFINE row == [Rows(s) EXCEPT ![t].status = "running"]
<1>5. /\ row \in [Turns -> TurnRow]
      /\ {u \in Turns : row[u].status = "running"} = {t}
      /\ \A u \in Turns : row[u].status \in {"absent", "pending"} => row[u] = turns[s][u]
  BY <1>1, <1>4, RowsFacts DEF TurnRow, Unfinished
<1>6. TypeOK'
  BY <1>1, <1>2, <1>3, <1>4, <1>5 DEF TypeOK
<1>7. Line'
  BY <1>1, <1>3, LineKept DEF TypeOK
<1>8. turns'[s] = row /\ pc'[s] = "building" /\ cur'[s] = t /\ ~gone[s]
  BY <1>1, <1>2, <1>3 DEF TypeOK, SessionOK, GoneOK
<1>9. SessionOK(s)'
  BY <1>1, <1>3, <1>5, <1>8 DEF SessionOK, StrandedOK, RunningOK, GoneOK, FreshOK, TimerOK
<1>10. \A r \in Sessions \ {s} : Untouched(r)
  BY <1>1, <1>2, <1>3 DEF TypeOK, Untouched
<1> QED BY <1>6, <1>7, <1>9, <1>10, StepOfOne

\* Nothing to claim: every unfinished turn is a retry ahead of its deadline, so
\* the timer is set.
LEMMA ClaimNoneOK == ASSUME NEW s \in Sessions, IInv, ClaimNone(s) PROVE IInv'
<1>1. TypeOK /\ Line /\ SessionOK(s)
  BY BySession DEF IInv
<1>2. /\ pc[s] = "ready" /\ ~closed[s] /\ Claimable(s) = {}
      /\ turns' = [turns EXCEPT ![s] = Rows(s)]
      /\ Return(s)
      /\ UNCHANGED <<last, cur, closed, gone, comp, consolidated>>
  BY DEF ClaimNone, compaction
<1>3. /\ pc' \in [Sessions -> PCs] /\ waiters' \in Seq(Sessions) /\ active' \in Int
      /\ pc'[s] = "idle" /\ OthersKept(s) /\ Line'
  BY <1>1, <1>2, ReturnStep DEF Returned
<1>4. \A w \in RetryWaits(s) : w \in Nat
  BY <1>1, RowsFacts DEF RetryWaits
<1>5. \/ RetryWaits(s) = {} /\ timer' = timer
      \/ \E d \in Nat : timer' = [timer EXCEPT ![s] = d]
  BY <1>2, <1>4 DEF ClaimNone, ScheduleRetry
<1>6. timer' \in [Sessions -> Nat \union {Off}] /\ \A r \in Sessions \ {s} : timer'[r] = timer[r]
  BY <1>1, <1>5 DEF TypeOK
<1>7. turns' \in [Sessions -> [Turns -> TurnRow]] /\ turns'[s] = Rows(s)
  BY <1>1, <1>2, RowsFacts DEF TypeOK
<1>8. \A r \in Sessions : pc'[r] = "building" => pc[r] = "building"
  BY <1>3 DEF OthersKept
<1>9. TypeOK'
  BY <1>1, <1>2, <1>3, <1>6, <1>7, <1>8 DEF TypeOK, PCs
<1>10. StrandedOK(s)'
  <2>1. ASSUME NEW t \in Turns, Rows(s)[t].status \in Unfinished PROVE RetryWaits(s) # {}
    <3>1. ~Due(Rows(s)[t]) /\ Rows(s)[t].status # "running"
      BY <1>1, <1>2, RowsFacts DEF Claimable
    <3>2. Rows(s)[t].status = "retry" \/ Rows(s)[t].status = "pending"
      BY <2>1, <3>1 DEF Due, Unfinished
    <3>3. Rows(s)[t].status = "retry"
      BY <1>1, <3>1, <3>2, RowsFacts DEF Due, SessionOK, FreshOK
    <3> QED BY <3>3 DEF RetryWaits
  <2> QED BY <1>1, <1>5, <1>7, <2>1 DEF StrandedOK, IsUnfinished, Off, TypeOK
<1>11. SessionOK(s)'
  <2>1. RunningOK(s)'
    BY <1>1, <1>3, <1>7, RowsFacts DEF RunningOK
  <2>2. GoneOK(s)'
    BY <1>1, <1>2 DEF GoneOK, SessionOK
  <2>3. FreshOK(s)'
    BY <1>1, <1>7, RowsFacts DEF FreshOK, SessionOK
  <2>4. TimerOK(s)'
    BY <1>2, <1>3 DEF TimerOK
  <2> QED BY <1>10, <2>1, <2>2, <2>3, <2>4 DEF SessionOK
<1>12. \A r \in Sessions \ {s} : Untouched(r)
  BY <1>1, <1>2, <1>3, <1>6 DEF TypeOK, Untouched, OthersKept
<1> QED BY <1>3, <1>9, <1>11, <1>12, StepOfOne

\* A worker that finds its queue closed.
LEMMA StopClosedOK == ASSUME NEW s \in Sessions, IInv, StopClosed(s) PROVE IInv'
<1>1. TypeOK /\ Line /\ SessionOK(s)
  BY BySession DEF IInv
<1>2. /\ pc[s] = "ready" /\ closed[s] /\ Return(s)
      /\ UNCHANGED <<turns, last, cur, timer, closed, gone, comp, consolidated>>
  BY DEF StopClosed, store, compaction
<1>3. /\ pc' \in [Sessions -> PCs] /\ waiters' \in Seq(Sessions) /\ active' \in Int
      /\ pc'[s] = "none" /\ OthersKept(s) /\ Line'
  BY <1>1, <1>2, ReturnStep DEF Returned
<1>4. \A r \in Sessions : pc'[r] = "building" => pc[r] = "building"
  BY <1>3 DEF OthersKept
<1>5. TypeOK'
  BY <1>1, <1>2, <1>3, <1>4 DEF TypeOK, PCs
<1>6. SessionOK(s)'
  BY <1>1, <1>2, <1>3 DEF SessionOK, StrandedOK, RunningOK, GoneOK, FreshOK, TimerOK
<1>7. \A r \in Sessions \ {s} : Untouched(r)
  BY <1>2, <1>3 DEF Untouched, OthersKept
<1> QED BY <1>3, <1>5, <1>6, <1>7, StepOfOne

\* A turn is finished, by the model's patch or by the fallback.
LEMMA MarkDoneOK ==
    ASSUME NEW s \in Sessions, IInv, pc[s] = "building",
           NEW p \in {"applied", "ready"}, MarkDone(s, p)
    PROVE  IInv'
<1>1. TypeOK /\ Line /\ SessionOK(s) /\ NTurns \in Nat
  BY BySession, DagAssumption DEF IInv
<1> DEFINE c == cur[s]
           row == [turns[s][c] EXCEPT !.status = "done", !.wait = 0]
<1>2. c \in Turns /\ c \in 0..NTurns /\ turns[s] \in [Turns -> TurnRow]
  BY <1>1 DEF TypeOK, Turns
<1>3. /\ turns' = [turns EXCEPT ![s] = [turns[s] EXCEPT ![c] = row]]
      /\ last' = [last EXCEPT ![s] = c] /\ cur' = [cur EXCEPT ![s] = 0]
      /\ pc' = [pc EXCEPT ![s] = p]
      /\ UNCHANGED <<timer, closed, gone, active, waiters, comp, consolidated>>
  BY <1>1, <1>2 DEF MarkDone, compaction, TypeOK
<1>4. row \in TurnRow /\ row.status = "done"
  BY <1>2 DEF TurnRow
<1>5. TypeOK'
  <2>1. turns' \in [Sessions -> [Turns -> TurnRow]]
    BY <1>1, <1>2, <1>3, <1>4 DEF TypeOK
  <2>2. /\ pc' \in [Sessions -> PCs]
        /\ \A r \in Sessions : pc'[r] = "building" => pc[r] = "building" /\ r # s
    BY <1>1, <1>3 DEF TypeOK, PCs
  <2>3. last' \in [Sessions -> 0..NTurns] /\ cur' \in [Sessions -> 0..NTurns]
    BY <1>1, <1>2, <1>3 DEF TypeOK
  <2> QED BY <1>1, <1>3, <2>1, <2>2, <2>3 DEF TypeOK, PCs
<1>6. Line'
  <2>1. \A r \in Sessions : pc[r] = "waiting" => r # s /\ pc'[r] = pc[r]
    BY <1>1, <1>3 DEF TypeOK
  <2> QED BY <1>1, <1>3, <2>1, LineKept
<1>7. ~gone[s] /\ pc'[s] = p /\ turns'[s] = [turns[s] EXCEPT ![c] = row]
  BY <1>1, <1>3 DEF SessionOK, GoneOK, TypeOK
<1>8. FreshOK(s)'
  BY <1>1, <1>2, <1>4, <1>7 DEF SessionOK, FreshOK
<1>9. SessionOK(s)'
  BY <1>1, <1>3, <1>7, <1>8 DEF SessionOK, StrandedOK, RunningOK, GoneOK, TimerOK
<1>10. \A r \in Sessions \ {s} : Untouched(r)
  BY <1>1, <1>3 DEF TypeOK, Untouched
<1> QED BY <1>5, <1>6, <1>9, <1>10, StepOfOne

\* buildAndApply returns after the patch was applied.
LEMMA AppliedOK == ASSUME NEW s \in Sessions, IInv, Applied(s) PROVE IInv'
<1>1. TypeOK /\ Line /\ SessionOK(s)
  BY BySession DEF IInv
<1>2. /\ pc[s] = "applied" /\ pc' = [pc EXCEPT ![s] = "ready"]
      /\ UNCHANGED <<turns, last, cur, timer, closed, gone, active, waiters, comp, consolidated>>
  BY DEF Applied, store, compaction
<1>3. TypeOK'
  BY <1>1, <1>2 DEF TypeOK
<1>4. Line'
  BY <1>1, <1>2, LineKept DEF TypeOK
<1>5. pc'[s] = "ready"
  BY <1>1, <1>2 DEF TypeOK
<1>6. SessionOK(s)'
  BY <1>1, <1>2, <1>5 DEF SessionOK, StrandedOK, RunningOK, GoneOK, FreshOK, TimerOK
<1>7. \A r \in Sessions \ {s} : Untouched(r)
  BY <1>1, <1>2 DEF TypeOK, Untouched
<1> QED BY <1>3, <1>4, <1>6, <1>7, StepOfOne

\* A turn failed, and is to be tried again: an open queue sets its timer.
LEMMA FailureOK ==
    ASSUME NEW s \in Sessions, IInv, pc[s] = "building",
           NEW row \in TurnRow, row.status \in {"retry", "blocked"}, NEW d \in Nat,
           turns' = [turns EXCEPT ![s] = [turns[s] EXCEPT ![cur[s]] = row]],
           ScheduleRetry(s, d), cur' = [cur EXCEPT ![s] = 0], Return(s),
           UNCHANGED <<last, closed, gone, comp, consolidated>>
    PROVE  IInv'
<1>1. TypeOK /\ Line /\ SessionOK(s) /\ NTurns \in Nat
  BY BySession, DagAssumption DEF IInv
<1> DEFINE c == cur[s]
<1>2. c \in Turns /\ turns[s] \in [Turns -> TurnRow]
  BY <1>1 DEF TypeOK
<1>3. /\ pc' \in [Sessions -> PCs] /\ waiters' \in Seq(Sessions) /\ active' \in Int
      /\ pc'[s] = Returned(s) /\ OthersKept(s) /\ Line'
  BY <1>1, ReturnStep
<1>4. \A r \in Sessions : pc'[r] = "building" => pc[r] = "building" /\ r # s
  BY <1>3 DEF OthersKept, Returned
<1>5. timer' \in [Sessions -> Nat \union {Off}] /\ \A r \in Sessions \ {s} : timer'[r] = timer[r]
  BY <1>1 DEF TypeOK, ScheduleRetry
<1>6. TypeOK'
  BY <1>1, <1>2, <1>3, <1>4, <1>5 DEF TypeOK, PCs
<1>7. ~gone[s] /\ turns'[s] = [turns[s] EXCEPT ![c] = row]
  BY <1>1 DEF SessionOK, GoneOK, TypeOK
<1>8. StrandedOK(s)'
  BY <1>1, <1>3 DEF StrandedOK, Returned, ScheduleRetry, TypeOK, Off
<1>9. \A t \in Turns : turns'[s][t].status # "running"
  BY <1>1, <1>2, <1>7 DEF SessionOK, RunningOK
<1>10. FreshOK(s)'
  BY <1>1, <1>2, <1>7 DEF SessionOK, FreshOK
<1>11. TimerOK(s)'
  BY <1>1, <1>3 DEF SessionOK, TimerOK, Returned, ScheduleRetry, TypeOK
<1>12. SessionOK(s)'
  BY <1>4, <1>7, <1>8, <1>9, <1>10, <1>11 DEF SessionOK, RunningOK, GoneOK
<1>13. \A r \in Sessions \ {s} : Untouched(r)
  BY <1>1, <1>3, <1>5 DEF TypeOK, Untouched, OthersKept
<1> QED BY <1>3, <1>6, <1>12, <1>13, StepOfOne

\* The four ways a build ends.
LEMMA BuildOK == ASSUME NEW s \in Sessions, IInv, Build(s) PROVE IInv'
<1> DEFINE row == turns[s][cur[s]]
<1>1. CASE BuildOk(s) \/ Fallback(s)
  BY <1>1, MarkDoneOK DEF BuildOk, Fallback
<1>2. ASSUME BuildRetry(s) \/ Block(s)
      PROVE  /\ pc[s] = "building" /\ TypeOK /\ cur[s] \in Turns
             /\ row \in TurnRow /\ row.attempts \in Nat
  BY <1>2 DEF BuildRetry, Block, IInv, TypeOK, TurnRow
<1>3. CASE BuildRetry(s)
  <2> DEFINE d == RetryDelay(row.attempts)
             new == [status |-> "retry", attempts |-> row.attempts + 1, wait |-> d]
  <2>1. d \in Nat
    BY <1>2, <1>3, DelayType
  <2>2. new \in TurnRow /\ new.status = "retry"
    BY <1>2, <1>3, <2>1 DEF TurnRow, Unfinished
  <2>3. turns' = [turns EXCEPT ![s] = [turns[s] EXCEPT ![cur[s]] = new]]
    BY <1>2, <1>3 DEF BuildRetry, TypeOK
  <2>4. /\ ScheduleRetry(s, d) /\ cur' = [cur EXCEPT ![s] = 0] /\ Return(s)
        /\ UNCHANGED <<last, closed, gone, comp, consolidated>>
    BY <1>3 DEF BuildRetry, compaction
  <2> HIDE DEF d, new
  <2> QED BY <1>2, <1>3, <2>1, <2>2, <2>3, <2>4, FailureOK
<1>4. CASE Block(s)
  <2> DEFINE d == RetryDelay(0)
             new == [row EXCEPT !.status = "blocked", !.wait = d]
  <2>1. d \in Nat
    BY DelayType
  <2>2. new \in TurnRow /\ new.status = "blocked"
    BY <1>2, <1>4, <2>1 DEF TurnRow, Unfinished
  <2>3. turns' = [turns EXCEPT ![s] = [turns[s] EXCEPT ![cur[s]] = new]]
    BY <1>2, <1>4 DEF Block, TypeOK
  <2>4. /\ ScheduleRetry(s, d) /\ cur' = [cur EXCEPT ![s] = 0] /\ Return(s)
        /\ UNCHANGED <<last, closed, gone, comp, consolidated>>
    BY <1>4 DEF Block, compaction
  <2> HIDE DEF d, new
  <2> QED BY <1>2, <1>4, <2>1, <2>2, <2>3, <2>4, FailureOK
<1> QED BY <1>1, <1>3, <1>4 DEF Build

-----------------------------------------------------------------------------
\* An open queue is woken, and its store may have got a new turn.
LEMMA WokenOK ==
    ASSUME NEW s \in Sessions, IInv, ~gone[s], Wake(s), TypeOK',
           \A r \in Sessions \ {s} : turns'[r] = turns[r],
           FreshOK(s)',
           \A t \in Turns : turns'[s][t].status = "running" <=> turns[s][t].status = "running",
           UNCHANGED <<cur, closed, gone>>
    PROVE  IInv'
<1>1. TypeOK /\ Line /\ SessionOK(s)
  BY BySession DEF IInv
<1>2. /\ timer' = [timer EXCEPT ![s] = Off]
      /\ IF pc[s] \in {"none", "idle"} THEN pc'[s] \in {"waiting", "ready"} ELSE pc'[s] = pc[s]
      /\ \A r \in Sessions \ {s} : pc'[r] = pc[r]
      /\ Line'
  BY <1>1, WakeStep
<1>3. {t \in Turns : turns'[s][t].status = "running"} = {t \in Turns : turns[s][t].status = "running"}
  OBVIOUS
<1>4. SessionOK(s)'
  BY <1>1, <1>2, <1>3 DEF SessionOK, StrandedOK, RunningOK, GoneOK, TimerOK, TypeOK
<1>5. \A r \in Sessions \ {s} : Untouched(r)
  BY <1>1, <1>2 DEF Untouched, TypeOK
<1> QED BY <1>2, <1>4, <1>5, StepOfOne

LEMMA TimerFiresOK == ASSUME NEW s \in Sessions, IInv, TimerFires(s) PROVE IInv'
<1>1. TypeOK /\ Line /\ SessionOK(s)
  BY BySession DEF IInv
<1>2. timer[s] = 0 /\ Wake(s) /\ UNCHANGED <<turns, last, cur, closed, gone, comp, consolidated>>
  BY DEF TimerFires, store, compaction
<1>3. ~gone[s]
  BY <1>1, <1>2 DEF SessionOK, GoneOK, Off
<1>4. TypeOK'
  <2>1. /\ pc' \in [Sessions -> PCs] /\ waiters' \in Seq(Sessions) /\ active' \in Int
        /\ timer' = [timer EXCEPT ![s] = Off]
        /\ \A r \in Sessions : pc'[r] = "building" => pc[r] = "building"
    BY <1>1, <1>2, WakeStep
  <2> QED BY <1>1, <1>2, <2>1 DEF TypeOK, PCs
<1>5. FreshOK(s)'
  BY <1>1, <1>2 DEF SessionOK, FreshOK
<1> QED BY <1>2, <1>3, <1>4, <1>5, WokenOK

LEMMA EnqueueOK == ASSUME NEW s \in Sessions, IInv, Enqueue(s) PROVE IInv'
<1>1. TypeOK /\ Line /\ SessionOK(s)
  BY BySession DEF IInv
<1>2. ~gone[s] /\ Wake(s) /\ UNCHANGED <<last, cur, closed, gone, comp, consolidated>>
  BY DEF Enqueue, compaction
<1>3. PICK t \in Turns : /\ turns[s][t].status = "absent"
                         /\ turns' = [turns EXCEPT ![s][t].status = "pending"]
  BY DEF Enqueue
<1> DEFINE row == [turns[s][t] EXCEPT !.status = "pending"]
<1>4. /\ turns' = [turns EXCEPT ![s] = [turns[s] EXCEPT ![t] = row]]
      /\ turns[s] \in [Turns -> TurnRow]
  BY <1>1, <1>3 DEF TypeOK
<1>5. row \in TurnRow /\ row.status = "pending" /\ row.wait = turns[s][t].wait
  BY <1>4 DEF TurnRow, Unfinished
<1>6. turns' \in [Sessions -> [Turns -> TurnRow]] /\ turns'[s] = [turns[s] EXCEPT ![t] = row]
  BY <1>1, <1>4, <1>5 DEF TypeOK
<1>7. TypeOK'
  <2>1. /\ pc' \in [Sessions -> PCs] /\ waiters' \in Seq(Sessions) /\ active' \in Int
        /\ timer' = [timer EXCEPT ![s] = Off]
        /\ \A r \in Sessions : pc'[r] = "building" => pc[r] = "building"
    BY <1>1, <1>2, WakeStep
  <2> QED BY <1>1, <1>2, <1>6, <2>1 DEF TypeOK, PCs
<1>8. FreshOK(s)' /\ \A u \in Turns : turns'[s][u].status = "running" <=> turns[s][u].status = "running"
  BY <1>1, <1>3, <1>4, <1>5, <1>6 DEF SessionOK, FreshOK
<1>9. \A r \in Sessions \ {s} : turns'[r] = turns[r]
  BY <1>1, <1>4 DEF TypeOK
<1> QED BY <1>2, <1>7, <1>8, <1>9, WokenOK

LEMMA CompactOK == ASSUME NEW s \in Sessions, IInv, Compact(s) PROVE IInv'
<1>1. TypeOK /\ Line /\ SessionOK(s) /\ NTurns \in Nat
  BY BySession, DagAssumption DEF IInv
<1>2. CASE CompactStart(s)
  <2>1. ~gone[s] /\ Wake(s) /\ UNCHANGED <<turns, last, cur, closed, gone, consolidated>>
    BY <1>2 DEF CompactStart, store
  <2>2. comp' \in [Sessions -> 0..NTurns]
    BY <1>1, <1>2 DEF CompactStart, TypeOK, Turns
  <2>3. /\ pc' \in [Sessions -> PCs] /\ waiters' \in Seq(Sessions) /\ active' \in Int
        /\ timer' = [timer EXCEPT ![s] = Off]
        /\ \A r \in Sessions : pc'[r] = "building" => pc[r] = "building"
    BY <1>1, <2>1, WakeStep
  <2>4. TypeOK'
    BY <1>1, <2>1, <2>2, <2>3 DEF TypeOK, PCs
  <2>5. FreshOK(s)'
    BY <1>1, <2>1 DEF SessionOK, FreshOK
  <2> QED BY <2>1, <2>4, <2>5, WokenOK
<1>3. CASE CompactGiveUp(s) \/ CompactCommit(s)
  <2>1. UNCHANGED <<turns, last, pc, cur, timer, closed, gone, active, waiters>>
    BY <1>3 DEF CompactGiveUp, CompactCommit, store
  <2>2. comp' \in [Sessions -> 0..NTurns]
    <3>1. comp' = [comp EXCEPT ![s] = 0]
      BY <1>3 DEF CompactGiveUp, CompactCommit
    <3> QED BY <1>1, <3>1 DEF TypeOK
  <2>3. consolidated' \in [Sessions -> 0..NTurns]
    <3>1. CASE CompactGiveUp(s)
      BY <1>1, <3>1 DEF CompactGiveUp, TypeOK
    <3>2. CASE CompactCommit(s)
      <4>1. PICK b \in {consolidated[s], comp[s]} \union (comp[s]..last[s]) :
              consolidated' = [consolidated EXCEPT ![s] = b]
        BY <3>2 DEF CompactCommit
      <4>2. b \in 0..NTurns
        BY <1>1, <4>1 DEF TypeOK
      <4> QED BY <1>1, <4>1, <4>2 DEF TypeOK
    <3> QED BY <1>3, <3>1, <3>2
  <2>4. TypeOK'
    BY <1>1, <2>1, <2>2, <2>3 DEF TypeOK
  <2>5. Line' /\ \A r \in Sessions : Untouched(r)
    BY <1>1, <2>1 DEF Line, Untouched
  <2> QED BY <1>1, <2>4, <2>5, UntouchedOK, StepOfOne
<1> QED BY <1>2, <1>3 DEF Compact

LEMMA CloseSessionOK == ASSUME NEW s \in Sessions, IInv, CloseSession(s) PROVE IInv'
<1>1. TypeOK /\ Line /\ SessionOK(s)
  BY BySession DEF IInv
<1>2. /\ ~gone[s] /\ closed' = [closed EXCEPT ![s] = TRUE] /\ timer' = [timer EXCEPT ![s] = Off]
      /\ pc' = IF pc[s] = "idle" THEN [pc EXCEPT ![s] = "none"] ELSE pc
      /\ UNCHANGED <<turns, last, cur, gone, active, waiters, comp, consolidated>>
  BY DEF CloseSession, store, compaction
<1>3. /\ pc' \in [Sessions -> PCs] /\ pc'[s] = (IF pc[s] = "idle" THEN "none" ELSE pc[s])
      /\ \A r \in Sessions \ {s} : pc'[r] = pc[r]
  BY <1>1, <1>2 DEF TypeOK, PCs
<1>4. TypeOK'
  BY <1>1, <1>2, <1>3 DEF TypeOK, PCs
<1>5. Line'
  BY <1>1, <1>2, <1>3, LineKept
<1>6. SessionOK(s)'
  <2>1. timer'[s] = Off /\ ~gone'[s] /\ turns' = turns /\ cur' = cur
    BY <1>1, <1>2 DEF TypeOK
  <2>2. RunningOK(s)' /\ FreshOK(s)'
    BY <1>1, <1>3, <2>1 DEF SessionOK, RunningOK, FreshOK
  <2>3. StrandedOK(s)' /\ GoneOK(s)' /\ TimerOK(s)'
    BY <1>3, <2>1 DEF StrandedOK, GoneOK, TimerOK
  <2> QED BY <2>2, <2>3 DEF SessionOK
<1>7. \A r \in Sessions \ {s} : Untouched(r)
  BY <1>1, <1>2, <1>3 DEF TypeOK, Untouched
<1> QED BY <1>4, <1>5, <1>6, <1>7, StepOfOne

LEMMA RemoveFilesOK == ASSUME NEW s \in Sessions, IInv, RemoveFiles(s) PROVE IInv'
<1>1. TypeOK /\ Line /\ SessionOK(s) /\ NTurns \in Nat /\ NoTurn \in TurnRow
  BY BySession, DagAssumption DEF IInv, NoTurn, TurnRow
<1>2. /\ closed[s] /\ pc[s] = "none"
      /\ gone' = [gone EXCEPT ![s] = TRUE]
      /\ turns' = [turns EXCEPT ![s] = [t \in Turns |-> NoTurn]]
      /\ last' = [last EXCEPT ![s] = 0] /\ consolidated' = [consolidated EXCEPT ![s] = 0]
      /\ UNCHANGED <<pc, cur, timer, closed, active, waiters, comp>>
  BY DEF RemoveFiles
<1>3. TypeOK'
  BY <1>1, <1>2 DEF TypeOK
<1>4. Line'
  BY <1>1, <1>2 DEF Line
<1>5. \A t \in Turns : turns'[s][t] = NoTurn
  BY <1>1, <1>2 DEF TypeOK
<1>6. timer[s] = Off
  BY <1>1, <1>2 DEF SessionOK, TimerOK
<1>7. SessionOK(s)'
  BY <1>1, <1>2, <1>5, <1>6 DEF SessionOK, StrandedOK, RunningOK, GoneOK, FreshOK, TimerOK, NoTurn
<1>8. \A r \in Sessions \ {s} : Untouched(r)
  BY <1>1, <1>2 DEF TypeOK, Untouched
<1> QED BY <1>3, <1>4, <1>7, <1>8, StepOfOne

LEMMA TickOK == ASSUME IInv, Tick PROVE IInv'
<1>1. TypeOK /\ Line /\ \A s \in Sessions : SessionOK(s)
  BY BySession DEF IInv
<1>2. /\ turns' = [s \in Sessions |-> [t \in Turns |->
                    [turns[s][t] EXCEPT !.wait = Elapsed(turns[s][t].wait)]]]
      /\ timer' = [s \in Sessions |-> Elapsed(timer[s])]
      /\ UNCHANGED <<last, pc, cur, closed, gone, active, waiters, comp, consolidated>>
  BY DEF Tick, compaction
<1>3. ASSUME NEW s \in Sessions, NEW t \in Turns
      PROVE  /\ turns'[s][t] \in TurnRow
             /\ turns'[s][t].status = turns[s][t].status
             /\ turns[s][t].wait = 0 => turns'[s][t].wait = 0
  <2> DEFINE row == turns[s][t]
             new == [row EXCEPT !.wait = Elapsed(row.wait)]
  <2>1. row \in TurnRow
    BY <1>1 DEF TypeOK
  <2>2. Elapsed(row.wait) \in Nat /\ (row.wait = 0 => Elapsed(row.wait) = 0)
    BY <2>1 DEF TurnRow, Elapsed
  <2>3. new \in TurnRow /\ new.status = row.status /\ new.wait = Elapsed(row.wait)
    BY <2>1, <2>2 DEF TurnRow
  <2>4. turns'[s][t] = new
    BY <1>2
  <2> QED BY <2>2, <2>3, <2>4
<1>4. ASSUME NEW s \in Sessions
      PROVE  timer'[s] \in Nat \union {Off} /\ (timer'[s] = Off <=> timer[s] = Off)
  BY <1>1, <1>2 DEF TypeOK, Elapsed, Off
<1>5. TypeOK'
  <2>1. turns' \in [Sessions -> [Turns -> TurnRow]]
    BY <1>2, <1>3
  <2>2. timer' \in [Sessions -> Nat \union {Off}]
    BY <1>2, <1>4
  <2> QED BY <1>1, <1>2, <2>1, <2>2 DEF TypeOK
<1>6. Line'
  BY <1>1, <1>2 DEF Line
<1>7. ASSUME NEW s \in Sessions PROVE SessionOK(s)'
  <2>1. {t \in Turns : turns'[s][t].status = "running"} = {t \in Turns : turns[s][t].status = "running"}
    BY <1>3
  <2>2. SessionOK(s)
    BY <1>1
  <2>3. StrandedOK(s)'
    BY <1>2, <1>3, <1>4, <2>2 DEF SessionOK, StrandedOK, IsUnfinished
  <2>4. RunningOK(s)' /\ GoneOK(s)' /\ FreshOK(s)' /\ TimerOK(s)'
    BY <1>2, <1>3, <1>4, <2>1, <2>2 DEF SessionOK, RunningOK, GoneOK, FreshOK, TimerOK
  <2> QED BY <2>3, <2>4 DEF SessionOK
<1> QED BY <1>5, <1>6, <1>7 DEF IInv, Safe, NeverStranded, RunningIsHeld, DeletedQuiescent,
          FreshIsDue, TimerAtRest, SessionOK, StrandedOK, RunningOK, GoneOK, FreshOK, TimerOK

LEMMA RestartOK == ASSUME IInv, Restart PROVE IInv'
<1>1. TypeOK /\ Safe /\ NTurns \in Nat
  BY DagAssumption DEF IInv
<1>2. /\ pc' = [s \in Sessions |-> "none"] /\ cur' = [s \in Sessions |-> 0]
      /\ timer' = [s \in Sessions |-> Off] /\ closed' = [s \in Sessions |-> gone[s]]
      /\ active' = 0 /\ waiters' = << >> /\ comp' = [s \in Sessions |-> 0]
      /\ UNCHANGED <<turns, last, gone, consolidated>>
  BY DEF Restart, store
<1>3. TypeOK'
  BY <1>1, <1>2 DEF TypeOK
<1>4. Line'
  BY <1>2 DEF Line
<1>5. Safe'
  BY <1>1, <1>2 DEF Safe, NeverStranded, RunningIsHeld, DeletedQuiescent, FreshIsDue, TimerAtRest
<1> QED BY <1>3, <1>4, <1>5 DEF IInv

\* Every step keeps the invariant.
LEMMA NextOK == IInv /\ [Next]_vars => IInv'
<1> SUFFICES ASSUME IInv, [Next]_vars PROVE IInv'
  OBVIOUS
<1>1. ASSUME NEW s \in Sessions, Worker(s) PROVE IInv'
  BY <1>1, ClaimOK, ClaimNoneOK, StopClosedOK, AppliedOK DEF Worker
<1>2. ASSUME NEW s \in Sessions,
             Build(s) \/ TimerFires(s) \/ Enqueue(s) \/ Compact(s) \/ CloseSession(s) \/ RemoveFiles(s)
      PROVE  IInv'
  BY <1>2, BuildOK, TimerFiresOK, EnqueueOK, CompactOK, CloseSessionOK, RemoveFilesOK
<1>3. CASE Tick
  BY <1>3, TickOK
<1>4. CASE Restart
  BY <1>4, RestartOK
<1>5. CASE UNCHANGED vars
  BY <1>5 DEF vars, IInv, TypeOK, Line, Safe, NeverStranded, RunningIsHeld, DeletedQuiescent,
              FreshIsDue, TimerAtRest, IsUnfinished
<1> QED BY <1>1, <1>2, <1>3, <1>4, <1>5 DEF Next

(***************************************************************************)
(* The variables keep their types, and a worker that builds holds a turn.  *)
(***************************************************************************)
THEOREM DagTypeCorrect == Spec => []TypeOK
<1>1. IInv => TypeOK
  BY DEF IInv
<1> QED BY <1>1, InitOK, NextOK, PTL DEF Spec

(***************************************************************************)
(* No queue of process() comes to rest with work and no timer.             *)
(***************************************************************************)
THEOREM RetriesNeverStranded == Spec => []NeverStranded
<1>1. IInv => NeverStranded
  BY DEF IInv, Safe
<1> QED BY <1>1, InitOK, NextOK, PTL DEF Spec

(***************************************************************************)
(* The row claimNextTurn marks running is the turn the worker holds.       *)
(***************************************************************************)
THEOREM RunningRowIsHeld == Spec => []RunningIsHeld
<1>1. IInv => RunningIsHeld
  BY DEF IInv, Safe
<1> QED BY <1>1, InitOK, NextOK, PTL DEF Spec

(***************************************************************************)
(* closeSession and removeSessionDagFiles leave nothing of the queue.      *)
(***************************************************************************)
THEOREM DeletionIsQuiet == Spec => []DeletedQuiescent
<1>1. IInv => DeletedQuiescent
  BY DEF IInv, Safe
<1> QED BY <1>1, InitOK, NextOK, PTL DEF Spec
-----------------------------------------------------------------------------
(***************************************************************************)
(* The slots of runWithSlot.  The count needs that the holders are finitely *)
(* many, which holds whatever the number of sessions: a step adds at most   *)
(* one.  Line says that the line holds only waiting queues, each once; the  *)
(* last part here that it misses none.                                      *)
(***************************************************************************)
Holding == {"ready", "building", "applied"}

Slots ==
    /\ IsFiniteSet(SlotHolders) /\ active = Cardinality(SlotHolders)
    /\ active <= MaxQueues
    /\ waiters # << >> => active = MaxQueues
    /\ \A s \in Sessions : pc[s] = "waiting" => \E i \in 1..Len(waiters) : waiters[i] = s

\* A step that moves no queue into or out of a slot or the line.
LEMMA SlotsKept ==
    ASSUME Slots, UNCHANGED <<active, waiters>>,
           \A r \in Sessions : /\ pc'[r] \in Holding <=> pc[r] \in Holding
                               /\ pc'[r] = "waiting" <=> pc[r] = "waiting"
    PROVE  Slots'
<1>1. SlotHolders' = SlotHolders
  BY DEF SlotHolders, Holding
<1> QED BY <1>1 DEF Slots

\* A returning worker gives its slot to the head of the line, or back.
LEMMA ReturnSlots ==
    ASSUME NEW s \in Sessions, TypeOK, Line, Slots, pc[s] \in {"ready", "building"}, Return(s)
    PROVE  Slots'
<1>1. pc \in [Sessions -> PCs] /\ waiters \in Seq(Sessions) /\ active \in Int /\ MaxQueues \in Nat
  BY DagAssumption DEF TypeOK, PCs
<1>2. Returned(s) \in {"none", "idle"}
  BY DEF Returned
<1>3. s \in SlotHolders /\ IsFiniteSet(SlotHolders) /\ active = Cardinality(SlotHolders)
  BY DEF Slots, SlotHolders
<1>4. /\ IsFiniteSet(SlotHolders \ {s}) /\ Cardinality(SlotHolders \ {s}) = active - 1
  BY <1>3, FS_RemoveElement
<1>5. CASE /\ waiters = << >>
           /\ active' = active - 1
           /\ pc' = [pc EXCEPT ![s] = Returned(s)]
           /\ UNCHANGED waiters
  <2>1. SlotHolders' = SlotHolders \ {s}
    BY <1>1, <1>2, <1>5 DEF SlotHolders
  <2>2. \A r \in Sessions : pc'[r] = "waiting" => pc[r] = "waiting"
    BY <1>1, <1>2, <1>5
  <2>3. active' <= MaxQueues
    BY <1>1, <1>5 DEF Slots
  <2> QED BY <1>4, <1>5, <2>1, <2>2, <2>3 DEF Slots
<1>6. CASE /\ waiters # << >>
           /\ pc' = [pc EXCEPT ![s] = Returned(s), ![Head(waiters)] = "ready"]
           /\ waiters' = Tail(waiters)
           /\ UNCHANGED active
  <2> DEFINE h == Head(waiters)
  <2>1. /\ Len(waiters) \in Nat /\ Len(waiters) > 0
        /\ h = waiters[1] /\ h \in Sessions
        /\ Len(waiters') = Len(waiters) - 1
        /\ \A i \in 1..Len(waiters') : waiters'[i] = waiters[i + 1]
    BY <1>1, <1>6, TailFacts
  <2>2. pc[h] = "waiting" /\ h # s
    BY <2>1 DEF Line
  <2>3. \A r \in Sessions : pc'[r] = IF r = h THEN "ready" ELSE IF r = s THEN Returned(s) ELSE pc[r]
    BY <1>1, <1>6, <2>1, <2>2
  <2>4. SlotHolders' = (SlotHolders \ {s}) \union {h} /\ h \notin SlotHolders \ {s}
    BY <1>2, <2>1, <2>2, <2>3 DEF SlotHolders
  <2>5. IsFiniteSet(SlotHolders') /\ Cardinality(SlotHolders') = active
    <3>1. /\ IsFiniteSet((SlotHolders \ {s}) \union {h})
          /\ Cardinality((SlotHolders \ {s}) \union {h}) = Cardinality(SlotHolders \ {s}) + 1
      BY <1>4, <2>4, FS_AddElement
    <3> QED BY <1>1, <1>4, <2>4, <3>1
  <2>6. ASSUME NEW r \in Sessions, pc'[r] = "waiting"
        PROVE  \E i \in 1..Len(waiters') : waiters'[i] = r
    <3>1. r # h /\ pc[r] = "waiting"
      BY <1>2, <2>3, <2>6
    <3>2. PICK i \in 1..Len(waiters) : waiters[i] = r
      BY <3>1 DEF Slots
    <3>3. i # 1 /\ i - 1 \in 1..Len(waiters') /\ (i - 1) + 1 = i
      BY <2>1, <3>1, <3>2
    <3> QED BY <2>1, <3>2, <3>3
  <2>7. active' <= MaxQueues /\ (waiters' # << >> => active' = MaxQueues)
    BY <1>6 DEF Slots
  <2> QED BY <1>6, <2>5, <2>6, <2>7 DEF Slots
<1> QED BY <1>5, <1>6 DEF Return

\* A queue that is woken takes a free slot, or the last place in line.
LEMMA WakeSlots ==
    ASSUME NEW s \in Sessions, TypeOK, Line, Slots, Wake(s)
    PROVE  Slots'
<1>1. pc \in [Sessions -> PCs] /\ waiters \in Seq(Sessions) /\ active \in Int /\ MaxQueues \in Nat
  BY DagAssumption DEF TypeOK, PCs
<1>2. CASE pc[s] \notin {"none", "idle"} /\ UNCHANGED <<pc, active, waiters>>
  BY <1>2, SlotsKept
<1>3. CASE /\ pc[s] \in {"none", "idle"}
           /\ active >= MaxQueues
           /\ pc' = [pc EXCEPT ![s] = "waiting"]
           /\ waiters' = Append(waiters, s)
           /\ UNCHANGED active
  <2>1. SlotHolders' = SlotHolders
    BY <1>1, <1>3 DEF SlotHolders
  <2>2. /\ Len(waiters) \in Nat
        /\ Len(waiters') = Len(waiters) + 1
        /\ \A i \in 1..Len(waiters) : waiters'[i] = waiters[i]
        /\ waiters'[Len(waiters) + 1] = s
    BY <1>1, <1>3
  <2>3. ASSUME NEW r \in Sessions, pc'[r] = "waiting"
        PROVE  \E i \in 1..Len(waiters') : waiters'[i] = r
    <3>1. CASE r = s
      BY <2>2, <3>1
    <3>2. CASE r # s
      <4>1. pc[r] = "waiting"
        BY <1>1, <1>3, <2>3, <3>2
      <4>2. PICK i \in 1..Len(waiters) : waiters[i] = r
        BY <4>1 DEF Slots
      <4> QED BY <2>2, <4>2
    <3> QED BY <3>1, <3>2
  <2>4. active' = MaxQueues
    BY <1>1, <1>3 DEF Slots
  <2> QED BY <1>1, <1>3, <2>1, <2>3, <2>4 DEF Slots
<1>4. CASE /\ pc[s] \in {"none", "idle"}
           /\ active < MaxQueues
           /\ pc' = [pc EXCEPT ![s] = "ready"]
           /\ active' = active + 1
           /\ UNCHANGED waiters
  <2>1. SlotHolders' = SlotHolders \union {s} /\ s \notin SlotHolders
    BY <1>1, <1>4 DEF SlotHolders
  <2>2. /\ IsFiniteSet(SlotHolders \union {s})
        /\ Cardinality(SlotHolders \union {s}) = Cardinality(SlotHolders) + 1
    BY <2>1, FS_AddElement DEF Slots
  <2>3. \A r \in Sessions : pc'[r] = "waiting" => pc[r] = "waiting"
    BY <1>1, <1>4
  <2>4. active' <= MaxQueues /\ waiters = << >>
    BY <1>1, <1>4 DEF Slots
  <2> QED BY <1>4, <2>1, <2>2, <2>3, <2>4 DEF Slots
<1> QED BY <1>2, <1>3, <1>4 DEF Wake

\* Every step keeps the account of the slots.
LEMMA SlotsStep == IInv /\ Slots /\ [Next]_vars => Slots'
<1> SUFFICES ASSUME IInv, Slots, [Next]_vars PROVE Slots'
  OBVIOUS
<1>1. TypeOK /\ Line /\ pc \in [Sessions -> PCs] /\ MaxQueues \in Nat
  BY DagAssumption DEF IInv, TypeOK, PCs
<1>2. ASSUME NEW s \in Sessions,
             ClaimNone(s) \/ StopClosed(s) \/ BuildRetry(s) \/ Block(s)
      PROVE  Slots'
  <2>1. pc[s] \in {"ready", "building"} /\ Return(s)
    BY <1>2 DEF ClaimNone, StopClosed, BuildRetry, Block
  <2> QED BY <1>1, <2>1, ReturnSlots
<1>3. ASSUME NEW s \in Sessions, TimerFires(s) \/ Enqueue(s) \/ CompactStart(s)
      PROVE  Slots'
  BY <1>1, <1>3, WakeSlots DEF TimerFires, Enqueue, CompactStart
<1>4. ASSUME NEW s \in Sessions, Claim(s) \/ Applied(s) \/ BuildOk(s) \/ Fallback(s)
      PROVE  Slots'
  <2>1. /\ pc[s] \in Holding /\ UNCHANGED <<active, waiters>>
        /\ \E v \in Holding : pc' = [pc EXCEPT ![s] = v]
    BY <1>4 DEF Claim, Applied, BuildOk, Fallback, MarkDone, Holding
  <2> QED BY <1>1, <2>1, SlotsKept DEF Holding
<1>5. ASSUME NEW s \in Sessions, CloseSession(s) PROVE Slots'
  <2>1. /\ UNCHANGED <<active, waiters>>
        /\ pc' = IF pc[s] = "idle" THEN [pc EXCEPT ![s] = "none"] ELSE pc
    BY <1>5 DEF CloseSession
  <2> QED BY <1>1, <2>1, SlotsKept DEF Holding
<1>6. CASE UNCHANGED <<pc, active, waiters>>
  BY <1>6, SlotsKept
<1>7. CASE Restart
  <2>1. pc' = [s \in Sessions |-> "none"] /\ active' = 0 /\ waiters' = << >>
    BY <1>7 DEF Restart
  <2>2. SlotHolders' = {}
    BY <2>1 DEF SlotHolders
  <2> QED BY <1>1, <2>1, <2>2, FS_EmptySet DEF Slots
<1>8. ASSUME NEW s \in Sessions, CompactGiveUp(s) \/ CompactCommit(s) \/ RemoveFiles(s)
      PROVE  UNCHANGED <<pc, active, waiters>>
  BY <1>8 DEF CompactGiveUp, CompactCommit, RemoveFiles
<1>9. Tick \/ UNCHANGED vars => UNCHANGED <<pc, active, waiters>>
  BY DEF Tick, vars
<1> QED BY <1>2, <1>3, <1>4, <1>5, <1>6, <1>7, <1>8, <1>9 DEF Next, Worker, Build, Compact

(***************************************************************************)
(* runWithSlot never runs more workers than it may, keeps nobody waiting    *)
(* for a slot that is free, and loses or doubles no place in the line.      *)
(***************************************************************************)
THEOREM SlotsAreAccounted == Spec => []SlotsAccounted
<1>1. Init => Slots
  <2> SUFFICES ASSUME Init PROVE Slots
    OBVIOUS
  <2>1. SlotHolders = {}
    BY DEF Init, SlotHolders
  <2> QED BY <2>1, FS_EmptySet, DagAssumption DEF Init, Slots
<1>2. IInv /\ Slots => SlotsAccounted
  <2> SUFFICES ASSUME IInv, Slots PROVE SlotsAccounted
    OBVIOUS
  <2>1. DOMAIN waiters = 1..Len(waiters) /\ \A i \in 1..Len(waiters) : waiters[i] \in Sessions
    BY DEF IInv, TypeOK
  <2>2. {waiters[i] : i \in DOMAIN waiters} = {s \in Sessions : pc[s] = "waiting"}
    BY <2>1 DEF Slots, IInv, Line
  <2>3. \A i, j \in DOMAIN waiters : waiters[i] = waiters[j] => i = j
    BY <2>1 DEF IInv, Line
  <2> QED BY <2>2, <2>3 DEF Slots, SlotsAccounted
<1> QED BY <1>1, <1>2, InitOK, NextOK, SlotsStep, PTL DEF Spec
=============================================================================
