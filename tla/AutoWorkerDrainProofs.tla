------------------------ MODULE AutoWorkerDrainProofs ------------------------
(***************************************************************************)
(* Theorems about AutoWorkerDrain, for every set of jobs, every batch size, *)
(* number of cycles and attempts, every lease and every delay.  The         *)
(* functions of the drain get a lemma each that says what they do to the    *)
(* fields of the record; the actions are then cases over its fields.       *)
(***************************************************************************)
EXTENDS AutoWorkerDrain, LeastNumber, TLAPS

DrainRec ==
    [phase : {"off", "call", "work", "yield"}, cycle : 0 .. MaxCycles - 1,
     any : BOOLEAN, soon : BOOLEAN, requested : BOOLEAN, scheduled : BOOLEAN,
     disposed : BOOLEAN, released : BOOLEAN, started : BOOLEAN,
     reconciled : BOOLEAN, startup : BOOLEAN, delayed : Nat,
     plain : BOOLEAN, again : Nat, handle : {"none", "plain", "again"}]

-----------------------------------------------------------------------------
(* The inductive invariant *)

\* A row may run again as long as it is queued or failed, and what a worker
\* holds has cost it an attempt.
RowOK(r) ==
    /\ r.status = "leased" => r.attempts > 0
    /\ r.status \in {"queued", "failed"} => r.attempts < MaxAttempts

Rows(T) == \A j \in Job : RowOK(T[j])

\* What a batch holds is leased, and only a call of runWorkerOnce has a batch.
BatchOK(x, T, B) ==
    /\ \A j \in B : T[j].status = "leased"
    /\ B # {} => x.phase = "work" /\ x.any

\* The flags and the pending callbacks agree.
Flags(x) ==
    /\ x.handle = "again" => x.again > 0
    /\ ~x.disposed /\ x.scheduled => x.plain
    /\ x.phase # "off" => x.reconciled
    /\ ~x.disposed /\ ~x.reconciled => x.startup \/ x.plain
    /\ x.phase = "yield" /\ x.cycle = MaxCycles - 1 => x.soon

\* Once the leases of the earlier process are taken back, only the batch has any.
Held(x, T, B) == x.reconciled => \A j \in Job : T[j].status = "leased" => j \in B

\* No row may run before a time that is known.
Idle(T) ==
    \A j \in Job : \/ T[j].status \in {"absent", "succeeded", "dead_letter"}
                   \/ T[j].status = "queued" /\ T[j].after # 0

\* A call that found nothing to lease found the queue idle, and it is idle
\* still unless somebody has asked for another drain.
Drained(x, T) == x.phase = "work" /\ ~x.any /\ ~x.requested /\ ~x.disposed => Idle(T)

Asleep(x) == ~x.disposed /\ x.phase = "off" /\ ~x.plain /\ x.again = 0 /\ ~x.startup

\* SleepIsCovered, of the drain and the queue.
Covered(x, T) ==
    Asleep(x) => \A j \in Job : \/ T[j].status \in {"absent", "succeeded", "dead_letter"}
                                \/ T[j].status = "queued" /\ T[j].after # 0 /\ x.delayed # 0

Shape == TypeOK /\ Rows(job) /\ BatchOK(d, job, batch) /\ Flags(d)
Awake == rejects = 0 => Held(d, job, batch) /\ Drained(d, job) /\ Covered(d, job)
IInv == Shape /\ Awake

-----------------------------------------------------------------------------
(* The functions of the drain *)

\* The earliest of the times at which a row may run is one of them.
LEMMA FirstTime ==
    ASSUME NEW times \in SUBSET Nat, times # {}
    PROVE  (CHOOSE t \in times : \A u \in times : t <= u) \in Nat
<1>1. \E t \in times : \A u \in times : t <= u
  BY LeastNatural
<1> QED BY <1>1

LEMMA RunTimesType == ASSUME NEW T \in [Job -> Row] PROVE RunTimes(T) \subseteq Nat
BY DEF RunTimes, Row

\* scheduleNextDueJob sets the timer only, and sets it if it can.
LEMMA NextDueFacts ==
    ASSUME NEW x \in DrainRec, NEW T \in [Job -> Row], now \in Nat
    PROVE  \E t \in Nat : /\ NextDue(x, T) = [x EXCEPT !.delayed = t]
                          /\ ~x.disposed /\ (RunTimes(T) # {} \/ x.delayed # 0) => t # 0
<1> DEFINE times == RunTimes(T)
           first == CHOOSE t \in times : \A u \in times : t <= u
<1>1. CASE x.disposed \/ x.delayed # 0 \/ times = {}
  <2>1. NextDue(x, T) = x /\ x = [x EXCEPT !.delayed = x.delayed] /\ x.delayed \in Nat
    BY <1>1 DEF NextDue, DrainRec
  <2>2. ~x.disposed /\ (times # {} \/ x.delayed # 0) => x.delayed # 0
    BY <1>1
  <2> QED BY <2>1, <2>2
<1>2. CASE ~(x.disposed \/ x.delayed # 0 \/ times = {})
  <2>1. first \in Nat
    BY <1>2, FirstTime, RunTimesType
  <2>2. NextDue(x, T) = [x EXCEPT !.delayed = IF first <= now THEN now + 1 ELSE first]
    BY <1>2 DEF NextDue
  <2> HIDE DEF first
  <2>3. (IF first <= now THEN now + 1 ELSE first) \in Nat \ {0}
    BY <2>1
  <2> QED BY <2>2, <2>3
<1> QED BY <1>1, <1>2

\* What schedule() makes of the record.
LEMMA ScheduleFacts ==
    ASSUME NEW x \in DrainRec
    PROVE  /\ Schedule(x) \in DrainRec
           /\ x.disposed => Schedule(x) = x
           /\ Schedule(x).disposed = x.disposed /\ Schedule(x).phase = x.phase
           /\ Schedule(x).cycle = x.cycle /\ Schedule(x).any = x.any /\ Schedule(x).soon = x.soon
           /\ Schedule(x).reconciled = x.reconciled /\ Schedule(x).again = x.again
           /\ ~x.disposed => Schedule(x).requested /\ Schedule(x).scheduled
           /\ ~x.disposed => Schedule(x).plain = (x.plain \/ ~x.scheduled)
           /\ Schedule(x).handle = x.handle \/ Schedule(x).handle = "plain"
<1>1. CASE x.disposed
  BY <1>1 DEF Schedule
<1>2. CASE ~x.disposed /\ x.scheduled
  BY <1>2 DEF Schedule, DrainRec
<1>3. CASE ~x.disposed /\ ~x.scheduled
  BY <1>3 DEF Schedule, DrainRec
<1> QED BY <1>1, <1>2, <1>3 DEF DrainRec

\* What drain() makes of the record up to its first await.
LEMMA DrainFacts ==
    ASSUME NEW x \in DrainRec
    PROVE  /\ Drain(x) \in DrainRec
           /\ x.disposed => Drain(x) = x
           /\ ~x.disposed => /\ Drain(x).phase = (IF x.phase = "off" THEN "call" ELSE x.phase)
                             /\ Drain(x).reconciled = (x.phase = "off" \/ x.reconciled)
                             /\ x.phase # "off" => /\ Drain(x).requested
                                                   /\ Drain(x).cycle = x.cycle
                                                   /\ Drain(x).soon = x.soon
           /\ Drain(x).disposed = x.disposed /\ Drain(x).any = x.any
           /\ Drain(x).scheduled = x.scheduled /\ Drain(x).plain = x.plain
           /\ Drain(x).again = x.again /\ Drain(x).handle = x.handle
           /\ Drain(x).startup = x.startup
<1>0. MaxCycles \in Nat \ {0}
  BY DrainAssumption
<1>1. CASE x.disposed
  BY <1>1 DEF Drain
<1>2. CASE ~x.disposed /\ x.phase # "off"
  BY <1>2 DEF Drain, DrainRec
<1>3. CASE ~x.disposed /\ x.phase = "off"
  <2>1. Drain(x) = [x EXCEPT !.started = TRUE, !.reconciled = TRUE, !.requested = FALSE,
                             !.phase = "call", !.cycle = 0, !.soon = FALSE]
    BY <1>3 DEF Drain
  <2>2. 0 \in 0 .. MaxCycles - 1
    BY <1>0
  <2>3. Drain(x) \in DrainRec
    BY <2>1, <2>2 DEF DrainRec
  <2>4. Drain(x).phase = "call" /\ Drain(x).reconciled
    BY <2>1 DEF DrainRec
  <2>5. /\ Drain(x).disposed = x.disposed /\ Drain(x).any = x.any
        /\ Drain(x).scheduled = x.scheduled /\ Drain(x).plain = x.plain
        /\ Drain(x).again = x.again /\ Drain(x).handle = x.handle
        /\ Drain(x).startup = x.startup
    BY <2>1 DEF DrainRec
  <2> QED BY <1>3, <2>3, <2>4, <2>5 DEF DrainRec
<1> QED BY <1>1, <1>2, <1>3 DEF DrainRec
\* What the finally block of drain() makes of the record: it is asleep only if
\* no drain was asked for, and then with a timer if a row waits for its time.
LEMMA FinishFacts ==
    ASSUME NEW x \in DrainRec, NEW T \in [Job -> Row], now \in Nat, Flags(x), x.reconciled
    PROVE  /\ Finish(x, T) \in DrainRec /\ Flags(Finish(x, T))
           /\ Finish(x, T).phase = "off" /\ Finish(x, T).reconciled
           /\ Finish(x, T).disposed = x.disposed
           /\ ~x.disposed /\ (x.requested \/ x.soon) => Finish(x, T).again # 0
           /\ ~x.disposed /\ RunTimes(T) # {} =>
                 Finish(x, T).again # 0 \/ Finish(x, T).delayed # 0
<1> DEFINE y == [x EXCEPT !.phase = "off"]
<1>1. y \in DrainRec /\ y.phase = "off"
  BY DEF DrainRec
<1>2. /\ y.disposed = x.disposed /\ y.requested = x.requested /\ y.soon = x.soon
      /\ y.reconciled = x.reconciled /\ y.handle = x.handle /\ y.again = x.again
      /\ y.scheduled = x.scheduled /\ y.plain = x.plain /\ y.startup = x.startup
      /\ y.delayed = x.delayed
  BY DEF DrainRec
<1>3. Flags(y)
  BY <1>1, <1>2 DEF Flags
<1>4. Finish(x, T) = CASE y.disposed -> y
                       [] ~y.disposed /\ (y.requested \/ y.soon) ->
                             [y EXCEPT !.again = @ + 1, !.handle = "again"]
                       [] OTHER -> NextDue(y, T)
  BY DEF Finish
<1> HIDE DEF y
<1>5. CASE x.disposed
  BY <1>1, <1>2, <1>3, <1>4, <1>5
<1>6. CASE ~x.disposed /\ (x.requested \/ x.soon)
  <2>1. Finish(x, T) = [y EXCEPT !.again = y.again + 1, !.handle = "again"]
    BY <1>2, <1>4, <1>6
  <2>2. y.again + 1 \in Nat /\ y.again + 1 > 0
    BY <1>1 DEF DrainRec
  <2>3. Finish(x, T) \in DrainRec
    BY <1>1, <2>1, <2>2 DEF DrainRec
  <2>4. /\ Finish(x, T).again = y.again + 1 /\ Finish(x, T).phase = "off"
        /\ Finish(x, T).disposed = y.disposed /\ Finish(x, T).reconciled = y.reconciled
        /\ Finish(x, T).scheduled = y.scheduled /\ Finish(x, T).plain = y.plain
        /\ Finish(x, T).startup = y.startup
    BY <1>1, <2>1 DEF DrainRec
  <2> QED BY <1>2, <1>3, <2>2, <2>3, <2>4 DEF Flags
<1>7. CASE ~x.disposed /\ ~(x.requested \/ x.soon)
  <2>1. Finish(x, T) = NextDue(y, T)
    BY <1>2, <1>4, <1>7
  <2>2. PICK t \in Nat : /\ NextDue(y, T) = [y EXCEPT !.delayed = t]
                         /\ ~y.disposed /\ (RunTimes(T) # {} \/ y.delayed # 0) => t # 0
    BY <1>1, NextDueFacts
  <2>3. /\ Finish(x, T) \in DrainRec /\ Finish(x, T).delayed = t
        /\ Finish(x, T).again = y.again /\ Finish(x, T).phase = y.phase
        /\ Finish(x, T).disposed = y.disposed /\ Finish(x, T).reconciled = y.reconciled
        /\ Finish(x, T).scheduled = y.scheduled /\ Finish(x, T).plain = y.plain
        /\ Finish(x, T).startup = y.startup /\ Finish(x, T).handle = y.handle
    BY <1>1, <2>1, <2>2 DEF DrainRec
  <2> QED BY <1>1, <1>2, <1>3, <1>7, <2>2, <2>3 DEF Flags
<1> QED BY <1>5, <1>6, <1>7

\* The test of the outer loop begins a drain anew or ends it.
LEMMA LoopTestFacts ==
    ASSUME NEW x \in DrainRec, NEW T \in [Job -> Row], now \in Nat, Flags(x), x.reconciled
    PROVE  /\ LoopTest(x, T) \in DrainRec /\ Flags(LoopTest(x, T))
           /\ LoopTest(x, T).phase \in {"off", "call"} /\ LoopTest(x, T).reconciled
           /\ LoopTest(x, T).disposed = x.disposed
           /\ ~x.disposed /\ (x.requested \/ x.soon \/ RunTimes(T) # {}) =>
                 \/ LoopTest(x, T).phase = "call"
                 \/ LoopTest(x, T).again # 0
                 \/ ~x.requested /\ ~x.soon /\ LoopTest(x, T).delayed # 0
<1>1. CASE x.requested /\ ~x.soon /\ ~x.disposed
  <2> DEFINE y == [x EXCEPT !.requested = FALSE, !.phase = "call", !.cycle = 0]
  <2>1. LoopTest(x, T) = y
    BY <1>1 DEF LoopTest
  <2>2. 0 \in 0 .. MaxCycles - 1
    BY DrainAssumption
  <2>3. y \in DrainRec
    BY <2>2 DEF DrainRec
  <2>4. /\ y.phase = "call" /\ y.disposed = x.disposed /\ y.reconciled = x.reconciled
        /\ y.handle = x.handle /\ y.again = x.again
        /\ y.scheduled = x.scheduled /\ y.plain = x.plain /\ y.startup = x.startup
    BY DEF DrainRec
  <2> HIDE DEF y
  <2> QED BY <2>1, <2>3, <2>4 DEF Flags
<1>2. CASE ~(x.requested /\ ~x.soon /\ ~x.disposed)
  <2>1. LoopTest(x, T) = Finish(x, T)
    BY <1>2 DEF LoopTest
  <2> QED BY <1>2, <2>1, FinishFacts
<1> QED BY <1>1, <1>2

-----------------------------------------------------------------------------
(* The queue *)

\* A queue that is idle and not finished has a time for its timer.
LEMMA IdleIsTimed ==
    ASSUME NEW T \in [Job -> Row], Rows(T), NEW j \in Job, T[j].status = "queued", T[j].after # 0
    PROVE  RunTimes(T) # {}
BY DEF Rows, RowOK, RunTimes

LEMMA NewRowFacts ==
    ASSUME NEW a \in Nat
    PROVE  NewRow(a) \in Row /\ RowOK(NewRow(a)) /\ NewRow(a).status = "queued"
<1>1. MaxAttempts \in Nat /\ MaxAttempts > 0 /\ 0 \in 0 .. MaxAttempts
  BY DrainAssumption
<1> QED BY <1>1 DEF NewRow, Row, RowOK

\* The rows when the first drain has taken back what an earlier process left.
LEMMA ReconciledFacts ==
    ASSUME NEW T \in [Job -> Row], Rows(T)
    PROVE  /\ Reconciled(T) \in [Job -> Row] /\ Rows(Reconciled(T))
           /\ \A j \in Job : Reconciled(T)[j].status # "leased"
<1>1. MaxAttempts \in Nat
  BY DrainAssumption
<1>2. ASSUME NEW j \in Job
      PROVE  /\ Reconciled(T)[j] \in Row /\ RowOK(Reconciled(T)[j])
             /\ Reconciled(T)[j].status # "leased"
  <2>1. T[j] \in Row /\ RowOK(T[j])
    BY DEF Rows
  <2>2. T[j].attempts \in 0 .. MaxAttempts
    BY <2>1 DEF Row
  <2>3. CASE T[j].status = "leased"
    <3> DEFINE r == [T[j] EXCEPT !.status = "queued", !.until = 0, !.attempts = T[j].attempts - 1]
    <3>1. Reconciled(T)[j] = r
      BY <2>3 DEF Reconciled
    <3>2. T[j].attempts - 1 \in 0 .. MaxAttempts /\ T[j].attempts - 1 < MaxAttempts
      BY <1>1, <2>1, <2>2, <2>3 DEF RowOK
    <3>3. r \in Row /\ r.status = "queued" /\ r.attempts = T[j].attempts - 1
      BY <2>1, <3>2 DEF Row
    <3> QED BY <3>1, <3>2, <3>3 DEF RowOK
  <2>4. CASE T[j].status = "failed"
    <3> DEFINE r == [T[j] EXCEPT !.status = "queued"]
    <3>1. Reconciled(T)[j] = r
      BY <2>1, <2>4 DEF Reconciled, RowOK
    <3>2. r \in Row /\ r.status = "queued" /\ r.attempts = T[j].attempts
      BY <2>1 DEF Row
    <3> QED BY <2>1, <2>4, <3>1, <3>2 DEF RowOK
  <2>5. CASE T[j].status \notin {"leased", "failed"}
    <3>1. Reconciled(T)[j] = T[j]
      BY <2>5 DEF Reconciled
    <3> QED BY <2>1, <2>5, <3>1
  <2> QED BY <2>3, <2>4, <2>5
<1> QED BY <1>2 DEF Rows, Reconciled

\* requeueFailedJobs leaves no failed row, and leases as they were.
LEMMA RetriedFacts ==
    ASSUME NEW T \in [Job -> Row], Rows(T)
    PROVE  /\ Retried(T) \in [Job -> Row] /\ Rows(Retried(T))
           /\ \A j \in Job : /\ Retried(T)[j].status # "failed"
                             /\ Retried(T)[j].status = "leased" <=> T[j].status = "leased"
<1>1. ASSUME NEW j \in Job
      PROVE  /\ Retried(T)[j] \in Row /\ RowOK(Retried(T)[j])
             /\ Retried(T)[j].status # "failed"
             /\ Retried(T)[j].status = "leased" <=> T[j].status = "leased"
  <2>1. T[j] \in Row /\ RowOK(T[j])
    BY DEF Rows
  <2>2. CASE T[j].status = "failed"
    <3> DEFINE r == [T[j] EXCEPT !.status = "queued"]
    <3>1. Retried(T)[j] = r
      BY <2>1, <2>2 DEF Retried, RowOK
    <3>2. r \in Row /\ r.status = "queued" /\ r.attempts = T[j].attempts
      BY <2>1 DEF Row
    <3> QED BY <2>1, <2>2, <3>1, <3>2 DEF RowOK
  <2>3. CASE T[j].status # "failed"
    <3>1. Retried(T)[j] = T[j]
      BY <2>3 DEF Retried
    <3> QED BY <2>1, <2>3, <3>1
  <2> QED BY <2>2, <2>3
<1> QED BY <1>1 DEF Rows, Retried

\* Leasing rows that are due.
LEMMA LeasedFacts ==
    ASSUME NEW T \in [Job -> Row], Rows(T), now \in Nat, NEW B \in SUBSET Due(T)
    PROVE  /\ Leased(T, B) \in [Job -> Row] /\ Rows(Leased(T, B)) /\ B \subseteq Job
           /\ \A j \in Job : IF j \in B THEN Leased(T, B)[j].status = "leased"
                             ELSE Leased(T, B)[j] = T[j]
<1>1. B \subseteq Job /\ \A j \in B : T[j].attempts < MaxAttempts
  BY DEF Due
<1>2. MaxAttempts \in Nat /\ now + LeaseLen \in Nat
  BY DrainAssumption
<1>3. ASSUME NEW j \in Job
      PROVE  /\ Leased(T, B)[j] \in Row /\ RowOK(Leased(T, B)[j])
             /\ IF j \in B THEN Leased(T, B)[j].status = "leased" ELSE Leased(T, B)[j] = T[j]
  <2>1. T[j] \in Row /\ RowOK(T[j]) /\ T[j].attempts \in 0 .. MaxAttempts
    BY DEF Rows, Row
  <2>2. CASE j \in B
    <3> DEFINE r == [T[j] EXCEPT !.status = "leased", !.until = now + LeaseLen,
                                 !.attempts = T[j].attempts + 1]
    <3>1. Leased(T, B)[j] = r
      BY <2>2 DEF Leased
    <3>2. T[j].attempts + 1 \in 0 .. MaxAttempts /\ T[j].attempts + 1 > 0
      BY <1>1, <1>2, <2>1, <2>2
    <3>3. r \in Row /\ r.status = "leased" /\ r.attempts = T[j].attempts + 1
      BY <1>2, <2>1, <3>2 DEF Row
    <3> QED BY <2>2, <3>1, <3>2, <3>3 DEF RowOK
  <2>3. CASE j \notin B
    BY <2>1, <2>3 DEF Leased
  <2> QED BY <2>2, <2>3
<1> QED BY <1>1, <1>3 DEF Rows, Leased
-----------------------------------------------------------------------------
(* The steps *)

LEMMA Parts ==
    ASSUME IInv
    PROVE  /\ d \in DrainRec /\ job \in [Job -> Row] /\ batch \subseteq Job
           /\ now \in Nat /\ settles \in Nat /\ rejects \in Nat
           /\ Rows(job) /\ BatchOK(d, job, batch) /\ Flags(d)
           /\ rejects = 0 => Held(d, job, batch) /\ Drained(d, job) /\ Covered(d, job)
BY DEF IInv, Shape, TypeOK, DrainRec, Awake

\* The invariant after a step, from its parts.
LEMMA Assemble ==
    ASSUME d' \in DrainRec, job' \in [Job -> Row], batch' \subseteq Job,
           now' \in Nat, settles' \in Nat, rejects' \in Nat,
           Rows(job'), BatchOK(d', job', batch'), Flags(d'),
           rejects' = 0 => Held(d', job', batch') /\ Drained(d', job') /\ Covered(d', job')
    PROVE  IInv'
<1>1. TypeOK'
  BY DEF TypeOK, DrainRec
<1>2. Rows(job)' /\ BatchOK(d, job, batch)' /\ Flags(d)'
  BY DEF Rows, RowOK, BatchOK, Flags
<1>3. Awake'
  BY DEF Awake, Held, Drained, Covered, Asleep, Idle
<1> QED BY <1>1, <1>2, <1>3 DEF IInv, Shape

LEMMA InitOK == Init => IInv
<1> SUFFICES ASSUME Init PROVE IInv
  OBVIOUS
<1>1. MaxAttempts \in Nat /\ MaxAttempts > 0 /\ MaxCycles \in Nat /\ MaxCycles > 0
  BY DrainAssumption
<1>2. \A r \in LeftBehind : r \in Row /\ RowOK(r)
  <2>1. 0 \in 0 .. MaxAttempts /\ 1 \in 0 .. MaxAttempts
    BY <1>1
  <2> DEFINE l == [status |-> "leased", after |-> 0, until |-> 2, attempts |-> 1]
             f == [status |-> "failed", after |-> 0, until |-> 0, attempts |-> 1]
  <2>2. Absent \in Row /\ RowOK(Absent)
    BY <2>1 DEF Absent, Row, RowOK
  <2>3. NewRow(2) \in Row /\ RowOK(NewRow(2))
    BY NewRowFacts
  <2>4. l \in Row /\ RowOK(l)
    BY <2>1 DEF Row, RowOK
  <2>5. f \in Row /\ (f.attempts < MaxAttempts => RowOK(f))
    BY <2>1 DEF Row, RowOK
  <2>6. \A r \in LeftBehind : r \in {Absent, NewRow(2), l} \/ (r = f /\ f.attempts < MaxAttempts)
    BY DEF LeftBehind
  <2> HIDE DEF l, f
  <2> QED BY <2>2, <2>3, <2>4, <2>5, <2>6
<1>3. job \in [Job -> Row] /\ Rows(job) /\ batch = {}
  BY <1>2 DEF Init, Rows
<1>4. d \in DrainRec
  BY <1>1 DEF Init, DrainRec
<1>5. now \in Nat /\ settles \in Nat /\ rejects \in Nat
  BY DEF Init
<1>6. d.phase = "off" /\ d.startup /\ ~d.reconciled /\ ~d.scheduled /\ d.handle = "none"
  BY DEF Init
<1>7. BatchOK(d, job, batch) /\ Flags(d)
  BY <1>3, <1>6 DEF BatchOK, Flags
<1>8. Held(d, job, batch) /\ Drained(d, job) /\ Covered(d, job)
  BY <1>6 DEF Held, Drained, Covered, Asleep
<1> QED BY <1>3, <1>4, <1>5, <1>7, <1>8 DEF IInv, Shape, Awake, TypeOK, DrainRec

\* A call of schedule() by x, whatever is new in the queue: a drain is pending.
LEMMA ScheduledOK ==
    ASSUME NEW x \in DrainRec, NEW T \in [Job -> Row], NEW B,
           Flags([x EXCEPT !.startup = TRUE]), BatchOK(x, T, B)
    PROVE  /\ Schedule(x).disposed = x.disposed
           /\ ~x.disposed => Flags(Schedule(x))
           /\ BatchOK(Schedule(x), T, B)
           /\ Held(x, T, B) => Held(Schedule(x), T, B)
           /\ Drained(Schedule(x), T) /\ Covered(Schedule(x), T)
<1> DEFINE y == Schedule(x)
           z == [x EXCEPT !.startup = TRUE]
<1>1. /\ z.handle = x.handle /\ z.again = x.again /\ z.disposed = x.disposed
      /\ z.scheduled = x.scheduled /\ z.plain = x.plain /\ z.phase = x.phase
      /\ z.reconciled = x.reconciled /\ z.cycle = x.cycle /\ z.soon = x.soon
  BY DEF DrainRec
<1>2. /\ y.disposed = x.disposed /\ y.phase = x.phase
      /\ y.cycle = x.cycle /\ y.any = x.any /\ y.soon = x.soon
      /\ y.reconciled = x.reconciled /\ y.again = x.again
      /\ ~x.disposed => y.requested /\ y.scheduled
      /\ ~x.disposed => y.plain = (x.plain \/ ~x.scheduled)
      /\ y.handle = x.handle \/ y.handle = "plain"
  BY ScheduleFacts
<1> HIDE DEF y, z
<1>3. ~x.disposed => y.plain
  BY <1>1, <1>2 DEF Flags, z
<1>4. ~x.disposed => Flags(y)
  BY <1>1, <1>2, <1>3 DEF Flags, z
<1>5. BatchOK(y, T, B) /\ (Held(x, T, B) => Held(y, T, B))
  BY <1>2 DEF BatchOK, Held
<1>6. Drained(y, T) /\ Covered(y, T)
  BY <1>2, <1>3 DEF Drained, Covered, Asleep
<1> QED BY <1>2, <1>4, <1>5, <1>6 DEF y

\* The rows of a queue that gets a new one.
LEMMA NewRowOK ==
    ASSUME NEW T \in [Job -> Row], Rows(T), NEW k \in Job, NEW a \in Nat, NEW B \in SUBSET Job,
           T[k].status = "absent"
    PROVE  LET U == [T EXCEPT ![k] = NewRow(a)] IN
           /\ U \in [Job -> Row] /\ Rows(U)
           /\ \A j \in Job : U[j].status = "leased" <=> T[j].status = "leased"
<1>1. NewRow(a) \in Row /\ RowOK(NewRow(a)) /\ NewRow(a).status = "queued"
  BY NewRowFacts
<1> QED BY <1>1 DEF Rows

LEMMA EnqueueOK ==
    ASSUME IInv, NEW k \in Job, NEW delay \in Delays, Enqueue(k, delay)
    PROVE  IInv'
<1>1. /\ d \in DrainRec /\ job \in [Job -> Row] /\ batch \subseteq Job
      /\ now \in Nat /\ settles \in Nat /\ rejects \in Nat
      /\ Rows(job) /\ BatchOK(d, job, batch) /\ Flags(d)
      /\ rejects = 0 => Held(d, job, batch) /\ Drained(d, job) /\ Covered(d, job)
  BY Parts
<1>2. PICK a \in Nat : job' = [job EXCEPT ![k] = NewRow(a)]
  <2>1. (IF delay = 0 THEN 0 ELSE now + delay) \in Nat
    BY <1>1, DrainAssumption
  <2>2. job' = [job EXCEPT ![k] = NewRow(IF delay = 0 THEN 0 ELSE now + delay)]
    BY DEF Enqueue
  <2> QED BY <2>1, <2>2
<1>3. job[k].status = "absent" /\ d' = Schedule(d) /\ UNCHANGED <<batch, now, settles, rejects>>
  BY DEF Enqueue
<1>4. /\ job' \in [Job -> Row] /\ Rows(job')
      /\ \A j \in Job : job'[j].status = "leased" <=> job[j].status = "leased"
  BY <1>1, <1>2, <1>3, NewRowOK
<1>5. BatchOK(d, job', batch) /\ (Held(d, job, batch) => Held(d, job', batch))
  BY <1>1, <1>4 DEF BatchOK, Held
<1>6. CASE ~d.disposed
  <2>1. Flags([d EXCEPT !.startup = TRUE])
    BY <1>1 DEF Flags, DrainRec
  <2>2. d' \in DrainRec
    BY <1>1, <1>3, ScheduleFacts
  <2>3. /\ Flags(d') /\ BatchOK(d', job', batch)
        /\ Held(d, job', batch) => Held(d', job', batch)
        /\ Drained(d', job') /\ Covered(d', job')
    BY <1>1, <1>3, <1>4, <1>5, <1>6, <2>1, ScheduledOK
  <2> QED BY <1>1, <1>3, <1>4, <1>5, <2>2, <2>3, Assemble
<1>7. CASE d.disposed
  <2>1. d' = d
    BY <1>1, <1>3, <1>7, ScheduleFacts
  <2>2. Drained(d', job') /\ Covered(d', job')
    BY <1>7, <2>1 DEF Drained, Covered, Asleep
  <2> QED BY <1>1, <1>3, <1>4, <1>5, <2>1, <2>2, Assemble
<1> QED BY <1>6, <1>7

\* schedule() without a new row, by a listener or by the startup timer.
LEMMA RequestOK ==
    ASSUME IInv, PersistRecovers \/ StartupFires
    PROVE  IInv'
<1>1. /\ d \in DrainRec /\ job \in [Job -> Row] /\ batch \subseteq Job
      /\ now \in Nat /\ settles \in Nat /\ rejects \in Nat
      /\ Rows(job) /\ BatchOK(d, job, batch) /\ Flags(d)
      /\ rejects = 0 => Held(d, job, batch) /\ Drained(d, job) /\ Covered(d, job)
  BY Parts
<1>2. /\ UNCHANGED <<job, batch, now, rejects>> /\ settles' \in Nat
      /\ \E x \in {d, [d EXCEPT !.startup = FALSE]} : d' = Schedule(x)
  BY <1>1 DEF PersistRecovers, StartupFires
<1>3. PICK x \in {d, [d EXCEPT !.startup = FALSE]} : d' = Schedule(x)
  BY <1>2
<1>4. /\ x \in DrainRec /\ x.handle = d.handle /\ x.again = d.again /\ x.disposed = d.disposed
      /\ x.scheduled = d.scheduled /\ x.plain = d.plain /\ x.phase = d.phase /\ x.any = d.any
      /\ x.reconciled = d.reconciled /\ x.cycle = d.cycle /\ x.soon = d.soon
      /\ x.requested = d.requested
  BY <1>1, <1>3 DEF DrainRec
<1>5. BatchOK(x, job, batch) /\ (Held(d, job, batch) => Held(x, job, batch))
  BY <1>1, <1>4 DEF BatchOK, Held
<1>6. d' \in DrainRec
  BY <1>3, <1>4, ScheduleFacts
<1>7. Flags([x EXCEPT !.startup = TRUE])
  <2>1. Flags([d EXCEPT !.startup = TRUE])
    BY <1>1 DEF Flags, DrainRec
  <2>2. [x EXCEPT !.startup = TRUE] = [d EXCEPT !.startup = TRUE]
    BY <1>1, <1>3 DEF DrainRec
  <2> QED BY <2>1, <2>2
<1>8. CASE ~d.disposed
  <2>1. /\ Flags(d') /\ BatchOK(d', job, batch)
        /\ Held(x, job, batch) => Held(d', job, batch)
        /\ Drained(d', job) /\ Covered(d', job)
    BY <1>1, <1>3, <1>4, <1>5, <1>7, <1>8, ScheduledOK
  <2> QED BY <1>1, <1>2, <1>5, <1>6, <2>1, Assemble
<1>9. CASE d.disposed
  <2>1. d' = x
    BY <1>3, <1>4, <1>9, ScheduleFacts
  <2>2. Drained(d', job) /\ Covered(d', job)
    BY <1>4, <1>9, <2>1 DEF Drained, Covered, Asleep
  <2>3. Flags(d')
    BY <1>1, <1>4, <1>9, <2>1 DEF Flags
  <2> QED BY <1>1, <1>2, <1>5, <1>6, <2>1, <2>2, <2>3, Assemble
<1> QED BY <1>8, <1>9
\* The startup timer is set anew.
LEMMA HealthOK == ASSUME IInv, AfterHealthCheck PROVE IInv'
<1>1. /\ d \in DrainRec /\ job \in [Job -> Row] /\ batch \subseteq Job
      /\ now \in Nat /\ settles \in Nat /\ rejects \in Nat
      /\ Rows(job) /\ BatchOK(d, job, batch) /\ Flags(d)
      /\ rejects = 0 => Held(d, job, batch) /\ Drained(d, job) /\ Covered(d, job)
  BY Parts
<1>2. /\ UNCHANGED <<job, batch, now, settles, rejects>>
      /\ d' = [d EXCEPT !.released = TRUE, !.startup = TRUE]
  BY DEF AfterHealthCheck
<1>3. /\ d' \in DrainRec /\ d'.handle = d.handle /\ d'.again = d.again /\ d'.disposed = d.disposed
      /\ d'.scheduled = d.scheduled /\ d'.plain = d.plain /\ d'.phase = d.phase /\ d'.any = d.any
      /\ d'.reconciled = d.reconciled /\ d'.cycle = d.cycle /\ d'.soon = d.soon
      /\ d'.requested = d.requested /\ d'.startup
  BY <1>1, <1>2 DEF DrainRec
<1>4. BatchOK(d', job, batch) /\ Flags(d')
  BY <1>1, <1>3 DEF BatchOK, Flags
<1>5. rejects = 0 => Held(d', job, batch) /\ Drained(d', job) /\ Covered(d', job)
  BY <1>1, <1>3 DEF Held, Drained, Covered, Asleep
<1> QED BY <1>1, <1>2, <1>3, <1>4, <1>5, Assemble

\* The timer is set again for what the queue holds now.
LEMMA BudgetOK == ASSUME IInv, BudgetSettles PROVE IInv'
<1>1. /\ d \in DrainRec /\ job \in [Job -> Row] /\ batch \subseteq Job
      /\ now \in Nat /\ settles \in Nat /\ rejects \in Nat
      /\ Rows(job) /\ BatchOK(d, job, batch) /\ Flags(d)
      /\ rejects = 0 => Held(d, job, batch) /\ Drained(d, job) /\ Covered(d, job)
  BY Parts
<1> DEFINE x == [d EXCEPT !.delayed = 0]
<1>2. /\ UNCHANGED <<job, batch, now, rejects>> /\ settles' \in Nat
      /\ ~d.disposed /\ d' = NextDue(x, job)
  BY <1>1 DEF BudgetSettles
<1>3. x \in DrainRec /\ x.disposed = d.disposed
  BY <1>1 DEF DrainRec
<1>4. PICK t \in Nat : /\ NextDue(x, job) = [x EXCEPT !.delayed = t]
                       /\ ~x.disposed /\ (RunTimes(job) # {} \/ x.delayed # 0) => t # 0
  BY <1>1, <1>3, NextDueFacts
<1>5. d' = [d EXCEPT !.delayed = t]
  BY <1>1, <1>2, <1>4 DEF DrainRec
<1>6. /\ d' \in DrainRec /\ d'.handle = d.handle /\ d'.again = d.again /\ d'.disposed = d.disposed
      /\ d'.scheduled = d.scheduled /\ d'.plain = d.plain /\ d'.phase = d.phase /\ d'.any = d.any
      /\ d'.reconciled = d.reconciled /\ d'.cycle = d.cycle /\ d'.soon = d.soon
      /\ d'.requested = d.requested /\ d'.startup = d.startup /\ d'.delayed = t
  BY <1>1, <1>5 DEF DrainRec
<1>7. BatchOK(d', job, batch) /\ Flags(d')
  BY <1>1, <1>6 DEF BatchOK, Flags
<1>8. Covered(d, job) => Covered(d', job)
  <2> SUFFICES ASSUME Covered(d, job), Asleep(d'), NEW j \in Job,
                      job[j].status \notin {"absent", "succeeded", "dead_letter"}
               PROVE  job[j].status = "queued" /\ job[j].after # 0 /\ d'.delayed # 0
    BY DEF Covered
  <2>1. job[j].status = "queued" /\ job[j].after # 0
    BY <1>6 DEF Covered, Asleep
  <2>2. RunTimes(job) # {}
    BY <1>1, <2>1, IdleIsTimed
  <2> QED BY <1>2, <1>3, <1>4, <1>6, <2>1, <2>2
<1>9. rejects = 0 => Held(d', job, batch) /\ Drained(d', job) /\ Covered(d', job)
  BY <1>1, <1>6, <1>8 DEF Held, Drained
<1> HIDE DEF x
<1> QED BY <1>1, <1>2, <1>6, <1>7, <1>9, Assemble

LEMMA DisposeOK == ASSUME IInv, Dispose PROVE IInv'
<1>1. /\ d \in DrainRec /\ job \in [Job -> Row] /\ batch \subseteq Job
      /\ now \in Nat /\ settles \in Nat /\ rejects \in Nat
      /\ Rows(job) /\ BatchOK(d, job, batch) /\ Flags(d)
      /\ rejects = 0 => Held(d, job, batch) /\ Drained(d, job) /\ Covered(d, job)
  BY Parts
<1>2. /\ UNCHANGED <<job, batch, now, settles, rejects>>
      /\ d' = [d EXCEPT !.disposed = TRUE, !.requested = FALSE, !.startup = FALSE, !.delayed = 0,
                        !.plain = d.plain /\ d.handle # "plain",
                        !.again = IF d.handle = "again" THEN d.again - 1 ELSE d.again,
                        !.handle = "none"]
  BY DEF Dispose
<1>3. (IF d.handle = "again" THEN d.again - 1 ELSE d.again) \in Nat
  BY <1>1 DEF Flags, DrainRec
<1>4. d' \in DrainRec
  BY <1>1, <1>2, <1>3 DEF DrainRec
<1>5. /\ d'.disposed /\ d'.phase = d.phase /\ d'.handle = "none" /\ d'.reconciled = d.reconciled
      /\ d'.cycle = d.cycle /\ d'.soon = d.soon /\ d'.any = d.any
  BY <1>1, <1>2 DEF DrainRec
<1>6. BatchOK(d', job, batch) /\ Flags(d')
  BY <1>1, <1>5 DEF BatchOK, Flags
<1>7. rejects = 0 => Held(d', job, batch) /\ Drained(d', job) /\ Covered(d', job)
  BY <1>1, <1>5 DEF Held, Drained, Covered, Asleep
<1> QED BY <1>1, <1>2, <1>4, <1>6, <1>7, Assemble

\* drain() called by a timer.  x is d with a callback taken away, so that only
\* what Flags says of the pending callbacks may have stopped to hold of x.
LEMMA WakeOK ==
    ASSUME IInv, NEW x \in DrainRec, Wake(x),
           x.disposed = d.disposed, x.phase = d.phase, x.any = d.any, x.cycle = d.cycle,
           x.soon = d.soon, x.reconciled = d.reconciled,
           x.handle = "again" => x.again > 0, ~x.disposed /\ x.scheduled => x.plain
    PROVE  IInv'
<1>1. /\ d \in DrainRec /\ job \in [Job -> Row] /\ batch \subseteq Job
      /\ now \in Nat /\ settles \in Nat /\ rejects \in Nat
      /\ Rows(job) /\ BatchOK(d, job, batch) /\ Flags(d)
      /\ rejects = 0 => Held(d, job, batch) /\ Drained(d, job) /\ Covered(d, job)
  BY Parts
<1>2. /\ d' = Drain(x) /\ UNCHANGED <<batch, now, settles, rejects>>
      /\ job' = IF d'.reconciled /\ ~x.reconciled THEN Reconciled(job) ELSE job
  BY DEF Wake
<1>3. /\ d' \in DrainRec
      /\ x.disposed => d' = x
      /\ ~x.disposed => /\ d'.phase = (IF x.phase = "off" THEN "call" ELSE x.phase)
                        /\ d'.reconciled = (x.phase = "off" \/ x.reconciled)
                        /\ x.phase # "off" => d'.requested /\ d'.cycle = x.cycle /\ d'.soon = x.soon
      /\ d'.disposed = x.disposed /\ d'.any = x.any
      /\ d'.scheduled = x.scheduled /\ d'.plain = x.plain
      /\ d'.again = x.again /\ d'.handle = x.handle /\ d'.startup = x.startup
  BY <1>2, DrainFacts
<1>4. CASE d.disposed
  <2>1. d' = x /\ job' = job
    BY <1>2, <1>3, <1>4
  <2>2. BatchOK(d', job', batch) /\ Flags(d')
    BY <1>1, <1>4, <2>1 DEF BatchOK, Flags
  <2>3. rejects = 0 => Held(d', job', batch) /\ Drained(d', job') /\ Covered(d', job')
    BY <1>1, <1>4, <2>1 DEF Held, Drained, Covered, Asleep
  <2> QED BY <1>1, <1>2, <1>3, <2>1, <2>2, <2>3, Assemble
<1>5. CASE ~d.disposed /\ d.phase # "off"
  <2>1. x.reconciled /\ d'.reconciled /\ job' = job /\ d'.phase = d.phase /\ d'.requested
    BY <1>1, <1>2, <1>3, <1>5 DEF Flags
  <2>2. BatchOK(d', job', batch)
    BY <1>1, <1>3, <2>1 DEF BatchOK
  <2>3. Flags(d')
    BY <1>1, <1>3, <1>5, <2>1 DEF Flags
  <2>4. rejects = 0 => Held(d', job', batch) /\ Drained(d', job') /\ Covered(d', job')
    BY <1>1, <1>5, <2>1 DEF Held, Drained, Covered, Asleep
  <2> QED BY <1>1, <1>2, <1>3, <2>1, <2>2, <2>3, <2>4, Assemble
<1>6. CASE ~d.disposed /\ d.phase = "off"
  <2>1. d'.phase = "call" /\ d'.reconciled /\ batch = {}
    BY <1>1, <1>3, <1>6 DEF BatchOK
  <2>2. /\ job' \in [Job -> Row] /\ Rows(job')
        /\ job' = job \/ \A j \in Job : job'[j].status # "leased"
    BY <1>1, <1>2, ReconciledFacts
  <2>3. ~d.reconciled => \A j \in Job : job'[j].status # "leased"
    BY <1>1, <1>2, <2>1, ReconciledFacts
  <2>4. BatchOK(d', job', batch)
    BY <2>1 DEF BatchOK
  <2>5. Flags(d')
    BY <1>3, <1>6, <2>1 DEF Flags
  <2>6. rejects = 0 => Held(d', job', batch) /\ Drained(d', job') /\ Covered(d', job')
    BY <1>1, <2>1, <2>2, <2>3 DEF Held, Drained, Covered, Asleep
  <2> QED BY <1>1, <1>2, <1>3, <2>2, <2>4, <2>5, <2>6, Assemble
<1> QED BY <1>4, <1>5, <1>6

LEMMA TimersOK == ASSUME IInv, ScheduledFires \/ AgainFires \/ DelayedFires PROVE IInv'
<1>1. d \in DrainRec /\ Flags(d)
  BY Parts
<1>2. CASE ScheduledFires
  <2> DEFINE x == [d EXCEPT !.plain = FALSE, !.scheduled = FALSE, !.handle = "none"]
  <2>1. /\ x \in DrainRec /\ x.disposed = d.disposed /\ x.phase = d.phase /\ x.any = d.any
        /\ x.cycle = d.cycle /\ x.soon = d.soon /\ x.reconciled = d.reconciled
        /\ x.handle = "none" /\ ~x.scheduled
    BY <1>1 DEF DrainRec
  <2>2. Wake(x)
    BY <1>2 DEF ScheduledFires
  <2> HIDE DEF x
  <2> QED BY <2>1, <2>2, WakeOK
<1>3. CASE AgainFires
  <2> DEFINE x == [d EXCEPT !.again = d.again - 1, !.requested = TRUE, !.handle = "none"]
  <2>1. d.again - 1 \in Nat
    BY <1>1, <1>3 DEF AgainFires, DrainRec
  <2>2. /\ x \in DrainRec /\ x.disposed = d.disposed /\ x.phase = d.phase /\ x.any = d.any
        /\ x.cycle = d.cycle /\ x.soon = d.soon /\ x.reconciled = d.reconciled
        /\ x.handle = "none" /\ x.scheduled = d.scheduled /\ x.plain = d.plain
    BY <1>1, <2>1 DEF DrainRec
  <2>3. Wake(x)
    BY <1>3 DEF AgainFires
  <2> HIDE DEF x
  <2>4. ~x.disposed /\ x.scheduled => x.plain
    BY <1>1, <2>2 DEF Flags
  <2> QED BY <2>2, <2>3, <2>4, WakeOK
<1>4. CASE DelayedFires
  <2> DEFINE x == [d EXCEPT !.delayed = 0, !.requested = TRUE]
  <2>1. /\ x \in DrainRec /\ x.disposed = d.disposed /\ x.phase = d.phase /\ x.any = d.any
        /\ x.cycle = d.cycle /\ x.soon = d.soon /\ x.reconciled = d.reconciled
        /\ x.handle = d.handle /\ x.again = d.again /\ x.scheduled = d.scheduled /\ x.plain = d.plain
    BY <1>1 DEF DrainRec
  <2>2. Wake(x)
    BY <1>4 DEF DelayedFires
  <2> HIDE DEF x
  <2>3. (~x.disposed /\ x.scheduled => x.plain) /\ (x.handle = "again" => x.again > 0)
    BY <1>1, <2>1 DEF Flags
  <2> QED BY <2>1, <2>2, <2>3, WakeOK
<1> QED BY <1>2, <1>3, <1>4
-----------------------------------------------------------------------------
(* A drain in progress *)

\* A call that leases nothing has found no row that may run now.
LEMMA LeaseOK == ASSUME IInv, LeaseBatch PROVE IInv'
<1>1. /\ d \in DrainRec /\ job \in [Job -> Row] /\ batch \subseteq Job
      /\ now \in Nat /\ settles \in Nat /\ rejects \in Nat
      /\ Rows(job) /\ BatchOK(d, job, batch) /\ Flags(d)
      /\ rejects = 0 => Held(d, job, batch) /\ Drained(d, job) /\ Covered(d, job)
  BY Parts
<1> DEFINE T == Retried(job)
<1>2. PICK B \in SUBSET Due(T) :
          /\ B = {} => Due(T) = {}
          /\ job' = Leased(T, B) /\ batch' = B
          /\ d' = [d EXCEPT !.phase = "work", !.any = (B # {})]
  BY DEF LeaseBatch
<1>3. d.phase = "call" /\ UNCHANGED <<now, settles, rejects>>
  BY DEF LeaseBatch
<1>4. /\ T \in [Job -> Row] /\ Rows(T)
      /\ \A j \in Job : /\ T[j].status # "failed"
                        /\ T[j].status = "leased" <=> job[j].status = "leased"
  BY <1>1, RetriedFacts
<1> HIDE DEF T
<1>5. /\ job' \in [Job -> Row] /\ Rows(job') /\ B \subseteq Job
      /\ \A j \in Job : IF j \in B THEN job'[j].status = "leased" ELSE job'[j] = T[j]
  BY <1>1, <1>2, <1>4, LeasedFacts
<1>6. /\ d' \in DrainRec /\ d'.handle = d.handle /\ d'.again = d.again /\ d'.disposed = d.disposed
      /\ d'.scheduled = d.scheduled /\ d'.plain = d.plain /\ d'.phase = "work" /\ d'.any = (B # {})
      /\ d'.reconciled = d.reconciled /\ d'.startup = d.startup
  BY <1>1, <1>2 DEF DrainRec
<1>7. Flags(d')
  BY <1>1, <1>3, <1>6 DEF Flags
<1>8. BatchOK(d', job', B)
  BY <1>5, <1>6 DEF BatchOK
<1>9. batch = {}
  BY <1>1, <1>3 DEF BatchOK
<1>10. ASSUME rejects = 0 PROVE Held(d', job', B)
  BY <1>1, <1>4, <1>5, <1>6, <1>9, <1>10 DEF Held
<1>11. ASSUME rejects = 0 PROVE Drained(d', job')
  <2> SUFFICES ASSUME B = {}, NEW j \in Job,
                      job'[j].status \notin {"absent", "succeeded", "dead_letter"}
               PROVE  job'[j].status = "queued" /\ job'[j].after # 0
    BY <1>6 DEF Drained, Idle
  <2>1. job'[j] = T[j] /\ T[j] \in Row /\ RowOK(T[j])
    BY <1>4, <1>5 DEF Rows
  <2>2. T[j].status # "leased"
    BY <1>1, <1>3, <1>4, <1>9, <1>11 DEF Held, Flags
  <2>3. T[j].status = "queued" /\ T[j].after \in Nat
    BY <1>4, <2>1, <2>2 DEF Row
  <2>4. j \notin Due(T) /\ T[j].attempts < MaxAttempts
    BY <1>2, <2>1, <2>3 DEF RowOK
  <2>5. ~(T[j].after <= now)
    BY <2>3, <2>4 DEF Due
  <2> QED BY <1>1, <2>1, <2>3, <2>5
<1>12. Covered(d', job')
  BY <1>6 DEF Covered, Asleep
<1> QED BY <1>1, <1>2, <1>3, <1>5, <1>6, <1>7, <1>8, <1>10, <1>11, <1>12, Assemble

\* A job of the batch ends with row r, and no other row changes but that an
\* absent one may be enqueued.
LEMMA EndOK ==
    ASSUME IInv, NEW j \in batch, batch' = batch \ {j}, UNCHANGED <<d, now, settles, rejects>>,
           job' \in [Job -> Row], Rows(job'), job'[j].status # "leased",
           \A k \in Job \ {j} : job'[k].status = "leased" <=> job[k].status = "leased"
    PROVE  IInv'
<1>1. /\ d \in DrainRec /\ job \in [Job -> Row] /\ batch \subseteq Job
      /\ now \in Nat /\ settles \in Nat /\ rejects \in Nat
      /\ Rows(job) /\ BatchOK(d, job, batch) /\ Flags(d)
      /\ rejects = 0 => Held(d, job, batch) /\ Drained(d, job) /\ Covered(d, job)
  BY Parts
<1>2. d.phase = "work" /\ d.any
  BY <1>1 DEF BatchOK
<1>3. BatchOK(d', job', batch')
  BY <1>1, <1>2 DEF BatchOK
<1>4. Held(d, job, batch) => Held(d', job', batch')
  BY DEF Held
<1>5. Drained(d', job') /\ Covered(d', job')
  BY <1>2 DEF Drained, Covered, Asleep
<1> QED BY <1>1, <1>3, <1>4, <1>5, Assemble

LEMMA EndsOK == ASSUME IInv, NEW j \in Job, Ends(j) PROVE IInv'
<1>1. /\ job \in [Job -> Row] /\ batch \subseteq Job /\ now \in Nat
      /\ Rows(job) /\ BatchOK(d, job, batch)
  BY Parts
<1>2. j \in batch /\ batch' = batch \ {j} /\ UNCHANGED <<d, now, settles, rejects>>
  BY DEF Ends, JobSucceeds, JobFails, JobDefers, JobBacksOff
<1>3. /\ job[j] \in Row /\ RowOK(job[j]) /\ job[j].status = "leased"
      /\ job[j].attempts \in 1 .. MaxAttempts /\ MaxAttempts \in Nat
  BY <1>1, <1>2, DrainAssumption DEF Rows, BatchOK, RowOK, Row
<1>4. ASSUME NEW r \in Row, RowOK(r), r.status # "leased", job' = [job EXCEPT ![j] = r]
      PROVE  IInv'
  <2>1. job' \in [Job -> Row] /\ job'[j] = r /\ \A k \in Job \ {j} : job'[k] = job[k]
    BY <1>1, <1>4
  <2>2. Rows(job')
    BY <1>1, <1>4, <2>1 DEF Rows
  <2> QED BY <1>2, <1>4, <2>1, <2>2, EndOK
<1>5. CASE JobSucceeds(j)
  <2> DEFINE r == [job[j] EXCEPT !.status = "succeeded"]
             T == [job EXCEPT ![j] = r]
  <2>1. r \in Row /\ r.status = "succeeded"
    BY <1>3 DEF Row
  <2>2. RowOK(r)
    BY <2>1 DEF RowOK
  <2>3. T = [job EXCEPT ![j].status = "succeeded"]
    BY <1>1
  <2>4. \/ job' = T
        \/ \E k \in Job, delay \in Delays :
              /\ job[k].status = "absent"
              /\ job' = [T EXCEPT ![k] = NewRow(IF delay = 0 THEN 0 ELSE now + delay)]
    BY <1>5, <2>3 DEF JobSucceeds
  <2> HIDE DEF r
  <2>5. T \in [Job -> Row] /\ Rows(T) /\ T[j] = r /\ \A k \in Job \ {j} : T[k] = job[k]
    BY <1>1, <2>1, <2>2 DEF Rows
  <2> HIDE DEF T
  <2>6. CASE job' = T
    BY <1>2, <2>1, <2>5, <2>6, EndOK
  <2>7. ASSUME NEW k \in Job, NEW delay \in Delays, job[k].status = "absent",
               job' = [T EXCEPT ![k] = NewRow(IF delay = 0 THEN 0 ELSE now + delay)]
        PROVE  IInv'
    <3> DEFINE a == IF delay = 0 THEN 0 ELSE now + delay
    <3>1. a \in Nat
      BY <1>1, DrainAssumption
    <3>2. k # j /\ T[k].status = "absent"
      BY <1>3, <2>5, <2>7
    <3>3. job' = [T EXCEPT ![k] = NewRow(a)]
      BY <2>7
    <3> HIDE DEF a
    <3>4. /\ job' \in [Job -> Row] /\ Rows(job')
          /\ \A i \in Job : job'[i].status = "leased" <=> T[i].status = "leased"
      BY <2>5, <3>1, <3>2, <3>3, NewRowOK
    <3>5. job'[j].status # "leased"
      BY <2>1, <2>5, <3>4
    <3> QED BY <1>2, <2>5, <3>4, <3>5, EndOK
  <2> QED BY <2>4, <2>6, <2>7
<1>6. CASE JobFails(j)
  <2> DEFINE st == IF job[j].attempts >= MaxAttempts THEN "dead_letter" ELSE "failed"
             r == [job[j] EXCEPT !.status = st]
  <2>1. r \in Row /\ r.status = st /\ r.attempts = job[j].attempts
    BY <1>3 DEF Row
  <2>2. RowOK(r) /\ r.status # "leased"
    BY <1>3, <2>1 DEF RowOK
  <2>3. job' = [job EXCEPT ![j] = r]
    BY <1>1, <1>6 DEF JobFails
  <2> HIDE DEF r, st
  <2> QED BY <1>4, <2>1, <2>2, <2>3
<1>7. CASE JobDefers(j)
  <2>1. PICK delay \in Delays \ {0} :
          job' = [job EXCEPT ![j].status = "queued", ![j].attempts = job[j].attempts - 1,
                             ![j].after = now + delay]
    BY <1>1, <1>7 DEF JobDefers
  <2> DEFINE r == [job[j] EXCEPT !.status = "queued", !.attempts = job[j].attempts - 1,
                                 !.after = now + delay]
  <2>2. now + delay \in Nat /\ job[j].attempts - 1 \in 0 .. MaxAttempts
        /\ job[j].attempts - 1 < MaxAttempts
    BY <1>1, <1>3, DrainAssumption
  <2>3. r \in Row /\ r.status = "queued" /\ r.attempts = job[j].attempts - 1
    BY <1>3, <2>2 DEF Row
  <2>4. RowOK(r) /\ r.status # "leased"
    BY <2>2, <2>3 DEF RowOK
  <2>5. job' = [job EXCEPT ![j] = r]
    BY <1>1, <2>1
  <2> HIDE DEF r
  <2> QED BY <1>4, <2>3, <2>4, <2>5
<1>8. CASE JobBacksOff(j)
  <2>1. PICK delay \in Delays \ {0} :
          job' = [job EXCEPT ![j].status = "queued", ![j].after = now + delay]
    BY <1>8 DEF JobBacksOff
  <2> DEFINE r == [job[j] EXCEPT !.status = "queued", !.after = now + delay]
  <2>2. now + delay \in Nat /\ job[j].attempts < MaxAttempts
    BY <1>1, <1>8, DrainAssumption DEF JobBacksOff
  <2>3. r \in Row /\ r.status = "queued" /\ r.attempts = job[j].attempts
    BY <1>3, <2>2 DEF Row
  <2>4. RowOK(r) /\ r.status # "leased"
    BY <2>2, <2>3 DEF RowOK
  <2>5. job' = [job EXCEPT ![j] = r]
    BY <1>1, <2>1
  <2> HIDE DEF r
  <2> QED BY <1>4, <2>3, <2>4, <2>5
<1> QED BY <1>5, <1>6, <1>7, <1>8 DEF Ends
LEMMA BatchEndsOK == ASSUME IInv, BatchEnds PROVE IInv'
<1>1. /\ d \in DrainRec /\ job \in [Job -> Row] /\ batch \subseteq Job
      /\ now \in Nat /\ settles \in Nat /\ rejects \in Nat
      /\ Rows(job) /\ BatchOK(d, job, batch) /\ Flags(d)
      /\ rejects = 0 => Held(d, job, batch) /\ Drained(d, job) /\ Covered(d, job)
  BY Parts
<1>2. /\ d.phase = "work" /\ batch = {} /\ UNCHANGED <<job, batch, now, settles, rejects>>
      /\ d' = IF d.any THEN [d EXCEPT !.phase = "yield", !.soon = d.soon \/ d.cycle = MaxCycles - 1]
              ELSE LoopTest(d, job)
  BY DEF BatchEnds
<1>3. d.reconciled
  BY <1>1, <1>2 DEF Flags
<1>4. CASE d.any
  <2>1. d' = [d EXCEPT !.phase = "yield", !.soon = d.soon \/ d.cycle = MaxCycles - 1]
    BY <1>2, <1>4
  <2>2. d' \in DrainRec
    BY <1>1, <2>1 DEF DrainRec
  <2>3. /\ d'.handle = d.handle /\ d'.again = d.again /\ d'.disposed = d.disposed
        /\ d'.scheduled = d.scheduled /\ d'.plain = d.plain /\ d'.phase = "yield"
        /\ d'.reconciled = d.reconciled /\ d'.cycle = d.cycle /\ d'.startup = d.startup
        /\ d'.soon = (d.soon \/ d.cycle = MaxCycles - 1)
    BY <1>1, <2>1 DEF DrainRec
  <2>4. BatchOK(d', job, batch) /\ Flags(d')
    BY <1>1, <1>2, <1>3, <2>3 DEF BatchOK, Flags
  <2>5. rejects = 0 => Held(d', job, batch) /\ Drained(d', job) /\ Covered(d', job)
    BY <1>1, <1>3, <2>3 DEF Held, Drained, Covered, Asleep
  <2> QED BY <1>1, <1>2, <2>2, <2>4, <2>5, Assemble
<1>5. CASE ~d.any
  <2>1. d' = LoopTest(d, job)
    BY <1>2, <1>5
  <2>2. /\ d' \in DrainRec /\ Flags(d') /\ d'.phase \in {"off", "call"} /\ d'.reconciled
        /\ d'.disposed = d.disposed
        /\ ~d.disposed /\ (d.requested \/ d.soon \/ RunTimes(job) # {}) =>
              \/ d'.phase = "call"
              \/ d'.again # 0
              \/ ~d.requested /\ ~d.soon /\ d'.delayed # 0
    BY <1>1, <1>3, <2>1, LoopTestFacts
  <2>3. BatchOK(d', job, batch)
    BY <1>2 DEF BatchOK
  <2>4. ASSUME rejects = 0 PROVE Covered(d', job)
    <3> SUFFICES ASSUME Asleep(d'), NEW j \in Job,
                        job[j].status \notin {"absent", "succeeded", "dead_letter"}
                 PROVE  job[j].status = "queued" /\ job[j].after # 0 /\ d'.delayed # 0
      BY DEF Covered
    <3>1. d'.phase = "off" /\ ~d.disposed /\ d'.again = 0
      BY <2>2 DEF Asleep
    <3>2. ~d.requested
      BY <2>2, <3>1
    <3>3. job[j].status = "queued" /\ job[j].after # 0
      BY <1>1, <1>2, <1>5, <2>4, <3>1, <3>2 DEF Drained, Idle
    <3>4. RunTimes(job) # {}
      BY <1>1, <3>3, IdleIsTimed
    <3> QED BY <2>2, <3>1, <3>3, <3>4
  <2>5. rejects = 0 => Held(d', job, batch) /\ Drained(d', job) /\ Covered(d', job)
    BY <1>1, <1>3, <2>2, <2>4 DEF Held, Drained
  <2> QED BY <1>1, <1>2, <2>2, <2>3, <2>5, Assemble
<1> QED BY <1>4, <1>5

\* The last cycle ends with another drain to come.
LEMMA YieldEndsOK == ASSUME IInv, YieldEnds PROVE IInv'
<1>1. /\ d \in DrainRec /\ job \in [Job -> Row] /\ batch \subseteq Job
      /\ now \in Nat /\ settles \in Nat /\ rejects \in Nat
      /\ Rows(job) /\ BatchOK(d, job, batch) /\ Flags(d)
      /\ rejects = 0 => Held(d, job, batch) /\ Drained(d, job) /\ Covered(d, job)
  BY Parts
<1>2. /\ d.phase = "yield" /\ UNCHANGED <<job, batch, now, settles, rejects>>
      /\ d' = IF d.cycle + 1 < MaxCycles /\ ~d.disposed
              THEN [d EXCEPT !.phase = "call", !.cycle = d.cycle + 1] ELSE LoopTest(d, job)
  BY DEF YieldEnds
<1>3. d.reconciled /\ batch = {} /\ d.cycle \in 0 .. MaxCycles - 1 /\ MaxCycles \in Nat
  BY <1>1, <1>2, DrainAssumption DEF Flags, BatchOK, DrainRec
<1>4. BatchOK(d', job, batch)
  BY <1>3 DEF BatchOK
<1>5. CASE d.cycle + 1 < MaxCycles /\ ~d.disposed
  <2>1. d' = [d EXCEPT !.phase = "call", !.cycle = d.cycle + 1] /\ d.cycle + 1 \in 0 .. MaxCycles - 1
    BY <1>2, <1>3, <1>5
  <2>2. /\ d' \in DrainRec /\ d'.handle = d.handle /\ d'.again = d.again /\ d'.disposed = d.disposed
        /\ d'.scheduled = d.scheduled /\ d'.plain = d.plain /\ d'.phase = "call"
        /\ d'.reconciled = d.reconciled /\ d'.startup = d.startup
    BY <1>1, <2>1 DEF DrainRec
  <2>3. Flags(d')
    BY <1>1, <1>3, <2>2 DEF Flags
  <2>4. rejects = 0 => Held(d', job, batch) /\ Drained(d', job) /\ Covered(d', job)
    BY <1>1, <1>3, <2>2 DEF Held, Drained, Covered, Asleep
  <2> QED BY <1>1, <1>2, <1>4, <2>2, <2>3, <2>4, Assemble
<1>6. CASE ~(d.cycle + 1 < MaxCycles /\ ~d.disposed)
  <2>1. d' = LoopTest(d, job)
    BY <1>2, <1>6
  <2>2. /\ d' \in DrainRec /\ Flags(d') /\ d'.phase \in {"off", "call"} /\ d'.reconciled
        /\ d'.disposed = d.disposed
        /\ ~d.disposed /\ d.soon => d'.phase = "call" \/ d'.again # 0
    BY <1>1, <1>3, <2>1, LoopTestFacts
  <2>3. ~d.disposed => d.soon
    <3>1. ~d.disposed => d.cycle = MaxCycles - 1
      BY <1>3, <1>6
    <3> QED BY <1>1, <1>2, <3>1 DEF Flags
  <2>4. Covered(d', job)
    BY <2>2, <2>3 DEF Covered, Asleep
  <2>5. rejects = 0 => Held(d', job, batch) /\ Drained(d', job) /\ Covered(d', job)
    BY <1>1, <1>3, <2>2, <2>4 DEF Held, Drained
  <2> QED BY <1>1, <1>2, <1>4, <2>2, <2>5, Assemble
<1> QED BY <1>5, <1>6

LEMMA RejectsOK == ASSUME IInv, RunRejects PROVE IInv'
<1>1. /\ d \in DrainRec /\ job \in [Job -> Row] /\ now \in Nat /\ settles \in Nat /\ rejects \in Nat
      /\ Rows(job) /\ Flags(d)
  BY Parts
<1>2. /\ rejects' = rejects + 1 /\ d.phase \in {"call", "work"}
      /\ d' = Finish(d, job) /\ batch' = {} /\ UNCHANGED <<job, now, settles>>
  BY DEF RunRejects
<1>3. d.reconciled
  BY <1>1, <1>2 DEF Flags
<1>4. d' \in DrainRec /\ Flags(d')
  BY <1>1, <1>2, <1>3, FinishFacts
<1>5. BatchOK(d', job', batch')
  BY <1>2 DEF BatchOK
<1>6. rejects' \in Nat /\ rejects' # 0
  BY <1>1, <1>2
<1> QED BY <1>1, <1>2, <1>4, <1>5, <1>6, Assemble

LEMMA NextOK == IInv /\ [Next]_vars => IInv'
<1> SUFFICES ASSUME IInv, [Next]_vars PROVE IInv'
  OBVIOUS
<1>1. ASSUME NEW j \in Job, NEW delay \in Delays, Enqueue(j, delay) PROVE IInv'
  BY <1>1, EnqueueOK
<1>2. CASE AfterHealthCheck \/ BudgetSettles \/ PersistRecovers \/ Dispose
  BY <1>2, HealthOK, BudgetOK, RequestOK, DisposeOK
<1>3. CASE Timers
  BY <1>3, RequestOK, TimersOK DEF Timers
<1>4. CASE Cycle \/ RunRejects
  BY <1>4, LeaseOK, BatchEndsOK, YieldEndsOK, RejectsOK DEF Cycle
<1>5. ASSUME NEW j \in Job, Ends(j) PROVE IInv'
  BY <1>5, EndsOK
<1>6. CASE UNCHANGED <<job, batch, d, settles, rejects>> /\ now' \in Nat
  <2>1. /\ d \in DrainRec /\ job \in [Job -> Row] /\ batch \subseteq Job
        /\ settles \in Nat /\ rejects \in Nat
        /\ Rows(job) /\ BatchOK(d, job, batch) /\ Flags(d)
        /\ rejects = 0 => Held(d, job, batch) /\ Drained(d, job) /\ Covered(d, job)
    BY Parts
  <2> QED BY <1>6, <2>1, Assemble
<1>7. Tick \/ UNCHANGED vars => UNCHANGED <<job, batch, d, settles, rejects>> /\ now' \in Nat
  BY Parts DEF Tick, vars
<1> QED BY <1>1, <1>2, <1>3, <1>4, <1>5, <1>6, <1>7 DEF Next

-----------------------------------------------------------------------------
(***************************************************************************)
(* The variables keep their types: no callback is counted below zero, no    *)
(* row has more attempts than it may, and the cycles stay within maxCycles. *)
(***************************************************************************)
THEOREM DrainTypeCorrect == Spec => []TypeOK
<1>1. IInv => TypeOK
  BY DEF IInv, Shape
<1> QED BY <1>1, InitOK, NextOK, PTL DEF Spec

(***************************************************************************)
(* While no run has rejected, a drain that sleeps has a timer for every     *)
(* row that waits for its time, and there are no rows that wait for none.   *)
(***************************************************************************)
THEOREM SleepIsAlwaysCovered == Spec => []SleepIsCovered
<1>1. IInv => SleepIsCovered
  <2> SUFFICES ASSUME IInv, rejects = 0 PROVE Covered(d, job) => SleepIsCovered
    BY Parts DEF SleepIsCovered
  <2> QED BY DEF Covered, Asleep, SleepIsCovered
<1> QED BY <1>1, InitOK, NextOK, PTL DEF Spec

(***************************************************************************)
(* After dispose() no callback that is still pending starts a drain.        *)
(***************************************************************************)
THEOREM DisposeIsFinal == Spec => StoppedForGood
<1>1. ASSUME IInv, [Next]_vars, d.disposed, d.phase = "off" PROVE d'.phase = "off"
  <2>1. d \in DrainRec /\ job \in [Job -> Row] /\ batch = {} /\ now \in Nat
    BY <1>1, Parts DEF BatchOK
  <2>2. ASSUME NEW j \in Job, NEW delay \in Delays, Enqueue(j, delay) PROVE d' = Schedule(d)
    BY <2>2 DEF Enqueue
  <2>3. \A x \in DrainRec : x.disposed => Schedule(x) = x /\ Drain(x) = x
    BY DEF Schedule, Drain
  <2>4. CASE StartupFires
    <3> DEFINE x == [d EXCEPT !.startup = FALSE]
    <3>1. x \in DrainRec /\ x.disposed /\ x.phase = "off" /\ d' = Schedule(x)
      BY <1>1, <2>1, <2>4 DEF StartupFires, DrainRec
    <3> QED BY <2>3, <3>1
  <2>5. CASE ScheduledFires
    <3> DEFINE x == [d EXCEPT !.plain = FALSE, !.scheduled = FALSE, !.handle = "none"]
    <3>1. x \in DrainRec /\ x.disposed /\ x.phase = "off"
      BY <1>1, <2>1 DEF DrainRec
    <3>2. d' = Drain(x)
      BY <2>5 DEF ScheduledFires, Wake
    <3> QED BY <2>3, <3>1, <3>2
  <2>6. CASE AgainFires
    <3> DEFINE x == [d EXCEPT !.again = d.again - 1, !.requested = TRUE, !.handle = "none"]
    <3>1. d.again - 1 \in Nat
      BY <2>1, <2>6 DEF AgainFires, DrainRec
    <3>2. x \in DrainRec /\ x.disposed /\ x.phase = "off"
      BY <1>1, <2>1, <3>1 DEF DrainRec
    <3>3. d' = Drain(x)
      BY <2>6 DEF AgainFires, Wake
    <3> QED BY <2>3, <3>2, <3>3
  <2>7. CASE DelayedFires
    <3> DEFINE x == [d EXCEPT !.delayed = 0, !.requested = TRUE]
    <3>1. x \in DrainRec /\ x.disposed /\ x.phase = "off"
      BY <1>1, <2>1 DEF DrainRec
    <3>2. d' = Drain(x)
      BY <2>7 DEF DelayedFires, Wake
    <3> QED BY <2>3, <3>1, <3>2
  <2>8. ~AfterHealthCheck /\ ~BudgetSettles /\ ~PersistRecovers /\ ~Dispose /\ ~Cycle /\ ~RunRejects
    BY <1>1 DEF AfterHealthCheck, BudgetSettles, PersistRecovers, Dispose, Cycle, LeaseBatch,
                BatchEnds, YieldEnds, RunRejects
  <2>9. ASSUME NEW j \in Job, Ends(j) PROVE FALSE
    BY <2>1, <2>9 DEF Ends, JobSucceeds, JobFails, JobDefers, JobBacksOff
  <2>10. Tick \/ UNCHANGED vars => d' = d
    BY DEF Tick, vars
  <2>11. ASSUME NEW j \in Job, NEW delay \in Delays, Enqueue(j, delay) PROVE d' = d
    BY <1>1, <2>1, <2>2, <2>3, <2>11
  <2> QED BY <1>1, <2>4, <2>5, <2>6, <2>7, <2>8, <2>9, <2>10, <2>11 DEF Next, Timers
<1>2. IInv /\ [Next]_vars => [d.disposed /\ d.phase = "off" => d'.phase = "off"]_vars
  BY <1>1
<1> QED BY <1>2, InitOK, NextOK, PTL DEF Spec, StoppedForGood
=============================================================================
