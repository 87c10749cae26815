------------------------- MODULE EvolutionJobsProofs -------------------------
(***************************************************************************)
(* Theorems about EvolutionJobs for every set of jobs and every choice of  *)
(* the constants.  The table statements get one lemma each per invariant;  *)
(* the actions compose them.  First for any overlapping runs, then for the *)
(* drain as the only one.                                                  *)
(***************************************************************************)
EXTENDS EvolutionJobs, TLAPS

TableOK(T) == T \in [Job -> Row]

\* What every statement must keep of the table, whoever runs it.
AttemptsOK(T) ==
    \A j \in Job :
        /\ T[j].status \in {"queued", "failed"} => T[j].attempts < MaxAttempts
        /\ T[j].status = "leased" => T[j].attempts \in 1 .. MaxAttempts

KeysOK(T) ==
    \A i, j \in Job :
        KeyOf[i] = KeyOf[j] /\ T[i].status \in Active /\ T[j].status \in Active => i = j

Sound(T) == TableOK(T) /\ AttemptsOK(T) /\ KeysOK(T)

\* What a run has in hand: the rest of its batch is among what it holds.
Works == {w \in [held : SUBSET Job, batch : SUBSET Job, active : SUBSET Job, stray : SUBSET Job] :
             w.batch \subseteq w.held}

IInv == TypeOK /\ run \in [Runner -> Works] /\ Sound(job)

USE DEF Statuses, Active

-----------------------------------------------------------------------------

\* Putting failed rows back in the queue keeps the table sound.
LEMMA RequeueFailedSound ==
    ASSUME NEW T, Sound(T), NEW S, S \subseteq Job, NEW F, F \subseteq Retryable(T, S)
    PROVE  Sound(RequeueFailed(T, F))
<1> DEFINE U == RequeueFailed(T, F)
<1>1. TableOK(U)
  BY DEF Sound, TableOK, RequeueFailed, Row
<1>2. \A j \in Job : /\ j \in F => T[j].status = "failed" /\ T[j].attempts < MaxAttempts
                     /\ U[j].attempts = T[j].attempts
                     /\ U[j].status = IF j \in F THEN "queued" ELSE T[j].status
  BY DEF Sound, TableOK, RequeueFailed, Retryable, Row
<1>3. AttemptsOK(U)
  BY <1>2 DEF Sound, AttemptsOK
<1>4. KeysOK(U)
  BY <1>2 DEF Sound, KeysOK
<1> QED BY <1>1, <1>3, <1>4 DEF Sound

\* Giving leases back keeps the table sound: the refund cannot go below zero.
LEMMA RequeueLeasedSound ==
    ASSUME NEW T, Sound(T), NEW S
    PROVE  Sound(RequeueLeased(T, S))
<1> DEFINE U == RequeueLeased(T, S)
           G == {j \in Job : j \in S /\ T[j].status = "leased"}
<1>1. \A j \in Job : T[j] \in Row /\ T[j].attempts \in Nat
  BY DEF Sound, TableOK, Row
<1>2. TableOK(U)
  <2>1. ASSUME NEW j \in Job PROVE U[j] \in Row
    <3> DEFINE a == IF T[j].attempts > 0 THEN T[j].attempts - 1 ELSE 0
    <3>1. a \in Nat
      BY <1>1
    <3>2. [T[j] EXCEPT !.status = "queued", !.leasedUntil = 0, !.attempts = a] \in Row
      BY <1>1, <3>1 DEF Row
    <3> QED BY <1>1, <3>2 DEF RequeueLeased
  <2> QED BY <2>1 DEF TableOK, RequeueLeased
<1>3. \A j \in Job : /\ j \in G => U[j].status = "queued" /\ U[j].attempts = T[j].attempts - 1
                     /\ j \notin G => U[j] = T[j]
  BY <1>1 DEF Sound, AttemptsOK, RequeueLeased, Row
<1>4. AttemptsOK(U)
  BY <1>1, <1>3, ConstantsAssumption DEF Sound, AttemptsOK
<1>5. KeysOK(U)
  BY <1>3 DEF Sound, KeysOK
<1> QED BY <1>2, <1>4, <1>5 DEF Sound

\* Startup reconciliation keeps the table sound.
LEMMA ReconcileSound ==
    ASSUME NEW T, Sound(T)
    PROVE  Sound(Reconcile(T))
BY RequeueLeasedSound, RequeueFailedSound DEF Reconcile

\* Backfilled rows bring no second unfinished row of a key.
LEMMA BackfillSound ==
    ASSUME NEW T, Sound(T), NEW types, NEW N \in Insertable(T, types)
    PROVE  Sound(Backfill(T, N))
<1> DEFINE U == Backfill(T, N)
<1>1. N \subseteq Job /\ \A j \in N : Rivals(T, j) = {}
  BY DEF Insertable, OfType
<1>2. \A i, j \in N : KeyOf[i] = KeyOf[j] => i = j
  BY DEF Insertable
<1>3. TableOK(U)
  BY DEF Sound, TableOK, Backfill, NewRow, Row
<1>4. AttemptsOK(U)
  BY ConstantsAssumption DEF Sound, AttemptsOK, Backfill, NewRow
<1>5. KeysOK(U)
  BY <1>1, <1>2 DEF Sound, KeysOK, Backfill, NewRow, Rivals
<1> QED BY <1>3, <1>4, <1>5 DEF Sound

\* Leasing rows that have an attempt left keeps the table sound.
LEMMA LeaseSound ==
    ASSUME NEW T, Sound(T), now \in Nat, NEW S, S \subseteq Job, NEW gated,
           NEW L, L \subseteq Leasable(T, S, gated)
    PROVE  Sound(Lease(T, L))
<1> DEFINE U == Lease(T, L)
<1>1. \A j \in Job : T[j] \in Row /\ T[j].attempts \in Nat
  BY DEF Sound, TableOK, Row
<1>2. now + LeaseLen \in Nat
  BY ConstantsAssumption
<1>3. TableOK(U)
  <2>1. ASSUME NEW j \in Job PROVE U[j] \in Row
    <3> DEFINE a == T[j].attempts + 1
    <3>1. a \in Nat
      BY <1>1
    <3>2. [T[j] EXCEPT !.status = "leased", !.attempts = a, !.leasedUntil = now + LeaseLen] \in Row
      BY <1>1, <1>2, <3>1 DEF Row
    <3> QED BY <1>1, <3>2 DEF Lease
  <2> QED BY <2>1 DEF TableOK, Lease
<1>4. \A j \in Job : /\ j \in L => /\ T[j].status \in {"queued", "leased"}
                                   /\ T[j].attempts < MaxAttempts
                                   /\ U[j].status = "leased"
                                   /\ U[j].attempts = T[j].attempts + 1
                     /\ j \notin L => U[j] = T[j]
  BY <1>1 DEF Lease, Leasable, Expired, Row
<1>5. AttemptsOK(U)
  BY <1>1, <1>4, ConstantsAssumption DEF Sound, AttemptsOK
<1>6. KeysOK(U)
  BY <1>4 DEF Sound, KeysOK
<1> QED BY <1>3, <1>5, <1>6 DEF Sound

\* Completing a row keeps the table sound, whatever state it was in.
LEMMA CompleteSound ==
    ASSUME NEW T, Sound(T), NEW j \in Job
    PROVE  Sound(Complete(T, j))
<1>1. TableOK(Complete(T, j))
  BY DEF Sound, TableOK, Complete, Row
<1>2. \A i \in Job : IF i = j THEN Complete(T, j)[i].status = "succeeded"
                              ELSE Complete(T, j)[i] = T[i]
  BY DEF Sound, TableOK, Complete, Row
<1> QED BY <1>1, <1>2 DEF Sound, AttemptsOK, KeysOK

\* Failing a row keeps the table sound unless the unique index objects.
LEMMA FailSound ==
    ASSUME NEW T, Sound(T), NEW j \in Job, NEW force \in BOOLEAN, ~FailRaises(T, j, force)
    PROVE  Sound(Fail(T, j, force))
<1> DEFINE U == Fail(T, j, force)
<1>1. CASE T[j].status = "dead_letter"
  BY <1>1 DEF Fail
<1>2. CASE T[j].status # "dead_letter"
  <2>1. FailStatus(T, j, force) \in {"dead_letter", "failed"}
    BY DEF FailStatus
  <2>2. TableOK(U)
    <3> DEFINE f == T[j].fails + 1
    <3>1. T[j] \in Row /\ f \in Nat
      BY DEF Sound, TableOK, Row
    <3>2. [T[j] EXCEPT !.status = FailStatus(T, j, force), !.leasedUntil = 0, !.fails = f] \in Row
      BY <2>1, <3>1 DEF Row
    <3> QED BY <1>2, <3>2 DEF Sound, TableOK, Fail
  <2>3. \A i \in Job : IF i = j THEN /\ U[i].status = FailStatus(T, j, force)
                                     /\ U[i].attempts = T[i].attempts
                                ELSE U[i] = T[i]
    BY <1>2, <2>1 DEF Sound, TableOK, Fail, Row
  <2>4. T[j].attempts \in Nat
    BY DEF Sound, TableOK, Row
  <2>5. AttemptsOK(U)
    BY <2>3, <2>4, ConstantsAssumption DEF Sound, AttemptsOK, FailStatus
  <2>6. FailStatus(T, j, force) = "failed" => Rivals(T, j) = {}
    BY <1>2 DEF FailRaises
  <2>7. KeysOK(U)
    BY <2>1, <2>3, <2>6 DEF Sound, KeysOK, Rivals
  <2> QED BY <2>2, <2>5, <2>7 DEF Sound
<1> QED BY <1>1, <1>2

\* Deferring a row keeps the table sound.
LEMMA DeferSound ==
    ASSUME NEW T, Sound(T), NEW j \in Job, now \in Nat
    PROVE  Sound(Defer(T, j))
<1> DEFINE t == RequeueLeased(T, {j})
<1>1. Sound(t)
  BY RequeueLeasedSound
<1>2. CASE T[j].status # "leased"
  BY <1>2 DEF Defer
<1>3. CASE T[j].status = "leased"
  <2> DEFINE U == [t EXCEPT ![j].runAfter = now + DeferDelay]
  <2>1. U = Defer(T, j)
    BY <1>3 DEF Defer
  <2>2. now + DeferDelay \in Nat
    BY ConstantsAssumption
  <2>3. TableOK(U)
    BY <1>1, <2>2 DEF Sound, TableOK, Row
  <2>4. \A i \in Job : U[i].status = t[i].status /\ U[i].attempts = t[i].attempts
    BY <1>1, <2>2 DEF Sound, TableOK, Row
  <2> QED BY <1>1, <2>1, <2>3, <2>4 DEF Sound, AttemptsOK, KeysOK
<1> QED BY <1>2, <1>3

-----------------------------------------------------------------------------
(* The actions. *)

\* What a run start does, seen through the tables it passes.
LEMMA RunStartSteps ==
    ASSUME NEW r \in Runner, RunStart(r)
    PROVE  \E S \in SUBSET Job, gated \in SUBSET Job :
           \E N \in Insertable(job, Backfilled(S)) :
           \E F \in SUBSET Retryable(Backfill(job, N), S) :
           \E batch \in SUBSET Leasable(Retried(Backfill(job, N), F), S, gated) :
              /\ job' = Lease(Retried(Backfill(job, N), F), batch)
              /\ run' = [run EXCEPT ![r].held = batch]
              /\ dropped' = dropped \ batch
<1>1. PICK S \in IF r = Drain THEN {Job} ELSE Targets,
           cohort \in IF r = Drain THEN {TRUE} ELSE BOOLEAN,
           gated \in SUBSET OfType({"reward"}) :
       \E N \in Insertable(job, Backfilled(S)) :
       \E F \in First(Retryable(Backfill(job, N), S), Limit[r]) :
       \E L \in First(Leasable(Retried(Backfill(job, N), F), S, gated), Limit[r]) :
       LET batch == IF cohort THEN Cohort(L) ELSE L
       IN  /\ job' = Lease(Retried(Backfill(job, N), F), batch)
           /\ run' = [run EXCEPT ![r].held = batch]
           /\ dropped' = dropped \ batch
  BY DEF RunStart
<1>2. S \in SUBSET Job /\ gated \in SUBSET Job
  BY ConstantsAssumption DEF OfType
<1>9. PICK N \in Insertable(job, Backfilled(S)) :
       \E F \in First(Retryable(Backfill(job, N), S), Limit[r]) :
       \E L \in First(Leasable(Retried(Backfill(job, N), F), S, gated), Limit[r]) :
       LET batch == IF cohort THEN Cohort(L) ELSE L
       IN  /\ job' = Lease(Retried(Backfill(job, N), F), batch)
           /\ run' = [run EXCEPT ![r].held = batch]
           /\ dropped' = dropped \ batch
  BY <1>1
<1>3. PICK F \in SUBSET Retryable(Backfill(job, N), S) :
       \E L \in First(Leasable(Retried(Backfill(job, N), F), S, gated), Limit[r]) :
       LET batch == IF cohort THEN Cohort(L) ELSE L
       IN  /\ job' = Lease(Retried(Backfill(job, N), F), batch)
           /\ run' = [run EXCEPT ![r].held = batch]
           /\ dropped' = dropped \ batch
  BY <1>9 DEF First
<1>4. PICK L \in First(Leasable(Retried(Backfill(job, N), F), S, gated), Limit[r]) :
       LET batch == IF cohort THEN Cohort(L) ELSE L
       IN  /\ job' = Lease(Retried(Backfill(job, N), F), batch)
           /\ run' = [run EXCEPT ![r].held = batch]
           /\ dropped' = dropped \ batch
  BY <1>3
<1> DEFINE batch == IF cohort THEN Cohort(L) ELSE L
<1>5. batch \in SUBSET Leasable(Retried(Backfill(job, N), F), S, gated)
  BY DEF First, Cohort
<1> QED BY <1>2, <1>4, <1>5

\* What a dispatch does to the hands: C starts, what is given back leaves.
LEMMA DispatchSteps ==
    ASSUME run \in [Runner -> Works], NEW r \in Runner, Dispatch(r)
    PROVE  /\ job' = RequeueLeased(job, GivenBack(r)) /\ run' \in [Runner -> Works]
           /\ \A q \in Runner : /\ run'[q].stray = run[q].stray
                                /\ q # r => run'[q] = run[q]
           /\ run'[r].held \cup run'[r].active = run[r].held \ GivenBack(r)
           /\ run'[r].held \cap run'[r].active = {}
<1> DEFINE rest == run[r].held \ GivenBack(r)
<1>1. run[r] \in Works /\ job' = RequeueLeased(job, GivenBack(r))
  BY DEF Dispatch
<1>2. rest \subseteq Job /\ run[r].batch \subseteq run[r].held
  BY <1>1 DEF Works
<1>3. ASSUME NEW h \in SUBSET Job, NEW b \in SUBSET h, NEW C \in SUBSET Job,
             run' = [run EXCEPT ![r].held = h, ![r].batch = b, ![r].active = C]
      PROVE  /\ run' \in [Runner -> Works]
             /\ run'[r].held = h /\ run'[r].active = C
             /\ \A q \in Runner : run'[q].stray = run[q].stray /\ (q # r => run'[q] = run[q])
  <2> DEFINE v == [run[r] EXCEPT !.held = h, !.batch = b, !.active = C]
  <2>1. v \in Works /\ v.held = h /\ v.active = C /\ v.stray = run[r].stray
    BY <1>1, <1>3 DEF Works
  <2>2. run' = [run EXCEPT ![r] = v]
    BY <1>3
  <2> HIDE DEF v
  <2> QED BY <2>1, <2>2
<1>4. CASE rest = {} /\ run' = [run EXCEPT ![r].held = {}, ![r].batch = {}]
  <2>1. run[r].active = {}
    BY DEF Dispatch
  <2>2. run' = [run EXCEPT ![r].held = {}, ![r].batch = {}, ![r].active = {}]
    <3>1. [run[r] EXCEPT !.held = {}, !.batch = {}] =
             [run[r] EXCEPT !.held = {}, !.batch = {}, !.active = {}]
      BY <1>1, <2>1 DEF Works
    <3> QED BY <1>1, <1>4, <3>1
  <2>3. /\ run' \in [Runner -> Works]
        /\ run'[r].held = {} /\ run'[r].active = {}
        /\ \A q \in Runner : run'[q].stray = run[q].stray /\ (q # r => run'[q] = run[q])
    BY <1>3, <2>2
  <2> QED BY <1>1, <1>4, <2>3
<1>5. CASE Started(r, rest)
  <2>1. PICK B \in IF GoesOn(r) THEN {run[r].batch} ELSE Batches(rest) :
             \E C \in Chunks(B) :
                run' = [run EXCEPT ![r].held = rest \ C, ![r].batch = B \ C, ![r].active = C]
    BY <1>5 DEF Started
  <2>2. PICK C \in Chunks(B) :
                run' = [run EXCEPT ![r].held = rest \ C, ![r].batch = B \ C, ![r].active = C]
    BY <2>1
  <2>3. B \subseteq rest
    <3>1. CASE GoesOn(r)
      BY <1>2, <2>1, <3>1 DEF GivenBack
    <3>2. CASE ~GoesOn(r)
      BY <2>1, <3>2 DEF Batches, Cohort
    <3> QED BY <3>1, <3>2
  <2>4. C \subseteq B
    BY DEF Chunks
  <2> HIDE DEF rest
  <2>5. rest \ C \in SUBSET Job /\ B \ C \in SUBSET (rest \ C) /\ C \in SUBSET Job
    BY <1>2, <2>3, <2>4
  <2>6. /\ run' \in [Runner -> Works]
        /\ run'[r].held = rest \ C /\ run'[r].active = C
        /\ \A q \in Runner : run'[q].stray = run[q].stray /\ (q # r => run'[q] = run[q])
    BY <1>3, <2>2, <2>5
  <2> QED BY <1>1, <2>3, <2>4, <2>6 DEF rest
<1> QED BY <1>4, <1>5 DEF Dispatch

\* The head of a run: every intermediate table is sound.
LEMMA RunStartSound ==
    ASSUME IInv, NEW r \in Runner, RunStart(r)
    PROVE  Sound(job') /\ run' \in [Runner -> Works] /\ dropped' \in SUBSET Job
<1>1. PICK S \in SUBSET Job, gated \in SUBSET Job :
           \E N \in Insertable(job, Backfilled(S)) :
           \E F \in SUBSET Retryable(Backfill(job, N), S) :
           \E batch \in SUBSET Leasable(Retried(Backfill(job, N), F), S, gated) :
              /\ job' = Lease(Retried(Backfill(job, N), F), batch)
              /\ run' = [run EXCEPT ![r].held = batch]
              /\ dropped' = dropped \ batch
  BY RunStartSteps
<1>2. PICK N \in Insertable(job, Backfilled(S)) :
           \E F \in SUBSET Retryable(Backfill(job, N), S) :
           \E batch \in SUBSET Leasable(Retried(Backfill(job, N), F), S, gated) :
              /\ job' = Lease(Retried(Backfill(job, N), F), batch)
              /\ run' = [run EXCEPT ![r].held = batch]
              /\ dropped' = dropped \ batch
  BY <1>1
<1>3. PICK F \in SUBSET Retryable(Backfill(job, N), S) :
           \E batch \in SUBSET Leasable(Retried(Backfill(job, N), F), S, gated) :
              /\ job' = Lease(Retried(Backfill(job, N), F), batch)
              /\ run' = [run EXCEPT ![r].held = batch]
              /\ dropped' = dropped \ batch
  BY <1>2
<1>4. PICK batch \in SUBSET Leasable(Retried(Backfill(job, N), F), S, gated) :
              /\ job' = Lease(Retried(Backfill(job, N), F), batch)
              /\ run' = [run EXCEPT ![r].held = batch]
              /\ dropped' = dropped \ batch
  BY <1>3
<1>5. Sound(Backfill(job, N))
  BY BackfillSound DEF IInv
<1>6. Sound(RequeueFailed(Backfill(job, N), F))
  BY <1>5, RequeueFailedSound
<1>7. Sound(Retried(Backfill(job, N), F))
  BY <1>6, RequeueLeasedSound DEF Retried
<1>8. now \in Nat /\ run \in [Runner -> Works]
  BY DEF IInv, TypeOK, Works
<1>9. Sound(Lease(Retried(Backfill(job, N), F), batch))
  BY <1>7, <1>8, LeaseSound
<1>10. batch \in SUBSET Job
  BY DEF Leasable
<1> DEFINE v == [run[r] EXCEPT !.held = batch]
<1>11. v \in Works
  <2>1. run[r] \in Works /\ run[r].held = {}
    BY <1>8 DEF RunStart
  <2> QED BY <1>10, <2>1 DEF Works
<1>12. run' = [run EXCEPT ![r] = v]
  BY <1>4
<1> HIDE DEF v
<1>13. run' \in [Runner -> Works]
  BY <1>8, <1>11, <1>12
<1>14. dropped' \in SUBSET Job
  BY <1>4 DEF IInv, TypeOK
<1> QED BY <1>4, <1>9, <1>13, <1>14

\* Settling a job only shrinks what its runner has in flight.
LEMMA SettledType ==
    ASSUME run \in [Runner -> Works], NEW r \in Runner, NEW j
    PROVE  Settled(r, j) \in [Runner -> Works]
<1> DEFINE w == run[r]
           v == IF j \in w.active THEN [w EXCEPT !.active = @ \ {j}]
                                  ELSE [w EXCEPT !.stray = @ \ {j}]
<1>1. w \in Works
  OBVIOUS
<1>2. v \in Works
  <2>1. w.active \ {j} \in SUBSET Job /\ w.stray \ {j} \in SUBSET Job
    BY <1>1 DEF Works
  <2>2. CASE j \in w.active
    BY <1>1, <2>1, <2>2 DEF Works
  <2>3. CASE j \notin w.active
    BY <1>1, <2>1, <2>3 DEF Works
  <2> QED BY <2>2, <2>3
<1>3. Settled(r, j) = [run EXCEPT ![r] = v]
  BY DEF Settled
<1> HIDE DEF v
<1> QED BY <1>2, <1>3

\* IInv is inductive.
LEMMA StepSound ==
    ASSUME IInv, [Next]_vars
    PROVE  IInv'
<1> USE DEF IInv
<1>0. /\ job \in [Job -> Row] /\ lastSeq \in [Scope -> Nat] /\ now \in Nat
      /\ run \in [Runner -> Works] /\ dropped \in SUBSET Job
      /\ reconciled \in BOOLEAN /\ paused \in BOOLEAN /\ configured \in BOOLEAN
      /\ crashes \in Nat
  BY DEF TypeOK, Works
<1>g. SUFFICES /\ Sound(job') /\ lastSeq' \in [Scope -> Nat] /\ now' \in Nat
               /\ run' \in [Runner -> Works] /\ dropped' \in SUBSET Job
               /\ reconciled' \in BOOLEAN /\ paused' \in BOOLEAN /\ configured' \in BOOLEAN
               /\ crashes' \in Nat
  BY DEF TypeOK, Sound, TableOK, Works, AttemptsOK, KeysOK, Row
<1>1. ASSUME NEW j \in Job, NEW d \in RunAfters, Insert(j, d)
      PROVE  Sound(job') /\ lastSeq' \in [Scope -> Nat]
  <2> DEFINE after == IF d = 0 THEN 0 ELSE now + d
             n == IF j \in Scoped THEN lastSeq[ScopeOf[j]] + 1 ELSE 0
             row == NewRow(after, n)
  <2>1. after \in Nat /\ n \in Nat
    BY <1>0, ConstantsAssumption
  <2>2. lastSeq' \in [Scope -> Nat]
    BY <1>0, <1>1, ConstantsAssumption DEF Insert
  <2>3. job' = [job EXCEPT ![j] = row] /\ Rivals(job, j) = {}
    BY <1>1 DEF Insert
  <2>4. row \in Row /\ row.status = "queued" /\ row.attempts = 0
    BY <2>1 DEF NewRow, Row
  <2>5. TableOK(job')
    BY <1>0, <2>3, <2>4 DEF TableOK
  <2>6. AttemptsOK(job')
    BY <1>0, <2>3, <2>4, ConstantsAssumption DEF Sound, AttemptsOK
  <2>7. KeysOK(job')
    BY <1>0, <2>3, <2>4 DEF Sound, KeysOK, Rivals
  <2> QED BY <2>2, <2>5, <2>6, <2>7 DEF Sound
<1>2. ASSUME NEW j \in Job, NEW d \in RunAfters, Merge(j, d)
      PROVE  Sound(job')
  <2> DEFINE after == MergeRunAfter(job[j].runAfter, IF d = 0 THEN 0 ELSE now + d)
             st == IF job[j].status = "failed" THEN "queued" ELSE job[j].status
             lu == IF job[j].status = "failed" THEN 0 ELSE job[j].leasedUntil
             row == [job[j] EXCEPT !.status = st, !.leasedUntil = lu, !.runAfter = after]
  <2>1. job[j] \in Row /\ job[j].runAfter \in Nat /\ lu \in Nat /\ d \in Nat
    BY <1>0, ConstantsAssumption DEF Row
  <2>2. after \in Nat
    BY <1>0, <2>1 DEF MergeRunAfter, Smaller
  <2>3. row \in Row /\ row.status = st /\ row.attempts = job[j].attempts
    BY <2>1, <2>2 DEF Row
  <2>4. job' = [job EXCEPT ![j] = row] /\ job[j].status \in Active
    BY <1>2 DEF Merge
  <2> HIDE DEF row, after
  <2>5. \A i \in Job : IF i = j THEN job'[i].status = st /\ job'[i].attempts = job[i].attempts
                                ELSE job'[i] = job[i]
    BY <1>0, <2>3, <2>4
  <2>6. TableOK(job')
    BY <1>0, <2>3, <2>4 DEF TableOK
  <2>7. AttemptsOK(job') /\ KeysOK(job')
    BY <2>4, <2>5 DEF Sound, AttemptsOK, KeysOK
  <2> QED BY <2>6, <2>7 DEF Sound
<1>3. ASSUME NEW j \in Job, Arm(j)
      PROVE  Sound(job')
  <2> DEFINE row == NewRow(now + IdleTimeout, 0)
  <2>1. now + IdleTimeout \in Nat
    BY <1>0, ConstantsAssumption
  <2>2. row \in Row /\ row.status = "queued" /\ row.attempts = 0
    BY <2>1 DEF NewRow, Row
  <2>3. job' = [job EXCEPT ![j] = row] /\ j \in OfType({"work_memory_idle_flush"})
    BY <1>3 DEF Arm, OfType
  <2>4. \A i \in Job : KeyOf[j] = KeyOf[i] => j = i
    BY <2>3, FlushKeyAssumption
  <2> HIDE DEF row
  <2>5. TableOK(job')
    BY <1>0, <2>2, <2>3 DEF TableOK
  <2>6. AttemptsOK(job')
    BY <1>0, <2>2, <2>3, ConstantsAssumption DEF Sound, AttemptsOK
  <2>7. KeysOK(job')
    BY <1>0, <2>2, <2>3, <2>4 DEF Sound, KeysOK
  <2> QED BY <2>5, <2>6, <2>7 DEF Sound
<1>4. ASSUME NEW W \in WorldModels, DeleteWorldModel(W)
      PROVE  Sound(job')
  <2>1. TableOK(job')
    BY <1>0, <1>4 DEF DeleteWorldModel, TableOK, Row
  <2>2. \A i \in Job : job'[i] = job[i] \/ job'[i].status = "succeeded"
    BY <1>0, <1>4 DEF DeleteWorldModel, Row
  <2>3. AttemptsOK(job') /\ KeysOK(job')
    BY <2>2 DEF Sound, AttemptsOK, KeysOK
  <2> QED BY <2>1, <2>3 DEF Sound
<1>5. ASSUME NEW r \in Runner, Dispatch(r)
      PROVE  Sound(job') /\ run' \in [Runner -> Works]
  <2>1. job' = RequeueLeased(job, GivenBack(r)) /\ run' \in [Runner -> Works]
    BY <1>0, <1>5, DispatchSteps
  <2> QED BY <2>1, RequeueLeasedSound
<1>6. ASSUME NEW r \in Runner, NEW j \in Job, NEW force \in BOOLEAN, RunRejects(r, j, force)
      PROVE  run' \in [Runner -> Works] /\ dropped' \in SUBSET Job
  <2> DEFINE w == run[r]
             v == IF j \in w.active
                  THEN [held |-> {}, batch |-> {}, active |-> {}, stray |-> w.stray \cup (w.active \ {j})]
                  ELSE [w EXCEPT !.stray = @ \ {j}]
  <2>1. w \in Works
    BY <1>0
  <2>2. v \in Works
    <3>1. w.stray \cup (w.active \ {j}) \in SUBSET Job /\ w.stray \ {j} \in SUBSET Job
      BY <2>1 DEF Works
    <3>2. CASE j \in w.active
      BY <3>1, <3>2 DEF Works
    <3>3. CASE j \notin w.active
      BY <2>1, <3>1, <3>3 DEF Works
    <3> QED BY <3>2, <3>3
  <2>3. run' = [run EXCEPT ![r] = v]
    BY <1>6 DEF RunRejects
  <2>4. dropped' \in SUBSET Job
    BY <1>0, <1>6, <2>1 DEF RunRejects, Works
  <2> HIDE DEF v
  <2> QED BY <1>0, <2>2, <2>3, <2>4
<1>7. CASE \E j \in Job, d \in RunAfters : Insert(j, d) \/ Merge(j, d)
  BY <1>0, <1>1, <1>2, <1>7 DEF Insert, Merge
<1>8. CASE \E j \in Job : Arm(j)
  BY <1>0, <1>3, <1>8 DEF Arm
<1>9. CASE \E W \in WorldModels : DeleteWorldModel(W)
  BY <1>0, <1>4, <1>9 DEF DeleteWorldModel
<1>10. CASE \E r \in Runner : RunStart(r)
  <2>1. PICK r \in Runner : RunStart(r)
    BY <1>10
  <2>2. Sound(job') /\ run' \in [Runner -> Works] /\ dropped' \in SUBSET Job
    BY <1>0, <2>1, RunStartSound
  <2> QED BY <1>0, <2>1, <2>2 DEF RunStart
<1>20. CASE StartupReconcile
  <2>1. PICK N \in Insertable(job, RepairTypes) : job' = Reconcile(Backfill(job, N))
    BY <1>20 DEF StartupReconcile
  <2>2. Sound(job')
    BY <2>1, BackfillSound, ReconcileSound
  <2> QED BY <1>0, <1>20, <2>2 DEF StartupReconcile
<1>11. CASE \E r \in Runner : Dispatch(r)
  BY <1>0, <1>5, <1>11 DEF Dispatch
<1>12. CASE \E r \in Runner, j \in Job : JobSucceeds(r, j)
  BY <1>0, <1>12, CompleteSound, SettledType DEF JobSucceeds
<1>13. CASE \E r \in Runner, j \in Job, force \in BOOLEAN : JobFails(r, j, force)
  BY <1>0, <1>13, FailSound, SettledType DEF JobFails
<1>14. CASE \E r \in Runner, j \in Job, force \in BOOLEAN : RunRejects(r, j, force)
  BY <1>0, <1>6, <1>14 DEF RunRejects
<1>15. CASE \E r \in Runner, j \in Job : JobDefers(r, j)
  BY <1>0, <1>15, DeferSound, SettledType DEF JobDefers
<1>16. CASE \E r \in Runner, j \in Job : JobHeld(r, j)
  BY <1>0, <1>16, RequeueLeasedSound, SettledType DEF JobHeld
<1>17. CASE Tick \/ SetPaused \/ SetConfigured
  <2>1. CASE Tick
    BY <1>0, <2>1 DEF Tick
  <2>2. CASE SetPaused
    BY <1>0, <2>2, Zenon DEF SetPaused
  <2>3. CASE SetConfigured
    BY <1>0, <2>3, Zenon DEF SetConfigured
  <2> QED BY <1>17, <2>1, <2>2, <2>3
<1>18. CASE Crash
  <2>1. NoWork \in Works
    BY DEF NoWork, Works
  <2>2. crashes' \in Nat
    BY <1>0, <1>18 DEF Crash
  <2> QED BY <1>0, <1>18, <2>1, <2>2 DEF Crash
<1>19. CASE UNCHANGED vars
  BY <1>0, <1>19 DEF vars
<1> QED
  BY <1>7, <1>8, <1>9, <1>10, <1>11, <1>12, <1>13, <1>14, <1>15, <1>16, <1>17, <1>18, <1>19, <1>20
  DEF Next

\* The empty table is sound.
LEMMA InitSound == Init => IInv
<1> SUFFICES ASSUME Init PROVE IInv
  OBVIOUS
<1>1. TableOK(job)
  BY DEF Init, TableOK, Row
<1>2. \A j \in Job : job[j].status = "absent"
  BY DEF Init
<1>3. AttemptsOK(job) /\ KeysOK(job)
  BY <1>2 DEF AttemptsOK, KeysOK
<1>4. NoWork \in Works
  BY DEF NoWork, Works
<1>5. run \in [Runner -> Works]
  BY <1>4 DEF Init
<1>6. TypeOK
  <2>1. run \in [Runner -> [held : SUBSET Job, batch : SUBSET Job,
                           active : SUBSET Job, stray : SUBSET Job]]
    BY <1>5 DEF Works
  <2> QED BY <1>1, <2>1 DEF Init, TypeOK, TableOK
<1> QED BY <1>1, <1>3, <1>5, <1>6 DEF IInv, Sound

\* The invariant that all three results below are read off from.
LEMMA AlwaysSound == Spec => []IInv
BY InitSound, StepSound, PTL DEF Spec

\* The rows, the clock and the runs keep their types.
THEOREM TypeCorrect == Spec => []TypeOK
<1>1. IInv => TypeOK
  BY DEF IInv
<1> QED BY <1>1, AlwaysSound, PTL

\* Once started up, a lease is in some hand unless a rejected run gave it up.
Hands == reconciled => \A j \in Job : job[j].status = "leased" =>
             j \in dropped \/ \E r \in Runner : j \in run[r].held \cup InFlight(r)

\* A step that leaves the hands alone and leases nothing.
LEMMA TableHands ==
    ASSUME Hands, run' = run, dropped' = dropped, reconciled' = reconciled,
           \A i \in Job : job'[i].status = "leased" => job[i].status = "leased"
    PROVE  Hands'
BY DEF Hands, InFlight

\* A settled job leaves the hand of its run, and its lease has ended.
LEMMA SettleHands ==
    ASSUME IInv, Hands, NEW r \in Runner, NEW j \in InFlight(r), run' = Settled(r, j),
           dropped' = dropped, reconciled' = reconciled,
           \A i \in Job : job'[i].status = "leased" => job[i].status = "leased" /\ i # j
    PROVE  Hands'
<1>1. run \in [Runner -> Works]
  BY DEF IInv
<1>2. ASSUME NEW q \in Runner, NEW i \in run[q].held \cup InFlight(q), i # j
      PROVE  i \in run'[q].held \cup InFlight(q)'
  <2>1. run[q] \in Works
    BY <1>1
  <2> QED BY <1>1, <1>2, <2>1 DEF InFlight, Settled, Works
<1> QED BY <1>2 DEF Hands

\* What a statement leaves leased was leased before.
LEMMA RequeueLeasedRows ==
    ASSUME NEW T, Sound(T), NEW S, NEW i \in Job, RequeueLeased(T, S)[i].status = "leased"
    PROVE  T[i].status = "leased" /\ i \notin S
BY DEF RequeueLeased, Sound, TableOK, Row

LEMMA DeferRows ==
    ASSUME NEW T, Sound(T), NEW j \in Job, NEW i \in Job, Defer(T, j)[i].status = "leased"
    PROVE  T[i].status = "leased" /\ i # j
<1> DEFINE t == RequeueLeased(T, {j})
<1>1. Sound(t)
  BY RequeueLeasedSound
<1> HIDE DEF t
<1>2. t[i].status = "leased"
  <2> DEFINE a == now + DeferDelay
  <2>1. Defer(T, j) = IF T[j].status = "leased" THEN [t EXCEPT ![j].runAfter = a] ELSE T
    BY DEF Defer, t
  <2>2. CASE T[j].status = "leased"
    <3> HIDE DEF a
    <3> QED BY <1>1, <2>1, <2>2 DEF Sound, TableOK, Row
  <2>3. CASE T[j].status # "leased"
    <3>1. T[i].status = "leased" /\ i # j
      BY <2>1, <2>3
    <3> QED BY <3>1 DEF t, RequeueLeased, Sound, TableOK
  <2> QED BY <2>2, <2>3
<1> USE DEF t
<1> QED BY <1>2, RequeueLeasedRows

\* A run takes what it leases into its hands.
LEMMA StartHands ==
    ASSUME IInv, Hands, NEW r \in Runner, RunStart(r)
    PROVE  Hands'
<1>1. PICK S \in SUBSET Job, gated \in SUBSET Job :
           \E N \in Insertable(job, Backfilled(S)) :
           \E F \in SUBSET Retryable(Backfill(job, N), S) :
           \E batch \in SUBSET Leasable(Retried(Backfill(job, N), F), S, gated) :
              /\ job' = Lease(Retried(Backfill(job, N), F), batch)
              /\ run' = [run EXCEPT ![r].held = batch]
              /\ dropped' = dropped \ batch
  BY RunStartSteps
<1>2. PICK N \in Insertable(job, Backfilled(S)) :
           \E F \in SUBSET Retryable(Backfill(job, N), S) :
           \E batch \in SUBSET Leasable(Retried(Backfill(job, N), F), S, gated) :
              /\ job' = Lease(Retried(Backfill(job, N), F), batch)
              /\ run' = [run EXCEPT ![r].held = batch]
              /\ dropped' = dropped \ batch
  BY <1>1
<1> DEFINE B == Backfill(job, N)
<1>3. PICK F \in SUBSET Retryable(B, S) :
           \E batch \in SUBSET Leasable(Retried(B, F), S, gated) :
              /\ job' = Lease(Retried(B, F), batch)
              /\ run' = [run EXCEPT ![r].held = batch]
              /\ dropped' = dropped \ batch
  BY <1>2
<1> DEFINE T == Retried(B, F)
<1>4. PICK batch \in SUBSET Leasable(T, S, gated) :
              /\ job' = Lease(T, batch)
              /\ run' = [run EXCEPT ![r].held = batch]
              /\ dropped' = dropped \ batch
  BY <1>3
<1>5. Sound(B) /\ Sound(RequeueFailed(B, F))
  BY BackfillSound, RequeueFailedSound DEF IInv
<1>6. ASSUME NEW i \in Job, T[i].status = "leased"
      PROVE  job[i].status = "leased"
  <2>1. RequeueFailed(B, F)[i].status = "leased"
    BY <1>5, <1>6, RequeueLeasedRows DEF Retried
  <2>2. B[i].status = "leased"
    BY <1>5, <2>1 DEF RequeueFailed, Sound, TableOK, Row
  <2> QED BY <2>2 DEF Backfill, NewRow
<1> HIDE DEF B, T
<1>7. \A i \in Job : job'[i].status = "leased" => i \in batch \/ job[i].status = "leased"
  BY <1>4, <1>6 DEF Lease
<1>8. run \in [Runner -> Works] /\ run[r] \in Works /\ run[r].held = {}
  BY DEF IInv, RunStart
<1>9. /\ run'[r].held = batch
      /\ \A q \in Runner : InFlight(q)' = InFlight(q) /\ run[q].held \subseteq run'[q].held
  BY <1>4, <1>8 DEF InFlight, Works
<1>10. reconciled' = reconciled
  BY DEF RunStart
<1> QED BY <1>4, <1>7, <1>9, <1>10 DEF Hands

\* Hands is kept by every step.
LEMMA HandsStep ==
    ASSUME IInv, Hands, [Next]_vars
    PROVE  Hands'
<1>1. /\ job \in [Job -> Row] /\ run \in [Runner -> Works] /\ Sound(job)
      /\ \A j \in Job : job[j] \in Row
  BY DEF IInv, TypeOK
<1>2. ASSUME NEW j \in Job, NEW d \in RunAfters, Insert(j, d)
      PROVE  Hands'
  BY <1>1, <1>2, TableHands DEF Insert, NewRow
<1>3. ASSUME NEW j \in Job, NEW d \in RunAfters, Merge(j, d)
      PROVE  Hands'
  <2>1. \A i \in Job : job'[i].status = "leased" => job[i].status = "leased"
    <3> DEFINE st == IF job[j].status = "failed" THEN "queued" ELSE job[j].status
    <3>1. \A i \in Job : IF i = j THEN job'[i].status = st ELSE job'[i] = job[i]
      BY <1>1, <1>3 DEF Merge, Row
    <3> QED BY <3>1
  <2> QED BY <1>3, <2>1, TableHands DEF Merge
<1>4. ASSUME NEW j \in Job, Arm(j)
      PROVE  Hands'
  BY <1>1, <1>4, TableHands DEF Arm, NewRow
<1>5. ASSUME NEW W \in WorldModels, DeleteWorldModel(W)
      PROVE  Hands'
  <2>1. \A i \in Job : job'[i].status = "leased" => job[i].status = "leased"
    BY <1>1, <1>5 DEF DeleteWorldModel, Row
  <2> QED BY <1>5, <2>1, TableHands DEF DeleteWorldModel
<1>6. ASSUME StartupReconcile
      PROVE  Hands'
  <2>1. PICK N \in Insertable(job, RepairTypes) : job' = Reconcile(Backfill(job, N))
    BY <1>6 DEF StartupReconcile
  <2> DEFINE t == RequeueLeased(Backfill(job, N), Job)
  <2>2. Sound(Backfill(job, N))
    BY BackfillSound DEF IInv
  <2>3. \A i \in Job : t[i].status # "leased"
    BY <2>2, RequeueLeasedRows
  <2>4. Sound(t)
    BY <2>2, RequeueLeasedSound
  <2>5. job' = RequeueFailed(t, Retryable(t, Job))
    BY <2>1 DEF Reconcile
  <2> HIDE DEF t
  <2>6. \A i \in Job : job'[i].status # "leased"
    BY <2>3, <2>4, <2>5 DEF RequeueFailed, Sound, TableOK, Row
  <2> QED BY <2>6 DEF Hands
<1>7. ASSUME NEW r \in Runner, Dispatch(r)
      PROVE  Hands'
  <2>1. /\ job' = RequeueLeased(job, GivenBack(r))
        /\ \A q \in Runner : /\ run'[q].stray = run[q].stray
                             /\ q # r => run'[q] = run[q]
        /\ run'[r].held \cup run'[r].active = run[r].held \ GivenBack(r)
    BY <1>1, <1>7, DispatchSteps
  <2>2. run[r].active = {} /\ dropped' = dropped /\ reconciled' = reconciled
    BY <1>7 DEF Dispatch
  <2>3. \A i \in Job : job'[i].status = "leased" =>
                          job[i].status = "leased" /\ i \notin GivenBack(r)
    BY <1>1, <2>1, RequeueLeasedRows
  <2>4. ASSUME NEW q \in Runner, NEW i \in run[q].held \cup InFlight(q), i \notin GivenBack(r)
        PROVE  i \in run'[q].held \cup InFlight(q)'
    BY <2>1, <2>2, <2>4 DEF InFlight
  <2> QED BY <2>2, <2>3, <2>4 DEF Hands
<1>8. ASSUME NEW r \in Runner, NEW j \in Job, JobSucceeds(r, j)
      PROVE  Hands'
  <2>1. \A i \in Job : job'[i].status = "leased" => job[i].status = "leased" /\ i # j
    BY <1>1, <1>8 DEF JobSucceeds, Complete, Row
  <2> QED BY <1>8, <2>1, SettleHands DEF JobSucceeds
<1>9. ASSUME NEW r \in Runner, NEW j \in Job, NEW force \in BOOLEAN, JobFails(r, j, force)
      PROVE  Hands'
  <2>1. FailStatus(job, j, force) # "leased"
    BY DEF FailStatus
  <2>2. \A i \in Job : job'[i].status = "leased" => job[i].status = "leased" /\ i # j
    BY <1>1, <1>9, <2>1 DEF JobFails, Fail, Row
  <2> QED BY <1>9, <2>2, SettleHands DEF JobFails
<1>10. ASSUME NEW r \in Runner, NEW j \in Job, JobDefers(r, j)
       PROVE  Hands'
  BY <1>1, <1>10, DeferRows, SettleHands DEF JobDefers
<1>11. ASSUME NEW r \in Runner, NEW j \in Job, JobHeld(r, j)
       PROVE  Hands'
  BY <1>1, <1>11, RequeueLeasedRows, SettleHands DEF JobHeld
<1>12. ASSUME NEW r \in Runner, NEW j \in Job, NEW force \in BOOLEAN, RunRejects(r, j, force)
       PROVE  Hands'
  <2>1. job' = job /\ reconciled' = reconciled /\ j \in InFlight(r)
    BY <1>12 DEF RunRejects
  <2>2. job[j].status # "leased"
    BY <1>1, <1>12 DEF RunRejects, FailRaises, Rivals, Sound, KeysOK
  <2>3. ASSUME NEW q \in Runner, NEW i \in run[q].held \cup InFlight(q), i # j
        PROVE  i \in dropped' \/ i \in run'[q].held \cup InFlight(q)'
    <3>1. run[q] \in Works
      BY <1>1
    <3>2. CASE j \in run[r].active
      <4>1. /\ run' = [run EXCEPT ![r] = [held |-> {}, batch |-> {}, active |-> {},
                                          stray |-> run[r].stray \cup (run[r].active \ {j})]]
            /\ run[r].held \subseteq dropped'
        BY <1>12, <3>2 DEF RunRejects
      <4> QED BY <1>1, <2>3, <3>1, <4>1 DEF InFlight
    <3>3. CASE j \notin run[r].active
      <4>1. run' = [run EXCEPT ![r].stray = @ \ {j}]
        BY <1>12, <3>3 DEF RunRejects
      <4> QED BY <1>1, <2>3, <3>1, <4>1 DEF InFlight, Works
    <3> QED BY <3>2, <3>3
  <2>4. dropped \subseteq dropped'
    BY <1>12 DEF RunRejects
  <2> QED BY <2>1, <2>2, <2>3, <2>4 DEF Hands
<1>13. CASE Tick \/ SetPaused \/ SetConfigured \/ UNCHANGED vars
  BY <1>13, TableHands DEF Tick, SetPaused, SetConfigured, vars
<1>14. CASE Crash
  BY <1>14 DEF Crash, Hands
<1>15. CASE \E r \in Runner : RunStart(r)
  BY <1>15, StartHands
<1> QED
  BY <1>2, <1>3, <1>4, <1>5, <1>6, <1>7, <1>8, <1>9, <1>10, <1>11, <1>12, <1>13, <1>14, <1>15
  DEF Next

\* However runs overlap, crash, reject and settle late, every unfinished row has an
\* attempt left or a lease, and every lease is in a run's hands or was given up by
\* a run that rejected.
THEOREM RowsStayInHand == Spec => []NoRowStranded
<1>1. Init => Hands
  BY DEF Init, Hands
<1>2. IInv /\ Hands /\ [Next]_vars => Hands'
  BY HandsStep
<1>3. IInv /\ Hands => NoRowStranded
  BY DEF IInv, Hands, Sound, AttemptsOK, NoRowStranded
<1> QED BY <1>1, <1>2, <1>3, AlwaysSound, PTL DEF Spec

\* However enqueues, backfills and late failures interleave, a dedupe key has
\* at most one unfinished row.
THEOREM KeysStayUnique == Spec => []DedupeUnique
<1>1. IInv => DedupeUnique
  BY DEF IInv, Sound, KeysOK, DedupeUnique
<1> QED BY <1>1, AlwaysSound, PTL

-----------------------------------------------------------------------------
(* The drain as the only runner.  What the run has in hand is leased, unless *)
(* a flush was armed again or the world model of an update was deleted, and   *)
(* after a start every lease is in its hand.                                  *)

DrainAlone == Runner = {Drain}

Flush  == OfType({"work_memory_idle_flush"})
Update == OfType({"l3_world_model_update"})

\* AttemptsCountFailures of a table.
Counted(T) ==
    \A j \in Job \ Flush :
        /\ T[j].status \in {"queued", "failed", "dead_letter"} => T[j].attempts = T[j].fails
        /\ T[j].status = "leased" => T[j].attempts = T[j].fails + 1

\* A scope hands out each number once, the last one last.
Numbered(T, last) ==
    /\ \A j \in Scoped : T[j].status # "absent" => T[j].seq \in 1 .. last[ScopeOf[j]]
    /\ \A i, j \in Scoped :
          /\ ScopeOf[i] = ScopeOf[j] /\ T[i].seq = T[j].seq
          /\ T[i].status # "absent" /\ T[j].status # "absent"
          => i = j

\* ScopeFIFO of a table.
Ordered(T) ==
    \A i, j \in Scoped :
        /\ ScopeOf[i] = ScopeOf[j] /\ i # j
        /\ T[j].status = "leased" /\ T[i].status \in Active
        => T[i].status # "leased" /\ T[i].seq > T[j].seq

\* The rows W that the run has in hand: at most one of each scope.
InHand(T, W) ==
    /\ \A j \in W \ Flush :
          \/ T[j].status = "leased"
          \/ j \in Update /\ T[j].status = "succeeded" /\ T[j].attempts = T[j].fails + 1
    /\ \A i, j \in W \cap Scoped : ScopeOf[i] = ScopeOf[j] => i = j

Good(T, W, last) == Counted(T) /\ Numbered(T, last) /\ Ordered(T) /\ InHand(T, W)

Owned(T, W) == \A j \in Job : T[j].status = "leased" => j \in W

\* No statement between T and U wakes a finished row.
Stable(T, U) ==
    \A j \in Job \ (Flush \cup Update) :
        T[j].status \in {"succeeded", "dead_letter"} => U[j].status = T[j].status

Work == run[Drain].held \cup run[Drain].active

DInv ==
    /\ DrainAlone /\ IInv /\ Good(job, Work, lastSeq)
    /\ run[Drain].stray = {} /\ run[Drain].held \cap run[Drain].active = {}
    /\ IF reconciled THEN Owned(job, Work) ELSE Work = {}

\* Idle flushes have no scope.
LEMMA ScopedRows ==
    /\ Scoped \subseteq Job /\ Flush \subseteq Job /\ Update \subseteq Scoped
    /\ Scoped \cap Flush = {}
BY DEF Scoped, Flush, Update, OfType, ScopedTypes

\* What an equal status, counter and number say does not depend on the rest of a row.
LEMMA SameGood ==
    ASSUME NEW T, NEW U, NEW W \in SUBSET Job, NEW last, Good(T, W, last),
           \A j \in Job : /\ U[j].status = T[j].status /\ U[j].attempts = T[j].attempts
                          /\ U[j].fails = T[j].fails /\ U[j].seq = T[j].seq
    PROVE  Good(U, W, last)
<1>1. Counted(U)
  BY DEF Good, Counted
<1>2. Numbered(U, last)
  BY ScopedRows DEF Good, Numbered
<1>3. Ordered(U)
  BY ScopedRows DEF Good, Ordered
<1>4. InHand(U, W)
  BY DEF Good, InHand
<1> QED BY <1>1, <1>2, <1>3, <1>4 DEF Good

\* Leases given back leave the hand of the run.
LEMMA RequeueLeasedGood ==
    ASSUME NEW T, Sound(T), NEW W \in SUBSET Job, NEW last, Good(T, W, last), NEW S
    PROVE  /\ Good(RequeueLeased(T, S), W \ S, last)
           /\ Stable(T, RequeueLeased(T, S))
           /\ \A j \in Job : RequeueLeased(T, S)[j].status = "leased"
                                => T[j].status = "leased" /\ j \notin S
<1> DEFINE U == RequeueLeased(T, S)
           G == {j \in Job : j \in S /\ T[j].status = "leased"}
<1>1. \A j \in Job : /\ T[j] \in Row /\ T[j].attempts \in Nat
                     /\ T[j].status = "leased" => T[j].attempts > 0
  BY ConstantsAssumption DEF Sound, TableOK, AttemptsOK, Row
<1>2. \A j \in Job : /\ j \in G => /\ U[j].status = "queued"
                                   /\ U[j].attempts = T[j].attempts - 1
                                   /\ U[j].fails = T[j].fails /\ U[j].seq = T[j].seq
                     /\ j \notin G => U[j] = T[j]
  BY <1>1 DEF RequeueLeased, Row
<1>3. \A j \in Job : T[j].fails \in Nat /\ T[j].status \in Statuses
  BY <1>1 DEF Row
<1> HIDE DEF U
<1>4. Counted(U)
  BY <1>1, <1>2, <1>3 DEF Good, Counted
<1>5. Numbered(U, last)
  BY <1>2, ScopedRows DEF Good, Numbered
<1>6. Ordered(U)
  BY <1>2, ScopedRows DEF Good, Ordered
<1>7. InHand(U, W \ S)
  BY <1>2 DEF Good, InHand
<1>8. Stable(T, U)
  BY <1>2 DEF Stable
<1>9. \A j \in Job : U[j].status = "leased" => T[j].status = "leased" /\ j \notin S
  BY <1>2
<1> QED BY <1>4, <1>5, <1>6, <1>7, <1>8, <1>9 DEF Good, U

\* Failed rows are put back while nothing is in hand.
LEMMA RequeueFailedGood ==
    ASSUME NEW T, Sound(T), NEW last, Good(T, {}, last),
           NEW S \in SUBSET Job, NEW F \in SUBSET Retryable(T, S)
    PROVE  /\ Good(RequeueFailed(T, F), {}, last)
           /\ Stable(T, RequeueFailed(T, F))
           /\ \A j \in Job : RequeueFailed(T, F)[j].status = "leased" => T[j].status = "leased"
<1> DEFINE U == RequeueFailed(T, F)
<1>1. \A j \in Job : T[j] \in Row
  BY DEF Sound, TableOK
<1>2. \A j \in Job : /\ j \in F => T[j].status = "failed" /\ U[j].status = "queued"
                     /\ j \notin F => U[j].status = T[j].status
                     /\ U[j].attempts = T[j].attempts
                     /\ U[j].fails = T[j].fails /\ U[j].seq = T[j].seq
  BY <1>1 DEF RequeueFailed, Retryable, Row
<1> HIDE DEF U
<1>4. Counted(U)
  BY <1>2 DEF Good, Counted
<1>5. Numbered(U, last)
  BY <1>2, ScopedRows DEF Good, Numbered
<1>6. Ordered(U)
  BY <1>2, ScopedRows DEF Good, Ordered
<1>7. InHand(U, {})
  BY DEF InHand
<1>8. Stable(T, U)
  BY <1>2 DEF Stable
<1>9. \A j \in Job : U[j].status = "leased" => T[j].status = "leased"
  BY <1>2
<1> QED BY <1>4, <1>5, <1>6, <1>7, <1>8, <1>9 DEF Good, U

\* Backfilled rows have no scope.
LEMMA BackfillGood ==
    ASSUME NEW T, Sound(T), NEW last, Good(T, {}, last),
           NEW types, types \cap ScopedTypes = {}, NEW N \in Insertable(T, types)
    PROVE  /\ Good(Backfill(T, N), {}, last)
           /\ Stable(T, Backfill(T, N))
           /\ \A j \in Job : Backfill(T, N)[j].status = "leased" => T[j].status = "leased"
<1> DEFINE U == Backfill(T, N)
<1>1. \A j \in N : j \in Job /\ j \notin Scoped /\ T[j].status = "absent"
  BY DEF Insertable, OfType, Scoped
<1>2. \A j \in Job : /\ j \in N => /\ U[j].status = "queued"
                                   /\ U[j].attempts = 0 /\ U[j].fails = 0
                     /\ j \notin N => U[j] = T[j]
  BY DEF Backfill, NewRow
<1> HIDE DEF U
<1>4. Counted(U)
  BY <1>2 DEF Good, Counted
<1>5. Numbered(U, last)
  BY <1>1, <1>2, ScopedRows DEF Good, Numbered
<1>6. Ordered(U)
  BY <1>1, <1>2, ScopedRows DEF Good, Ordered
<1>7. InHand(U, {})
  BY DEF InHand
<1>8. Stable(T, U)
  BY <1>1, <1>2 DEF Stable
<1>9. \A j \in Job : U[j].status = "leased" => T[j].status = "leased"
  BY <1>2
<1> QED BY <1>4, <1>5, <1>6, <1>7, <1>8, <1>9 DEF Good, U

\* A batch leased while nothing else is leased: NextInScope keeps the scopes in order.
LEMMA LeaseGood ==
    ASSUME NEW T, Sound(T), NEW last, Good(T, {}, last), Owned(T, {}),
           NEW S \in SUBSET Job, NEW gated, NEW L \in SUBSET Leasable(T, S, gated)
    PROVE  Good(Lease(T, L), L, last) /\ Owned(Lease(T, L), L) /\ Stable(T, Lease(T, L))
<1> DEFINE U == Lease(T, L)
<1>1. \A j \in Job : /\ T[j] \in Row /\ T[j].attempts \in Nat /\ T[j].fails \in Nat
                     /\ T[j].status # "leased"
  BY DEF Sound, TableOK, Row, Owned
<1>2. \A j \in L : j \in Job /\ T[j].status = "queued" /\ (j \in Scoped => NextInScope(T, j))
  BY <1>1 DEF Leasable, Expired
<1>3. \A j \in Job : /\ j \in L => /\ U[j].status = "leased"
                                   /\ U[j].attempts = T[j].attempts + 1
                                   /\ U[j].fails = T[j].fails /\ U[j].seq = T[j].seq
                     /\ j \notin L => U[j] = T[j]
  BY <1>1 DEF Lease, Row
<1> HIDE DEF U
<1>4. Counted(U)
  BY <1>1, <1>2, <1>3 DEF Good, Counted
<1>5. Numbered(U, last)
  <2>1. \A j \in Scoped : /\ U[j].seq = T[j].seq
                          /\ U[j].status # "absent" => T[j].status # "absent"
    BY <1>2, <1>3, ScopedRows
  <2> QED BY <2>1 DEF Good, Numbered
<1>6. ASSUME NEW i \in Scoped, NEW j \in Scoped, ScopeOf[i] = ScopeOf[j], i # j,
             U[j].status = "leased", U[i].status \in Active
      PROVE  U[i].status # "leased" /\ U[i].seq > U[j].seq
  <2>1. j \in L /\ T[j].status = "queued" /\ NextInScope(T, j)
    BY <1>1, <1>2, <1>3, <1>6, ScopedRows
  <2>2. T[i].status \in Active
    BY <1>2, <1>3, <1>6, ScopedRows
  <2>3. ~(T[i].seq < T[j].seq)
    BY <1>6, <2>1, <2>2 DEF NextInScope
  <2>4. T[i].seq \in Nat /\ T[j].seq \in Nat
    BY <1>1, ScopedRows DEF Row
  <2>5. T[i].seq # T[j].seq
    BY <1>6, <2>1, <2>2 DEF Good, Numbered
  <2>6. U[i].status # "leased"
    <3>1. SUFFICES ASSUME i \in L PROVE FALSE
      BY <1>1, <1>3, ScopedRows
    <3>2. ~(T[j].seq < T[i].seq)
      BY <1>2, <1>6, <2>1, <3>1 DEF NextInScope
    <3> QED BY <2>3, <2>4, <2>5, <3>2
  <2>7. U[i].seq = T[i].seq /\ U[j].seq = T[j].seq
    BY <1>3, ScopedRows
  <2> QED BY <2>3, <2>4, <2>5, <2>6, <2>7
<1>7. Ordered(U)
  BY <1>6 DEF Ordered
<1>8. InHand(U, L)
  <2>1. \A j \in L : U[j].status = "leased"
    BY <1>2, <1>3
  <2>2. \A i, j \in L \cap Scoped : ScopeOf[i] = ScopeOf[j] => i = j
    BY <1>6, <2>1
  <2> QED BY <2>1, <2>2 DEF InHand
<1>9. Owned(U, L) /\ Stable(T, U)
  BY <1>1, <1>2, <1>3 DEF Owned, Stable
<1> QED BY <1>4, <1>5, <1>7, <1>8, <1>9 DEF Good, U

\* What a row of the run's hand is, and that a scope of it has no other lease.
LEMMA InHandRow ==
    ASSUME NEW T, Sound(T), NEW W \in SUBSET Job, NEW last, Good(T, W, last), Owned(T, W),
           NEW j \in W
    PROVE  /\ j \notin Flush => /\ T[j].attempts = T[j].fails + 1
                                /\ T[j].status # "absent"
           /\ j \notin Flush /\ j \notin Update => T[j].status = "leased"
           /\ \A i \in Scoped \ {j} :
                 j \in Scoped /\ ScopeOf[i] = ScopeOf[j] => T[i].status # "leased"
<1>1. j \notin Flush => \/ T[j].status = "leased"
                        \/ /\ j \in Update /\ T[j].status = "succeeded"
                           /\ T[j].attempts = T[j].fails + 1
  BY DEF Good, InHand
<1>2. j \notin Flush /\ T[j].status = "leased" => T[j].attempts = T[j].fails + 1
  BY DEF Good, Counted
<1>3. ASSUME NEW i \in Scoped \ {j}, j \in Scoped, ScopeOf[i] = ScopeOf[j],
             T[i].status = "leased"
      PROVE  FALSE
  <2>1. i \in W
    BY <1>3, ScopedRows DEF Owned
  <2> QED BY <1>3, <2>1 DEF Good, InHand
<1> QED BY <1>1, <1>2, <1>3

\* A settled row leaves the hand of the run.
LEMMA CompleteGood ==
    ASSUME NEW T, Sound(T), NEW W \in SUBSET Job, NEW last, Good(T, W, last), Owned(T, W),
           NEW j \in W
    PROVE  /\ Good(Complete(T, j), W \ {j}, last) /\ Owned(Complete(T, j), W \ {j})
           /\ Stable(T, Complete(T, j))
<1> DEFINE U == Complete(T, j)
<1>1. T \in [Job -> Row]
  BY DEF Sound, TableOK
<1>2. \A i \in Job : /\ i = j => U[i].status = "succeeded" /\ U[i].seq = T[i].seq
                     /\ i # j => U[i] = T[i]
  BY <1>1 DEF Complete, Row
<1>3. j \notin Flush /\ j \notin Update => T[j].status = "leased"
  BY InHandRow
<1>3a. j \notin Flush => T[j].status # "absent"
  BY InHandRow
<1> HIDE DEF U
<1>4. Counted(U)
  BY <1>2 DEF Good, Counted
<1>5. Numbered(U, last)
  <2>1. \A i \in Scoped : /\ U[i].seq = T[i].seq
                          /\ U[i].status # "absent" => T[i].status # "absent"
    BY <1>2, <1>3a, ScopedRows
  <2> QED BY <2>1 DEF Good, Numbered
<1>6. Ordered(U)
  BY <1>2, ScopedRows DEF Good, Ordered
<1>7. InHand(U, W \ {j})
  BY <1>2 DEF Good, InHand
<1>8. Owned(U, W \ {j}) /\ Stable(T, U)
  BY <1>2, <1>3 DEF Owned, Stable
<1> QED BY <1>4, <1>5, <1>6, <1>7, <1>8 DEF Good, U

\* A failure counts once: the attempt was taken by the lease.
LEMMA FailGood ==
    ASSUME NEW T, Sound(T), NEW W \in SUBSET Job, NEW last, Good(T, W, last), Owned(T, W),
           NEW j \in W, NEW force \in BOOLEAN
    PROVE  /\ Good(Fail(T, j, force), W \ {j}, last) /\ Owned(Fail(T, j, force), W \ {j})
           /\ Stable(T, Fail(T, j, force))
<1> DEFINE U == Fail(T, j, force)
<1>1. T \in [Job -> Row]
  BY DEF Sound, TableOK
<1>2. CASE T[j].status = "dead_letter"
  <2>1. U = T
    BY <1>2 DEF Fail
  <2>2. InHand(T, W \ {j})
    BY DEF Good, InHand
  <2>3. Owned(T, W \ {j}) /\ Stable(T, T)
    BY <1>2 DEF Owned, Stable
  <2> QED BY <2>1, <2>2, <2>3 DEF Good
<1>3. CASE T[j].status # "dead_letter"
  <2>1. FailStatus(T, j, force) \in {"failed", "dead_letter"}
    BY DEF FailStatus
  <2>2. \A i \in Job : /\ i = j => /\ U[i].status = FailStatus(T, j, force)
                                   /\ U[i].attempts = T[i].attempts
                                   /\ U[i].fails = T[i].fails + 1
                                   /\ U[i].seq = T[i].seq
                       /\ i # j => U[i] = T[i]
    BY <1>1, <1>3 DEF Fail, Row
  <2>3. /\ j \notin Flush => T[j].attempts = T[j].fails + 1 /\ T[j].status # "absent"
        /\ j \notin Flush /\ j \notin Update => T[j].status = "leased"
    BY InHandRow
  <2>4. \A i \in Scoped \ {j} :
           j \in Scoped /\ ScopeOf[i] = ScopeOf[j] => T[i].status # "leased"
    BY InHandRow
  <2> HIDE DEF U
  <2>5. Counted(U)
    BY <2>1, <2>2, <2>3 DEF Good, Counted
  <2>6. Numbered(U, last)
    <3>1. \A i \in Scoped : /\ U[i].seq = T[i].seq
                            /\ U[i].status # "absent" => T[i].status # "absent"
      BY <2>2, <2>3, ScopedRows
    <3> QED BY <3>1 DEF Good, Numbered
  <2>7. Ordered(U)
    <3>1. ASSUME NEW i \in Scoped, NEW k \in Scoped, ScopeOf[i] = ScopeOf[k], i # k,
                 U[k].status = "leased", U[i].status \in Active
          PROVE  U[i].status # "leased" /\ U[i].seq > U[k].seq
      <4>1. k # j /\ T[k].status = "leased"
        BY <2>1, <2>2, <3>1, ScopedRows
      <4>2. i # j
        BY <2>4, <3>1, <4>1
      <4>3. U[i] = T[i] /\ U[k] = T[k]
        BY <2>2, <4>1, <4>2, ScopedRows
      <4> QED BY <3>1, <4>3 DEF Good, Ordered
    <3> QED BY <3>1 DEF Ordered
  <2>8. InHand(U, W \ {j})
    BY <2>2 DEF Good, InHand
  <2>9. Owned(U, W \ {j})
    BY <2>1, <2>2 DEF Owned
  <2>10. Stable(T, U)
    BY <2>2, <2>3 DEF Stable
  <2> QED BY <2>5, <2>6, <2>7, <2>8, <2>9, <2>10 DEF Good, U
<1> QED BY <1>2, <1>3

\* A deferred row goes back like any lease, with a later time.
LEMMA DeferGood ==
    ASSUME NEW T, Sound(T), NEW W \in SUBSET Job, NEW last, Good(T, W, last), Owned(T, W),
           NEW j \in W
    PROVE  /\ Good(Defer(T, j), W \ {j}, last) /\ Owned(Defer(T, j), W \ {j})
           /\ Stable(T, Defer(T, j))
<1> DEFINE t == RequeueLeased(T, {j})
           U == Defer(T, j)
<1>1. Good(t, W \ {j}, last) /\ Owned(t, W \ {j}) /\ Stable(T, t)
  BY RequeueLeasedGood DEF Owned
<1>2. CASE T[j].status = "leased"
  <2>1. t \in [Job -> Row]
    BY RequeueLeasedSound DEF Sound, TableOK
  <2> DEFINE a == now + DeferDelay
  <2>2. U = [t EXCEPT ![j].runAfter = a]
    BY <1>2 DEF Defer
  <2> HIDE DEF t, U, a
  <2>3. \A i \in Job : /\ U[i].status = t[i].status /\ U[i].attempts = t[i].attempts
                       /\ U[i].fails = t[i].fails /\ U[i].seq = t[i].seq
    BY <2>1, <2>2 DEF Row
  <2>4. Good(U, W \ {j}, last)
    BY <1>1, <2>3, SameGood
  <2>5. Owned(U, W \ {j}) /\ Stable(T, U)
    BY <1>1, <2>3 DEF Owned, Stable
  <2> QED BY <2>4, <2>5 DEF U
<1>3. CASE T[j].status # "leased"
  <2>1. \A i \in Job : t[i] = T[i]
    BY <1>3 DEF RequeueLeased
  <2>2. U = T
    BY <1>3 DEF Defer
  <2>3. InHand(T, W \ {j})
    BY DEF Good, InHand
  <2>4. Owned(T, W \ {j}) /\ Stable(T, T)
    BY <1>3 DEF Owned, Stable
  <2> QED BY <2>2, <2>3, <2>4 DEF Good
<1> QED BY <1>2, <1>3

\* The typing of the state that the steps below need.
LEMMA DrainTypes ==
    ASSUME DInv
    PROVE  /\ job \in [Job -> Row] /\ Sound(job)
           /\ lastSeq \in [Scope -> Nat] /\ now \in Nat
           /\ run \in [Runner -> Works] /\ run[Drain] \in Works /\ Drain \in Runner
           /\ Work \in SUBSET Job
           /\ \A r \in Runner : r = Drain
           /\ reconciled \in BOOLEAN
<1>1. Drain \in Runner /\ \A r \in Runner : r = Drain
  BY DEF DInv, DrainAlone
<1>2. run \in [Runner -> Works] /\ job \in [Job -> Row] /\ Sound(job)
  BY DEF DInv, IInv, TypeOK, Works
<1>3. run[Drain] \in Works
  BY <1>1, <1>2
<1>4. Work \in SUBSET Job
  BY <1>3 DEF Work, Works
<1> QED BY <1>1, <1>2, <1>3, <1>4 DEF DInv, IInv, TypeOK

\* Whatever the state of the drain, a lease is in its hand or awaits the start.
LEMMA InsertGood ==
    ASSUME DInv, NEW j \in Job, NEW d \in RunAfters, Insert(j, d)
    PROVE  Good(job', Work, lastSeq') /\ Stable(job, job')
           /\ \A i \in Job : job'[i].status = "leased" => job[i].status = "leased"
<1> DEFINE n == IF j \in Scoped THEN lastSeq[ScopeOf[j]] + 1 ELSE 0
           after == IF d = 0 THEN 0 ELSE now + d
           row == NewRow(after, n)
<1>1. /\ job \in [Job -> Row] /\ lastSeq \in [Scope -> Nat] /\ Work \in SUBSET Job
      /\ Good(job, Work, lastSeq)
  BY DrainTypes DEF DInv
<1>2. /\ job' = [job EXCEPT ![j] = row] /\ job[j].status = "absent" /\ j \notin Flush
      /\ lastSeq' = IF j \in Scoped THEN [lastSeq EXCEPT ![ScopeOf[j]] = @ + 1] ELSE lastSeq
  BY DEF Insert, Flush, OfType
<1>3. row.status = "queued" /\ row.attempts = 0 /\ row.fails = 0 /\ row.seq = n
  BY DEF NewRow
<1> HIDE DEF row
<1>4. \A i \in Job : job'[i] = IF i = j THEN row ELSE job[i]
  BY <1>1, <1>2
<1>5. \A i \in Scoped : /\ ScopeOf[i] \in Scope
                        /\ lastSeq[ScopeOf[i]] \in Nat /\ lastSeq'[ScopeOf[i]] \in Nat
                        /\ lastSeq[ScopeOf[i]] <= lastSeq'[ScopeOf[i]]
  BY <1>1, <1>2, ConstantsAssumption
<1>6. j \in Scoped => /\ lastSeq'[ScopeOf[j]] = lastSeq[ScopeOf[j]] + 1
                      /\ n = lastSeq[ScopeOf[j]] + 1
  BY <1>1, <1>2, <1>5
<1>6a. \A i \in Scoped : /\ job[i].seq \in Nat
                         /\ job[i].status # "absent" => job[i].seq \in 1 .. lastSeq[ScopeOf[i]]
  BY <1>1, ScopedRows DEF Good, Numbered, Row
<1> HIDE DEF n
<1>7. Counted(job')
  BY <1>1, <1>3, <1>4 DEF Good, Counted
<1>8. Numbered(job', lastSeq')
  <2>1. ASSUME NEW i \in Scoped, job'[i].status # "absent"
        PROVE  job'[i].seq \in 1 .. lastSeq'[ScopeOf[i]]
    <3>1. CASE i = j
      BY <1>3, <1>4, <1>5, <1>6, <3>1, ScopedRows
    <3>2. CASE i # j
      <4>1. job'[i] = job[i]
        BY <1>4, <3>2, ScopedRows
      <4> QED BY <1>5, <1>6a, <2>1, <4>1
    <3> QED BY <3>1, <3>2
  <2>2. ASSUME NEW i \in Scoped, NEW k \in Scoped, ScopeOf[i] = ScopeOf[k],
               job'[i].seq = job'[k].seq,
               job'[i].status # "absent", job'[k].status # "absent"
        PROVE  i = k
    <3>1. ASSUME NEW x \in Scoped, NEW y \in Scoped, x = j, y # j, ScopeOf[x] = ScopeOf[y],
                 job'[x].seq = job'[y].seq, job'[y].status # "absent"
          PROVE  FALSE
      <4>1. job'[y] = job[y] /\ job'[x].seq = n
        BY <1>3, <1>4, <3>1, ScopedRows
      <4>2. job[y].seq <= lastSeq[ScopeOf[y]] /\ job[y].seq \in Nat
        BY <1>5, <1>6a, <3>1, <4>1
      <4>3. n = lastSeq[ScopeOf[y]] + 1
        BY <1>6, <3>1
      <4> QED BY <1>5, <3>1, <4>1, <4>2, <4>3
    <3>2. CASE i # j /\ k # j
      <4>1. job'[i] = job[i] /\ job'[k] = job[k]
        BY <1>4, <3>2, ScopedRows
      <4> QED BY <1>1, <2>2, <4>1 DEF Good, Numbered
    <3> QED BY <2>2, <3>1, <3>2
  <2> QED BY <2>1, <2>2 DEF Numbered
<1>9. Ordered(job')
  <2>1. ASSUME NEW i \in Scoped, NEW k \in Scoped, ScopeOf[i] = ScopeOf[k], i # k,
               job'[k].status = "leased", job'[i].status \in Active
        PROVE  job'[i].status # "leased" /\ job'[i].seq > job'[k].seq
    <3>1. k # j /\ job'[k] = job[k]
      BY <1>3, <1>4, <2>1, ScopedRows
    <3>2. CASE i = j
      <4>1. job[k].seq <= lastSeq[ScopeOf[k]] /\ job[k].seq \in Nat
        BY <1>5, <1>6a, <2>1, <3>1
      <4>2. job'[i].seq = lastSeq[ScopeOf[k]] + 1 /\ job'[i].status = "queued"
        BY <1>3, <1>4, <1>6, <2>1, <3>2
      <4> QED BY <1>5, <3>1, <4>1, <4>2
    <3>3. CASE i # j
      <4>1. job'[i] = job[i]
        BY <1>4, <3>3, ScopedRows
      <4> QED BY <1>1, <2>1, <3>1, <4>1 DEF Good, Ordered
    <3> QED BY <3>2, <3>3
  <2> QED BY <2>1 DEF Ordered
<1>10. InHand(job', Work)
  <2>1. j \notin Work
    BY <1>1, <1>2 DEF Good, InHand
  <2>2. \A i \in Work : job'[i] = job[i]
    BY <1>1, <1>4, <2>1
  <2> QED BY <1>1, <2>2 DEF Good, InHand
<1>11. Stable(job, job')
  BY <1>2, <1>4 DEF Stable
<1>12. \A i \in Job : job'[i].status = "leased" => job[i].status = "leased"
  BY <1>3, <1>4
<1> QED BY <1>7, <1>8, <1>9, <1>10, <1>11, <1>12 DEF Good

\* Only a failed row changes its status in a merge, and none of those is in hand.
LEMMA MergeGood ==
    ASSUME DInv, NEW j \in Job, NEW d \in RunAfters, Merge(j, d)
    PROVE  Good(job', Work, lastSeq) /\ Stable(job, job')
           /\ \A i \in Job : job'[i].status = "leased" => job[i].status = "leased"
<1> DEFINE a == MergeRunAfter(job[j].runAfter, IF d = 0 THEN 0 ELSE now + d)
           st == IF job[j].status = "failed" THEN "queued" ELSE job[j].status
           lu == IF job[j].status = "failed" THEN 0 ELSE job[j].leasedUntil
           row == [job[j] EXCEPT !.status = st, !.leasedUntil = lu, !.runAfter = a]
<1>1. /\ job \in [Job -> Row] /\ Work \in SUBSET Job /\ Good(job, Work, lastSeq)
  BY DrainTypes DEF DInv
<1>2. job' = [job EXCEPT ![j] = row] /\ job[j].status \in Active /\ j \notin Flush
  BY DEF Merge, Flush, OfType
<1>3. /\ row.status = st /\ row.attempts = job[j].attempts
      /\ row.fails = job[j].fails /\ row.seq = job[j].seq
  <2>1. job[j] \in Row
    BY <1>1
  <2> HIDE DEF st, lu, a
  <2> QED BY <2>1 DEF Row
<1> HIDE DEF row
<1>4. \A i \in Job : job'[i] = IF i = j THEN row ELSE job[i]
  BY <1>1, <1>2
<1>5. \A i \in Job : /\ job'[i].attempts = job[i].attempts /\ job'[i].fails = job[i].fails
                     /\ job'[i].seq = job[i].seq
                     /\ \/ job'[i].status = job[i].status
                        \/ /\ i = j /\ job[i].status = "failed" /\ job'[i].status = "queued"
  BY <1>3, <1>4
<1>6. Counted(job')
  BY <1>1, <1>5 DEF Good, Counted
<1>7. Numbered(job', lastSeq)
  BY <1>1, <1>5, ScopedRows DEF Good, Numbered
<1>8. Ordered(job')
  BY <1>1, <1>5, ScopedRows DEF Good, Ordered
<1>9. InHand(job', Work)
  <2>1. \A i \in Work \ Flush : job[i].status # "failed"
    BY <1>1 DEF Good, InHand
  <2>2. \A i \in Work \ Flush : job'[i].status = job[i].status
    BY <1>1, <1>5, <2>1
  <2> QED BY <1>1, <1>5, <2>2 DEF Good, InHand
<1>10. Stable(job, job')
  BY <1>5 DEF Stable
<1>11. \A i \in Job : job'[i].status = "leased" => job[i].status = "leased"
  BY <1>5
<1> QED BY <1>6, <1>7, <1>8, <1>9, <1>10, <1>11 DEF Good

\* Arming concerns flush rows, which have no scope and no count of failures.
LEMMA ArmGood ==
    ASSUME DInv, NEW j \in Job, Arm(j)
    PROVE  Good(job', Work, lastSeq) /\ Stable(job, job')
           /\ \A i \in Job : job'[i].status = "leased" => job[i].status = "leased"
<1>1. /\ job \in [Job -> Row] /\ Work \in SUBSET Job /\ Good(job, Work, lastSeq)
  BY DrainTypes DEF DInv
<1>2. /\ j \in Flush /\ job'[j].status = "queued"
      /\ \A i \in Job \ {j} : job'[i] = job[i]
  BY <1>1 DEF Arm, Flush, OfType, NewRow
<1>3. Counted(job')
  BY <1>1, <1>2 DEF Good, Counted
<1>4. \A i \in Scoped : job'[i] = job[i]
  BY <1>2, ScopedRows
<1>5. Numbered(job', lastSeq)
  BY <1>1, <1>4 DEF Good, Numbered
<1>6. Ordered(job')
  BY <1>1, <1>4 DEF Good, Ordered
<1>7. InHand(job', Work)
  BY <1>1, <1>2 DEF Good, InHand
<1>8. Stable(job, job')
  BY <1>2 DEF Stable
<1>9. \A i \in Job : job'[i].status = "leased" => job[i].status = "leased"
  BY <1>2
<1> QED BY <1>3, <1>5, <1>6, <1>7, <1>8, <1>9 DEF Good

\* The update of a deleted world model may be in hand: it counts as done.
LEMMA DeleteGood ==
    ASSUME DInv, NEW W \in WorldModels, DeleteWorldModel(W)
    PROVE  Good(job', Work, lastSeq) /\ Stable(job, job')
           /\ \A i \in Job : job'[i].status = "leased" => job[i].status = "leased"
<1>1. /\ job \in [Job -> Row] /\ Work \in SUBSET Job /\ Good(job, Work, lastSeq)
  BY DrainTypes DEF DInv
<1>2. \A i \in Job :
         \/ job'[i] = job[i]
         \/ /\ job[i].status \in Active /\ job'[i].status = "succeeded"
            /\ job'[i].attempts = job[i].attempts /\ job'[i].fails = job[i].fails
            /\ job'[i].seq = job[i].seq
            /\ i \notin Update => job[i].status # "leased"
  BY <1>1 DEF DeleteWorldModel, Update, OfType, Row
<1>3. Counted(job')
  BY <1>1, <1>2 DEF Good, Counted
<1>4. \A i \in Scoped : /\ job'[i].seq = job[i].seq
                        /\ job'[i].status # "absent" => job[i].status # "absent"
                        /\ job'[i].status \in Active => job'[i].status = job[i].status
  BY <1>2, ScopedRows
<1>5. Numbered(job', lastSeq)
  BY <1>1, <1>4 DEF Good, Numbered
<1>6. Ordered(job')
  BY <1>1, <1>4 DEF Good, Ordered
<1>7. InHand(job', Work)
  <2>1. ASSUME NEW i \in Work \ Flush
        PROVE  \/ job'[i].status = "leased"
               \/ /\ i \in Update /\ job'[i].status = "succeeded"
                  /\ job'[i].attempts = job'[i].fails + 1
    <3>1. \/ job[i].status = "leased"
          \/ /\ i \in Update /\ job[i].status = "succeeded"
             /\ job[i].attempts = job[i].fails + 1
      BY <1>1 DEF Good, InHand
    <3>2. job[i].status = "leased" => job[i].attempts = job[i].fails + 1
      BY <1>1 DEF Good, Counted
    <3> QED BY <1>1, <1>2, <3>1, <3>2
  <2> QED BY <1>1, <2>1 DEF Good, InHand
<1>8. Stable(job, job')
  BY <1>2 DEF Stable
<1>9. \A i \in Job : job'[i].status = "leased" => job[i].status = "leased"
  BY <1>2
<1> QED BY <1>3, <1>5, <1>6, <1>7, <1>8, <1>9 DEF Good

\* What is left to show of a step that does not touch the runs.
LEMMA TableStep ==
    ASSUME DInv, IInv', Good(job', Work, lastSeq'),
           \A i \in Job : job'[i].status = "leased" => job[i].status = "leased",
           run' = run, reconciled' = reconciled
    PROVE  DInv'
<1>1. Work' = Work
  BY DEF Work
<1>2. IF reconciled' THEN Owned(job', Work') ELSE Work' = {}
  BY <1>1 DEF DInv, Owned
<1> QED BY <1>1, <1>2 DEF DInv, DrainAlone

\* The first drain gives back every lease, whoever had it.
LEMMA ReconcileStep ==
    ASSUME DInv, IInv', StartupReconcile
    PROVE  DInv' /\ Stable(job, job')
<1>1. Work = {} /\ run' = run /\ lastSeq' = lastSeq /\ reconciled' = TRUE
  BY DEF StartupReconcile, DInv
<1>2. Sound(job) /\ Good(job, {}, lastSeq)
  BY <1>1, DrainTypes DEF DInv
<1>3. PICK N \in Insertable(job, RepairTypes) : job' = Reconcile(Backfill(job, N))
  BY DEF StartupReconcile
<1> DEFINE B == Backfill(job, N)
           R == RequeueLeased(B, Job)
           F == Retryable(R, Job)
<1>4. RepairTypes \cap ScopedTypes = {}
  BY DEF RepairTypes, ScopedTypes
<1>5. Sound(B) /\ Good(B, {}, lastSeq) /\ Stable(job, B)
  BY <1>2, <1>4, BackfillSound, BackfillGood
<1>6. Sound(R)
  BY <1>5, RequeueLeasedSound
<1>7. Good(R, {} \ Job, lastSeq) /\ Stable(B, R) /\ \A j \in Job : R[j].status # "leased"
  BY <1>5, RequeueLeasedGood
<1>8. Good(R, {}, lastSeq)
  <2>1. {} \ Job = {}
    OBVIOUS
  <2> QED BY <1>7, <2>1
<1>9. F \in SUBSET Retryable(R, Job) /\ job' = RequeueFailed(R, F)
  BY <1>3 DEF Reconcile
<1> HIDE DEF B, R, F
<1>10. /\ Good(job', {}, lastSeq) /\ Stable(R, job')
       /\ \A j \in Job : job'[j].status = "leased" => R[j].status = "leased"
  BY <1>6, <1>8, <1>9, RequeueFailedGood
<1>11. Stable(job, job')
  BY <1>5, <1>7, <1>10 DEF Stable
<1>12. Work' = {}
  BY <1>1 DEF Work
<1>13. Owned(job', Work')
  BY <1>7, <1>10 DEF Owned
<1> QED BY <1>1, <1>10, <1>11, <1>12, <1>13 DEF DInv, DrainAlone

\* A run starts with empty hands, hence when nothing is leased.
LEMMA StartStep ==
    ASSUME DInv, IInv', NEW r \in Runner, RunStart(r)
    PROVE  DInv' /\ Stable(job, job')
<1>1. r = Drain /\ run \in [Runner -> Works] /\ run[Drain] \in Works /\ Sound(job)
  BY DrainTypes
<1>2. /\ reconciled /\ reconciled' = reconciled /\ lastSeq' = lastSeq
      /\ run[Drain].held = {} /\ run[Drain].active = {}
  BY <1>1 DEF RunStart
<1>3. Good(job, {}, lastSeq) /\ Owned(job, {})
  <2>1. Work = {}
    BY <1>2 DEF Work
  <2> QED BY <1>2, <2>1 DEF DInv
<1>4. PICK S \in SUBSET Job, gated \in SUBSET Job :
           \E N \in Insertable(job, Backfilled(S)) :
           \E F \in SUBSET Retryable(Backfill(job, N), S) :
           \E batch \in SUBSET Leasable(Retried(Backfill(job, N), F), S, gated) :
              /\ job' = Lease(Retried(Backfill(job, N), F), batch)
              /\ run' = [run EXCEPT ![r].held = batch]
              /\ dropped' = dropped \ batch
  BY RunStartSteps
<1>5. PICK N \in Insertable(job, Backfilled(S)) :
           \E F \in SUBSET Retryable(Backfill(job, N), S) :
           \E batch \in SUBSET Leasable(Retried(Backfill(job, N), F), S, gated) :
              /\ job' = Lease(Retried(Backfill(job, N), F), batch)
              /\ run' = [run EXCEPT ![r].held = batch]
              /\ dropped' = dropped \ batch
  BY <1>4
<1> DEFINE B == Backfill(job, N)
<1>6. PICK F \in SUBSET Retryable(B, S) :
           \E batch \in SUBSET Leasable(Retried(B, F), S, gated) :
              /\ job' = Lease(Retried(B, F), batch)
              /\ run' = [run EXCEPT ![r].held = batch]
              /\ dropped' = dropped \ batch
  BY <1>5
<1> DEFINE Q == RequeueFailed(B, F)
           T == Retried(B, F)
<1>7. PICK batch \in SUBSET Leasable(T, S, gated) :
              /\ job' = Lease(T, batch)
              /\ run' = [run EXCEPT ![r].held = batch]
              /\ dropped' = dropped \ batch
  BY <1>6
<1>8. Backfilled(S) \cap ScopedTypes = {}
  BY DEF Backfilled, ScopedTypes
<1>9. /\ Sound(B) /\ Good(B, {}, lastSeq) /\ Stable(job, B)
      /\ \A j \in Job : B[j].status = "leased" => job[j].status = "leased"
  BY <1>1, <1>3, <1>8, BackfillSound, BackfillGood
<1>10. /\ Sound(Q) /\ Good(Q, {}, lastSeq) /\ Stable(B, Q)
       /\ \A j \in Job : Q[j].status = "leased" => B[j].status = "leased"
  BY <1>9, RequeueFailedSound, RequeueFailedGood
<1>11. /\ Sound(T) /\ Good(T, {}, lastSeq) /\ Stable(Q, T)
       /\ \A j \in Job : T[j].status = "leased" => Q[j].status = "leased"
  <2>1. CASE ~paused
    <3>1. T = Q
      BY <2>1 DEF Retried
    <3>2. Stable(Q, Q)
      BY DEF Stable
    <3> QED BY <1>10, <3>1, <3>2
  <2>2. CASE paused
    <3> DEFINE X == Expired(Q) \cap OfType(Stopped)
    <3>1. T = RequeueLeased(Q, X)
      BY <2>2 DEF Retried
    <3>2. {} \ X = {}
      OBVIOUS
    <3> HIDE DEF X, T, Q
    <3>3. /\ Good(T, {} \ X, lastSeq) /\ Stable(Q, T) /\ Sound(T)
          /\ \A j \in Job : T[j].status = "leased" => Q[j].status = "leased"
      BY <1>10, <3>1, RequeueLeasedSound, RequeueLeasedGood
    <3> QED BY <3>2, <3>3
  <2> QED BY <2>1, <2>2
<1>12. Owned(T, {})
  BY <1>3, <1>9, <1>10, <1>11 DEF Owned
<1> HIDE DEF B, Q, T
<1>13. Good(job', batch, lastSeq) /\ Owned(job', batch) /\ Stable(T, job')
  BY <1>7, <1>11, <1>12, LeaseGood
<1>14. Stable(job, job')
  BY <1>9, <1>10, <1>11, <1>13 DEF Stable
<1>15. /\ run'[Drain].held = batch /\ run'[Drain].active = {}
       /\ run'[Drain].stray = run[Drain].stray
  BY <1>1, <1>2, <1>7 DEF Works
<1>16. Work' = batch
  BY <1>15 DEF Work
<1> QED BY <1>2, <1>13, <1>14, <1>15, <1>16 DEF DInv, DrainAlone

\* A chunk moves within the hand; what a pause forbids leaves it and its lease.
LEMMA DispatchStep ==
    ASSUME DInv, IInv', NEW r \in Runner, Dispatch(r)
    PROVE  DInv' /\ Stable(job, job')
<1> DEFINE back == GivenBack(Drain)
<1>1. /\ r = Drain /\ run \in [Runner -> Works] /\ run[Drain] \in Works /\ Sound(job)
      /\ Work \in SUBSET Job /\ reconciled \in BOOLEAN
  BY DrainTypes
<1>2. /\ run[Drain].held # {} /\ run[Drain].active = {}
      /\ reconciled' = reconciled /\ lastSeq' = lastSeq
  BY <1>1 DEF Dispatch
<1>3. /\ job' = RequeueLeased(job, back)
      /\ run'[Drain].stray = run[Drain].stray
      /\ run'[Drain].held \cup run'[Drain].active = run[Drain].held \ back
      /\ run'[Drain].held \cap run'[Drain].active = {}
  BY <1>1, DispatchSteps
<1>4. Work = run[Drain].held /\ reconciled
  BY <1>1, <1>2 DEF Work, DInv
<1>5. Work' = Work \ back
  BY <1>3, <1>4 DEF Work
<1> HIDE DEF back
<1>6. /\ Good(job', Work \ back, lastSeq) /\ Stable(job, job')
      /\ \A j \in Job : job'[j].status = "leased" => job[j].status = "leased" /\ j \notin back
  BY <1>1, <1>3, RequeueLeasedGood DEF DInv
<1>7. Owned(job', Work \ back)
  BY <1>4, <1>6 DEF DInv, Owned
<1> QED BY <1>2, <1>3, <1>4, <1>5, <1>6, <1>7 DEF DInv, DrainAlone

\* A settled job leaves the hand.
LEMMA SettleStep ==
    ASSUME DInv, IInv', NEW r \in Runner, NEW j \in InFlight(r), run' = Settled(r, j),
           lastSeq' = lastSeq, reconciled' = reconciled,
           Good(job', Work \ {j}, lastSeq), Owned(job', Work \ {j})
    PROVE  DInv'
<1>1. /\ r = Drain /\ run \in [Runner -> Works] /\ run[Drain] \in Works
      /\ reconciled \in BOOLEAN
  BY DrainTypes
<1>2. /\ j \in run[Drain].active /\ run[Drain].stray = {}
      /\ run[Drain].held \cap run[Drain].active = {}
  BY <1>1 DEF InFlight, DInv
<1>3. run' = [run EXCEPT ![Drain].active = @ \ {j}]
  BY <1>1, <1>2 DEF Settled
<1>4. /\ run'[Drain].held = run[Drain].held /\ run'[Drain].active = run[Drain].active \ {j}
      /\ run'[Drain].stray = {}
  BY <1>1, <1>2, <1>3 DEF Works
<1>5. Work' = Work \ {j}
  BY <1>2, <1>4 DEF Work
<1>6. reconciled'
  BY <1>1, <1>2 DEF DInv, Work
<1> QED BY <1>2, <1>4, <1>5, <1>6 DEF DInv, DrainAlone

\* What runs is in hand, and the drain has started.
LEMMA Running ==
    ASSUME DInv, NEW r \in Runner, NEW j \in InFlight(r)
    PROVE  /\ Sound(job) /\ Work \in SUBSET Job /\ j \in Work
           /\ Good(job, Work, lastSeq) /\ Owned(job, Work)
<1>1. r = Drain /\ Sound(job) /\ Work \in SUBSET Job /\ reconciled \in BOOLEAN
  BY DrainTypes
<1>2. j \in Work
  BY <1>1 DEF InFlight, DInv, Work
<1> QED BY <1>1, <1>2 DEF DInv

\* No failure of a running job meets the unique index: its row still has the key.
LEMMA NeverRaises ==
    ASSUME DInv, NEW r \in Runner, NEW j \in InFlight(r), NEW force \in BOOLEAN
    PROVE  ~FailRaises(job, j, force)
<1>1. /\ Sound(job) /\ Work \in SUBSET Job /\ j \in Work
      /\ Good(job, Work, lastSeq) /\ Owned(job, Work)
  BY Running
<1>2. \/ j \in Flush \/ j \in Update
      \/ job[j].status = "leased"
  BY <1>1, InHandRow
<1>3. CASE j \in Flush
  BY <1>3, FlushKeyAssumption DEF FailRaises, Rivals, Flush
<1>4. CASE j \in Update
  <2>1. j \in OfType({"l3_world_model_update", "project_environment_profile"})
    BY <1>4 DEF Update, OfType
  <2> QED BY <2>1, ImmutableKeyAssumption DEF FailRaises, Rivals
<1>5. CASE job[j].status = "leased"
  BY <1>1, <1>5 DEF FailRaises, Rivals, Sound, KeysOK
<1> QED BY <1>2, <1>3, <1>4, <1>5

\* DInv is inductive, and no step wakes a finished row.
LEMMA DrainStep ==
    ASSUME DInv, [Next]_vars
    PROVE  DInv' /\ Stable(job, job')
<1>1. IInv'
  BY StepSound DEF DInv
<1>2. Stable(job, job)
  BY DEF Stable
<1>3. CASE \E j \in Job, d \in RunAfters : Insert(j, d)
  <2>1. PICK j \in Job, d \in RunAfters : Insert(j, d)
    BY <1>3
  <2>2. run' = run /\ reconciled' = reconciled
    BY <2>1 DEF Insert
  <2> QED BY <1>1, <2>1, <2>2, InsertGood, TableStep
<1>4. CASE \E j \in Job, d \in RunAfters : Merge(j, d)
  <2>1. PICK j \in Job, d \in RunAfters : Merge(j, d)
    BY <1>4
  <2>2. run' = run /\ reconciled' = reconciled /\ lastSeq' = lastSeq
    BY <2>1 DEF Merge
  <2> QED BY <1>1, <2>1, <2>2, MergeGood, TableStep
<1>5. CASE \E j \in Job : Arm(j)
  <2>1. PICK j \in Job : Arm(j)
    BY <1>5
  <2>2. run' = run /\ reconciled' = reconciled /\ lastSeq' = lastSeq
    BY <2>1 DEF Arm
  <2> QED BY <1>1, <2>1, <2>2, ArmGood, TableStep
<1>6. CASE \E W \in WorldModels : DeleteWorldModel(W)
  <2>1. PICK W \in WorldModels : DeleteWorldModel(W)
    BY <1>6
  <2>2. run' = run /\ reconciled' = reconciled /\ lastSeq' = lastSeq
    BY <2>1 DEF DeleteWorldModel
  <2> QED BY <1>1, <2>1, <2>2, DeleteGood, TableStep
<1>7. CASE StartupReconcile
  BY <1>1, <1>7, ReconcileStep
<1>8. CASE \E r \in Runner : RunStart(r)
  BY <1>1, <1>8, StartStep
<1>9. CASE \E r \in Runner : Dispatch(r)
  BY <1>1, <1>9, DispatchStep
<1>10. ASSUME NEW r \in Runner, NEW j \in Job, JobSucceeds(r, j)
       PROVE  DInv' /\ Stable(job, job')
  <2>1. /\ j \in InFlight(r) /\ job' = Complete(job, j) /\ run' = Settled(r, j)
        /\ lastSeq' = lastSeq /\ reconciled' = reconciled
    BY <1>10 DEF JobSucceeds
  <2>2. /\ Good(job', Work \ {j}, lastSeq) /\ Owned(job', Work \ {j})
        /\ Stable(job, job')
    BY <2>1, Running, CompleteGood
  <2> QED BY <1>1, <2>1, <2>2, SettleStep
<1>11. ASSUME NEW r \in Runner, NEW j \in Job, NEW force \in BOOLEAN, JobFails(r, j, force)
       PROVE  DInv' /\ Stable(job, job')
  <2>1. /\ j \in InFlight(r) /\ job' = Fail(job, j, force) /\ run' = Settled(r, j)
        /\ lastSeq' = lastSeq /\ reconciled' = reconciled
    BY <1>11 DEF JobFails
  <2>2. /\ Good(job', Work \ {j}, lastSeq) /\ Owned(job', Work \ {j})
        /\ Stable(job, job')
    BY <2>1, Running, FailGood
  <2> QED BY <1>1, <2>1, <2>2, SettleStep
<1>12. ASSUME NEW r \in Runner, NEW j \in Job, NEW force \in BOOLEAN, RunRejects(r, j, force)
       PROVE  FALSE
  BY <1>12, NeverRaises DEF RunRejects
<1>13. ASSUME NEW r \in Runner, NEW j \in Job, JobDefers(r, j)
       PROVE  DInv' /\ Stable(job, job')
  <2>1. /\ j \in InFlight(r) /\ job' = Defer(job, j) /\ run' = Settled(r, j)
        /\ lastSeq' = lastSeq /\ reconciled' = reconciled
    BY <1>13 DEF JobDefers
  <2>2. /\ Good(job', Work \ {j}, lastSeq) /\ Owned(job', Work \ {j})
        /\ Stable(job, job')
    BY <2>1, Running, DeferGood
  <2> QED BY <1>1, <2>1, <2>2, SettleStep
<1>14. ASSUME NEW r \in Runner, NEW j \in Job, JobHeld(r, j)
       PROVE  DInv' /\ Stable(job, job')
  <2>1. /\ j \in InFlight(r) /\ job' = RequeueLeased(job, {j}) /\ run' = Settled(r, j)
        /\ lastSeq' = lastSeq /\ reconciled' = reconciled
    BY <1>14 DEF JobHeld
  <2>2. Good(job', Work \ {j}, lastSeq) /\ Stable(job, job')
    BY <2>1, Running, RequeueLeasedGood
  <2>3. Owned(job', Work \ {j})
    BY <2>1, Running, RequeueLeasedGood DEF Owned
  <2> QED BY <1>1, <2>1, <2>2, <2>3, SettleStep
<1>15. CASE UNCHANGED <<job, lastSeq, run, reconciled>>
  BY <1>1, <1>2, <1>15, TableStep DEF DInv
<1>16. CASE Tick \/ SetPaused \/ SetConfigured \/ UNCHANGED vars
  BY <1>15, <1>16 DEF Tick, SetPaused, SetConfigured, vars
<1>17. CASE Crash
  <2>1. /\ job' = job /\ lastSeq' = lastSeq /\ reconciled' = FALSE
        /\ run' = [r \in Runner |-> NoWork]
    BY <1>17 DEF Crash
  <2>2. run'[Drain] = NoWork
    BY <2>1, ConstantsAssumption
  <2>3. Work' = {} /\ run'[Drain].stray = {} /\ run'[Drain].held \cap run'[Drain].active = {}
    BY <2>2 DEF Work, NoWork
  <2>4. Good(job', {}, lastSeq')
    BY <2>1 DEF DInv, Good, InHand
  <2> QED BY <1>1, <1>2, <2>1, <2>3, <2>4 DEF DInv, DrainAlone
<1>18. CASE \E r \in Runner, j \in Job :
              \/ JobSucceeds(r, j) \/ JobDefers(r, j) \/ JobHeld(r, j)
              \/ \E force \in BOOLEAN : JobFails(r, j, force) \/ RunRejects(r, j, force)
  BY <1>10, <1>11, <1>12, <1>13, <1>14, <1>18
<1> QED BY <1>3, <1>4, <1>5, <1>6, <1>7, <1>8, <1>9, <1>16, <1>17, <1>18 DEF Next

\* Nothing is leased in an empty table.
LEMMA DrainInit == DrainAlone /\ Init => DInv
<1> SUFFICES ASSUME DrainAlone, Init PROVE DInv
  OBVIOUS
<1>1. \A j \in Job : job[j].status = "absent"
  BY DEF Init
<1>2. run[Drain] = NoWork /\ ~reconciled
  BY ConstantsAssumption DEF Init
<1>3. Work = {} /\ run[Drain].stray = {} /\ run[Drain].held \cap run[Drain].active = {}
  BY <1>2 DEF Work, NoWork
<1>4. Good(job, {}, lastSeq)
  BY <1>1, ScopedRows DEF Good, Counted, Numbered, Ordered, InHand
<1> QED BY <1>2, <1>3, <1>4, InitSound DEF DInv

LEMMA AlwaysInHand == DrainAlone /\ Spec => []DInv
<1>1. DInv /\ [Next]_vars => DInv'
  BY DrainStep
<1> QED BY <1>1, DrainInit, PTL DEF Spec

\* While the drain is the only runner, the jobs of a scope execute one at a time and in
\* the order they were enqueued, over crashes, pauses, retries and deleted world models.
THEOREM ScopesStayInOrder == DrainAlone /\ Spec => []ScopeFIFO
<1>1. DInv => ScopeFIFO
  BY DEF DInv, Good, Ordered, ScopeFIFO
<1> QED BY <1>1, AlwaysInHand, PTL

\* While the drain is the only runner, a row loses an attempt only by a failure.
THEOREM FailuresAreCounted == DrainAlone /\ Spec => []AttemptsCountFailures
<1>1. DInv => AttemptsCountFailures
  BY DEF DInv, Good, Counted, AttemptsCountFailures, Flush
<1> QED BY <1>1, AlwaysInHand, PTL

\* Once started, the service has every leased row in hand, over any pause and crash.
THEOREM LeasesAreInHand == DrainAlone /\ Spec => []LeasesOwned
<1>1. DInv => LeasesOwned
  <2> SUFFICES ASSUME DInv, reconciled, NEW j \in Job, job[j].status = "leased"
               PROVE  j \in run[Drain].held \cup InFlight(Drain)
    BY ConstantsAssumption DEF LeasesOwned
  <2> QED BY DEF DInv, Owned, Work, InFlight
<1> QED BY <1>1, AlwaysInHand, PTL

\* failJob never raises in the catch block, so no run abandons the jobs it holds.
THEOREM RunsNeverReject == DrainAlone /\ Spec => []NoRunRejects
<1>1. DInv => NoRunRejects
  <2> SUFFICES ASSUME DInv, NEW r \in Runner
               PROVE  run[r].stray = {} /\ \A j \in InFlight(r) : ~FailRaises(job, j, FALSE)
    BY DEF NoRunRejects
  <2>1. r = Drain
    BY DrainTypes
  <2> QED BY <2>1, NeverRaises DEF DInv
<1> QED BY <1>1, AlwaysInHand, PTL

\* A finished row is never queued, executed or failed again.
THEOREM FinishedRowsRest == DrainAlone /\ Spec => TerminalStable
<1> DEFINE Rests ==
      \A j \in Job \ OfType({"work_memory_idle_flush", "l3_world_model_update"}) :
          job[j].status \in {"succeeded", "dead_letter"} => job'[j].status = job[j].status
<1>1. DInv /\ [Next]_vars => [Rests]_vars
  <2> SUFFICES ASSUME DInv, [Next]_vars PROVE Rests
    OBVIOUS
  <2>1. Stable(job, job')
    BY DrainStep
  <2> QED BY <2>1 DEF Stable, Flush, Update, OfType
<1>2. TerminalStable <=> [][Rests]_vars
  BY DEF TerminalStable
<1> HIDE DEF Rests
<1> QED BY <1>1, <1>2, AlwaysInHand, PTL DEF Spec
=============================================================================
