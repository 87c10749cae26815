------------------------- MODULE EmbeddingRetryQueue -------------------------
(***************************************************************************)
(* The queue of embedding retries (embedding_retry_queue), the worker runs *)
(* that claim its rows, wait for the embedder and apply the outcome, and   *)
(* the vectors they write.                                                 *)
(*                                                                         *)
(* There is one row per memory.  A text is the version of the text that a  *)
(* memory should be embedded from; 0 stands for its raw memoryValue, which *)
(* is not that text, and for the absence of a vector.  An outcome carries  *)
(* the claim it was obtained under: the row as it was claimed, with the    *)
(* lease that serves as the token.  claimed_by is the same for all runs of *)
(* a process and is left out; 0 stands for SQL NULL in until.              *)
(***************************************************************************)
EXTENDS Integers, FiniteSets

CONSTANTS
    Memory,
    Checked,       \* the Skill and L3 memories, whose text is compared before a write
    Runner,        \* worker runs that may be in progress at the same time
    Drain,         \* the runner that is the background drain
    Limit,         \* retryCapacity of a run
    MaxAttempts,   \* max_attempts of every row
    LeaseLen,      \* EMBEDDING_RETRY_LEASE_MS
    Backoffs,      \* values of embeddingRetryBackoffMs
    MaxText,       \* bound of the versions of a text
    MaxEnqueues,   \* bound of the embedding jobs and rebuilds that enqueue retries
    MaxNow,        \* bound of the clock
    MaxCrashes     \* bound of the crashes

ASSUME RetryAssumption ==
    /\ Checked \subseteq Memory /\ Drain \in Runner
    /\ Limit \in Nat \ {0} /\ MaxAttempts \in Nat \ {0} /\ LeaseLen \in Nat \ {0}
    /\ Backoffs \subseteq Nat \ {0} /\ MaxText \in Nat \ {0}

VARIABLES
    row,          \* embedding_retry_queue
    text,         \* the current text of each memory
    vec,          \* the text that each memory's vector was computed from
    claims,       \* the claims that each run has not settled yet
    now,          \* the clock
    reconciled,   \* startupReconciled of the drain
    enqueues,     \* history: enqueueing events so far
    crashes       \* process restarts so far

vars == <<row, text, vec, claims, now, reconciled, enqueues, crashes>>

Row   == [status : {"absent", "pending", "in_progress", "succeeded", "failed"},
          attempts : 0 .. MaxAttempts, next : Nat, until : Nat, text : 0 .. MaxText]
Claim == [memory : Memory, attempts : 0 .. MaxAttempts - 1, until : Nat, text : 0 .. MaxText]

TypeOK ==
    /\ row \in [Memory -> Row]
    /\ text \in [Memory -> 1 .. MaxText] /\ vec \in [Memory -> 0 .. MaxText]
    /\ claims \in [Runner -> SUBSET Claim]
    /\ now \in Nat /\ reconciled \in BOOLEAN /\ enqueues \in Nat /\ crashes \in Nat

Init ==
    /\ row = [m \in Memory |-> [status |-> "absent", attempts |-> 0, next |-> 0, until |-> 0,
                                text |-> 0]]
    /\ text = [m \in Memory |-> 1] /\ vec = [m \in Memory |-> 0]
    /\ claims = [r \in Runner |-> {}]
    /\ now = 1 /\ reconciled = FALSE /\ enqueues = 0 /\ crashes = 0

-----------------------------------------------------------------------------
(* Statements on the table. *)

Smaller(m, n) == IF m <= n THEN m ELSE n

\* Mutant of Upsert: a finished row keeps its status.
UpsertKeepsDone(R, m, t) ==
    LET old == R[m]
        new == old.status = "absent"
    IN  [R EXCEPT ![m] =
            [status   |-> IF new THEN "pending" ELSE old.status,
             attempts |-> old.attempts,
             next     |-> IF new THEN now ELSE Smaller(old.next, now),
             until    |-> 0,
             text     |-> t]]

\* enqueueEmbeddingRetry: insert, or update the row of the same memory.  A
\* finished row starts afresh; an unfinished one keeps its status and loses
\* its claim.
Upsert(R, m, t) ==
    LET old   == R[m]
        fresh == old.status \in {"absent", "succeeded", "failed"}
    IN  [R EXCEPT ![m] =
            [status   |-> IF fresh THEN "pending" ELSE old.status,
             attempts |-> IF fresh THEN 0 ELSE old.attempts,
             next     |-> IF old.status = "absent" THEN now ELSE Smaller(old.next, now),
             until    |-> 0,
             text     |-> t]]

\* What claimDueEmbeddingRetries may take.
Due == {m \in Memory :
           /\ \/ row[m].status = "pending"
              \/ row[m].status = "in_progress" /\ row[m].until # 0 /\ row[m].until <= now
           /\ row[m].next <= now}

\* Mutant of Held: the token is not compared.
HeldByAnyone(R, c) == R[c.memory].status = "in_progress"

\* The WHERE clause of the markEmbeddingRetry...Claimed statements.
Held(R, c) == R[c.memory].status = "in_progress" /\ R[c.memory].until = c.until

\* markEmbeddingRetrySucceededClaimed.
MarkSucceeded(R, c) ==
    IF Held(R, c)
    THEN [R EXCEPT ![c.memory].status = "succeeded", ![c.memory].next = now,
                   ![c.memory].until = 0]
    ELSE R

-----------------------------------------------------------------------------
(* Memories and producers. *)

\* A memory's text changes.
Edit(m) ==
    /\ text[m] < MaxText
    /\ text' = [text EXCEPT ![m] = @ + 1]
    /\ UNCHANGED <<row, vec, claims, now, reconciled, enqueues, crashes>>

\* Mutant of EmbedJobApplies: the source hash is not compared.
EmbedJobAppliesBlind(m, t) ==
    /\ t <= text[m]
    /\ vec' = [vec EXCEPT ![m] = t]
    /\ UNCHANGED <<row, text, claims, now, reconciled, enqueues, crashes>>

\* applyEmbeddingVector of an embedding job that was prepared when the text
\* had version t.
EmbedJobApplies(m, t) ==
    /\ t <= text[m]
    /\ m \in Checked => t = text[m]
    /\ vec' = [vec EXCEPT ![m] = t]
    /\ UNCHANGED <<row, text, claims, now, reconciled, enqueues, crashes>>

\* Such a job fails: enqueueEmbeddingRetryAfterFailure.
EmbedJobFails(m, t) ==
    /\ t <= text[m]
    /\ enqueues < MaxEnqueues /\ enqueues' = enqueues + 1
    /\ row' = Upsert(row, m, t)
    /\ UNCHANGED <<text, vec, claims, now, reconciled, crashes>>

\* rebuildEmbeddings: a retry of every memory's raw value.
Rebuild ==
    /\ enqueues < MaxEnqueues /\ enqueues' = enqueues + 1
    /\ row' = [m \in Memory |-> Upsert(row, m, 0)[m]]
    /\ UNCHANGED <<text, vec, claims, now, reconciled, crashes>>

-----------------------------------------------------------------------------
(* Worker runs. *)

\* requeueEmbeddingRetriesAfterRestart, once per process, in the drain.
StartupRequeue ==
    /\ ~reconciled /\ reconciled' = TRUE
    /\ row' = [m \in Memory |->
                  IF row[m].status \in {"in_progress", "failed"}
                  THEN [row[m] EXCEPT !.status = "pending", !.next = now, !.until = 0,
                                      !.attempts = IF row[m].status = "failed" THEN 0 ELSE @]
                  ELSE row[m]]
    /\ UNCHANGED <<text, vec, claims, now, enqueues, crashes>>

\* claimDueEmbeddingRetries on the rows L that order, limit and the run's
\* targetMemoryIds select.
ClaimDue(r, L) ==
    /\ r = Drain => reconciled
    /\ claims[r] = {} /\ L # {} /\ L \subseteq Due /\ Cardinality(L) <= Limit
    /\ row' = [m \in Memory |-> IF m \in L
                                THEN [row[m] EXCEPT !.status = "in_progress",
                                                    !.until = now + LeaseLen]
                                ELSE row[m]]
    /\ claims' = [claims EXCEPT ![r] =
                     {[memory |-> m, attempts |-> row[m].attempts, until |-> now + LeaseLen,
                       text |-> row[m].text] : m \in L}]
    /\ UNCHANGED <<text, vec, now, reconciled, enqueues, crashes>>

\* applyEmbeddingRetryVector: if the text of a Skill or L3 memory has changed
\* the vector is dropped and a retry of the current text replaces the row.
Applies(r, c) ==
    /\ c \in claims[r] /\ claims' = [claims EXCEPT ![r] = @ \ {c}]
    /\ IF c.memory \in Checked /\ c.text # text[c.memory]
       THEN /\ row' = Upsert(MarkSucceeded(row, c), c.memory, text[c.memory])
            /\ vec' = vec
       ELSE /\ vec' = [vec EXCEPT ![c.memory] = c.text]
            /\ row' = MarkSucceeded(row, c)
    /\ UNCHANGED <<text, now, reconciled, enqueues, crashes>>

\* Mutant of Fails: one attempt too many.
FailsLate(r, c, final, delay) ==
    /\ c \in claims[r] /\ claims' = [claims EXCEPT ![r] = @ \ {c}]
    /\ row' = IF ~Held(row, c) THEN row
              ELSE [row EXCEPT ![c.memory].status = IF final \/ c.attempts + 1 > MaxAttempts
                                                    THEN "failed" ELSE "pending",
                               ![c.memory].until = 0, ![c.memory].attempts = c.attempts + 1,
                               ![c.memory].next = now + delay]
    /\ UNCHANGED <<text, vec, now, reconciled, enqueues, crashes>>

\* failClaimedEmbeddingRetry; final is an error not worth a retry.
Fails(r, c, final, delay) ==
    /\ c \in claims[r] /\ claims' = [claims EXCEPT ![r] = @ \ {c}]
    /\ row' = IF ~Held(row, c) THEN row
              ELSE IF final \/ c.attempts + 1 >= MaxAttempts
              THEN [row EXCEPT ![c.memory].status = "failed", ![c.memory].until = 0,
                               ![c.memory].attempts = c.attempts + 1]
              ELSE [row EXCEPT ![c.memory].status = "pending", ![c.memory].until = 0,
                               ![c.memory].attempts = c.attempts + 1,
                               ![c.memory].next = now + delay]
    /\ UNCHANGED <<text, vec, now, reconciled, enqueues, crashes>>

\* Time passes: until MaxNow, and on while a row backs off.
Tick ==
    /\ now < MaxNow \/ \E m \in Memory : row[m].status = "pending" /\ row[m].next > now
    /\ now' = now + 1
    /\ UNCHANGED <<row, text, vec, claims, reconciled, enqueues, crashes>>

\* The process dies and starts again on the same database.
Crash ==
    /\ crashes < MaxCrashes /\ crashes' = crashes + 1
    /\ claims' = [r \in Runner |-> {}] /\ reconciled' = FALSE
    /\ UNCHANGED <<row, text, vec, now, enqueues>>

Claims(r)  == \E L \in SUBSET Memory : ClaimDue(r, L)
Settles(r) == \E c \in claims[r] :
                 Applies(r, c) \/ \E final \in BOOLEAN, delay \in Backoffs : Fails(r, c, final, delay)

Next ==
    \/ \E m \in Memory : Edit(m)
    \/ \E m \in Memory, t \in 1 .. MaxText : EmbedJobApplies(m, t) \/ EmbedJobFails(m, t)
    \/ Rebuild \/ StartupRequeue
    \/ \E r \in Runner : Claims(r) \/ Settles(r)
    \/ Tick \/ Crash

Spec == Init /\ [][Next]_vars

\* The drain starts up, claims what is due and its embedder calls return.
Fairness ==
    /\ WF_vars(StartupRequeue) /\ WF_vars(Tick)
    /\ \A r \in Runner : WF_vars(Claims(r)) /\ WF_vars(Settles(r))

FairSpec == Spec /\ Fairness

-----------------------------------------------------------------------------

\* The retry of a Skill or L3 memory that counts as done left a vector at
\* least as recent as the text it was asked for, although runs whose lease
\* has expired or was taken away still apply their outcome.
DoneIsFresh ==
    \A m \in Checked : row[m].status = "succeeded" => vec[m] >= row[m].text

\* No late outcome replaces the vector of a Skill or L3 memory by one of an
\* older text.
VectorsAdvance ==
    [][\A m \in Checked : vec'[m] >= vec[m]]_vars

\* Two runs that claimed m at the same instant bear the same token.
SameToken(m) ==
    \E r, q \in Runner : \E c \in claims[r], e \in claims[q] :
        r # q /\ c.memory = m /\ e.memory = m /\ c.until = e.until

\* Failures are not forgotten: the attempts of a row drop only when it starts
\* afresh, never because a run that lost its claim counts from the attempts
\* it saw then.  Only runs that share a token get past the statements' guard.
AttemptsNeverLost ==
    [][\A m \in Memory : row'[m].attempts < row[m].attempts /\ ~SameToken(m) =>
          row'[m].status = "pending" /\ row'[m].attempts = 0]_vars

\* "Rebuild all vectors": a retry that was enqueued is eventually done or
\* given up.
RetriesEnd ==
    \A m \in Memory :
        row[m].status \in {"pending", "in_progress"} ~> row[m].status \in {"succeeded", "failed"}

=============================================================================
