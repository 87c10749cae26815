------------------------- MODULE EmbeddingRetryProofs -------------------------
(***************************************************************************)
(* For any memories, overlapping runs and bounds: types, fresh vectors,    *)
(* and no forgotten failures.  The invariant adds that unfinished rows     *)
(* have an attempt left, that no row asks for and no checked vector comes  *)
(* from a text of the future, and that a claim which still holds its row   *)
(* has the row's attempts or shares its token with a claim that has them.  *)
(***************************************************************************)
EXTENDS EmbeddingRetryQueue, TLAPS

OpenRows ==
    \A m \in Memory : row[m].status \in {"absent", "pending", "in_progress"} =>
                          row[m].attempts < MaxAttempts

Texts == \A m \in Memory : row[m].text <= text[m]

Tokens ==
    \A r \in Runner : \A c \in claims[r] :
        /\ c.until > 0
        /\ Held(row, c) /\ c.attempts # row[c.memory].attempts =>
              \E q \in Runner \ {r} : \E e \in claims[q] :
                  e.memory = c.memory /\ e.until = c.until /\ e.attempts = row[c.memory].attempts

Behind == \A m \in Checked : vec[m] <= text[m]

IInv == TypeOK /\ OpenRows /\ Texts /\ Tokens /\ Behind /\ DoneIsFresh

\* Tokens survive if claims are only dropped and every row is either left
\* alone together with the claims that hold it, or ceases to be claimed.
LEMMA TokensKept ==
    ASSUME TypeOK, Tokens, claims' \in [Runner -> SUBSET Claim],
           \A q \in Runner : claims'[q] \subseteq claims[q],
           \A m \in Memory :
              \/ /\ row'[m] = row[m]
                 /\ \A q \in Runner : \A e \in claims[q] :
                       e.memory = m /\ Held(row, e) => e \in claims'[q]
              \/ row'[m].status # "in_progress"
              \/ row'[m].until = 0
    PROVE  Tokens'
<1> SUFFICES ASSUME NEW r \in Runner, NEW c \in claims'[r]
             PROVE  /\ c.until > 0
                    /\ Held(row', c) /\ c.attempts # row'[c.memory].attempts =>
                          \E q \in Runner \ {r} : \E e \in claims'[q] :
                              /\ e.memory = c.memory /\ e.until = c.until
                              /\ e.attempts = row'[c.memory].attempts
  BY DEF Tokens, Held
<1>1. c \in claims[r] /\ c \in Claim /\ c.memory \in Memory /\ c.until > 0
  BY DEF Tokens, Claim
<1>2. SUFFICES ASSUME Held(row', c), c.attempts # row'[c.memory].attempts
               PROVE  \E q \in Runner \ {r} : \E e \in claims'[q] :
                          /\ e.memory = c.memory /\ e.until = c.until
                          /\ e.attempts = row'[c.memory].attempts
  BY <1>1
<1>3. row'[c.memory].status = "in_progress" /\ row'[c.memory].until # 0
  BY <1>1, <1>2 DEF Held
<1>4. /\ row'[c.memory] = row[c.memory]
      /\ \A q \in Runner : \A e \in claims[q] :
            e.memory = c.memory /\ Held(row, e) => e \in claims'[q]
  BY <1>1, <1>3
<1>5. Held(row, c) /\ c.attempts # row[c.memory].attempts
  BY <1>2, <1>4 DEF Held
<1>6. PICK q \in Runner \ {r} : \E e \in claims[q] :
          e.memory = c.memory /\ e.until = c.until /\ e.attempts = row[c.memory].attempts
  BY <1>1, <1>5 DEF Tokens
<1>7. PICK e \in claims[q] :
          e.memory = c.memory /\ e.until = c.until /\ e.attempts = row[c.memory].attempts
  BY <1>6
<1>8. Held(row, e)
  BY <1>5, <1>7 DEF Held
<1>9. e \in claims'[q]
  BY <1>4, <1>7, <1>8
<1> QED BY <1>4, <1>7, <1>9

\* What enqueueEmbeddingRetry makes of a row: never done, never claimed.
LEMMA UpsertRow ==
    ASSUME NEW R \in [Memory -> Row], NEW m \in Memory, NEW t \in 0 .. MaxText, now \in Nat,
           R[m].status \in {"absent", "pending", "in_progress"} => R[m].attempts < MaxAttempts
    PROVE  \E v \in Row :
              /\ Upsert(R, m, t) = [R EXCEPT ![m] = v]
              /\ v.text = t /\ v.until = 0 /\ v.attempts < MaxAttempts
              /\ v.status \in {"pending", "in_progress"}
              /\ v.attempts < R[m].attempts => v.status = "pending" /\ v.attempts = 0
<1> DEFINE old   == R[m]
           fresh == old.status \in {"absent", "succeeded", "failed"}
           st    == IF fresh THEN "pending" ELSE old.status
           att   == IF fresh THEN 0 ELSE old.attempts
           nxt   == IF old.status = "absent" THEN now ELSE Smaller(old.next, now)
           v     == [status |-> st, attempts |-> att, next |-> nxt, until |-> 0, text |-> t]
<1>1. /\ old \in Row /\ old.attempts \in 0 .. MaxAttempts /\ old.next \in Nat
      /\ old.status \in {"absent", "pending", "in_progress", "succeeded", "failed"}
  BY DEF Row
<1>2. st \in {"pending", "in_progress"} /\ nxt \in Nat
  BY <1>1 DEF Smaller
<1>3. att \in 0 .. MaxAttempts /\ att < MaxAttempts
  BY <1>1, RetryAssumption
<1>4. att < old.attempts => st = "pending" /\ att = 0
  BY <1>1
<1>5. Upsert(R, m, t) = [R EXCEPT ![m] = v]
  BY DEF Upsert
<1> HIDE DEF old, fresh, st, att, nxt
<1>6. /\ v \in Row /\ v.text = t /\ v.until = 0 /\ v.attempts = att /\ v.status = st
  BY <1>2, <1>3, RetryAssumption DEF Row
<1> HIDE DEF v
<1> QED BY <1>2, <1>3, <1>4, <1>5, <1>6 DEF old

\* markEmbeddingRetrySucceededClaimed under a claim that holds its row.
LEMMA SucceededRow ==
    ASSUME NEW R \in [Memory -> Row], NEW c \in Claim, Held(R, c), now \in Nat
    PROVE  \E v \in Row :
              /\ MarkSucceeded(R, c) = [R EXCEPT ![c.memory] = v]
              /\ v.status = "succeeded" /\ v.until = 0 /\ v.text = R[c.memory].text
              /\ v.attempts = R[c.memory].attempts
<1> DEFINE m == c.memory
           v == [R[m] EXCEPT !.status = "succeeded", !.next = now, !.until = 0]
<1>1. m \in Memory /\ R[m] \in Row
  BY DEF Claim
<1>2. /\ v \in Row /\ v.status = "succeeded" /\ v.until = 0 /\ v.text = R[m].text
      /\ v.attempts = R[m].attempts
  BY <1>1 DEF Row
<1>3. MarkSucceeded(R, c) = [R EXCEPT ![m] = v]
  BY <1>1 DEF MarkSucceeded
<1> HIDE DEF v
<1> QED BY <1>2, <1>3

\* A step that changes one row to v, and at most that memory's vector.
LEMMA RowStep ==
    ASSUME IInv, NEW m \in Memory, NEW v \in Row, row' = [row EXCEPT ![m] = v], text' = text,
           v.status \in {"absent", "pending", "in_progress"} => v.attempts < MaxAttempts,
           v.text <= text[m],
           m \in Checked /\ v.status = "succeeded" => vec'[m] >= v.text,
           \A k \in Memory \ {m} : vec'[k] = vec[k]
    PROVE  row' \in [Memory -> Row] /\ OpenRows' /\ Texts' /\ DoneIsFresh'
<1>1. row \in [Memory -> Row]
  BY DEF IInv, TypeOK
<1>2. row' \in [Memory -> Row] /\ row'[m] = v /\ \A k \in Memory \ {m} : row'[k] = row[k]
  BY <1>1
<1>3. OpenRows' /\ Texts'
  BY <1>2 DEF IInv, OpenRows, Texts
<1>4. DoneIsFresh'
  BY <1>2, RetryAssumption DEF IInv, DoneIsFresh
<1> QED BY <1>2, <1>3, <1>4

\* What no step may do: move a checked vector back, or lose failures.
Progress ==
    /\ \A m \in Checked : vec'[m] >= vec[m]
    /\ \A m \in Memory : row'[m].attempts < row[m].attempts /\ ~SameToken(m) =>
          row'[m].status = "pending" /\ row'[m].attempts = 0

LEMMA StepKeeps ==
    ASSUME IInv, [Next]_vars
    PROVE  IInv' /\ Progress
<1>0. /\ row \in [Memory -> Row] /\ text \in [Memory -> 1 .. MaxText]
      /\ vec \in [Memory -> 0 .. MaxText] /\ claims \in [Runner -> SUBSET Claim]
      /\ now \in Nat /\ reconciled \in BOOLEAN /\ enqueues \in Nat /\ crashes \in Nat
  BY DEF IInv, TypeOK
<1>f. \A m \in Memory : /\ row[m] \in Row /\ row[m].attempts \in 0 .. MaxAttempts
                        /\ row[m].attempts \in Nat /\ row[m].until \in Nat
                        /\ row[m].text \in 0 .. MaxText
                        /\ row[m].status \in {"absent", "pending", "in_progress", "succeeded",
                                              "failed"}
                        /\ text[m] \in 1 .. MaxText /\ vec[m] \in 0 .. MaxText
                        /\ vec[m] >= vec[m]
  BY <1>0, RetryAssumption DEF Row
<1>c. \A r \in Runner : \A c \in claims[r] :
          /\ c \in Claim /\ c.memory \in Memory /\ c.attempts \in 0 .. MaxAttempts - 1
          /\ c.until \in Nat /\ c.text \in 0 .. MaxText
  BY <1>0 DEF Claim
<1>k. \A m \in Checked : m \in Memory
  BY RetryAssumption
<1> DEFINE Rest == now' \in Nat /\ reconciled' \in BOOLEAN /\ enqueues' \in Nat /\ crashes' \in Nat
           Goal == /\ row' \in [Memory -> Row] /\ text' \in [Memory -> 1 .. MaxText]
                   /\ vec' \in [Memory -> 0 .. MaxText] /\ claims' \in [Runner -> SUBSET Claim]
                   /\ Rest /\ OpenRows' /\ Texts' /\ Tokens' /\ Behind' /\ DoneIsFresh'
                   /\ Progress
<1>g. SUFFICES Goal
  BY DEF IInv, TypeOK
<1>t. ASSUME claims' = claims,
             \A m \in Memory : \/ row'[m] = row[m] \/ row'[m].status # "in_progress"
                               \/ row'[m].until = 0
      PROVE  Tokens'
  BY <1>0, <1>t, TokensKept DEF IInv
<1>1. ASSUME NEW m \in Memory, Edit(m)
      PROVE  Goal
  <2>1. /\ row' = row /\ vec' = vec /\ claims' = claims /\ Rest
    BY <1>0, <1>1 DEF Edit
  <2>2. text' \in [Memory -> 1 .. MaxText] /\ \A k \in Memory : text'[k] >= text[k]
    BY <1>0, <1>1, RetryAssumption DEF Edit
  <2>3. Texts' /\ Behind'
    <3>1. \A k \in Memory : text'[k] \in Nat /\ text[k] \in Nat /\ row[k].text \in Nat /\ vec[k] \in Nat
      BY <1>f, <2>2, RetryAssumption
    <3> QED BY <1>k, <2>1, <2>2, <3>1 DEF IInv, Texts, Behind
  <2>4. Tokens'
    BY <1>t, <2>1
  <2>5. Progress
    BY <1>f, <1>k, <2>1 DEF Progress
  <2> QED BY <1>0, <2>1, <2>2, <2>3, <2>4, <2>5 DEF IInv, OpenRows, DoneIsFresh
<1>2. ASSUME NEW m \in Memory, NEW v \in 1 .. MaxText, EmbedJobApplies(m, v)
      PROVE  Goal
  <2>1. /\ row' = row /\ text' = text /\ claims' = claims /\ Rest
    BY <1>0, <1>2 DEF EmbedJobApplies
  <2>2. vec' \in [Memory -> 0 .. MaxText] /\ \A k \in Checked : vec'[k] >= vec[k] /\ vec'[k] <= text[k]
    <3>1. vec' = [vec EXCEPT ![m] = v] /\ (m \in Checked => v = text[m])
      BY <1>2 DEF EmbedJobApplies
    <3>2. v \in 0 .. MaxText
      BY RetryAssumption
    <3>3. \A k \in Checked : vec[k] <= text[k]
      BY <1>k DEF IInv, Behind
    <3> QED BY <1>0, <1>f, <1>k, <3>1, <3>2, <3>3
  <2>3. Tokens'
    BY <1>t, <2>1
  <2>4. DoneIsFresh'
    <3> SUFFICES ASSUME NEW k \in Checked, row[k].status = "succeeded"
                 PROVE  vec'[k] >= row[k].text
      BY <2>1 DEF DoneIsFresh
    <3>1. vec[k] >= row[k].text /\ vec'[k] >= vec[k]
      BY <2>2 DEF IInv, DoneIsFresh
    <3>2. vec[k] \in Nat /\ vec'[k] \in Nat /\ row[k].text \in Nat
      BY <1>0, <1>f, <1>k, <2>2, RetryAssumption
    <3> QED BY <3>1, <3>2
  <2>5. Progress
    BY <1>f, <2>1, <2>2 DEF Progress
  <2> QED BY <1>0, <2>1, <2>2, <2>3, <2>4, <2>5 DEF IInv, OpenRows, Texts, Behind
<1>p. ASSUME vec' = vec,
             \A m \in Memory : row'[m].attempts < row[m].attempts =>
                                   row'[m].status = "pending" /\ row'[m].attempts = 0
      PROVE  Progress
  BY <1>f, <1>k, <1>p DEF Progress
<1>3. ASSUME NEW m \in Memory, NEW s \in 1 .. MaxText, EmbedJobFails(m, s)
      PROVE  Goal
  <2>1. /\ row' = Upsert(row, m, s) /\ text' = text /\ vec' = vec /\ claims' = claims /\ Rest
        /\ s <= text[m]
    BY <1>0, <1>3 DEF EmbedJobFails
  <2>2. s \in 0 .. MaxText
    BY RetryAssumption
  <2>3. PICK v \in Row :
           /\ row' = [row EXCEPT ![m] = v]
           /\ v.text = s /\ v.until = 0 /\ v.attempts < MaxAttempts
           /\ v.status \in {"pending", "in_progress"}
           /\ v.attempts < row[m].attempts => v.status = "pending" /\ v.attempts = 0
    BY <1>0, <2>1, <2>2, UpsertRow DEF IInv, OpenRows
  <2>4. row' \in [Memory -> Row] /\ OpenRows' /\ Texts' /\ DoneIsFresh'
    BY <2>1, <2>3, RowStep
  <2>5. row'[m] = v /\ \A k \in Memory \ {m} : row'[k] = row[k]
    BY <1>0, <2>3
  <2>6. Tokens'
    BY <1>t, <2>1, <2>3, <2>5
  <2>7. Progress
    BY <1>p, <1>f, <2>1, <2>3, <2>5
  <2> QED BY <1>0, <2>1, <2>4, <2>6, <2>7 DEF IInv, Behind
<1>4. CASE Rebuild
  <2>1. /\ text' = text /\ vec' = vec /\ claims' = claims /\ Rest
    BY <1>0, <1>4 DEF Rebuild
  <2>2. \A m \in Memory :
           /\ row'[m] \in Row /\ row'[m].text = 0 /\ row'[m].until = 0
           /\ row'[m].attempts < MaxAttempts /\ row'[m].status \in {"pending", "in_progress"}
           /\ row'[m].attempts < row[m].attempts =>
                 row'[m].status = "pending" /\ row'[m].attempts = 0
    <3> SUFFICES ASSUME NEW m \in Memory
                 PROVE  /\ row'[m] \in Row /\ row'[m].text = 0 /\ row'[m].until = 0
                        /\ row'[m].attempts < MaxAttempts
                        /\ row'[m].status \in {"pending", "in_progress"}
                        /\ row'[m].attempts < row[m].attempts =>
                              row'[m].status = "pending" /\ row'[m].attempts = 0
      OBVIOUS
    <3>1. 0 \in 0 .. MaxText
      BY RetryAssumption
    <3>2. PICK v \in Row :
             /\ Upsert(row, m, 0) = [row EXCEPT ![m] = v]
             /\ v.text = 0 /\ v.until = 0 /\ v.attempts < MaxAttempts
             /\ v.status \in {"pending", "in_progress"}
             /\ v.attempts < row[m].attempts => v.status = "pending" /\ v.attempts = 0
      BY <1>0, <3>1, UpsertRow DEF IInv, OpenRows
    <3>3. row'[m] = Upsert(row, m, 0)[m]
      BY <1>4 DEF Rebuild
    <3>4. row'[m] = v
      BY <1>0, <3>2, <3>3
    <3> QED BY <3>2, <3>4
  <2>3. row' \in [Memory -> Row]
    <3>1. row' = [m \in Memory |-> row'[m]]
      BY <1>4 DEF Rebuild
    <3> QED BY <2>2, <3>1
  <2>4. Tokens'
    BY <1>t, <2>1, <2>2
  <2>5. Progress
    BY <1>p, <2>1, <2>2
  <2>6. Texts' /\ OpenRows' /\ DoneIsFresh'
    <3>1. \A m \in Memory : 0 <= text[m]
      BY <1>f
    <3> QED BY <1>k, <2>1, <2>2, <3>1 DEF Texts, OpenRows, DoneIsFresh
  <2> QED BY <1>0, <2>1, <2>3, <2>4, <2>5, <2>6 DEF IInv, Behind
<1>5. CASE StartupRequeue
  <2>1. /\ text' = text /\ vec' = vec /\ claims' = claims /\ Rest
    BY <1>0, <1>5 DEF StartupRequeue
  <2>2. \A m \in Memory :
           \/ row[m].status \notin {"in_progress", "failed"} /\ row'[m] = row[m]
           \/ /\ row[m].status \in {"in_progress", "failed"}
              /\ row'[m] \in Row /\ row'[m].status = "pending" /\ row'[m].text = row[m].text
              /\ row'[m].attempts < MaxAttempts
              /\ row'[m].attempts < row[m].attempts => row'[m].attempts = 0
    <3> SUFFICES ASSUME NEW m \in Memory, row[m].status \in {"in_progress", "failed"}
                 PROVE  /\ row'[m] \in Row /\ row'[m].status = "pending"
                        /\ row'[m].text = row[m].text /\ row'[m].attempts < MaxAttempts
                        /\ row'[m].attempts < row[m].attempts => row'[m].attempts = 0
      BY <1>5 DEF StartupRequeue
    <3> DEFINE att == IF row[m].status = "failed" THEN 0 ELSE row[m].attempts
               v == [row[m] EXCEPT !.status = "pending", !.next = now, !.until = 0,
                                   !.attempts = att]
    <3>1. att \in 0 .. MaxAttempts /\ att < MaxAttempts
      BY <1>f, RetryAssumption DEF IInv, OpenRows
    <3>2. att < row[m].attempts => att = 0
      BY <1>f
    <3>3. row'[m] = v
      BY <1>5 DEF StartupRequeue
    <3> HIDE DEF att
    <3>4. v \in Row /\ v.status = "pending" /\ v.text = row[m].text /\ v.attempts = att
      BY <1>0, <1>f, <3>1 DEF Row
    <3> HIDE DEF v
    <3> QED BY <3>1, <3>2, <3>3, <3>4
  <2>3. row' \in [Memory -> Row]
    <3>1. row' = [m \in Memory |-> row'[m]]
      BY <1>5 DEF StartupRequeue
    <3> QED BY <1>f, <2>2, <3>1
  <2>4. Tokens'
    BY <1>t, <2>1, <2>2
  <2>5. Progress
    BY <1>p, <1>f, <2>1, <2>2
  <2>6. OpenRows' /\ Texts'
    BY <2>1, <2>2 DEF IInv, OpenRows, Texts
  <2>7. DoneIsFresh'
    BY <1>k, <2>1, <2>2 DEF IInv, DoneIsFresh
  <2> QED BY <1>0, <2>1, <2>3, <2>4, <2>5, <2>6, <2>7 DEF IInv, Behind
<1>6. ASSUME NEW r \in Runner, NEW L \in SUBSET Memory, ClaimDue(r, L)
      PROVE  Goal
  <2> DEFINE u == now + LeaseLen
             Mine(m) == [memory |-> m, attempts |-> row[m].attempts, until |-> u,
                         text |-> row[m].text]
  <2>1. text' = text /\ vec' = vec /\ Rest /\ claims[r] = {} /\ u \in Nat /\ u > 0
    <3>1. /\ text' = text /\ vec' = vec /\ claims[r] = {} /\ now' = now /\ enqueues' = enqueues
          /\ crashes' = crashes /\ reconciled' = reconciled
      BY <1>6 DEF ClaimDue
    <3>2. u \in Nat /\ u > 0
      BY <1>0, RetryAssumption
    <3> QED BY <1>0, <3>1, <3>2
  <2>2. \A m \in L : row[m].status \in {"pending", "in_progress"} /\ row[m].attempts < MaxAttempts
    BY <1>6 DEF ClaimDue, Due, IInv, OpenRows
  <2>3. /\ claims' = [claims EXCEPT ![r] = {Mine(m) : m \in L}]
        /\ \A m \in Memory \ L : row'[m] = row[m]
        /\ row' = [m \in Memory |-> row'[m]]
    BY <1>6 DEF ClaimDue
  <2>4. \A m \in L : /\ row'[m] \in Row /\ row'[m].status = "in_progress" /\ row'[m].until = u
                     /\ row'[m].attempts = row[m].attempts /\ row'[m].text = row[m].text
    <3> SUFFICES ASSUME NEW m \in L
                 PROVE  /\ row'[m] \in Row /\ row'[m].status = "in_progress" /\ row'[m].until = u
                        /\ row'[m].attempts = row[m].attempts /\ row'[m].text = row[m].text
      OBVIOUS
    <3>1. row'[m] = [row[m] EXCEPT !.status = "in_progress", !.until = u]
      BY <1>6 DEF ClaimDue
    <3> QED BY <1>f, <2>1, <3>1 DEF Row
  <2>5. \A m \in L : Mine(m) \in Claim
    <3> SUFFICES ASSUME NEW m \in L PROVE Mine(m) \in Claim
      OBVIOUS
    <3>1. row[m].attempts \in 0 .. MaxAttempts - 1
      BY <1>f, <2>2, RetryAssumption
    <3> QED BY <1>f, <2>1, <3>1 DEF Claim
  <2>6. /\ claims' \in [Runner -> SUBSET Claim] /\ claims'[r] = {Mine(m) : m \in L}
        /\ \A q \in Runner \ {r} : claims'[q] = claims[q]
    BY <1>0, <2>3, <2>5
  <2>7. row' \in [Memory -> Row]
    <3>1. \A m \in Memory : row'[m] \in Row
      BY <1>f, <2>3, <2>4
    <3> QED BY <2>3, <3>1
  <2>8. Tokens'
    <3> SUFFICES ASSUME NEW q \in Runner, NEW c \in claims'[q]
                 PROVE  /\ c.until > 0
                        /\ Held(row', c) /\ c.attempts # row'[c.memory].attempts =>
                              \E p \in Runner \ {q} : \E e \in claims'[p] :
                                  /\ e.memory = c.memory /\ e.until = c.until
                                  /\ e.attempts = row'[c.memory].attempts
      BY DEF Tokens, Held
    <3>1. CASE q = r
      <4>1. PICK m \in L : c = Mine(m)
        BY <2>6, <3>1
      <4> QED BY <2>1, <2>4, <4>1
    <3>2. CASE q # r
      <4>1. c \in claims[q] /\ c.until > 0 /\ c.memory \in Memory
        BY <1>c, <2>6, <3>2 DEF IInv, Tokens
      <4>2. CASE c.memory \in L
        <5>1. Mine(c.memory) \in claims'[r]
          BY <2>6, <4>2
        <5>2. Held(row', c) => c.until = u
          BY <2>4, <4>2 DEF Held
        <5>3. /\ Mine(c.memory).memory = c.memory /\ Mine(c.memory).until = u
              /\ Mine(c.memory).attempts = row'[c.memory].attempts
          BY <2>4, <4>2
        <5> HIDE DEF Mine
        <5> QED BY <3>2, <4>1, <5>1, <5>2, <5>3
      <4>3. CASE c.memory \notin L
        <5>1. row'[c.memory] = row[c.memory]
          BY <2>3, <4>1, <4>3
        <5> SUFFICES ASSUME Held(row, c), c.attempts # row[c.memory].attempts
                     PROVE  \E p \in Runner \ {q} : \E e \in claims'[p] :
                               /\ e.memory = c.memory /\ e.until = c.until
                               /\ e.attempts = row[c.memory].attempts
          BY <4>1, <5>1 DEF Held
        <5>2. PICK p \in Runner \ {q} : \E e \in claims[p] :
                 e.memory = c.memory /\ e.until = c.until /\ e.attempts = row[c.memory].attempts
          BY <4>1 DEF IInv, Tokens
        <5>3. claims'[p] = claims[p]
          BY <2>1, <2>6, <5>2
        <5> QED BY <5>2, <5>3
      <4> QED BY <4>2, <4>3
    <3> QED BY <3>1, <3>2
  <2>9. Progress
    BY <1>p, <1>f, <2>1, <2>3, <2>4
  <2>10. OpenRows' /\ Texts'
    BY <2>1, <2>2, <2>3, <2>4 DEF IInv, OpenRows, Texts
  <2>11. DoneIsFresh'
    BY <1>k, <2>1, <2>3, <2>4 DEF IInv, DoneIsFresh
  <2> QED BY <1>0, <2>1, <2>6, <2>7, <2>8, <2>9, <2>10, <2>11 DEF IInv, Behind
<1>s. ASSUME NEW r \in Runner, NEW c \in claims[r], claims' = [claims EXCEPT ![r] = @ \ {c}],
             \A k \in Memory \ {c.memory} : row'[k] = row[k],
             \/ row'[c.memory] = row[c.memory] /\ ~Held(row, c)
             \/ row'[c.memory].status # "in_progress" \/ row'[c.memory].until = 0
      PROVE  Tokens' /\ claims' \in [Runner -> SUBSET Claim]
  <2>1. /\ claims' \in [Runner -> SUBSET Claim] /\ claims'[r] = claims[r] \ {c}
        /\ \A q \in Runner \ {r} : claims'[q] = claims[q]
    BY <1>0, <1>s
  <2>2. \A q \in Runner : claims'[q] \subseteq claims[q]
    BY <2>1
  <2>3. \A q \in Runner : \A e \in claims[q] : e # c => e \in claims'[q]
    BY <2>1
  <2>4. \A m \in Memory :
           \/ /\ row'[m] = row[m]
              /\ \A q \in Runner : \A e \in claims[q] :
                    e.memory = m /\ Held(row, e) => e \in claims'[q]
           \/ row'[m].status # "in_progress"
           \/ row'[m].until = 0
    <3> SUFFICES ASSUME NEW m \in Memory, row'[m].status = "in_progress", row'[m].until # 0
                 PROVE  /\ row'[m] = row[m]
                        /\ \A q \in Runner : \A e \in claims[q] :
                              e.memory = m /\ Held(row, e) => e \in claims'[q]
      OBVIOUS
    <3>1. CASE m = c.memory
      BY <1>s, <2>3, <3>1
    <3>2. CASE m # c.memory
      BY <1>s, <2>3, <3>2
    <3> QED BY <3>1, <3>2
  <2> QED BY <2>1, <2>2, <2>4, TokensKept DEF IInv
<1>7. ASSUME NEW r \in Runner, NEW c \in claims[r], Applies(r, c)
      PROVE  Goal
  <2> DEFINE m == c.memory
  <2>0. /\ claims' = [claims EXCEPT ![r] = @ \ {c}] /\ text' = text /\ Rest
        /\ m \in Memory /\ c \in Claim /\ c.text \in 0 .. MaxText
    BY <1>0, <1>c, <1>7 DEF Applies
  <2>1. CASE m \in Checked /\ c.text # text[m]
    <3>1. vec' = vec /\ row' = Upsert(MarkSucceeded(row, c), m, text[m])
      BY <1>7, <2>1 DEF Applies
    <3>2. text[m] \in 0 .. MaxText /\ text[m] <= text[m]
      BY <1>f, <2>0
    <3>3. \E v \in Row :
             /\ row' = [row EXCEPT ![m] = v]
             /\ v.text = text[m] /\ v.until = 0 /\ v.attempts < MaxAttempts
             /\ v.status \in {"pending", "in_progress"}
             /\ v.attempts < row[m].attempts => v.status = "pending" /\ v.attempts = 0
      <4>1. CASE Held(row, c)
        <5>1. PICK w \in Row :
                 /\ MarkSucceeded(row, c) = [row EXCEPT ![m] = w]
                 /\ w.status = "succeeded" /\ w.attempts = row[m].attempts
          BY <1>0, <2>0, <4>1, SucceededRow
        <5> DEFINE R == [row EXCEPT ![m] = w]
        <5>2. R \in [Memory -> Row] /\ R[m] = w
          BY <1>0, <2>0
        <5>3. \A v : [R EXCEPT ![m] = v] = [row EXCEPT ![m] = v]
          BY <1>0, <2>0
        <5>4. row' = Upsert(R, m, text[m])
          BY <3>1, <5>1
        <5>6. R[m].status \in {"absent", "pending", "in_progress"} => R[m].attempts < MaxAttempts
          BY <5>1, <5>2
        <5> HIDE DEF R, m
        <5>5. PICK v \in Row :
                 /\ Upsert(R, m, text[m]) = [R EXCEPT ![m] = v]
                 /\ v.text = text[m] /\ v.until = 0 /\ v.attempts < MaxAttempts
                 /\ v.status \in {"pending", "in_progress"}
                 /\ v.attempts < R[m].attempts => v.status = "pending" /\ v.attempts = 0
          BY <1>0, <2>0, <3>2, <5>2, <5>6, UpsertRow
        <5> QED BY <5>1, <5>2, <5>3, <5>4, <5>5
      <4>2. CASE ~Held(row, c)
        <5>1. row' = Upsert(row, m, text[m])
          BY <3>1, <4>2 DEF MarkSucceeded
        <5>2. row[m].status \in {"absent", "pending", "in_progress"} =>
                 row[m].attempts < MaxAttempts
          BY <2>0 DEF IInv, OpenRows
        <5> HIDE DEF m
        <5> QED BY <1>0, <2>0, <3>2, <5>1, <5>2, UpsertRow
      <4> QED BY <4>1, <4>2
    <3>4. PICK v \in Row :
             /\ row' = [row EXCEPT ![m] = v]
             /\ v.text = text[m] /\ v.until = 0 /\ v.attempts < MaxAttempts
             /\ v.status \in {"pending", "in_progress"}
             /\ v.attempts < row[m].attempts => v.status = "pending" /\ v.attempts = 0
      BY <3>3
    <3>5. row'[m] = v /\ \A k \in Memory \ {m} : row'[k] = row[k]
      BY <1>0, <2>0, <3>4
    <3>6. row' \in [Memory -> Row] /\ OpenRows' /\ Texts' /\ DoneIsFresh'
      BY <2>0, <3>1, <3>2, <3>4, RowStep
    <3>7. Tokens' /\ claims' \in [Runner -> SUBSET Claim]
      BY <1>s, <2>0, <3>4, <3>5
    <3>8. Progress
      BY <1>p, <1>f, <3>1, <3>4, <3>5
    <3> QED BY <1>0, <2>0, <3>1, <3>6, <3>7, <3>8 DEF IInv, Behind
  <2>2. CASE ~(m \in Checked /\ c.text # text[m])
    <3>1. vec' = [vec EXCEPT ![m] = c.text] /\ row' = MarkSucceeded(row, c)
      BY <1>7, <2>2 DEF Applies
    <3>2. /\ vec' \in [Memory -> 0 .. MaxText] /\ vec'[m] = c.text
          /\ \A k \in Memory \ {m} : vec'[k] = vec[k]
      BY <1>0, <2>0, <3>1
    <3>3. \A k \in Checked : vec'[k] >= vec[k] /\ vec'[k] <= text[k]
      <4> SUFFICES ASSUME NEW k \in Checked PROVE vec'[k] >= vec[k] /\ vec'[k] <= text[k]
        OBVIOUS
      <4>1. vec[k] <= text[k] /\ vec[k] \in Nat /\ text[k] \in Nat
        BY <1>f, <1>k DEF IInv, Behind
      <4> QED BY <1>k, <2>2, <3>2, <4>1
    <3>4. \E v \in Row :
             /\ row' = [row EXCEPT ![m] = v] /\ v.text = row[m].text
             /\ v.attempts = row[m].attempts
             /\ \/ v = row[m] /\ ~Held(row, c)
                \/ v.status = "succeeded"
      <4>1. CASE Held(row, c)
        BY <1>0, <2>0, <3>1, <4>1, SucceededRow
      <4>2. CASE ~Held(row, c)
        <5>1. row' = [row EXCEPT ![m] = row[m]]
          BY <1>0, <2>0, <3>1, <4>2 DEF MarkSucceeded
        <5> QED BY <1>f, <2>0, <4>2, <5>1
      <4> QED BY <4>1, <4>2
    <3>5. PICK v \in Row :
             /\ row' = [row EXCEPT ![m] = v] /\ v.text = row[m].text
             /\ v.attempts = row[m].attempts
             /\ \/ v = row[m] /\ ~Held(row, c)
                \/ v.status = "succeeded"
      BY <3>4
    <3>6. row'[m] = v /\ \A k \in Memory \ {m} : row'[k] = row[k]
      BY <1>0, <2>0, <3>5
    <3>7. row' \in [Memory -> Row] /\ OpenRows' /\ Texts' /\ DoneIsFresh'
      <4>1. v.status \in {"absent", "pending", "in_progress"} => v.attempts < MaxAttempts
        BY <2>0, <3>5 DEF IInv, OpenRows
      <4>2. v.text <= text[m]
        BY <2>0, <3>5 DEF IInv, Texts
      <4>3. m \in Checked => vec'[m] >= v.text
        <5>1. m \in Checked => vec'[m] = text[m]
          BY <2>2, <3>2
        <5>2. v.text \in Nat /\ text[m] \in Nat
          BY <1>f, <2>0, <3>5
        <5> QED BY <4>2, <5>1, <5>2
      <4> QED BY <2>0, <3>2, <3>5, <4>1, <4>2, <4>3, RowStep
    <3>8. Tokens' /\ claims' \in [Runner -> SUBSET Claim]
      BY <1>s, <2>0, <3>5, <3>6
    <3>9. Progress
      <4>1. \A k \in Memory : ~(row'[k].attempts < row[k].attempts)
        BY <1>f, <3>5, <3>6
      <4> QED BY <3>3, <4>1 DEF Progress
    <3> QED BY <1>0, <2>0, <3>2, <3>3, <3>7, <3>8, <3>9 DEF Behind
  <2> QED BY <2>1, <2>2
<1>8. ASSUME NEW r \in Runner, NEW c \in claims[r], NEW final \in BOOLEAN,
             NEW delay \in Backoffs, Fails(r, c, final, delay)
      PROVE  Goal
  <2> DEFINE m == c.memory
             a == c.attempts + 1
  <2>0. /\ claims' = [claims EXCEPT ![r] = @ \ {c}] /\ text' = text /\ vec' = vec /\ Rest
        /\ m \in Memory /\ a \in 0 .. MaxAttempts /\ now + delay \in Nat
    BY <1>0, <1>c, <1>8, RetryAssumption DEF Fails
  <2>1. CASE ~Held(row, c)
    <3>1. row' = row
      BY <1>8, <2>1 DEF Fails
    <3>2. Tokens' /\ claims' \in [Runner -> SUBSET Claim]
      BY <1>s, <2>0, <2>1, <3>1
    <3>3. Progress
      BY <1>p, <1>f, <2>0, <3>1
    <3> QED BY <1>0, <2>0, <3>1, <3>2, <3>3 DEF IInv, OpenRows, Texts, Behind, DoneIsFresh
  <2>2. CASE Held(row, c)
    <3>1. \E v \in Row :
             /\ row' = [row EXCEPT ![m] = v] /\ v.text = row[m].text /\ v.attempts = a
             /\ v.status = "failed" \/ (v.status = "pending" /\ a < MaxAttempts)
      <4>1. CASE final \/ c.attempts + 1 >= MaxAttempts
        <5> DEFINE v == [row[m] EXCEPT !.status = "failed", !.until = 0, !.attempts = a]
        <5>1. row' = [row EXCEPT ![m] = v]
          BY <1>0, <1>8, <2>0, <2>2, <4>1 DEF Fails
        <5> HIDE DEF a
        <5>2. v \in Row /\ v.text = row[m].text /\ v.attempts = a /\ v.status = "failed"
          BY <1>f, <2>0 DEF Row
        <5> HIDE DEF v, m
        <5> QED BY <5>1, <5>2
      <4>2. CASE ~(final \/ c.attempts + 1 >= MaxAttempts)
        <5> DEFINE n == now + delay
                   v == [row[m] EXCEPT !.status = "pending", !.until = 0, !.attempts = a,
                                       !.next = n]
        <5>1. row' = [row EXCEPT ![m] = v]
          BY <1>0, <1>8, <2>0, <2>2, <4>2 DEF Fails
        <5>2. a < MaxAttempts
          BY <2>0, <4>2, RetryAssumption
        <5> HIDE DEF a, n
        <5>3. v \in Row /\ v.text = row[m].text /\ v.attempts = a /\ v.status = "pending"
          BY <1>f, <2>0 DEF Row, n
        <5> HIDE DEF v
        <5> QED BY <5>1, <5>2, <5>3
      <4> QED BY <4>1, <4>2
    <3>2. PICK v \in Row :
             /\ row' = [row EXCEPT ![m] = v] /\ v.text = row[m].text /\ v.attempts = a
             /\ v.status = "failed" \/ (v.status = "pending" /\ a < MaxAttempts)
      BY <3>1
    <3>3. row'[m] = v /\ \A k \in Memory \ {m} : row'[k] = row[k]
      BY <1>0, <2>0, <3>2
    <3>4. row' \in [Memory -> Row] /\ OpenRows' /\ Texts' /\ DoneIsFresh'
      <4>1. v.text <= text[m]
        BY <2>0, <3>2 DEF IInv, Texts
      <4> QED BY <2>0, <3>2, <4>1, RowStep
    <3>5. Tokens' /\ claims' \in [Runner -> SUBSET Claim]
      BY <1>s, <2>0, <3>2, <3>3
    <3>6. Progress
      <4>1. ~SameToken(m) => c.attempts = row[m].attempts
        BY <2>2 DEF IInv, Tokens, SameToken
      <4>2. ~SameToken(m) => ~(row'[m].attempts < row[m].attempts)
        BY <1>f, <2>0, <3>2, <3>3, <4>1
      <4>3. \A k \in Memory \ {m} : ~(row'[k].attempts < row[k].attempts)
        BY <1>f, <3>3
      <4> QED BY <1>f, <1>k, <2>0, <4>2, <4>3 DEF Progress
    <3> QED BY <1>0, <2>0, <3>4, <3>5, <3>6 DEF IInv, Behind
  <2> QED BY <2>1, <2>2
<1>9. CASE Tick
  <2>1. row' = row /\ text' = text /\ vec' = vec /\ claims' = claims /\ Rest
    BY <1>0, <1>9 DEF Tick
  <2>2. Tokens' /\ Progress
    BY <1>t, <1>p, <1>f, <2>1
  <2> QED BY <1>0, <2>1, <2>2 DEF IInv, OpenRows, Texts, Behind, DoneIsFresh
<1>10. CASE Crash
  <2>1. row' = row /\ text' = text /\ vec' = vec /\ Rest
    <3>1. /\ row' = row /\ text' = text /\ vec' = vec /\ now' = now /\ enqueues' = enqueues
          /\ crashes' = crashes + 1 /\ reconciled' = FALSE
      BY <1>10 DEF Crash
    <3>2. now' \in Nat /\ enqueues' \in Nat /\ crashes' \in Nat
      BY <1>0, <3>1
    <3>3. reconciled' \in BOOLEAN
      BY <3>1
    <3> QED BY <3>1, <3>2, <3>3
  <2>2. claims' \in [Runner -> SUBSET Claim] /\ \A r \in Runner : claims'[r] = {}
    BY <1>10 DEF Crash
  <2>3. Tokens'
    <3>1. \A r \in Runner : \A c \in claims'[r] : FALSE
      BY <2>2
    <3> QED BY <3>1 DEF Tokens
  <2>4. Progress
    BY <1>p, <1>f, <2>1
  <2> QED BY <1>0, <2>1, <2>2, <2>3, <2>4 DEF IInv, OpenRows, Texts, Behind, DoneIsFresh
<1>11. CASE UNCHANGED vars
  <2>1. row' = row /\ text' = text /\ vec' = vec /\ claims' = claims /\ Rest
    BY <1>0, <1>11 DEF vars
  <2>2. Tokens' /\ Progress
    BY <1>t, <1>p, <1>f, <2>1
  <2> QED BY <1>0, <2>1, <2>2 DEF IInv, OpenRows, Texts, Behind, DoneIsFresh
<1> QED BY <1>1, <1>2, <1>3, <1>4, <1>5, <1>6, <1>7, <1>8, <1>9, <1>10, <1>11
       DEF Next, Claims, Settles

\* The empty table satisfies the invariant.
LEMMA InitKeeps == Init => IInv
<1> SUFFICES ASSUME Init PROVE IInv
  OBVIOUS
<1> USE RetryAssumption DEF Init
<1>1. TypeOK
  <2>1. /\ row \in [Memory -> Row]
        /\ text \in [Memory -> 1 .. MaxText] /\ vec \in [Memory -> 0 .. MaxText]
        /\ claims \in [Runner -> SUBSET Claim]
        /\ now \in Nat /\ enqueues \in Nat /\ crashes \in Nat
    BY DEF Row
  <2>2. reconciled \in BOOLEAN
    OBVIOUS
  <2> QED BY <2>1, <2>2 DEF TypeOK
<1>2. OpenRows /\ Texts /\ Behind /\ DoneIsFresh
  BY DEF OpenRows, Texts, Behind, DoneIsFresh
<1>3. Tokens
  BY DEF Tokens
<1> QED BY <1>1, <1>2, <1>3 DEF IInv

LEMMA AlwaysKeeps == Spec => []IInv
<1>1. IInv /\ [Next]_vars => IInv'
  BY StepKeeps
<1> QED BY <1>1, InitKeeps, PTL DEF Spec

\* Rows and claims keep their types: a claim is only made while an attempt is
\* left, however enqueues, restarts and overlapping runs interleave.
THEOREM RetryTypeCorrect == Spec => []TypeOK
<1>1. IInv => TypeOK
  BY DEF IInv
<1> QED BY <1>1, AlwaysKeeps, PTL

\* applyEmbeddingRetryVector never counts the retry of a Skill or L3 memory as
\* done with a vector older than the text the retry asks for.
THEOREM DoneRetriesAreFresh == Spec => []DoneIsFresh
<1>1. IInv => DoneIsFresh
  BY DEF IInv
<1> QED BY <1>1, AlwaysKeeps, PTL

\* No run, late or not, takes the vector of a Skill or L3 memory back to an
\* older text.
THEOREM VectorsOnlyAdvance == Spec => VectorsAdvance
<1>1. IInv /\ [Next]_vars => [\A m \in Checked : vec'[m] >= vec[m]]_vars
  BY StepKeeps DEF Progress
<1> QED BY <1>1, AlwaysKeeps, PTL DEF Spec, VectorsAdvance

\* The token of the markEmbeddingRetry...Claimed statements keeps a run that
\* lost its claim from resetting the attempts counted since.
THEOREM AttemptsAreKept == Spec => AttemptsNeverLost
<1>1. IInv /\ [Next]_vars =>
         [\A m \in Memory : row'[m].attempts < row[m].attempts /\ ~SameToken(m) =>
             row'[m].status = "pending" /\ row'[m].attempts = 0]_vars
  BY StepKeeps DEF Progress
<1> QED BY <1>1, AlwaysKeeps, PTL DEF Spec, AttemptsNeverLost

=============================================================================
