------------------------ MODULE WorkMemoryFlushProofs ------------------------
(***************************************************************************)
(* For any sessions, timeouts and bounds: types, exactly-once extraction   *)
(* and complete extraction of closed sessions.  The three are inductive    *)
(* together once the flush row's attempts are known to stay in range while *)
(* the row is queued, failed or leased (FlushOK).                          *)
(***************************************************************************)
EXTENDS WorkMemoryFlush, TLAPS

Sessions == [open : BOOLEAN, head : 0 .. MaxTurns, lastAt : Nat, cursor : 0 .. MaxTurns]

FlushRow == [status : {"absent", "queued", "leased", "succeeded", "failed", "dead_letter"},
             runAfter : Nat, attempts : 0 .. MaxAttempts]

\* A lease has taken an attempt, so giving it back never goes below zero.
FlushOK == \A s \in Session : flush[s].status = "leased" => flush[s].attempts > 0

IInv == TypeOK /\ FlushOK /\ ExactlyOnce /\ ClosedExtracted

\* extractUnextracted on trace i keeps the books: the turns it passes are
\* extracted once, and the cursor reaches i without overtaking the head.
LEMMA ExtractOnce ==
    ASSUME IInv, NEW s \in Session, NEW i \in 0 .. session[s].head
    PROVE  /\ Extracted(s, i) \in [Session -> [Turn -> Nat]]
           /\ CursorAfter(s, i) \in 0 .. session[s].head
           /\ CursorAfter(s, i) >= i /\ CursorAfter(s, i) >= session[s].cursor
           /\ \A t \in Session \ {s} : Extracted(s, i)[t] = jobs[t]
           /\ \A k \in Turn :
                 /\ Extracted(s, i)[s][k] <= IF k <= CursorAfter(s, i) THEN 1 ELSE 0
                 /\ k <= CursorAfter(s, i) /\ Extracted(s, i)[s][k] = 0 => k \in hidden[s]
<1> DEFINE c == session[s].cursor
           h == session[s].head
           new == [k \in Turn |->
                      IF k \in Window(s, i) \ hidden[s] THEN jobs[s][k] + 1 ELSE jobs[s][k]]
<1>1. c \in 0 .. h /\ h \in 0 .. MaxTurns /\ c \in Nat /\ h \in Nat /\ i \in Nat
  BY FlushAssumption DEF IInv, TypeOK, ClosedExtracted
<1>2. jobs \in [Session -> [Turn -> Nat]]
  BY DEF IInv, TypeOK
<1>3. new \in [Turn -> Nat]
  BY <1>2
<1>4. Extracted(s, i) = [jobs EXCEPT ![s] = new]
  BY DEF Extracted
<1>5. \A k \in Turn : /\ jobs[s][k] \in Nat /\ k \in Nat
                      /\ jobs[s][k] <= IF k <= c THEN 1 ELSE 0
                      /\ k <= c /\ jobs[s][k] = 0 => k \in hidden[s]
  <2>1. \A k \in Turn : k \in Nat
    BY FlushAssumption DEF Turn
  <2>2. \A k \in Turn : jobs[s][k] \in Nat
    BY <1>2
  <2> QED BY <2>1, <2>2 DEF IInv, ExactlyOnce
<1>6. \A k \in Turn : k \in Window(s, i) <=> c < k /\ k <= i
  BY <1>1 DEF Window, Turn
<1>7. \A k \in Turn :
          /\ new[k] <= IF k <= CursorAfter(s, i) THEN 1 ELSE 0
          /\ k <= CursorAfter(s, i) /\ new[k] = 0 => k \in hidden[s]
  BY <1>1, <1>5, <1>6 DEF CursorAfter
<1>8. /\ CursorAfter(s, i) \in 0 .. h /\ CursorAfter(s, i) >= i
      /\ CursorAfter(s, i) >= c
  BY <1>1 DEF CursorAfter
<1> QED BY <1>2, <1>3, <1>4, <1>7, <1>8

\* An action that extracts through trace i and moves the cursor, and possibly
\* closes the session after extracting everything; v is the new session row.
LEMMA ExtractStep ==
    ASSUME IInv, NEW s \in Session, NEW i \in 0 .. session[s].head, NEW v \in Sessions,
           v.head = session[s].head, v.cursor = CursorAfter(s, i),
           v.open \/ i = session[s].head \/ ~session[s].open,
           jobs' = Extracted(s, i), session' = [session EXCEPT ![s] = v], hidden' = hidden
    PROVE  /\ session' \in [Session -> Sessions] /\ jobs' \in [Session -> [Turn -> Nat]]
           /\ ExactlyOnce' /\ ClosedExtracted'
<1>1. session \in [Session -> Sessions] /\ jobs \in [Session -> [Turn -> Nat]]
  BY DEF IInv, TypeOK, Sessions
<1>2. /\ session[s] \in Sessions /\ session[s].head \in 0 .. MaxTurns
      /\ session[s].cursor \in 0 .. MaxTurns
      /\ session[s].cursor <= session[s].head
      /\ ~session[s].open => session[s].cursor = session[s].head
  BY <1>1 DEF Sessions, IInv, ClosedExtracted
<1> DEFINE c == CursorAfter(s, i)
<1>3. /\ c \in 0 .. session[s].head /\ c >= i /\ c >= session[s].cursor
      /\ \A t \in Session \ {s} : jobs'[t] = jobs[t]
      /\ \A k \in Turn : /\ jobs'[s][k] <= IF k <= c THEN 1 ELSE 0
                         /\ k <= c /\ jobs'[s][k] = 0 => k \in hidden[s]
      /\ jobs' \in [Session -> [Turn -> Nat]]
  BY ExtractOnce
<1>4. v.cursor = c
  OBVIOUS
<1> HIDE DEF c
<1>6. session' \in [Session -> Sessions] /\ session'[s] = v
      /\ \A t \in Session \ {s} : session'[t] = session[t]
  BY <1>1
<1>7. ExactlyOnce'
  <2> SUFFICES ASSUME NEW t \in Session, NEW k \in Turn
               PROVE  /\ jobs'[t][k] <= IF k <= session'[t].cursor THEN 1 ELSE 0
                      /\ k <= session'[t].cursor /\ jobs'[t][k] = 0 => k \in hidden'[t]
    BY DEF ExactlyOnce
  <2>1. CASE t = s
    BY <1>3, <1>4, <1>6, <2>1
  <2>2. CASE t # s
    BY <1>3, <1>6, <2>2 DEF IInv, ExactlyOnce
  <2> QED BY <2>1, <2>2
<1>8. ClosedExtracted'
  <2> SUFFICES ASSUME NEW t \in Session
               PROVE  /\ session'[t].cursor <= session'[t].head
                      /\ ~session'[t].open => session'[t].cursor = session'[t].head
    BY DEF ClosedExtracted
  <2>1. CASE t = s
    <3>1. session[s].head \in Nat /\ session[s].cursor \in Nat /\ c \in Nat /\ c <= session[s].head
      BY <1>2, <1>3, FlushAssumption
    <3>2. v.open \/ c = session[s].head
      BY <1>2, <1>3, <3>1
    <3> QED BY <1>4, <1>6, <2>1, <3>1, <3>2
  <2>2. CASE t # s
    BY <1>6, <2>2 DEF IInv, ClosedExtracted
  <2> QED BY <2>1, <2>2
<1> QED BY <1>3, <1>6, <1>7, <1>8

\* Every action preserves the invariant.
LEMMA StepKeeps ==
    ASSUME IInv, [Next]_vars
    PROVE  IInv'
<1> USE DEF IInv
<1>0. /\ now \in Nat /\ session \in [Session -> Sessions]
      /\ hidden \in [Session -> SUBSET Turn] /\ jobs \in [Session -> [Turn -> Nat]]
      /\ flush \in [Session -> FlushRow] /\ held \subseteq Session
      /\ armed \in [Session -> 0 .. MaxTurns] /\ crashes \in Nat
  BY DEF TypeOK, Sessions, FlushRow
<1> DEFINE Rest == /\ now' \in Nat /\ hidden' \in [Session -> SUBSET Turn]
                   /\ held' \subseteq Session /\ armed' \in [Session -> 0 .. MaxTurns]
                   /\ crashes' \in Nat
           Books == /\ session' \in [Session -> Sessions] /\ jobs' \in [Session -> [Turn -> Nat]]
                    /\ ExactlyOnce' /\ ClosedExtracted'
           Rows == flush' \in [Session -> FlushRow] /\ FlushOK'
<1>g. SUFFICES Rest /\ Books /\ Rows
  BY DEF TypeOK, Sessions, FlushRow
<1>b. ASSUME session' = session, jobs' = jobs, hidden' = hidden
      PROVE  Books
  BY <1>0, <1>b DEF ExactlyOnce, ClosedExtracted
<1>r. ASSUME flush' = flush
      PROVE  Rows
  BY <1>0, <1>r DEF FlushOK
<1>a. ASSUME NEW s \in Session, NEW row \in FlushRow, flush' = [flush EXCEPT ![s] = row],
             row.status = "leased" => row.attempts > 0
      PROVE  Rows
  BY <1>0, <1>a DEF FlushOK
<1>f. \A s \in Session : /\ flush[s] \in FlushRow /\ flush[s].attempts \in 0 .. MaxAttempts
                         /\ flush[s].status = "leased" => flush[s].attempts > 0
                         /\ session[s] \in Sessions /\ session[s].lastAt \in Nat
                         /\ session[s].head \in 0 .. MaxTurns /\ session[s].head \in Nat
                         /\ session[s].cursor \in 0 .. MaxTurns
  BY <1>0, FlushAssumption DEF FlushRow, FlushOK, Sessions
<1>1. ASSUME NEW s \in Session, NEW age \in Ages, NEW endTopic \in BOOLEAN,
             CompleteTurn(s, age, endTopic)
      PROVE  Rest /\ Books /\ Rows
  <2> DEFINE v == [session[s] EXCEPT !.head = @ + 1, !.lastAt = now - age]
  <2>1. now - age \in Nat /\ now - age + IdleTimeout \in Nat
    BY <1>0, <1>1, FlushAssumption DEF CompleteTurn
  <2>2. session[s].head + 1 \in 0 .. MaxTurns /\ session[s].open
    BY <1>f, <1>1, FlushAssumption DEF CompleteTurn
  <2>3. /\ v \in Sessions /\ v.open = session[s].open /\ v.cursor = session[s].cursor
        /\ v.head = session[s].head + 1
    BY <1>f, <2>1, <2>2 DEF Sessions
  <2>4. session' = [session EXCEPT ![s] = v]
    BY <1>0, <1>1 DEF CompleteTurn
  <2> HIDE DEF v
  <2>5. Books
    <3>1. session' \in [Session -> Sessions] /\ session'[s] = v
          /\ \A t \in Session \ {s} : session'[t] = session[t]
      BY <1>0, <2>3, <2>4
    <3>2. jobs' = jobs /\ hidden' = hidden
      BY <1>1 DEF CompleteTurn
    <3>3. ExactlyOnce'
      <4>1. \A t \in Session : session'[t].cursor = session[t].cursor
        BY <2>3, <3>1
      <4> QED BY <3>2, <4>1 DEF ExactlyOnce
    <3>4. ClosedExtracted'
      <4> SUFFICES ASSUME NEW t \in Session
                   PROVE  /\ session'[t].cursor <= session'[t].head
                          /\ ~session'[t].open => session'[t].cursor = session'[t].head
        BY DEF ClosedExtracted
      <4>1. CASE t = s
        <5>1. /\ session'[t].open /\ session'[t].cursor = session[s].cursor
              /\ session'[t].head = session[s].head + 1
          BY <2>2, <2>3, <3>1, <4>1
        <5>2. /\ session[s].cursor <= session[s].head /\ session[s].head \in Nat
              /\ session[s].cursor \in Nat
          BY <1>f, FlushAssumption DEF ClosedExtracted
        <5> QED BY <5>1, <5>2
      <4>2. CASE t # s
        BY <3>1, <4>2 DEF ClosedExtracted
      <4> QED BY <4>1, <4>2
    <3> QED BY <1>0, <3>1, <3>2, <3>3, <3>4
  <2>6. Rows
    <3>1. CASE endTopic
      BY <1>r, <1>1, <3>1 DEF CompleteTurn
    <3>2. CASE ~endTopic
      <4> DEFINE row == Armed(now - age)
      <4>1. row \in FlushRow /\ row.status = "queued"
        BY <2>1, FlushAssumption DEF Armed, FlushRow
      <4>2. flush' = [flush EXCEPT ![s] = row]
        BY <1>1, <3>2 DEF CompleteTurn
      <4> HIDE DEF row
      <4> QED BY <1>a, <4>1, <4>2
    <3> QED BY <3>1, <3>2
  <2>7. Rest
    BY <1>0, <1>1, <2>2 DEF CompleteTurn
  <2> QED BY <2>5, <2>6, <2>7
<1>2. ASSUME NEW s \in Session, NEW i \in Turn, HideTurn(s, i)
      PROVE  Rest /\ Books /\ Rows
  <2>1. Books
    BY <1>0, <1>2 DEF HideTurn, ExactlyOnce, ClosedExtracted
  <2>2. Rows
    BY <1>2, <1>r DEF HideTurn
  <2> QED BY <1>0, <1>2, <2>1, <2>2 DEF HideTurn
<1>3. ASSUME NEW s \in Session, NEW i \in Turn, Compact(s, i)
      PROVE  Rest /\ Books /\ Rows
  <2> DEFINE v == [session[s] EXCEPT !.cursor = CursorAfter(s, i)]
  <2>1. i \in 0 .. session[s].head
    BY <1>3, <1>f DEF Compact
  <2>2. CursorAfter(s, i) \in 0 .. MaxTurns
    BY <1>f, <2>1, FlushAssumption DEF CursorAfter
  <2>3. /\ v \in Sessions /\ v.head = session[s].head /\ v.open = session[s].open
        /\ v.cursor = CursorAfter(s, i)
    BY <1>f, <2>2 DEF Sessions
  <2>4. session' = [session EXCEPT ![s] = v]
    BY <1>0, <1>3 DEF Compact
  <2> HIDE DEF v
  <2>5. jobs' = Extracted(s, i) /\ hidden' = hidden
    BY <1>3 DEF Compact
  <2>6. session[s].open \in BOOLEAN
    BY <1>f DEF Sessions
  <2>7. Books
    BY <2>1, <2>3, <2>4, <2>5, <2>6, ExtractStep
  <2>8. Rows
    BY <1>3, <1>r DEF Compact
  <2> QED BY <1>0, <1>3, <2>7, <2>8 DEF Compact
<1>4. ASSUME NEW s \in Session, CloseSession(s)
      PROVE  Rest /\ Books /\ Rows
  <2> DEFINE h == session[s].head
             v == [session[s] EXCEPT !.open = FALSE, !.cursor = CursorAfter(s, h)]
  <2>1. h \in 0 .. session[s].head /\ CursorAfter(s, h) \in 0 .. MaxTurns
    BY <1>f DEF CursorAfter
  <2>2. v \in Sessions /\ v.head = session[s].head /\ v.cursor = CursorAfter(s, h)
    BY <1>f, <2>1 DEF Sessions
  <2>3. session' = [session EXCEPT ![s] = v]
    BY <1>0, <1>4 DEF CloseSession
  <2> HIDE DEF v
  <2>4. jobs' = Extracted(s, h) /\ hidden' = hidden
    BY <1>4 DEF CloseSession
  <2>5. Books
    BY <2>1, <2>2, <2>3, <2>4, ExtractStep
  <2>6. Rows
    BY <1>4, <1>r DEF CloseSession
  <2> QED BY <1>0, <1>4, <2>5, <2>6 DEF CloseSession
<1>5. ASSUME NEW s \in Session, LeaseFlush(s)
      PROVE  Rest /\ Books /\ Rows
  <2> DEFINE row == [flush[s] EXCEPT !.status = "leased", !.attempts = @ + 1]
  <2>1. flush[s].attempts + 1 \in 0 .. MaxAttempts /\ flush[s].attempts + 1 > 0
    BY <1>f, <1>5, FlushAssumption DEF LeaseFlush
  <2>2. row \in FlushRow /\ row.attempts > 0
    BY <1>f, <2>1 DEF FlushRow
  <2>3. flush' = [flush EXCEPT ![s] = row]
    BY <1>0, <1>5 DEF LeaseFlush
  <2> HIDE DEF row
  <2>4. Rows
    BY <1>a, <2>2, <2>3
  <2>5. Books
    BY <1>5, <1>b DEF LeaseFlush
  <2> QED BY <1>0, <1>5, <2>4, <2>5 DEF LeaseFlush
<1>6. ASSUME NEW s \in Session, GiveBack(s)
      PROVE  Rest /\ Books /\ Rows
  <2>1. Rows
    <3>1. CASE flush[s].status = "leased"
      <4> DEFINE row == [flush[s] EXCEPT !.status = "queued", !.attempts = @ - 1]
      <4>1. flush[s].attempts - 1 \in 0 .. MaxAttempts
        BY <1>f, <3>1, FlushAssumption
      <4>2. row \in FlushRow /\ row.status = "queued"
        BY <1>f, <4>1 DEF FlushRow
      <4>3. flush' = [flush EXCEPT ![s] = row]
        BY <1>0, <1>6, <3>1 DEF GiveBack
      <4> HIDE DEF row
      <4> QED BY <1>a, <4>2, <4>3
    <3>2. CASE flush[s].status # "leased"
      BY <1>6, <1>r, <3>2 DEF GiveBack
    <3> QED BY <3>1, <3>2
  <2>2. Books
    BY <1>6, <1>b DEF GiveBack
  <2> QED BY <1>0, <1>6, <2>1, <2>2 DEF GiveBack
<1>7. ASSUME NEW s \in Session, FlushIdle(s)
      PROVE  Rest /\ Books /\ Rows
  <2>1. Books
    <3>1. CASE session[s].open /\ Quiet(s)
      <4> DEFINE h == session[s].head
                 v == [session[s] EXCEPT !.cursor = CursorAfter(s, h)]
      <4>1. h \in 0 .. session[s].head /\ CursorAfter(s, h) \in 0 .. MaxTurns
        BY <1>f DEF CursorAfter
      <4>2. v \in Sessions /\ v.head = session[s].head /\ v.cursor = CursorAfter(s, h)
        BY <1>f, <4>1 DEF Sessions
      <4>3. session' = [session EXCEPT ![s] = v]
        BY <1>0, <1>7, <3>1 DEF FlushIdle
      <4> HIDE DEF v
      <4>4. jobs' = Extracted(s, h) /\ hidden' = hidden
        BY <1>7, <3>1 DEF FlushIdle
      <4> QED BY <4>1, <4>2, <4>3, <4>4, ExtractStep
    <3>2. CASE ~(session[s].open /\ Quiet(s))
      BY <1>7, <1>b, <3>2 DEF FlushIdle
    <3> QED BY <3>1, <3>2
  <2>2. Rows
    <3> DEFINE old == IF session[s].open /\ ~Quiet(s) THEN Armed(session[s].lastAt) ELSE flush[s]
               row == [old EXCEPT !.status = "succeeded"]
    <3>1. session[s].lastAt + IdleTimeout \in Nat
      BY <1>f, FlushAssumption
    <3>2. Armed(session[s].lastAt) \in FlushRow
      BY <3>1, FlushAssumption DEF Armed, FlushRow
    <3>3. old \in FlushRow
      BY <1>f, <3>2
    <3>4. flush' = [flush EXCEPT ![s] = row]
      BY <1>7 DEF FlushIdle
    <3> HIDE DEF old
    <3>5. row \in FlushRow /\ row.status = "succeeded"
      BY <3>3 DEF FlushRow
    <3> HIDE DEF row
    <3> QED BY <1>a, <3>4, <3>5
  <2> QED BY <1>0, <1>7, <2>1, <2>2 DEF FlushIdle
<1>8. ASSUME NEW s \in Session, FlushFails(s)
      PROVE  Rest /\ Books /\ Rows
  <2>1. Rows
    <3>1. CASE flush[s].status = "dead_letter"
      BY <1>8, <1>r, <3>1 DEF FlushFails
    <3>2. CASE flush[s].status # "dead_letter"
      <4> DEFINE st == IF flush[s].attempts >= MaxAttempts THEN "dead_letter" ELSE "failed"
                 row == [flush[s] EXCEPT !.status = st]
      <4>1. flush' = [flush EXCEPT ![s] = row]
        BY <1>0, <1>8, <3>2 DEF FlushFails
      <4>2. st \in {"failed", "dead_letter"}
        OBVIOUS
      <4> HIDE DEF st
      <4>3. row \in FlushRow /\ row.status # "leased"
        BY <1>f, <4>2 DEF FlushRow
      <4> HIDE DEF row
      <4> QED BY <1>a, <4>1, <4>3
    <3> QED BY <3>1, <3>2
  <2>2. Books
    BY <1>8, <1>b DEF FlushFails
  <2> QED BY <1>0, <1>8, <2>1, <2>2 DEF FlushFails
<1>9. ASSUME NEW s \in Session, RetryFlush(s)
      PROVE  Rest /\ Books /\ Rows
  <2> DEFINE row == [flush[s] EXCEPT !.status = "queued"]
  <2>1. row \in FlushRow /\ row.status = "queued"
    BY <1>f DEF FlushRow
  <2>2. flush' = [flush EXCEPT ![s] = row]
    BY <1>0, <1>9 DEF RetryFlush
  <2> HIDE DEF row
  <2>3. Rows
    BY <1>a, <2>1, <2>2
  <2>4. Books
    BY <1>9, <1>b DEF RetryFlush
  <2> QED BY <1>0, <1>9, <2>3, <2>4 DEF RetryFlush
<1>10. CASE Tick
  <2>1. Books /\ Rows
    BY <1>10, <1>b, <1>r DEF Tick
  <2> QED BY <1>0, <1>10, <2>1 DEF Tick
<1>11. CASE Restart
  <2>1. Books
    BY <1>11, <1>b DEF Restart
  <2>2. \A s \in Session : flush'[s] \in FlushRow /\ flush'[s].status # "leased"
    <3> SUFFICES ASSUME NEW s \in Session
                 PROVE  flush'[s] \in FlushRow /\ flush'[s].status # "leased"
      OBVIOUS
    <3>1. CASE flush[s].status = "leased"
      <4>1. flush[s].attempts - 1 \in 0 .. MaxAttempts
        BY <1>f, <3>1, FlushAssumption
      <4>2. flush'[s] = [flush[s] EXCEPT !.status = "queued", !.attempts = @ - 1]
        BY <1>11, <3>1 DEF Restart
      <4> QED BY <1>f, <4>1, <4>2 DEF FlushRow
    <3>2. CASE flush[s].status # "leased"
      BY <1>11, <1>f, <3>2 DEF Restart
    <3> QED BY <3>1, <3>2
  <2>3. flush' \in [Session -> FlushRow]
    <3>1. flush' = [s \in Session |-> flush'[s]]
      BY <1>11 DEF Restart
    <3> QED BY <2>2, <3>1
  <2>4. Rows
    BY <2>2, <2>3 DEF FlushOK
  <2>5. Rest
    <3>1. now' = now /\ hidden' = hidden /\ held' = {} /\ armed' = armed /\ crashes' = crashes + 1
      BY <1>11 DEF Restart
    <3> QED BY <1>0, <3>1
  <2> QED BY <2>1, <2>4, <2>5
<1>12. CASE UNCHANGED vars
  <2>1. Books /\ Rows
    BY <1>12, <1>b, <1>r DEF vars
  <2> QED BY <1>0, <1>12, <2>1 DEF vars
<1> QED BY <1>1, <1>2, <1>3, <1>4, <1>5, <1>6, <1>7, <1>8, <1>9, <1>10, <1>11, <1>12 DEF Next

\* The empty store satisfies the invariant.
LEMMA InitKeeps == Init => IInv
<1> SUFFICES ASSUME Init PROVE IInv
  OBVIOUS
<1> USE FlushAssumption DEF Init
<1>1. TypeOK
  BY DEF TypeOK
<1>2. FlushOK /\ ClosedExtracted
  BY DEF FlushOK, ClosedExtracted
<1>3. ExactlyOnce
  <2>1. \A s \in Session, i \in Turn : /\ jobs[s][i] = 0 /\ session[s].cursor = 0
                                       /\ i \in Nat /\ ~(i <= 0)
    BY DEF Turn
  <2> QED BY <2>1 DEF ExactlyOnce
<1> QED BY <1>1, <1>2, <1>3 DEF IInv

LEMMA AlwaysKeeps == Spec => []IInv
<1>1. IInv /\ [Next]_vars => IInv'
  BY StepKeeps
<1> QED BY <1>1, InitKeeps, PTL DEF Spec

\* Session rows, extraction counts and flush rows keep their types: in
\* particular giving a flush lease back (requeueUnstartedLeasedJobs, restart)
\* never takes its attempts below zero.
THEOREM FlushTypeCorrect == Spec => []TypeOK
<1>1. IInv => TypeOK
  BY DEF IInv
<1> QED BY <1>1, AlwaysKeeps, PTL

\* extractUnextracted puts every turn into exactly one extraction job as the
\* cursor passes it, for any number of sessions, turns, crashes and retries.
THEOREM ExtractedExactlyOnce == Spec => []ExactlyOnce
<1>1. IInv => ExactlyOnce
  BY DEF IInv
<1> QED BY <1>1, AlwaysKeeps, PTL

\* closeSession leaves no turn of the session behind its cursor.
THEOREM ClosedSessionsExtracted == Spec => []ClosedExtracted
<1>1. IInv => ClosedExtracted
  BY DEF IInv
<1> QED BY <1>1, AlwaysKeeps, PTL

=============================================================================
