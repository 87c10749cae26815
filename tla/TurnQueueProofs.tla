--------------------------- MODULE TurnQueueProofs ---------------------------
(* Theorems about TurnQueue, for every set of messages and every number of      *)
(* crashes: no message is recorded twice, and the queue implements the ledger.  *)
(* Each action gets a lemma that says that it keeps the invariant and what it   *)
(* is in terms of the ledger: a step that loses, records, promises or sends.    *)
EXTENDS TurnQueue, LeastNumber, FiniteSetTheorems, SequenceTheorems, TLAPS

\* The messages that a line holds, and that it holds each of them once.
QueuedIn(l) == {l[i].msg : i \in {k \in DOMAIN l : l[k].st # "gone"}}
Unique(l) == \A i, j \in DOMAIN l :
    l[i].st # "gone" /\ l[j].st # "gone" /\ l[i].msg = l[j].msg => i = j

Rooted(m) == root = m /\ phase \in {"start", "build"}

\* A message is in one place of the memory.
Places(m) ==
    /\ bus[m] # "none" => m \notin Queued /\ m \notin pending /\ m \notin injected /\ ~Rooted(m)
    /\ m \in Queued => m \notin pending /\ m \notin injected /\ ~Rooted(m)
    /\ m \in pending => m \notin injected /\ ~Rooted(m)
    /\ m \in injected => ~Rooted(m)

\* A recorded message is in none, and if it has a transfer it was recorded for it.
Out(m) == Recorded(m) =>
    /\ ~Held(m)
    /\ HasTransfer(m) => Persisted(m, transfer[m].turn)

\* An admission is one of the running turn, for whose end the message waits.
Admitted(m) == admission[m] # "none" =>
    /\ transfer[m].turn = root /\ phase \in {"run", "final", "save", "finalize"}
    /\ m \notin Queued /\ bus[m] = "none" /\ (phase = "finalize" => m \notin pending)
    /\ admission[m] = "consumed" => transfer[m].consumed

\* What waits elsewhere in memory, except in the queue, has no transfer.
Bare(m) ==
    bus[m] # "none" \/ ((m \in pending \/ m \in injected) /\ admission[m] = "none") => ~HasTransfer(m)

Recovering(m) == recovering[m] # "no" => HasTransfer(m) /\ ~Held(m) /\ admission[m] = "none"

Known(m) == Held(m) \/ HasTransfer(m) \/ Recorded(m) => m \in sent

MsgOK(m) == Places(m) /\ Out(m) /\ Admitted(m) /\ Bare(m) /\ Recovering(m) /\ Known(m)

Turn ==
    /\ root = NoMsg <=> phase = "idle"
    /\ phase \notin {"run", "final", "save"} => injected = {}

IInv == TypeOK /\ Unique(line) /\ Turn /\ AtMostOnce /\ \A m \in Msg : MsgOK(m)

-------------------------------------------------------------------------------
(* The line of the lock *)

\* The queue of the model is the queue of its line.
LEMMA QueuedIsIn == Queued = QueuedIn(line)
BY DEF Queued, Waiting, QueuedIn

\* Where a waiter is inserted.
LEMMA IndexType ==
    ASSUME NEW l \in Seq(Waiter), NEW p \in Nat
    PROVE  Index(l, p) \in 1..Len(l) + 1
<1> DEFINE S == {i \in DOMAIN l : \A j \in 1..i : l[j].at <= p}
<1>1. Len(l) \in Nat /\ DOMAIN l = 1..Len(l)
  OBVIOUS
<1>2. IsFiniteSet(1..Len(l)) /\ Cardinality(1..Len(l)) = Len(l)
  BY <1>1, FS_Interval
<1>3. S \in SUBSET (1..Len(l))
  BY <1>1
<1>4. IsFiniteSet(S) /\ Cardinality(S) <= Cardinality(1..Len(l))
  BY <1>2, <1>3, FS_Subset
<1>5. Cardinality(S) \in Nat
  BY <1>4, FS_CardinalityType
<1> HIDE DEF S
<1>6. Cardinality(S) + 1 \in 1..Len(l) + 1
  BY <1>1, <1>2, <1>4, <1>5
<1> QED BY <1>6 DEF Index, S

\* A waiter is added, the others keep their order.
LEMMA InsertFacts ==
    ASSUME NEW l \in Seq(Waiter), NEW m \in Msg, NEW p \in Nat
    PROVE  /\ Insert(l, m, p) \in Seq(Waiter)
           /\ QueuedIn(Insert(l, m, p)) = QueuedIn(l) \cup {m}
           /\ Unique(l) /\ m \notin QueuedIn(l) => Unique(Insert(l, m, p))
<1> DEFINE k == Index(l, p)
           w == NewWaiter(m, p)
           n == Insert(l, m, p)
<1>1. Len(l) \in Nat /\ DOMAIN l = 1..Len(l) /\ \A i \in 1..Len(l) : l[i] \in Waiter
  OBVIOUS
<1>2. k \in 1..Len(l) + 1
  BY IndexType
<1>3. w \in Waiter /\ w.st = "live" /\ w.msg = m
  BY DEF NewWaiter, Waiter
<1>4. n = [i \in 1..Len(l) + 1 |-> IF i < k THEN l[i] ELSE IF i = k THEN w ELSE l[i - 1]]
  BY DEF Insert, InsertAt
<1> HIDE DEF k, w, n
<1>5. DOMAIN n = 1..Len(l) + 1
  BY <1>4
<1>6. /\ \A i \in 1..Len(l) : i < k => n[i] = l[i]
      /\ n[k] = w
      /\ \A i \in 1..Len(l) : ~(i < k) => n[i + 1] = l[i]
  BY <1>1, <1>2, <1>4
<1>7. \A i \in 1..Len(l) + 1 : \/ i < k /\ i \in 1..Len(l) /\ n[i] = l[i]
                               \/ i = k
                               \/ i > k /\ i - 1 \in 1..Len(l) /\ n[i] = l[i - 1]
  BY <1>1, <1>2, <1>4
<1>8. n \in Seq(Waiter)
  <2>1. \A i \in 1..Len(l) + 1 : n[i] \in Waiter
    BY <1>1, <1>3, <1>6, <1>7
  <2>2. n \in [1..Len(l) + 1 -> Waiter]
    BY <1>4, <2>1
  <2> QED BY <1>1, <2>2
<1>9. QueuedIn(n) = QueuedIn(l) \cup {m}
  <2>1. ASSUME NEW x \in QueuedIn(n) PROVE x \in QueuedIn(l) \cup {m}
    <3>1. PICK i \in 1..Len(l) + 1 : n[i].st # "gone" /\ n[i].msg = x
      BY <1>5, <2>1 DEF QueuedIn
    <3> QED BY <1>1, <1>3, <1>6, <1>7, <3>1 DEF QueuedIn
  <2>2. ASSUME NEW x \in QueuedIn(l) PROVE x \in QueuedIn(n)
    <3>1. PICK i \in 1..Len(l) : l[i].st # "gone" /\ l[i].msg = x
      BY <1>1, <2>2 DEF QueuedIn
    <3>2. i + 1 \in 1..Len(l) + 1 /\ i \in 1..Len(l) + 1
      BY <1>1
    <3>3. n[i] = l[i] \/ n[i + 1] = l[i]
      BY <1>6
    <3> QED BY <1>5, <3>1, <3>2, <3>3 DEF QueuedIn
  <2>3. m \in QueuedIn(n)
    BY <1>2, <1>3, <1>5, <1>6 DEF QueuedIn
  <2> QED BY <2>1, <2>2, <2>3
<1>10. Unique(l) /\ m \notin QueuedIn(l) => Unique(n)
  <2> SUFFICES ASSUME Unique(l), m \notin QueuedIn(l),
                      NEW i \in 1..Len(l) + 1, NEW j \in 1..Len(l) + 1,
                      n[i].st # "gone", n[j].st # "gone", n[i].msg = n[j].msg
               PROVE  i = j
    BY <1>5 DEF Unique
  <2>1. \A a \in 1..Len(l) : l[a].st # "gone" => l[a].msg # m
    BY <1>1 DEF QueuedIn
  <2>2. \A a, b \in 1..Len(l) : l[a].st # "gone" /\ l[b].st # "gone" /\ l[a].msg = l[b].msg => a = b
    BY <1>1 DEF Unique
  <2>3. (i = k <=> n[i].msg = m) /\ (j = k <=> n[j].msg = m)
    BY <1>3, <1>6, <1>7, <2>1
  <2>4. CASE i = k
    BY <2>3, <2>4
  <2>5. CASE i # k
    <3>1. j # k
      BY <2>3, <2>5
    <3>2. PICK a \in 1..Len(l) : n[i] = l[a] /\ ((i < k /\ a = i) \/ (i > k /\ a = i - 1))
      BY <1>7, <2>5
    <3>3. PICK b \in 1..Len(l) : n[j] = l[b] /\ ((j < k /\ b = j) \/ (j > k /\ b = j - 1))
      BY <1>7, <3>1
    <3>4. a = b
      BY <2>2, <3>2, <3>3
    <3> QED BY <1>1, <1>2, <3>2, <3>3, <3>4
  <2> QED BY <2>4, <2>5
<1> QED BY <1>8, <1>9, <1>10 DEF n

\* The head of the line is taken off.
LEMMA TailFacts ==
    ASSUME NEW l \in Seq(Waiter), l # <<>>, Unique(l)
    PROVE  /\ Head(l) \in Waiter /\ Tail(l) \in Seq(Waiter) /\ Unique(Tail(l))
           /\ QueuedIn(Tail(l)) \subseteq QueuedIn(l)
           /\ QueuedIn(l) \subseteq QueuedIn(Tail(l)) \cup {Head(l).msg}
           /\ Head(l).st = "gone" => QueuedIn(Tail(l)) = QueuedIn(l)
           /\ Head(l).st # "gone" => Head(l).msg \in QueuedIn(l) /\ Head(l).msg \notin QueuedIn(Tail(l))
<1> DEFINE t == Tail(l)
<1>1. /\ Len(l) \in Nat /\ Len(l) > 0 /\ DOMAIN l = 1..Len(l)
      /\ Head(l) = l[1] /\ Head(l) \in Waiter
      /\ t \in Seq(Waiter) /\ Len(t) = Len(l) - 1 /\ DOMAIN t = 1..Len(l) - 1
      /\ \A i \in 1..Len(l) - 1 : t[i] = l[i + 1]
  OBVIOUS
<1> HIDE DEF t
<1>2. \A a, b \in 1..Len(l) : l[a].st # "gone" /\ l[b].st # "gone" /\ l[a].msg = l[b].msg => a = b
  BY <1>1 DEF Unique
<1>3. \A i \in 1..Len(l) - 1 : i + 1 \in 1..Len(l) /\ i + 1 # 1
  BY <1>1
<1>4. Unique(t)
  <2> SUFFICES ASSUME NEW i \in 1..Len(l) - 1, NEW j \in 1..Len(l) - 1,
                      t[i].st # "gone", t[j].st # "gone", t[i].msg = t[j].msg
               PROVE  i = j
    BY <1>1 DEF Unique
  <2>1. i + 1 = j + 1
    BY <1>1, <1>2, <1>3
  <2> QED BY <1>1, <2>1
<1>5. ASSUME NEW x \in QueuedIn(t) PROVE x \in QueuedIn(l) /\ (Head(l).st # "gone" => x # Head(l).msg)
  <2>1. PICK i \in 1..Len(l) - 1 : t[i].st # "gone" /\ t[i].msg = x
    BY <1>1, <1>5 DEF QueuedIn
  <2>2. l[i + 1].st # "gone" /\ l[i + 1].msg = x /\ i + 1 \in 1..Len(l) /\ i + 1 # 1
    BY <1>1, <1>3, <2>1
  <2>3. 1 \in 1..Len(l)
    BY <1>1
  <2> QED BY <1>1, <1>2, <2>2, <2>3 DEF QueuedIn
<1>6. ASSUME NEW x \in QueuedIn(l)
      PROVE  x \in QueuedIn(t) \/ (x = Head(l).msg /\ Head(l).st # "gone")
  <2>1. PICK i \in 1..Len(l) : l[i].st # "gone" /\ l[i].msg = x
    BY <1>1, <1>6 DEF QueuedIn
  <2>2. CASE i = 1
    BY <1>1, <2>1, <2>2
  <2>3. CASE i # 1
    <3>1. i - 1 \in 1..Len(l) - 1 /\ t[i - 1] = l[i]
      BY <1>1, <2>3
    <3> QED BY <1>1, <2>1, <3>1 DEF QueuedIn
  <2> QED BY <2>2, <2>3
<1>7. Head(l).st # "gone" => Head(l).msg \in QueuedIn(l)
  BY <1>1 DEF QueuedIn
<1> QED BY <1>1, <1>4, <1>5, <1>6, <1>7 DEF t

\* Waiters change their state: none comes back.
LEMMA MarkFacts ==
    ASSUME NEW l \in Seq(Waiter), NEW n, Unique(l), DOMAIN n = DOMAIN l, n \in Seq(Waiter),
           \A i \in DOMAIN l : n[i].msg = l[i].msg /\ (l[i].st = "gone" => n[i].st = "gone")
    PROVE  Unique(n) /\ QueuedIn(n) \subseteq QueuedIn(l)
BY DEF Unique, QueuedIn

\* A message is taken out of the line.
LEMMA SetStateFacts ==
    ASSUME line \in Seq(Waiter), Unique(line), NEW m \in Msg
    PROVE  /\ SetState(m, "gone") \in Seq(Waiter) /\ Unique(SetState(m, "gone"))
           /\ QueuedIn(SetState(m, "gone")) = QueuedIn(line) \ {m}
<1> DEFINE n == SetState(m, "gone")
<1>1. Len(line) \in Nat /\ DOMAIN line = 1..Len(line) /\ \A i \in 1..Len(line) : line[i] \in Waiter
  OBVIOUS
<1>2. n = [i \in 1..Len(line) |->
             IF line[i].msg = m /\ line[i].st # "gone" THEN [line[i] EXCEPT !.st = "gone"] ELSE line[i]]
  BY <1>1 DEF SetState
<1>3. \A i \in 1..Len(line) :
        /\ n[i] \in Waiter /\ n[i].msg = line[i].msg
        /\ line[i].st = "gone" => n[i].st = "gone"
        /\ n[i].st = "gone" <=> (line[i].st = "gone" \/ line[i].msg = m)
  BY <1>1, <1>2 DEF Waiter
<1>4. n \in Seq(Waiter) /\ DOMAIN n = 1..Len(line)
  <2>1. n \in [1..Len(line) -> Waiter]
    BY <1>2, <1>3
  <2> QED BY <1>1, <2>1
<1> HIDE DEF n
<1>5. Unique(n)
  BY <1>1, <1>3, <1>4, MarkFacts
<1>6. QueuedIn(n) = QueuedIn(line) \ {m}
  BY <1>1, <1>3, <1>4 DEF QueuedIn
<1> QED BY <1>4, <1>5, <1>6 DEF n

\* All waiters are cancelled: the line keeps their messages.
LEMMA CancelFacts ==
    ASSUME line \in Seq(Waiter), Unique(line), CancelAll
    PROVE  line' \in Seq(Waiter) /\ Unique(line') /\ QueuedIn(line') \subseteq QueuedIn(line)
<1>1. Len(line) \in Nat /\ DOMAIN line = 1..Len(line) /\ \A i \in 1..Len(line) : line[i] \in Waiter
  OBVIOUS
<1>2. line' = [i \in 1..Len(line) |->
                 IF line[i].st = "live" THEN [line[i] EXCEPT !.st = "cancelled"] ELSE line[i]]
  BY <1>1 DEF CancelAll
<1>3. \A i \in 1..Len(line) : /\ line'[i] \in Waiter /\ line'[i].msg = line[i].msg
                              /\ line[i].st = "gone" => line'[i].st = "gone"
  BY <1>1, <1>2 DEF Waiter
<1>4. line' \in Seq(Waiter) /\ DOMAIN line' = DOMAIN line
  <2>1. line' \in [1..Len(line) -> Waiter]
    BY <1>2, <1>3
  <2> QED BY <1>1, <2>1
<1> QED BY <1>1, <1>3, <1>4, MarkFacts

\* The waiters are permuted: the sort never puts one waiter into two places.
LEMMA ReorderFacts ==
    ASSUME line \in Seq(Waiter), Unique(line), at \in [Msg -> Nat], NEW rank \in Ranks, Reorder(rank)
    PROVE  /\ line' \in Seq(Waiter) /\ Unique(line') /\ QueuedIn(line') \subseteq QueuedIn(line)
           /\ at' \in [Msg -> Nat]
<1> DEFINE mine == {i \in DOMAIN line : line[i].msg \in Queued}
           Before(i, j) == \/ rank[line[i].msg] < rank[line[j].msg]
                           \/ rank[line[i].msg] = rank[line[j].msg] /\ i < j
<1>1. Len(line) \in Nat /\ DOMAIN line = 1..Len(line) /\ \A i \in 1..Len(line) : line[i] \in Waiter
  OBVIOUS
<1>2. \A m \in Queued : m \in Msg /\ rank[m] \in Int /\ rank[m] >= 1
  <2>1. rank \in [Queued -> 1..Cardinality(Queued)]
    BY DEF Ranks
  <2>2. \A m \in Queued : m \in Msg
    BY <1>1 DEF Queued, Waiting, Waiter
  <2> QED BY <2>1, <2>2
<1>3. PICK f \in [DOMAIN line -> DOMAIN line] :
        /\ \A i \in DOMAIN line \ mine : f[i] = i
        /\ \A i \in mine : f[i] \in mine
        /\ \A i, j \in mine : i < j => Before(f[i], f[j])
        /\ line' = [i \in DOMAIN line |-> line[f[i]]]
  BY DEF Reorder
<1>4. at' \in [Msg -> Nat]
  <2>1. PICK first \in {at[m] : m \in Queued} :
          at' = [m \in Msg |-> IF m \in Queued THEN first + rank[m] - 1 ELSE at[m]]
    BY DEF Reorder
  <2>2. first \in Nat
    BY <1>2
  <2> QED BY <1>2, <2>1, <2>2
<1>5. line' \in Seq(Waiter) /\ DOMAIN line' = 1..Len(line)
  <2>1. line' \in [1..Len(line) -> Waiter]
    BY <1>1, <1>3
  <2> QED BY <1>1, <2>1
<1>6. \A i \in 1..Len(line) : f[i] \in 1..Len(line) /\ line'[i] = line[f[i]]
  BY <1>1, <1>3
<1>7. \A i \in 1..Len(line) : line'[i].st # "gone" => i \in mine /\ f[i] \in mine
  BY <1>1, <1>3, <1>6 DEF Queued, Waiting
<1>8. \A i, j \in mine : i < j => f[i] # f[j]
  <2> SUFFICES ASSUME NEW i \in mine, NEW j \in mine, i < j, f[i] = f[j] PROVE FALSE
    OBVIOUS
  <2>1. Before(f[i], f[i]) /\ f[i] \in mine
    BY <1>3
  <2>2. rank[line[f[i]].msg] \in Int /\ f[i] \in Int
    BY <1>1, <1>2, <2>1
  <2> QED BY <2>1, <2>2
<1>9. Unique(line')
  <2> SUFFICES ASSUME NEW i \in 1..Len(line), NEW j \in 1..Len(line),
                      line'[i].st # "gone", line'[j].st # "gone", line'[i].msg = line'[j].msg
               PROVE  i = j
    BY <1>5 DEF Unique
  <2>1. f[i] = f[j]
    BY <1>1, <1>6 DEF Unique
  <2>2. i \in mine /\ j \in mine /\ i \in Int /\ j \in Int
    BY <1>7
  <2> HIDE DEF mine
  <2> QED BY <1>8, <2>1, <2>2
<1>10. QueuedIn(line') \subseteq QueuedIn(line)
  BY <1>1, <1>5, <1>6 DEF QueuedIn
<1> QED BY <1>4, <1>5, <1>9, <1>10

-------------------------------------------------------------------------------
(* The history *)

\* Messages that were not recorded are recorded once, under turn t.
LEMMA RecordFacts ==
    ASSUME history \in [Msg -> Seq(Msg)], AtMostOnce, NEW S \in SUBSET Msg, NEW t \in Msg,
           \A m \in S : ~Recorded(m), Record(S, t)
    PROVE  /\ history' \in [Msg -> Seq(Msg)] /\ AtMostOnce'
           /\ \A n \in Msg \ S : history'[n] = history[n]
           /\ \A n \in S : history'[n] # <<>> /\ \E i \in DOMAIN history'[n] : history'[n][i] = t
<1>1. \A n \in S : history'[n] = Append(history[n], t) /\ history[n] = <<>>
  BY DEF Recorded, Record
<1>2. \A n \in Msg \ S : history'[n] = history[n]
  BY DEF Record
<1>3. /\ Append(<<>>, t) = <<t>> /\ <<t>> \in Seq(Msg) /\ Len(<<t>>) = 1
      /\ <<t>> # <<>> /\ 1 \in DOMAIN <<t>> /\ <<t>>[1] = t
  OBVIOUS
<1>4. \A n \in S : history'[n] = <<t>>
  BY <1>1, <1>3
<1>5. ASSUME NEW n \in Msg PROVE history'[n] \in Seq(Msg) /\ Len(history'[n]) <= 1
  <2>1. CASE n \in S
    <3>1. history'[n] = <<t>>
      BY <1>4, <2>1
    <3> QED BY <1>3, <3>1
  <2>2. CASE n \notin S
    <3>1. history'[n] = history[n]
      BY <1>2, <2>2
    <3> QED BY <3>1 DEF AtMostOnce
  <2> QED BY <2>1, <2>2
<1>6. history' \in [Msg -> Seq(Msg)]
  BY <1>5 DEF Record
<1>7. AtMostOnce'
  BY <1>5 DEF AtMostOnce
<1> QED BY <1>2, <1>3, <1>4, <1>6, <1>7

\* One message is recorded.
LEMMA RecordOneFacts ==
    ASSUME history \in [Msg -> Seq(Msg)], AtMostOnce, NEW m \in Msg, NEW t \in Msg,
           ~Recorded(m), Record({m}, t)
    PROVE  /\ history' \in [Msg -> Seq(Msg)] /\ AtMostOnce'
           /\ \A n \in Msg \ {m} : history'[n] = history[n]
           /\ history'[m] # <<>> /\ \E i \in DOMAIN history'[m] : history'[m][i] = t
<1> DEFINE S == {m}
<1>1. S \in SUBSET Msg /\ m \in S
  OBVIOUS
<1>2. \A n \in S : ~Recorded(n)
  BY DEF Recorded
<1>3. Record(S, t)
  OBVIOUS
<1>4. \A n \in Msg \ {m} : n \notin S
  OBVIOUS
<1> HIDE DEF S
<1>5. /\ history' \in [Msg -> Seq(Msg)] /\ AtMostOnce'
      /\ \A n \in Msg \ S : history'[n] = history[n]
      /\ \A n \in S : history'[n] # <<>> /\ \E i \in DOMAIN history'[n] : history'[n][i] = t
  BY <1>1, <1>2, <1>3, RecordFacts
<1> QED BY <1>1, <1>4, <1>5

-------------------------------------------------------------------------------
(* The steps, in terms of the ledger *)

\* The queue still has to settle the transfer of m.
Unsettled(m) == HasTransfer(m) /\ (admission[m] # "none" \/ recovering[m] # "no")

\* Messages that were only held may be lost.
Loses ==
    /\ sent' = sent
    /\ \A n \in Msg :
         /\ Recorded(n)' <=> Recorded(n)
         /\ ~Recorded(n) => (HasTransfer(n)' <=> HasTransfer(n))
         /\ Held(n)' => Held(n) \/ Unsettled(n)

\* Messages that were held or promised are recorded, the others stay what they are.
Records ==
    /\ sent' = sent
    /\ \A n \in Msg :
         /\ Recorded(n) => Recorded(n)'
         /\ Recorded(n)' => Recorded(n) \/ Held(n) \/ Unsettled(n)
         /\ Held(n)' => Held(n)
         /\ ~Recorded(n)' => (HasTransfer(n)' <=> HasTransfer(n))
         /\ ~Recorded(n)' /\ ~HasTransfer(n) => (Held(n)' <=> Held(n))

\* The message m, which was held, is promised.
Promises(m) ==
    /\ sent' = sent /\ Held(m) /\ ~Recorded(m) /\ ~HasTransfer(m) /\ HasTransfer(m)'
    /\ \A n \in Msg :
         /\ Recorded(n)' <=> Recorded(n)
         /\ n # m => (HasTransfer(n)' <=> HasTransfer(n)) /\ (Held(n)' <=> Held(n))

\* The message m is sent.
Sends(m) ==
    /\ m \notin sent /\ sent' = sent \cup {m} /\ Held(m)'
    /\ \A n \in Msg :
         /\ Recorded(n)' <=> Recorded(n)
         /\ HasTransfer(n)' <=> HasTransfer(n)
         /\ n # m => (Held(n)' <=> Held(n))

\* A step that leaves the line alone.
LEMMA LineStays ==
    ASSUME line' = line
    PROVE  Queued' = Queued /\ (Unique(line) => Unique(line'))
BY DEF Queued, Waiting

\* An event is published for a message.
LEMMA PublishType ==
    ASSUME reply \in [Msg -> SUBSET Replies], NEW m, NEW e \in Replies, Publish(m, e)
    PROVE  reply' \in [Msg -> SUBSET Replies]
<1>1. \A n \in Msg : reply'[n] \in SUBSET Replies
  BY DEF Publish
<1> QED BY <1>1 DEF Publish

\* A step of the running turn that writes nothing to disk and leaves the line alone.
TurnStep == \/ Begin \/ StartStopped \/ Prepared \/ WorkspaceLost \/ Throws \/ MaxFinalization
            \/ EndRun \/ EndFailed \/ EndTurn \/ StopTurn

\* Such a step keeps the invariant and can only lose messages that were held.
LEMMA TurnSteps ==
    ASSUME IInv, TurnStep
    PROVE  IInv' /\ Loses
<1>1. line' = line /\ history' = history /\ transfer' = transfer /\ sent' = sent /\ recovering' = recovering
  BY DEF TurnStep, Begin, StartStopped, Prepared, WorkspaceLost, Throws, MaxFinalization, EndRun,
         EndFailed, LeaveFailed, EndTurn, StopTurn, durable, aside, Publish
<1>2. Queued' = Queued /\ Unique(line')
  BY <1>1, LineStays DEF IInv
<1>3. TypeOK' /\ Turn'
  <2>1. TypeOK'
    <3>1. TypeOK
      BY DEF IInv
    <3>2. at' = at /\ lastAt' = lastAt /\ admission' = admission /\ reordered' = reordered /\ crashes' = crashes
      BY DEF TurnStep, Begin, StartStopped, Prepared, WorkspaceLost, Throws, MaxFinalization, EndRun,
             EndFailed, LeaveFailed, EndTurn, StopTurn, durable, aside, Publish
    <3>3. /\ root' \in Msg \cup {NoMsg} /\ phase' \in Phases /\ outcome' \in Outcomes /\ stopped' \in BOOLEAN
          /\ pending' \in SUBSET Msg /\ injected' \in SUBSET Msg
      BY <3>1 DEF TypeOK, TurnStep, Begin, StartStopped, Prepared, WorkspaceLost, Throws, MaxFinalization,
             EndRun, EndFailed, LeaveFailed, EndTurn, StopTurn, Settle, Phases, Outcomes
    <3>4. bus' \in [Msg -> {"none", "queue", "steer"}]
      BY <3>1 DEF TypeOK, TurnStep, Begin, StartStopped, Prepared, WorkspaceLost, Throws, MaxFinalization,
             EndRun, EndFailed, LeaveFailed, EndTurn, StopTurn
    <3>5. reply' = reply \/ Publish(root, "workspace_lost") \/ Publish(root, "rejected")
      BY DEF TurnStep, Begin, StartStopped, Prepared, WorkspaceLost, Throws, MaxFinalization,
             EndRun, EndFailed, LeaveFailed, EndTurn, StopTurn, aside
    <3>6. reply' \in [Msg -> SUBSET Replies]
      BY <3>1, <3>5, PublishType DEF TypeOK, Replies
    <3> QED BY <1>1, <3>1, <3>2, <3>3, <3>4, <3>6 DEF TypeOK
  <2>2. Turn'
    BY DEF IInv, TypeOK, Turn, TurnStep, Begin, StartStopped, Prepared, WorkspaceLost, Throws, MaxFinalization,
         EndRun, EndFailed, LeaveFailed, EndTurn, StopTurn, Settle, TurnOver
  <2> QED BY <2>1, <2>2
<1>4. AtMostOnce'
  BY <1>1 DEF IInv, AtMostOnce
<1>5. ASSUME NEW n \in Msg
      PROVE  MsgOK(n)' /\ (Held(n)' => Held(n))
  BY <1>1, <1>2, TurnAssumption
     DEF IInv, TypeOK, Turn, MsgOK, Places, Out, Admitted, Bare, Recovering, Known, Held, Rooted, Recorded, HasTransfer,
         Persisted, TurnStep, Begin, StartStopped, Prepared, WorkspaceLost, Throws, MaxFinalization,
         EndRun, EndFailed, LeaveFailed, EndTurn, StopTurn, Settle, TurnOver
<1>6. Loses
  BY <1>1, <1>5 DEF Loses, Recorded, HasTransfer
<1> QED BY <1>2, <1>3, <1>4, <1>5, <1>6 DEF IInv

\* A message enters the running turn as a steer, or is given to the runner, or becomes the
\* root of the next turn: the steps that move a message within the memory.
LEMMA MoveSteps ==
    ASSUME IInv, NEW m \in Msg, ReceiveSteer(m) \/ Successor(m) \/ Inject(m)
    PROVE  IInv' /\ Loses
<1>1. line' = line /\ history' = history /\ sent' = sent /\ recovering' = recovering
  BY DEF ReceiveSteer, Successor, Inject, GiveToRunner, durable, aside
<1>2. Queued' = Queued /\ Unique(line')
  BY <1>1, LineStays DEF IInv
<1>3. /\ transfer' \in [Msg -> Transfer]
      /\ \A n \in Msg : /\ transfer'[n].turn = transfer[n].turn
                        /\ transfer[n].consumed => transfer'[n].consumed
                        /\ admission'[n] = "consumed" => admission[n] = "consumed" \/ transfer'[n].consumed
  <2>1. \/ transfer' = transfer /\ admission' = admission
        \/ /\ transfer' = [transfer EXCEPT ![m] = [transfer[m] EXCEPT !.consumed = TRUE]]
           /\ admission' = [admission EXCEPT ![m] = "consumed"]
    BY DEF ReceiveSteer, Successor, Inject, GiveToRunner, durable
  <2>2. transfer \in [Msg -> Transfer] /\ transfer[m] \in Transfer
    BY DEF IInv, TypeOK
  <2>3. /\ [transfer[m] EXCEPT !.consumed = TRUE] \in Transfer
        /\ [transfer[m] EXCEPT !.consumed = TRUE].turn = transfer[m].turn
        /\ [transfer[m] EXCEPT !.consumed = TRUE].consumed
    BY <2>2 DEF Transfer
  <2>4. admission \in [Msg -> {"none", "pending", "consumed"}]
    BY DEF IInv, TypeOK
  <2> QED BY <2>1, <2>2, <2>3, <2>4
<1>5. TypeOK' /\ Turn'
  <2>1. TypeOK'
    BY <1>1, <1>3 DEF IInv, TypeOK, ReceiveSteer, Successor, StartTurn, Inject, GiveToRunner, aside, Phases, Outcomes
  <2>2. Turn'
    BY TurnAssumption DEF IInv, TypeOK, Turn, ReceiveSteer, Accepting, Successor, TurnOver, StartTurn, Inject, GiveToRunner
  <2> QED BY <2>1, <2>2
<1>6. AtMostOnce'
  BY <1>1 DEF IInv, AtMostOnce
<1>7. ASSUME NEW n \in Msg
      PROVE  MsgOK(n)' /\ (Held(n)' => Held(n))
  <2>1. TypeOK /\ Turn /\ MsgOK(n) /\ MsgOK(m)
    BY DEF IInv
  <2>2. /\ transfer'[n].turn = transfer[n].turn
        /\ transfer[n].consumed => transfer'[n].consumed
        /\ admission'[n] = "consumed" => admission[n] = "consumed" \/ transfer'[n].consumed
    BY <1>3
  <2>3. CASE ReceiveSteer(m)
    BY <1>1, <1>2, <2>1, <2>2, <2>3, TurnAssumption
       DEF TypeOK, Turn, MsgOK, Places, Out, Admitted, Bare, Recovering, Known, Held, Rooted, Recorded,
           HasTransfer, Persisted, ReceiveSteer, Accepting
  <2>4. CASE Successor(m)
    BY <1>1, <1>2, <2>1, <2>2, <2>4, TurnAssumption
       DEF TypeOK, Turn, MsgOK, Places, Out, Admitted, Bare, Recovering, Known, Held, Rooted, Recorded,
           HasTransfer, Persisted, Successor, TurnOver, StartTurn
  <2>5. CASE Inject(m)
    BY <1>1, <1>2, <2>1, <2>2, <2>5, TurnAssumption
       DEF TypeOK, Turn, MsgOK, Places, Out, Admitted, Bare, Recovering, Known, Held, Rooted, Recorded,
           HasTransfer, Persisted, Inject, GiveToRunner
  <2> QED BY <2>3, <2>4, <2>5
<1>8. Loses
  BY <1>1, <1>3, <1>7 DEF Loses, Recorded, HasTransfer
<1> QED BY <1>2, <1>5, <1>6, <1>7, <1>8 DEF IInv

\* A message of the bus becomes a slot.
LEMMA ReceiveQueueStep ==
    ASSUME IInv, NEW m \in Msg, ReceiveQueue(m)
    PROVE  IInv' /\ Loses
<1>1. history' = history /\ transfer' = transfer /\ sent' = sent /\ recovering' = recovering
  BY DEF ReceiveQueue, durable, aside
<1>2. /\ line' \in Seq(Waiter) /\ Unique(line')
      /\ \/ LockFree /\ line' = line /\ Queued' = Queued
         \/ ~LockFree /\ Queued' = Queued \cup {m}
  <2>1. CASE LockFree
    BY <2>1, LineStays DEF IInv, TypeOK, ReceiveQueue
  <2>2. CASE ~LockFree
    <3>1. line' = Insert(line, m, lastAt + 1) /\ lastAt + 1 \in Nat
      BY <2>2 DEF IInv, TypeOK, ReceiveQueue
    <3>2. m \notin QueuedIn(line)
      BY QueuedIsIn DEF IInv, MsgOK, Places, ReceiveQueue
    <3>3. Queued' = QueuedIn(line')
      BY DEF Queued, Waiting, QueuedIn
    <3> QED BY <2>2, <3>1, <3>2, <3>3, QueuedIsIn, InsertFacts DEF IInv, TypeOK
  <2> QED BY <2>1, <2>2
<1>3. TypeOK' /\ Turn'
  <2>1. TypeOK'
    <3>1. TypeOK
      BY DEF IInv
    <3>2. at' \in [Msg -> Nat] /\ lastAt' \in Nat /\ bus' \in [Msg -> {"none", "queue", "steer"}]
      <4>1. lastAt + 1 \in Nat
        BY <3>1 DEF TypeOK
      <4> QED BY <3>1, <4>1 DEF TypeOK, ReceiveQueue
    <3>3. root' \in Msg \cup {NoMsg} /\ phase' \in Phases /\ outcome' \in Outcomes /\ stopped' \in BOOLEAN
      BY <3>1 DEF TypeOK, ReceiveQueue, StartTurn, Phases, Outcomes
    <3> QED BY <1>1, <1>2, <3>1, <3>2, <3>3 DEF TypeOK, ReceiveQueue, aside
  <2>2. Turn'
    BY TurnAssumption DEF IInv, TypeOK, Turn, ReceiveQueue, LockFree, StartTurn
  <2> QED BY <2>1, <2>2
<1>4. AtMostOnce'
  BY <1>1 DEF IInv, AtMostOnce
<1>5. ASSUME NEW n \in Msg
      PROVE  MsgOK(n)' /\ (Held(n)' => Held(n))
  BY <1>1, <1>2, TurnAssumption
     DEF IInv, TypeOK, Turn, MsgOK, Places, Out, Admitted, Bare, Recovering, Known, Held, Rooted, Recorded, HasTransfer,
         Persisted, ReceiveQueue, LockFree, StartTurn
<1>6. Loses
  BY <1>1, <1>5 DEF Loses, Recorded, HasTransfer
<1> QED BY <1>2, <1>3, <1>4, <1>5, <1>6 DEF IInv

\* The lock passes to the next waiter.
LEMMA GrantSteps ==
    ASSUME IInv, PassLock
    PROVE  IInv' /\ Loses
<1> DEFINE h == Head(line)
<1>1. /\ history' = history /\ transfer' = transfer /\ sent' = sent /\ recovering' = recovering
      /\ line # <<>> /\ line' = Tail(line) /\ root = NoMsg
  BY DEF PassLock, Grant, GrantGone, GrantCancelled, durable, aside
<1>2. /\ line' \in Seq(Waiter) /\ Unique(line') /\ Queued' \subseteq Queued
      /\ h.msg \in Msg /\ (h.st = "live" => h.msg \in Queued /\ h.msg \notin Queued')
  <2>1. Queued' = QueuedIn(line')
    BY DEF Queued, Waiting, QueuedIn
  <2> QED BY <1>1, <2>1, QueuedIsIn, TailFacts DEF IInv, TypeOK, Waiter
<1> HIDE DEF h
<1>3. TypeOK' /\ Turn'
  <2>1. reply' = reply \/ Publish(h.msg, "rejected")
    BY DEF PassLock, Grant, GrantGone, GrantCancelled, aside, h
  <2>2. reply' \in [Msg -> SUBSET Replies]
    BY <2>1, PublishType DEF IInv, TypeOK, Replies
  <2>3. TypeOK'
    BY <1>1, <1>2, <2>2 DEF IInv, TypeOK, PassLock, Grant, GrantGone, GrantCancelled, StartTurn, h, durable, aside,
       Phases, Outcomes
  <2>4. Turn'
    BY <1>2, TurnAssumption DEF IInv, TypeOK, Turn, PassLock, Grant, GrantGone, GrantCancelled, StartTurn, h
  <2> QED BY <2>3, <2>4
<1>4. AtMostOnce'
  BY <1>1 DEF IInv, AtMostOnce
<1>5. ASSUME NEW n \in Msg
      PROVE  MsgOK(n)' /\ (Held(n)' => Held(n))
  BY <1>1, <1>2, TurnAssumption
     DEF IInv, TypeOK, Turn, MsgOK, Places, Out, Admitted, Bare, Recovering, Known, Held, Rooted, Recorded, HasTransfer,
         Persisted, PassLock, Grant, GrantGone, GrantCancelled, StartTurn, h
<1>6. Loses
  BY <1>1, <1>5 DEF Loses, Recorded, HasTransfer
<1> QED BY <1>2, <1>3, <1>4, <1>5, <1>6 DEF IInv

-------------------------------------------------------------------------------
(* The steps that write the history *)

\* stateBuild records the root and clears its transfer.
LEMMA PersistRootStep ==
    ASSUME IInv, PersistRoot
    PROVE  IInv' /\ Records
<1>1. /\ root \in Msg /\ phase = "build" /\ ~Recorded(root)
      /\ line' = line /\ sent' = sent /\ recovering' = recovering /\ Record({root}, root)
      /\ transfer' = [transfer EXCEPT ![root] = None]
  BY DEF IInv, TypeOK, Turn, MsgOK, Out, Held, PersistRoot
<1>2. Queued' = Queued /\ Unique(line')
  BY <1>1, LineStays DEF IInv
<1>3. /\ history' \in [Msg -> Seq(Msg)] /\ AtMostOnce'
      /\ \A n \in Msg \ {root} : history'[n] = history[n]
      /\ history'[root] # <<>>
  BY <1>1, RecordOneFacts DEF IInv, TypeOK
<1>4. None \in Transfer /\ None.turn = NoMsg
  BY DEF None, Transfer
<1>5. TypeOK' /\ Turn'
  <2>1. TypeOK
    BY DEF IInv
  <2>2. reply' \in [Msg -> SUBSET Replies]
    BY <2>1, PublishType DEF PersistRoot, TypeOK, Replies
  <2>3. transfer' \in [Msg -> Transfer]
    BY <1>1, <1>4, <2>1 DEF TypeOK
  <2>4. TypeOK'
    BY <1>1, <1>3, <2>1, <2>2, <2>3 DEF TypeOK, PersistRoot, Phases
  <2>5. Turn'
    BY <1>1 DEF IInv, Turn, PersistRoot
  <2> QED BY <2>4, <2>5
<1>6. ASSUME NEW n \in Msg
      PROVE  /\ MsgOK(n)' /\ (Held(n)' => Held(n))
             /\ n # root => (HasTransfer(n)' <=> HasTransfer(n)) /\ (Held(n)' <=> Held(n))
  <2>1. TypeOK /\ Turn /\ MsgOK(n)
    BY DEF IInv
  <2>2. n # root => history'[n] = history[n] /\ transfer'[n] = transfer[n]
    BY <1>1, <1>3, <2>1 DEF TypeOK
  <2>3. n = root => history'[n] # <<>> /\ transfer'[n].turn = NoMsg
    BY <1>1, <1>3, <1>4, <2>1 DEF TypeOK
  <2> QED BY <1>1, <1>2, <2>1, <2>2, <2>3, TurnAssumption
       DEF TypeOK, Turn, MsgOK, Places, Out, Admitted, Bare, Recovering, Known, Held, Rooted, Recorded,
           HasTransfer, Persisted, PersistRoot
<1>7. Held(root)
  BY <1>1 DEF Held
<1>8. Records
  BY <1>1, <1>3, <1>6, <1>7 DEF Records, Recorded
<1> QED BY <1>2, <1>3, <1>5, <1>6, <1>8 DEF IInv

\* stateSave records what the runner was given.
LEMMA SaveStep ==
    ASSUME IInv, Save
    PROVE  IInv' /\ Records
<1>1. /\ root \in Msg /\ phase = "save" /\ injected \in SUBSET Msg /\ \A n \in injected : ~Recorded(n)
      /\ line' = line /\ sent' = sent /\ recovering' = recovering /\ transfer' = transfer /\ Record(injected, root)
  BY DEF IInv, TypeOK, Turn, MsgOK, Out, Held, Save, aside
<1>2. Queued' = Queued /\ Unique(line')
  BY <1>1, LineStays DEF IInv
<1>3. /\ history' \in [Msg -> Seq(Msg)] /\ AtMostOnce'
      /\ \A n \in Msg \ injected : history'[n] = history[n]
      /\ \A n \in injected : history'[n] # <<>> /\ \E i \in DOMAIN history'[n] : history'[n][i] = root
  BY <1>1, RecordFacts DEF IInv, TypeOK
<1>4. TypeOK' /\ Turn'
  <2>1. TypeOK'
    BY <1>1, <1>3 DEF IInv, TypeOK, Save, Settle, aside, Phases
  <2>2. Turn'
    BY <1>1, TurnAssumption DEF IInv, Turn, Save, Settle
  <2> QED BY <2>1, <2>2
<1>5. ASSUME NEW n \in Msg
      PROVE  /\ MsgOK(n)' /\ (Held(n)' => Held(n))
             /\ n \notin injected => (HasTransfer(n)' <=> HasTransfer(n)) /\ (~HasTransfer(n) => (Held(n)' <=> Held(n)))
  <2>1. TypeOK /\ Turn /\ MsgOK(n)
    BY DEF IInv
  <2>2. n \notin injected => history'[n] = history[n]
    BY <1>3
  <2>3. n \in injected => history'[n] # <<>> /\ \E i \in DOMAIN history'[n] : history'[n][i] = root
    BY <1>3
  <2> QED BY <1>1, <1>2, <2>1, <2>2, <2>3, TurnAssumption
       DEF TypeOK, Turn, MsgOK, Places, Out, Admitted, Bare, Recovering, Known, Held, Rooted, Recorded,
           HasTransfer, Persisted, Save, Settle
<1>6. \A n \in injected : Held(n)
  BY DEF Held
<1>7. Records
  BY <1>1, <1>3, <1>5, <1>6 DEF Records, Recorded
<1> QED BY <1>2, <1>3, <1>4, <1>5, <1>7 DEF IInv

\* A consumed steer is recorded from its transfer, at the end of its turn or after a crash.
LEMMA KeepSteps ==
    ASSUME IInv, NEW m \in Msg, FinalizeKeep(m) \/ RecoverKeep(m)
    PROVE  IInv' /\ Records
<1> DEFINE t == transfer[m].turn
<1>1. /\ Unsettled(m) /\ HasTransfer(m) /\ t \in Msg /\ ~Recorded(m) /\ ~Held(m)
      /\ line' = line /\ sent' = sent /\ transfer' = transfer /\ Record({m}, t)
      /\ bus' = bus /\ root' = root /\ phase' = phase /\ pending' = pending /\ injected' = injected
      /\ admission' = admission
  BY TurnAssumption DEF IInv, TypeOK, Turn, Transfer, MsgOK, Places, Out, Admitted, Bare, Recovering, Known, Held, Rooted, Recorded,
           HasTransfer, Persisted, Unsettled, FinalizeKeep, KeepConsumed, RecoverKeep, NextToRecover,
         memory, aside
<1>2. Queued' = Queued /\ Unique(line')
  BY <1>1, LineStays DEF IInv
<1>3. /\ history' \in [Msg -> Seq(Msg)] /\ AtMostOnce'
      /\ \A n \in Msg \ {m} : history'[n] = history[n]
      /\ history'[m] # <<>> /\ \E i \in DOMAIN history'[m] : history'[m][i] = t
  BY <1>1, RecordOneFacts DEF IInv, TypeOK
<1>4. /\ recovering' \in [Msg -> {"no", "read", "kept"}]
      /\ \A n \in Msg : recovering'[n] # "no" => recovering[n] # "no"
  BY DEF IInv, TypeOK, FinalizeKeep, KeepConsumed, RecoverKeep, NextToRecover, aside
<1>5. TypeOK' /\ Turn'
  <2>1. TypeOK'
    BY <1>1, <1>3, <1>4 DEF IInv, TypeOK, FinalizeKeep, KeepConsumed, RecoverKeep, memory, aside
  <2>2. Turn'
    BY <1>1 DEF IInv, Turn
  <2> QED BY <2>1, <2>2
<1>6. ASSUME NEW n \in Msg
      PROVE  MsgOK(n)' /\ (HasTransfer(n)' <=> HasTransfer(n)) /\ (Held(n)' <=> Held(n))
  <2>1. TypeOK /\ Turn /\ MsgOK(n) /\ (recovering'[n] # "no" => recovering[n] # "no")
    BY <1>4 DEF IInv
  <2>2. n # m => history'[n] = history[n]
    BY <1>3
  <2>3. n = m => history'[n] # <<>> /\ \E i \in DOMAIN history'[n] : history'[n][i] = transfer[n].turn
    BY <1>3
  <2> QED BY <1>1, <1>2, <2>1, <2>2, <2>3
       DEF TypeOK, Turn, MsgOK, Places, Out, Admitted, Bare, Recovering, Known, Held, Rooted, Recorded,
           HasTransfer, Persisted
<1>7. Records
  BY <1>1, <1>3, <1>6 DEF Records, Recorded
<1> QED BY <1>2, <1>3, <1>5, <1>6, <1>7 DEF IInv

-------------------------------------------------------------------------------
(* The other steps of finalization and recovery *)

\* The transfer of a recorded message is completed.
LEMMA DoneSteps ==
    ASSUME IInv, NEW m \in Msg, FinalizeDone(m) \/ RecoverDone(m)
    PROVE  IInv' /\ Loses
<1>1. /\ Recorded(m)
      /\ line' = line /\ sent' = sent /\ history' = history /\ transfer' = [transfer EXCEPT ![m] = None]
      /\ bus' = bus /\ root' = root /\ phase' = phase /\ pending' = pending /\ injected' = injected
      /\ admission' = [admission EXCEPT ![m] = "none"]
  BY DEF IInv, TypeOK, MsgOK, Recovering, Recorded, Persisted, FinalizeDone, CompleteTransfer, RecoverDone,
         NextToRecover, memory
<1>2. Queued' = Queued /\ Unique(line')
  BY <1>1, LineStays DEF IInv
<1>3. None \in Transfer /\ None.turn = NoMsg
  BY DEF None, Transfer
<1>4. /\ recovering' \in [Msg -> {"no", "read", "kept"}]
      /\ \A n \in Msg : recovering'[n] # "no" => recovering[n] # "no" /\ n # m
  BY DEF IInv, TypeOK, MsgOK, Recovering, FinalizeDone, CompleteTransfer, RecoverDone
<1>5. TypeOK' /\ Turn'
  <2>1. TypeOK
    BY DEF IInv
  <2>2. reply' = reply \/ Publish(m, "accepted")
    BY DEF FinalizeDone, CompleteTransfer, RecoverDone
  <2>3. reply' \in [Msg -> SUBSET Replies]
    BY <2>1, <2>2, PublishType DEF TypeOK, Replies
  <2>4. transfer' \in [Msg -> Transfer]
    BY <1>1, <1>3, <2>1 DEF TypeOK
  <2>5. at' = at /\ lastAt' = lastAt /\ outcome' = outcome /\ stopped' = stopped
        /\ reordered' = reordered /\ crashes' = crashes
    BY DEF FinalizeDone, CompleteTransfer, RecoverDone, memory
  <2>6. TypeOK'
    BY <1>1, <1>4, <2>1, <2>3, <2>4, <2>5 DEF TypeOK
  <2>7. Turn'
    BY <1>1 DEF IInv, Turn
  <2> QED BY <2>6, <2>7
<1>6. AtMostOnce'
  BY <1>1 DEF IInv, AtMostOnce
<1>7. ASSUME NEW n \in Msg
      PROVE  MsgOK(n)' /\ (n # m => (HasTransfer(n)' <=> HasTransfer(n))) /\ (Held(n)' <=> Held(n))
  <2>1. TypeOK /\ Turn /\ MsgOK(n) /\ (recovering'[n] # "no" => recovering[n] # "no" /\ n # m)
    BY <1>4 DEF IInv
  <2>2. n # m => transfer'[n] = transfer[n]
    BY <1>1, <2>1 DEF TypeOK
  <2>3. n = m => transfer'[n].turn = NoMsg
    BY <1>1, <1>3, <2>1 DEF TypeOK
  <2> QED BY <1>1, <1>2, <2>1, <2>2, <2>3
       DEF TypeOK, Turn, MsgOK, Places, Out, Admitted, Bare, Recovering, Known, Held, Rooted, Recorded,
           HasTransfer, Persisted
<1>8. Loses
  BY <1>1, <1>7 DEF Loses, Recorded
<1> QED BY <1>2, <1>5, <1>6, <1>7, <1>8 DEF IInv

\* What the runner was not given goes back into the queue, from the turn or from the disk.
LEMMA RequeueSteps ==
    ASSUME IInv, NEW m \in Msg, FinalizeRequeue(m) \/ RecoverQueue(m)
    PROVE  IInv' /\ Loses
<1>1. /\ Unsettled(m) /\ HasTransfer(m) /\ ~Recorded(m) /\ ~Held(m)
      /\ sent' = sent /\ history' = history /\ transfer' = transfer
      /\ bus' = bus /\ pending' = pending /\ injected' = injected
      /\ admission' = [admission EXCEPT ![m] = "none"]
  BY TurnAssumption DEF IInv, TypeOK, Turn, MsgOK, Places, Out, Admitted, Bare, Recovering, Known, Held, Rooted, Recorded,
           HasTransfer, Persisted, Unsettled, FinalizeRequeue, Requeue, RecoverQueue, NextToRecover,
         durable, aside
<1>2. transfer[m].at \in Nat
  BY DEF IInv, TypeOK, Transfer
<1>3. /\ line' \in Seq(Waiter) /\ Unique(line')
      /\ \/ /\ LockFree /\ Queued' = Queued
            /\ root' = m /\ phase' = "start" /\ outcome' = "none" /\ stopped' = FALSE
         \/ /\ Queued' = Queued \cup {m}
            /\ root' = root /\ phase' = phase /\ outcome' = outcome /\ stopped' = stopped
  <2>1. CASE LockFree /\ RecoverQueue(m)
    BY <2>1, LineStays DEF IInv, TypeOK, RecoverQueue, StartTurn
  <2>2. CASE ~(LockFree /\ RecoverQueue(m))
    <3>1. line' = Insert(line, m, transfer[m].at)
      BY <2>2 DEF FinalizeRequeue, Requeue, RecoverQueue
    <3>2. m \notin QueuedIn(line)
      BY <1>1, QueuedIsIn DEF Held
    <3>3. Queued' = QueuedIn(line')
      BY DEF Queued, Waiting, QueuedIn
    <3>4. root' = root /\ phase' = phase /\ outcome' = outcome /\ stopped' = stopped
      BY <2>2 DEF FinalizeRequeue, Requeue, RecoverQueue
    <3> QED BY <1>2, <3>1, <3>2, <3>3, <3>4, QueuedIsIn, InsertFacts DEF IInv, TypeOK
  <2> QED BY <2>1, <2>2
<1>4. /\ recovering' \in [Msg -> {"no", "read", "kept"}]
      /\ \A n \in Msg : recovering'[n] # "no" => recovering[n] # "no" /\ n # m
  BY DEF IInv, TypeOK, MsgOK, Recovering, FinalizeRequeue, Requeue, RecoverQueue, aside
<1>5. TypeOK' /\ Turn'
  <2>1. TypeOK
    BY DEF IInv
  <2>2. at' = [at EXCEPT ![m] = transfer[m].at]
        /\ lastAt' = lastAt /\ reply' = reply /\ reordered' = reordered /\ crashes' = crashes
    BY DEF FinalizeRequeue, Requeue, RecoverQueue, aside
  <2>3. at' \in [Msg -> Nat]
    BY <1>2, <2>1, <2>2 DEF TypeOK
  <2>4. root' \in Msg \cup {NoMsg} /\ phase' \in Phases /\ outcome' \in Outcomes /\ stopped' \in BOOLEAN
    BY <1>3, <2>1 DEF TypeOK, Phases, Outcomes
  <2>5. TypeOK'
    BY <1>1, <1>3, <1>4, <2>1, <2>2, <2>3, <2>4 DEF TypeOK
  <2>6. Turn'
    BY <1>1, <1>3, TurnAssumption DEF IInv, Turn, LockFree
  <2> QED BY <2>5, <2>6
<1>6. AtMostOnce'
  BY <1>1 DEF IInv, AtMostOnce
<1>7. ASSUME NEW n \in Msg
      PROVE  MsgOK(n)' /\ (n # m => (Held(n)' => Held(n)))
  <2>1. TypeOK /\ Turn /\ MsgOK(n) /\ MsgOK(m) /\ (recovering'[n] # "no" => recovering[n] # "no" /\ n # m)
    BY <1>4 DEF IInv
  <2> QED BY <1>1, <1>3, <2>1
       DEF TypeOK, Turn, LockFree, MsgOK, Places, Out, Admitted, Bare, Recovering, Known, Held, Rooted, Recorded,
           HasTransfer, Persisted
<1>8. Loses
  BY <1>1, <1>7 DEF Loses, Recorded, HasTransfer
<1> QED BY <1>3, <1>5, <1>6, <1>7, <1>8 DEF IInv

-------------------------------------------------------------------------------
(* The steps of the user, and the crash *)

\* A message is moved out of the queue into the running turn.
LEMMA SteerQueuedStep ==
    ASSUME IInv, NEW m \in Msg, SteerQueued(m)
    PROVE  IInv' /\ (Loses \/ Promises(m))
<1> DEFINE r == [turn |-> root, consumed |-> FALSE, at |-> at[m]]
<1>1. /\ phase = "run" /\ m \in Queued /\ admission[m] = "none"
      /\ sent' = sent /\ history' = history /\ recovering' = recovering /\ bus' = bus /\ injected' = injected
      /\ root' = root /\ phase' = phase /\ pending' = pending \cup {m}
      /\ admission' = [admission EXCEPT ![m] = "pending"]
      /\ transfer' = [transfer EXCEPT ![m] = r] /\ line' = SetState(m, "gone")
  BY DEF SteerQueued, MoveToTurn, Accepting, aside
<1>2. line' \in Seq(Waiter) /\ Unique(line') /\ Queued' = Queued \ {m}
  <2>1. Queued' = QueuedIn(line')
    BY DEF Queued, Waiting, QueuedIn
  <2> QED BY <1>1, <2>1, QueuedIsIn, SetStateFacts DEF IInv, TypeOK
<1>3. r \in Transfer /\ r.turn = root /\ root \in Msg
  BY <1>1 DEF IInv, TypeOK, Turn, Transfer
<1> HIDE DEF r
<1>4. TypeOK' /\ Turn'
  <2>1. TypeOK
    BY DEF IInv
  <2>2. transfer' \in [Msg -> Transfer]
    BY <1>1, <1>3, <2>1 DEF TypeOK
  <2>3. at' = at /\ lastAt' = lastAt /\ outcome' = outcome /\ stopped' = stopped
        /\ reply' = reply /\ reordered' = reordered /\ crashes' = crashes
    BY DEF SteerQueued, MoveToTurn, aside
  <2>4. TypeOK'
    BY <1>1, <1>2, <2>1, <2>2, <2>3 DEF TypeOK
  <2>5. Turn'
    BY <1>1 DEF IInv, Turn
  <2> QED BY <2>4, <2>5
<1>5. AtMostOnce'
  BY <1>1 DEF IInv, AtMostOnce
<1>6. ASSUME NEW n \in Msg
      PROVE  MsgOK(n)' /\ (n # m => (HasTransfer(n)' <=> HasTransfer(n))) /\ (Held(n)' <=> Held(n))
  <2>1. TypeOK /\ Turn /\ MsgOK(n)
    BY DEF IInv
  <2>2. n # m => transfer'[n] = transfer[n]
    BY <1>1, <2>1 DEF TypeOK
  <2>3. n = m => transfer'[n].turn = root
    BY <1>1, <1>3, <2>1 DEF TypeOK
  <2> QED BY <1>1, <1>2, <2>1, <2>2, <2>3
       DEF TypeOK, Turn, MsgOK, Places, Out, Admitted, Bare, Recovering, Known, Held, Rooted, Recorded,
           HasTransfer, Persisted
<1>7. HasTransfer(m)' /\ Held(m) /\ ~Recorded(m)
  BY <1>1, <1>3, TurnAssumption DEF IInv, TypeOK, MsgOK, Out, Held, HasTransfer
<1>8. Loses \/ Promises(m)
  BY <1>1, <1>6, <1>7 DEF Loses, Promises, Recorded
<1> QED BY <1>2, <1>4, <1>5, <1>6, <1>8 DEF IInv

\* Items are removed, reordered or cancelled.
LEMMA LineSteps ==
    ASSUME IInv, (\E m \in Msg : RemoveQueued(m)) \/ ReorderQueue \/ CancelAll
    PROVE  IInv' /\ Loses
<1>1. /\ sent' = sent /\ history' = history /\ transfer' = transfer /\ recovering' = recovering /\ bus' = bus
      /\ injected' = injected /\ root' = root /\ phase' = phase /\ pending' = pending
      /\ admission' = admission /\ outcome' = outcome /\ crashes' = crashes /\ lastAt' = lastAt
  BY DEF RemoveQueued, TakeOut, ReorderQueue, Reorder, CancelAll, durable, aside
<1>2. line' \in Seq(Waiter) /\ Unique(line') /\ Queued' \subseteq Queued /\ at' \in [Msg -> Nat]
  <2>1. Queued' = QueuedIn(line')
    BY DEF Queued, Waiting, QueuedIn
  <2>2. line \in Seq(Waiter) /\ Unique(line) /\ at \in [Msg -> Nat]
    BY DEF IInv, TypeOK
  <2>3. ASSUME NEW m \in Msg, RemoveQueued(m)
        PROVE  line' \in Seq(Waiter) /\ Unique(line') /\ QueuedIn(line') \subseteq QueuedIn(line) /\ at' = at
    BY <2>2, <2>3, SetStateFacts DEF RemoveQueued, TakeOut
  <2>4. CASE ReorderQueue
    BY <2>1, <2>2, <2>4, QueuedIsIn, ReorderFacts DEF ReorderQueue
  <2>5. CASE CancelAll
    <3>1. at' = at
      BY <2>5 DEF CancelAll
    <3> QED BY <2>1, <2>2, <2>5, <3>1, QueuedIsIn, CancelFacts
  <2> QED BY <2>1, <2>2, <2>3, <2>4, <2>5, QueuedIsIn
<1>3. TypeOK' /\ Turn'
  <2>1. TypeOK
    BY DEF IInv
  <2>2. reply' = reply \/ \E m \in Msg : Publish(m, "removed")
    BY DEF RemoveQueued, TakeOut, ReorderQueue, Reorder, CancelAll, aside
  <2>3. reply' \in [Msg -> SUBSET Replies]
    BY <2>1, <2>2, PublishType DEF TypeOK, Replies
  <2>4. reordered' \in BOOLEAN /\ stopped' \in BOOLEAN
    BY <2>1 DEF TypeOK, RemoveQueued, TakeOut, ReorderQueue, Reorder, CancelAll, aside
  <2>5. TypeOK'
    BY <1>1, <1>2, <2>1, <2>3, <2>4 DEF TypeOK
  <2>6. Turn'
    BY <1>1 DEF IInv, Turn
  <2> QED BY <2>5, <2>6
<1>4. AtMostOnce'
  BY <1>1 DEF IInv, AtMostOnce
<1>5. ASSUME NEW n \in Msg
      PROVE  MsgOK(n)' /\ (Held(n)' => Held(n))
  BY <1>1, <1>2
     DEF IInv, TypeOK, Turn, MsgOK, Places, Out, Admitted, Bare, Recovering, Known, Held, Rooted, Recorded,
           HasTransfer, Persisted
<1>6. Loses
  BY <1>1, <1>5 DEF Loses, Recorded, HasTransfer
<1> QED BY <1>2, <1>3, <1>4, <1>5, <1>6 DEF IInv

\* The client sends a message.
LEMMA SendStep ==
    ASSUME IInv, NEW m \in Msg, NEW a \in {"queue", "steer"}, Send(m, a)
    PROVE  IInv' /\ Sends(m)
<1>1. /\ m \notin sent /\ sent' = sent \cup {m} /\ bus' = [bus EXCEPT ![m] = a]
      /\ line' = line /\ history' = history /\ transfer' = transfer /\ recovering' = recovering
      /\ injected' = injected /\ root' = root /\ phase' = phase /\ pending' = pending
      /\ admission' = admission
  BY DEF Send, durable
<1>2. Queued' = Queued /\ Unique(line')
  BY <1>1, LineStays DEF IInv
<1>3. TypeOK' /\ Turn'
  <2>1. TypeOK'
    BY <1>1 DEF IInv, TypeOK, Send
  <2>2. Turn'
    BY <1>1 DEF IInv, Turn
  <2> QED BY <2>1, <2>2
<1>4. AtMostOnce'
  BY <1>1 DEF IInv, AtMostOnce
<1>5. ASSUME NEW n \in Msg
      PROVE  MsgOK(n)' /\ (n # m => (Held(n)' <=> Held(n)))
  <2>1. TypeOK /\ Turn /\ MsgOK(n)
    BY DEF IInv
  <2>2. n = m => ~Recorded(n) /\ ~HasTransfer(n) /\ ~Held(n)
    BY <1>1, <2>1 DEF MsgOK, Known
  <2> QED BY <1>1, <1>2, <2>1, <2>2
       DEF TypeOK, Turn, MsgOK, Places, Out, Admitted, Bare, Recovering, Known, Held, Rooted, Recorded,
           HasTransfer, Persisted
<1>6. Held(m)'
  BY <1>1 DEF IInv, TypeOK, Held
<1>7. Sends(m)
  BY <1>1, <1>5, <1>6 DEF Sends, Recorded, HasTransfer
<1> QED BY <1>2, <1>3, <1>4, <1>5, <1>7 DEF IInv

\* The process ends: what was only in memory is lost, transfers are read again.
LEMMA CrashStep ==
    ASSUME IInv, Crash
    PROVE  IInv' /\ Loses
<1>1. /\ sent' = sent /\ history' = history /\ transfer' = transfer /\ line' = <<>>
  BY DEF Crash, durable
<1>2. Queued' = {} /\ line' \in Seq(Waiter) /\ Unique(line')
  BY <1>1 DEF Queued, Waiting, Unique
<1>3. TypeOK' /\ Turn'
  <2>1. crashes' \in 0..MaxCrashes
    BY TurnAssumption DEF IInv, TypeOK, Crash
  <2>2. TypeOK'
    BY <1>1, <1>2, <2>1 DEF IInv, TypeOK, Crash, Phases, Outcomes
  <2>3. Turn'
    BY DEF Crash, Turn
  <2> QED BY <2>2, <2>3
<1>4. AtMostOnce'
  BY <1>1 DEF IInv, AtMostOnce
<1>5. ASSUME NEW n \in Msg
      PROVE  MsgOK(n)' /\ ~Held(n)'
  BY <1>1, <1>2, TurnAssumption
     DEF IInv, TypeOK, Turn, MsgOK, Places, Out, Admitted, Bare, Recovering, Known, Held, Rooted, Recorded,
           HasTransfer, Persisted, Crash
<1>6. Loses
  BY <1>1, <1>5 DEF Loses, Recorded, HasTransfer
<1> QED BY <1>2, <1>3, <1>4, <1>5, <1>6 DEF IInv

-------------------------------------------------------------------------------
(* The specification *)

\* The invariant holds at the start.
LEMMA InitInv == Init => IInv
<1> SUFFICES ASSUME Init PROVE IInv
  OBVIOUS
<1>1. Queued = {} /\ Unique(line) /\ line \in Seq(Waiter)
  BY DEF Init, Queued, Waiting, Unique
<1>2. None \in Transfer /\ None.turn = NoMsg
  BY DEF None, Transfer
<1>3. TypeOK
  <2>1. transfer \in [Msg -> Transfer] /\ history \in [Msg -> Seq(Msg)] /\ reply \in [Msg -> SUBSET Replies]
    BY <1>2 DEF Init
  <2>2. crashes \in 0..MaxCrashes
    BY TurnAssumption DEF Init
  <2> QED BY <1>1, <2>1, <2>2 DEF Init, TypeOK, Phases, Outcomes
<1>4. Turn /\ AtMostOnce
  BY DEF Init, Turn, AtMostOnce
<1>5. ASSUME NEW n \in Msg PROVE MsgOK(n)
  BY <1>1, <1>2, TurnAssumption DEF Init, MsgOK, Places, Out, Admitted, Bare, Recovering, Known, Held, Rooted, Recorded,
           HasTransfer, Persisted
<1> QED BY <1>1, <1>3, <1>4, <1>5 DEF IInv

\* Every step keeps the invariant, and is a step of one of the four kinds.
LEMMA NextStep ==
    ASSUME IInv, Next
    PROVE  IInv' /\ (Loses \/ Records \/ \E m \in Msg : Promises(m) \/ Sends(m))
<1>1. CASE Receive
  BY <1>1, MoveSteps, ReceiveQueueStep DEF Receive
<1>2. CASE PassLock
  BY <1>2, GrantSteps
<1>3. CASE Run
  BY <1>3, TurnSteps, MoveSteps, PersistRootStep, SaveStep DEF Run, TurnStep
<1>4. CASE Finalize
  BY <1>4, KeepSteps, DoneSteps, RequeueSteps DEF Finalize
<1>5. CASE Finish
  BY <1>5, TurnSteps, MoveSteps DEF Finish, TurnStep
<1>6. CASE Recover
  BY <1>6, KeepSteps, DoneSteps, RequeueSteps DEF Recover
<1>7. CASE User
  BY <1>7, SteerQueuedStep, LineSteps, TurnSteps, SendStep DEF User, TurnStep
<1>8. CASE Crash
  BY <1>8, CrashStep
<1> QED BY <1>1, <1>2, <1>3, <1>4, <1>5, <1>6, <1>7, <1>8 DEF Next

\* A step that changes nothing keeps the invariant.
LEMMA StutterStep ==
    ASSUME IInv, UNCHANGED vars
    PROVE  IInv'
<1>1. Queued' = Queued /\ Unique(line')
  BY LineStays DEF IInv, vars, memory
<1>2. TypeOK' /\ Turn' /\ AtMostOnce'
  BY DEF IInv, TypeOK, Turn, AtMostOnce, vars, memory, durable, aside
<1>3. ASSUME NEW n \in Msg PROVE MsgOK(n)'
  BY <1>1 DEF IInv, MsgOK, Places, Out, Admitted, Bare, Recovering, Known, Held, Rooted, Recorded,
           HasTransfer, Persisted, vars, memory, durable, aside
<1> QED BY <1>1, <1>2, <1>3 DEF IInv

\* The invariant holds in every state of the queue.
THEOREM Invariance == Spec => []IInv
<1>1. IInv /\ [Next]_vars => IInv'
  BY NextStep, StutterStep
<1> QED BY InitInv, <1>1, PTL DEF Spec

\* The type invariant.
THEOREM TurnTypeCorrect == Spec => []TypeOK
<1>1. IInv => TypeOK
  BY DEF IInv
<1> QED BY Invariance, <1>1, PTL

\* No message is recorded twice, whatever its steers, requeues, recoveries and crashes:
\* what asks finalizeQueueSteerAdmissions and recoverQueueSteerTransfers whether it is there.
THEOREM RecordedAtMostOnce == Spec => []AtMostOnce
<1>1. IInv => AtMostOnce
  BY DEF IInv
<1> QED BY Invariance, <1>1, PTL

\* A steer that the queue has given up is on disk until it is recorded and completed, also
\* while saves of steerQueuedWebuiMessage, the runner and finalization interleave.
THEOREM AdmittedIsOnDisk == Spec => []SteersAreDurable
<1>1. IInv => SteersAreDurable
  BY DEF IInv, MsgOK, Admitted, SteersAreDurable
<1> QED BY Invariance, <1>1, PTL

\* A message is in one place at a time, and a recorded one in none.
THEOREM MessageInOnePlace == Spec => []OnePlace
<1>1. ASSUME IInv, NEW m \in Msg
      PROVE  LET places == {p \in {"bus", "queue", "root", "steer", "turn"} :
                              \/ p = "bus" /\ bus[m] # "none"
                              \/ p = "queue" /\ m \in Queued
                              \/ p = "root" /\ root = m /\ phase \in {"start", "build"}
                              \/ p = "steer" /\ m \in pending
                              \/ p = "turn" /\ m \in injected}
             IN  /\ Cardinality(places) <= 1
                 /\ Recorded(m) => places = {}
                 /\ \A i, j \in Waiting : line[i].msg = m /\ line[j].msg = m => i = j
  <2> DEFINE places == {p \in {"bus", "queue", "root", "steer", "turn"} :
                          \/ p = "bus" /\ bus[m] # "none"
                          \/ p = "queue" /\ m \in Queued
                          \/ p = "root" /\ root = m /\ phase \in {"start", "build"}
                          \/ p = "steer" /\ m \in pending
                          \/ p = "turn" /\ m \in injected}
  <2>1. \A p, q \in places : p = q
    BY <1>1 DEF IInv, MsgOK, Places, Rooted
  <2>2. Recorded(m) => places = {}
    BY <1>1 DEF IInv, MsgOK, Out, Held
  <2>3. \A i, j \in Waiting : line[i].msg = m /\ line[j].msg = m => i = j
    BY <1>1 DEF IInv, Unique, Waiting
  <2> HIDE DEF places
  <2>4. Cardinality(places) <= 1
    <3>1. CASE places = {}
      BY <3>1, FS_EmptySet
    <3>2. CASE places # {}
      <4>1. PICK p \in places : TRUE
        BY <3>2
      <4>2. places = {p}
        BY <2>1, <4>1
      <4> QED BY <4>2, FS_Singleton
    <3> QED BY <3>1, <3>2
  <2> QED BY <2>2, <2>3, <2>4 DEF places
<1>2. IInv => OnePlace
  BY <1>1 DEF OnePlace
<1> QED BY Invariance, <1>2, PTL

-------------------------------------------------------------------------------
(* The answers to the client *)

Refused(m) == reply[m] \cap {"removed", "rejected"} # {}

\* The root of a turn that failed before it was recorded, which EndFailed is to reject.
FailedRoot(m) == root = m /\ phase = "finalize" /\ outcome = "failed"

\* What the client was told of m is true, and as long as the process has not crashed there is
\* nothing left that could make a refusal false.
Honest(m) ==
    /\ "accepted" \in reply[m] => Recorded(m)
    /\ crashes = 0 => recovering[m] = "no"
    /\ crashes = 0 /\ (Refused(m) \/ FailedRoot(m)) =>
         m \in sent /\ ~Recorded(m) /\ ~Held(m) /\ admission[m] = "none"

\* A turn that is saved has not failed.
SavedTurn == phase = "save" => outcome # "failed"

HInv == IInv /\ SavedTurn /\ \A m \in Msg : Honest(m)

\* Steps whose answers matter: the others publish nothing but that a workspace is lost.
LEMMA RepliesOf ==
    ASSUME Next
    PROVE  \/ reply' = reply
           \/ WorkspaceLost
           \/ GrantCancelled \/ EndFailed \/ \E m \in Msg : RemoveQueued(m)
           \/ PersistRoot \/ \E m \in Msg : FinalizeDone(m) \/ RecoverDone(m)
BY DEF Next, Receive, ReceiveSteer, ReceiveQueue, PassLock, Grant, GrantGone, GrantCancelled, Run, Begin, StartStopped,
         PersistRoot, Prepared, WorkspaceLost, Throws, MaxFinalization, EndRun, Save, Inject, GiveToRunner,
         Finalize, FinalizeKeep, KeepConsumed, FinalizeDone, CompleteTransfer, FinalizeRequeue, Requeue,
         Finish, EndFailed, LeaveFailed, EndTurn, Successor, Recover, RecoverKeep, RecoverDone, RecoverQueue,
         User, SteerQueued, MoveToTurn, RemoveQueued, TakeOut, ReorderQueue, Reorder, StopTurn, CancelAll, Send, Crash,
         StartTurn, Settle, memory, durable, aside

\* A step never takes back a record, and brings back into memory, or records, only what was
\* there, what is unsettled, or what was not sent.
LEMMA NothingReturns ==
    ASSUME IInv, Next, NEW n \in Msg
    PROVE  /\ n \in sent => n \in sent'
           /\ Recorded(n) => Recorded(n)'
           /\ Recorded(n)' => Recorded(n) \/ Held(n) \/ Unsettled(n)
           /\ Held(n)' => Held(n) \/ Unsettled(n) \/ n \notin sent
<1>1. CASE Loses
  BY <1>1 DEF Loses
<1>2. CASE Records
  BY <1>2 DEF Records
<1>3. CASE \E m \in Msg : Promises(m)
  BY <1>3 DEF Promises
<1>4. CASE \E m \in Msg : Sends(m)
  BY <1>4 DEF Sends
<1> QED BY <1>1, <1>2, <1>3, <1>4, NextStep

\* As long as nothing crashes nothing is recovered, and only what is queued is admitted.
LEMMA NothingReopens ==
    ASSUME IInv, Next, NEW n \in Msg
    PROVE  /\ crashes' = 0 => crashes = 0 /\ (recovering'[n] # "no" => recovering[n] # "no")
           /\ admission'[n] # "none" => admission[n] # "none" \/ n \in Queued
<1>1. recovering \in [Msg -> {"no", "read", "kept"}] /\ admission \in [Msg -> {"none", "pending", "consumed"}]
      /\ crashes \in Nat
  BY TurnAssumption DEF IInv, TypeOK
<1>2. \/ Crash
      \/ crashes' = crashes /\ (recovering' = recovering \/ \E m \in Msg : RecoverKeep(m) \/ RecoverDone(m) \/ RecoverQueue(m))
  BY DEF Next, Receive, ReceiveSteer, ReceiveQueue, PassLock, Grant, GrantGone, GrantCancelled, Run, Begin, StartStopped,
         PersistRoot, Prepared, WorkspaceLost, Throws, MaxFinalization, EndRun, Save, Inject, GiveToRunner,
         Finalize, FinalizeKeep, KeepConsumed, FinalizeDone, CompleteTransfer, FinalizeRequeue, Requeue,
         Finish, EndFailed, LeaveFailed, EndTurn, Successor, Recover, RecoverKeep, RecoverDone, RecoverQueue,
         User, SteerQueued, MoveToTurn, RemoveQueued, TakeOut, ReorderQueue, Reorder, StopTurn, CancelAll, Send, Crash,
         StartTurn, Settle, memory, durable, aside
<1>3. crashes' = 0 => crashes = 0 /\ (recovering'[n] # "no" => recovering[n] # "no")
  <2>1. CASE Crash
    BY <1>1, <2>1 DEF Crash
  <2>2. ASSUME NEW m \in Msg, RecoverKeep(m) \/ RecoverDone(m) \/ RecoverQueue(m), crashes' = crashes
        PROVE  crashes' = 0 => crashes = 0 /\ (recovering'[n] # "no" => recovering[n] # "no")
    <3>1. \/ recovering' = [recovering EXCEPT ![m] = "no"]
          \/ recovering' = [recovering EXCEPT ![m] = "kept"] /\ recovering[m] # "no"
      BY <2>2 DEF RecoverKeep, RecoverDone, RecoverQueue, NextToRecover
    <3> QED BY <1>1, <2>2, <3>1
  <2> QED BY <1>2, <2>1, <2>2
<1>4. admission'[n] # "none" => admission[n] # "none" \/ n \in Queued
  BY <1>1 DEF Next, Receive, ReceiveSteer, ReceiveQueue, PassLock, Grant, GrantGone, GrantCancelled, Run, Begin, StartStopped,
         PersistRoot, Prepared, WorkspaceLost, Throws, MaxFinalization, EndRun, Save, Inject, GiveToRunner,
         Finalize, FinalizeKeep, KeepConsumed, FinalizeDone, CompleteTransfer, FinalizeRequeue, Requeue,
         Finish, EndFailed, LeaveFailed, EndTurn, Successor, Recover, RecoverKeep, RecoverDone, RecoverQueue,
         User, SteerQueued, MoveToTurn, RemoveQueued, TakeOut, ReorderQueue, Reorder, StopTurn, CancelAll, Send, Crash,
         StartTurn, Settle, memory, durable, aside
<1> QED BY <1>3, <1>4

\* Only a turn that throws before its root is recorded fails.
LEMMA FailedRootStep ==
    ASSUME IInv, SavedTurn, Next
    PROVE  /\ SavedTurn'
           /\ \A n \in Msg : FailedRoot(n)' => FailedRoot(n) \/ (Throws /\ Rooted(n) /\ admission' = admission)
<1>1. CASE Receive \/ PassLock \/ Recover
  BY <1>1 DEF Receive, ReceiveSteer, ReceiveQueue, PassLock, Grant, GrantGone, GrantCancelled, Recover, RecoverKeep,
     RecoverDone, RecoverQueue, StartTurn, memory, SavedTurn, FailedRoot
<1>2. CASE Run
  BY <1>2 DEF Run, Begin, StartStopped, PersistRoot, Prepared, WorkspaceLost, Throws, MaxFinalization, EndRun, Save,
     Inject, GiveToRunner, Settle, SavedTurn, FailedRoot, Rooted
<1>3. CASE Finalize \/ Finish
  BY <1>3 DEF Finalize, FinalizeKeep, KeepConsumed, FinalizeDone, CompleteTransfer, FinalizeRequeue, Requeue,
     Finish, EndFailed, LeaveFailed, EndTurn, Successor, StartTurn, memory, SavedTurn, FailedRoot
<1>4. CASE User \/ Crash
  BY <1>4 DEF User, SteerQueued, MoveToTurn, RemoveQueued, TakeOut, ReorderQueue, Reorder, StopTurn, CancelAll, Send,
     Crash, SavedTurn, FailedRoot
<1> QED BY <1>1, <1>2, <1>3, <1>4 DEF Next

\* A message that is refused is one that the step takes out of memory for good.
LEMMA RefusalStep ==
    ASSUME HInv, IInv', Next, NEW n \in Msg, Refused(n)', ~Refused(n), crashes' = 0
    PROVE  n \in sent' /\ ~Recorded(n)' /\ ~Held(n)' /\ admission'[n] = "none"
<1>1. IInv /\ MsgOK(n) /\ Honest(n) /\ reply \in [Msg -> SUBSET Replies]
  BY DEF HInv, IInv, TypeOK
<1>2. \/ GrantCancelled /\ n = Head(line).msg
      \/ EndFailed /\ n = root /\ outcome = "failed"
      \/ RemoveQueued(n)
  BY <1>1, RepliesOf DEF Refused, Publish, WorkspaceLost, GrantCancelled, EndFailed, LeaveFailed, RemoveQueued, TakeOut,
     PersistRoot, FinalizeDone, CompleteTransfer, RecoverDone
<1>3. n \in sent => n \in sent'
  BY <1>1, NothingReturns
<1>4. CASE GrantCancelled /\ n = Head(line).msg
  <2>1. line \in Seq(Waiter) /\ line # <<>> /\ Unique(line) /\ Head(line).st # "gone" /\ line' = Tail(line)
    BY <1>1, <1>4 DEF GrantCancelled, IInv, TypeOK
  <2>2. Queued' = QueuedIn(line')
    BY DEF Queued, Waiting, QueuedIn
  <2>3. n \in Queued /\ n \notin Queued'
    BY <1>4, <2>1, <2>2, TailFacts, QueuedIsIn
  <2> QED BY <1>1, <1>3, <1>4, <2>3 DEF MsgOK, Places, Out, Admitted, Known, Held, Rooted, Recorded, GrantCancelled, durable
<1>5. CASE EndFailed /\ n = root /\ outcome = "failed"
  <2>1. FailedRoot(n) /\ crashes = 0 /\ line' = line
    BY <1>5 DEF EndFailed, LeaveFailed, TurnOver, FailedRoot
  <2>2. Queued' = Queued
    BY <2>1, LineStays
  <2> QED BY <1>1, <1>3, <1>5, <2>1, <2>2 DEF Honest, Held, Recorded, EndFailed, LeaveFailed, durable
<1>6. CASE RemoveQueued(n)
  <2>1. line \in Seq(Waiter) /\ Unique(line) /\ line' = SetState(n, "gone")
    BY <1>1, <1>6 DEF RemoveQueued, TakeOut, IInv, TypeOK
  <2>2. Queued' = QueuedIn(line')
    BY DEF Queued, Waiting, QueuedIn
  <2>3. n \in Queued /\ n \notin Queued'
    BY <1>6, <2>1, <2>2, SetStateFacts DEF RemoveQueued, TakeOut
  <2> QED BY <1>1, <1>3, <1>6, <2>3 DEF MsgOK, Places, Out, Admitted, Known, Held, Rooted, Recorded, RemoveQueued,
       TakeOut, durable
<1> QED BY <1>2, <1>4, <1>5, <1>6

\* A message that is accepted is recorded.
LEMMA AcceptanceStep ==
    ASSUME IInv, Next, NEW n \in Msg, "accepted" \in reply'[n], "accepted" \notin reply[n]
    PROVE  Recorded(n)'
<1>1. reply \in [Msg -> SUBSET Replies] /\ history \in [Msg -> Seq(Msg)] /\ AtMostOnce
  BY DEF IInv, TypeOK
<1>2. (PersistRoot /\ n = root) \/ FinalizeDone(n) \/ RecoverDone(n)
  BY <1>1, RepliesOf DEF Publish, WorkspaceLost, GrantCancelled, EndFailed, LeaveFailed, RemoveQueued, TakeOut,
     PersistRoot, FinalizeDone, CompleteTransfer, RecoverDone
<1>3. CASE PersistRoot /\ n = root
  <2>1. ~Recorded(root) /\ Record({root}, root)
    BY <1>3 DEF PersistRoot, IInv, MsgOK, Out, Held
  <2> QED BY <1>1, <1>3, <2>1, RecordOneFacts DEF Recorded
<1>4. CASE FinalizeDone(n) \/ RecoverDone(n)
  BY <1>4 DEF FinalizeDone, CompleteTransfer, RecoverDone, Persisted, Recorded
<1> QED BY <1>2, <1>3, <1>4

\* Every step keeps the answers true.
LEMMA HonestStep ==
    ASSUME HInv, Next
    PROVE  HInv'
<1>1. IInv /\ IInv'
  BY NextStep DEF HInv
<1>2. ASSUME NEW n \in Msg PROVE Honest(n)'
  <2>1. MsgOK(n) /\ MsgOK(n)' /\ Honest(n)
    BY <1>1 DEF HInv, IInv
  <2>2. /\ n \in sent => n \in sent'
        /\ Recorded(n) => Recorded(n)'
        /\ Recorded(n)' => Recorded(n) \/ Held(n) \/ Unsettled(n)
        /\ Held(n)' => Held(n) \/ Unsettled(n) \/ n \notin sent
    BY <1>1, NothingReturns
  <2>3. /\ crashes' = 0 => crashes = 0 /\ (recovering'[n] # "no" => recovering[n] # "no")
        /\ admission'[n] # "none" => admission[n] # "none" \/ n \in Queued
    BY <1>1, NothingReopens
  <2>4. ("accepted" \in reply[n] => Recorded(n)) /\ (crashes = 0 => recovering[n] = "no")
    BY <2>1 DEF Honest
  <2>5. "accepted" \in reply'[n] => Recorded(n)'
    BY <1>1, <2>2, <2>4, AcceptanceStep
  <2>6. ASSUME crashes' = 0, Refused(n) \/ FailedRoot(n)
        PROVE  n \in sent' /\ ~Recorded(n)' /\ ~Held(n)' /\ admission'[n] = "none"
    BY <2>1, <2>2, <2>3, <2>6 DEF Honest, Unsettled, Held
  <2>7. ASSUME crashes' = 0, FailedRoot(n)', ~FailedRoot(n)
        PROVE  n \in sent' /\ ~Recorded(n)' /\ ~Held(n)' /\ admission'[n] = "none"
    <3>1. Throws /\ Rooted(n) /\ admission' = admission
      BY <1>1, <2>7, FailedRootStep DEF HInv
    <3>2. Queued' = Queued
      BY <3>1, LineStays DEF Throws
    <3> QED BY <2>1, <2>2, <3>1, <3>2 DEF MsgOK, Places, Out, Admitted, Known, Held, Rooted, Recorded, Throws, Settle, durable
  <2>8. ASSUME crashes' = 0, Refused(n)', ~Refused(n)
        PROVE  n \in sent' /\ ~Recorded(n)' /\ ~Held(n)' /\ admission'[n] = "none"
    BY <1>1, <2>8, RefusalStep
  <2> QED BY <2>3, <2>4, <2>5, <2>6, <2>7, <2>8 DEF Honest
<1>3. SavedTurn'
  BY FailedRootStep DEF HInv
<1> QED BY <1>1, <1>2, <1>3 DEF HInv

\* What the client is told of a message is true: an accepted one is in the history, also
\* after crashes; a refused one is not, before the first crash.
THEOREM AnswersStayTrue == Spec => []AnswersAreTrue
<1>1. Init => HInv
  <2>1. Init => SavedTurn /\ \A m \in Msg : Honest(m)
    BY DEF Init, Honest, Refused, FailedRoot, SavedTurn
  <2> QED BY <2>1, InitInv DEF HInv
<1>2. HInv /\ UNCHANGED vars => HInv'
  <2> SUFFICES ASSUME HInv, UNCHANGED vars PROVE HInv'
    OBVIOUS
  <2>1. IInv' /\ Queued' = Queued
    BY StutterStep, LineStays DEF HInv, vars, memory
  <2>2. ASSUME NEW n \in Msg PROVE Honest(n)'
    BY <2>1 DEF HInv, Honest, Refused, FailedRoot, Recorded, Held, vars, memory, durable, aside
  <2> QED BY <2>1, <2>2 DEF HInv, SavedTurn, vars, memory
<1>3. HInv /\ [Next]_vars => HInv'
  BY <1>2, HonestStep
<1>4. HInv => AnswersAreTrue
  BY DEF HInv, Honest, Refused, AnswersAreTrue, RefusedStaysOut
<1> QED BY <1>1, <1>3, <1>4, PTL DEF Spec

-------------------------------------------------------------------------------
(* The order of the queue *)

\* The waiters stand in the order of their priorities, and the priority of one that waits is
\* the time shown for its message.
Sorted(l) == \A i, j \in DOMAIN l : i < j => l[i].at <= l[j].at
Timed(l, time) == \A i \in DOMAIN l : l[i].st # "gone" => time[l[i].msg] = l[i].at

OInv == IInv /\ (~reordered => Sorted(line) /\ Timed(line, at))

\* The index that findIndex gives separates the priorities up to p from the first higher one.
LEMMA IndexSplits ==
    ASSUME NEW l \in Seq(Waiter), NEW p \in Nat
    PROVE  /\ \A i \in DOMAIN l : i < Index(l, p) => l[i].at <= p
           /\ Index(l, p) \in DOMAIN l => l[Index(l, p)].at > p
<1> DEFINE S == {i \in DOMAIN l : \A j \in 1..i : l[j].at <= p}
           T == {i \in 1..Len(l) + 1 : i = Len(l) + 1 \/ l[i].at > p}
<1>1. Len(l) \in Nat /\ DOMAIN l = 1..Len(l) /\ \A i \in 1..Len(l) : l[i].at \in Nat
  <2>1. Len(l) \in Nat /\ DOMAIN l = 1..Len(l) /\ \A i \in 1..Len(l) : l[i] \in Waiter
    OBVIOUS
  <2>2. \A w \in Waiter : w.at \in Nat
    BY DEF Waiter
  <2> QED BY <2>1, <2>2
<1>2. T \subseteq Nat /\ T # {}
  <2>1. Len(l) + 1 \in T
    BY <1>1
  <2> QED BY <1>1, <2>1
<1>3. PICK k \in T : \A y \in T : k <= y
  BY <1>2, LeastNatural
<1>4. k \in 1..Len(l) + 1 /\ (k \in 1..Len(l) => l[k].at > p)
  BY <1>1, <1>3
<1>5. \A i \in 1..Len(l) : i < k => l[i].at <= p
  BY <1>1, <1>3, <1>4
<1>6. S = 1..k - 1
  <2>1. ASSUME NEW i \in S PROVE i \in 1..k - 1
    <3>1. i \in 1..Len(l) /\ (k \in 1..i => l[k].at <= p)
      BY <1>1, <2>1
    <3> QED BY <1>1, <1>4, <3>1
  <2>2. ASSUME NEW i \in 1..k - 1 PROVE i \in S
    <3>1. i \in DOMAIN l /\ \A j \in 1..i : j \in 1..Len(l) /\ j < k
      BY <1>1, <1>4
    <3> QED BY <1>5, <3>1
  <2> QED BY <2>1, <2>2
<1>7. Cardinality(1..k - 1) = k - 1
  <2>1. k - 1 \in Nat /\ 1 \in Nat
    BY <1>1, <1>4
  <2>2. Cardinality(1..k - 1) = IF 1 > k - 1 THEN 0 ELSE (k - 1) - 1 + 1
    BY <2>1, FS_Interval
  <2> QED BY <1>4, <2>2
<1> HIDE DEF S, T
<1>8. Index(l, p) = Cardinality(S) + 1
  BY DEF Index, S
<1>9. Index(l, p) = k
  BY <1>1, <1>4, <1>6, <1>7, <1>8
<1> QED BY <1>1, <1>4, <1>5, <1>9

\* A waiter that is inserted keeps the order, with its message's time set to its priority.
LEMMA InsertSorted ==
    ASSUME NEW l \in Seq(Waiter), NEW m \in Msg, NEW p \in Nat, NEW time \in [Msg -> Nat],
           Sorted(l), Timed(l, time), m \notin QueuedIn(l)
    PROVE  Sorted(Insert(l, m, p)) /\ Timed(Insert(l, m, p), [time EXCEPT ![m] = p])
<1> DEFINE k == Index(l, p)
           w == NewWaiter(m, p)
           n == Insert(l, m, p)
<1>1. Len(l) \in Nat /\ DOMAIN l = 1..Len(l) /\ \A i \in 1..Len(l) : l[i].at \in Nat /\ l[i].msg \in Msg
  <2>1. Len(l) \in Nat /\ DOMAIN l = 1..Len(l) /\ \A i \in 1..Len(l) : l[i] \in Waiter
    OBVIOUS
  <2>2. \A v \in Waiter : v.at \in Nat /\ v.msg \in Msg
    BY DEF Waiter
  <2> QED BY <2>1, <2>2
<1>2. k \in 1..Len(l) + 1
  BY IndexType
<1>3. w.at = p /\ w.msg = m /\ w.st = "live"
  BY DEF NewWaiter
<1>4. n = [i \in 1..Len(l) + 1 |-> IF i < k THEN l[i] ELSE IF i = k THEN w ELSE l[i - 1]]
  BY DEF Insert, InsertAt
<1>5. (\A i \in 1..Len(l) : i < k => l[i].at <= p) /\ (k \in 1..Len(l) => l[k].at > p)
  BY <1>1, IndexSplits
<1> HIDE DEF k, w, n
<1>6. \A i, j \in 1..Len(l) : i < j => l[i].at <= l[j].at
  BY <1>1 DEF Sorted
<1>7. \A i \in 1..Len(l) : i >= k => l[i].at > p
  <2> SUFFICES ASSUME NEW i \in 1..Len(l), i >= k PROVE l[i].at > p
    OBVIOUS
  <2>1. k \in 1..Len(l) /\ l[k].at > p
    BY <1>1, <1>2, <1>5
  <2>2. CASE i = k
    BY <2>1, <2>2
  <2>3. CASE i > k
    <3>1. l[k].at <= l[i].at
      BY <1>1, <1>2, <1>6, <2>1, <2>3
    <3> QED BY <1>1, <2>1, <3>1
  <2> QED BY <1>1, <1>2, <2>2, <2>3
<1>8. DOMAIN n = 1..Len(l) + 1
  BY <1>4
<1>9. \A i \in 1..Len(l) + 1 : \/ i < k /\ i \in 1..Len(l) /\ n[i] = l[i]
                               \/ i = k /\ n[i] = w
                               \/ i > k /\ i - 1 \in 1..Len(l) /\ i - 1 >= k /\ n[i] = l[i - 1]
  BY <1>1, <1>2, <1>4
<1>10. Sorted(n)
  <2> SUFFICES ASSUME NEW i \in 1..Len(l) + 1, NEW j \in 1..Len(l) + 1, i < j PROVE n[i].at <= n[j].at
    BY <1>8 DEF Sorted
  <2>1. CASE i < k
    <3>1. i \in 1..Len(l) /\ n[i] = l[i] /\ l[i].at <= p
      BY <1>2, <1>5, <1>9, <2>1
    <3>2. CASE j < k
      BY <1>2, <1>6, <1>9, <3>1, <3>2
    <3>3. CASE j = k
      BY <1>2, <1>3, <1>9, <3>1, <3>3
    <3>4. CASE j > k
      <4>1. j - 1 \in 1..Len(l) /\ n[j] = l[j - 1] /\ l[j - 1].at > p
        BY <1>2, <1>7, <1>9, <3>4
      <4> QED BY <1>1, <3>1, <4>1
    <3> QED BY <1>2, <3>2, <3>3, <3>4
  <2>2. CASE i = k
    <3>1. j - 1 \in 1..Len(l) /\ n[j] = l[j - 1] /\ l[j - 1].at > p
      BY <1>2, <1>7, <1>9, <2>2
    <3> QED BY <1>1, <1>3, <1>9, <2>2, <3>1
  <2>3. CASE i > k
    <3>1. i - 1 \in 1..Len(l) /\ n[i] = l[i - 1] /\ j - 1 \in 1..Len(l) /\ n[j] = l[j - 1]
      BY <1>2, <1>9, <2>3
    <3> QED BY <1>6, <3>1
  <2> QED BY <1>2, <2>1, <2>2, <2>3
<1>11. Timed(n, [time EXCEPT ![m] = p])
  <2> SUFFICES ASSUME NEW i \in 1..Len(l) + 1, n[i].st # "gone"
               PROVE  [time EXCEPT ![m] = p][n[i].msg] = n[i].at
    BY <1>8 DEF Timed
  <2>1. \A a \in 1..Len(l) : l[a].st # "gone" => l[a].msg # m /\ time[l[a].msg] = l[a].at
    BY <1>1 DEF Timed, QueuedIn
  <2>2. CASE n[i] = w
    BY <1>3, <2>2
  <2>3. ASSUME NEW a \in 1..Len(l), n[i] = l[a] PROVE [time EXCEPT ![m] = p][n[i].msg] = n[i].at
    BY <1>1, <2>1, <2>3
  <2> QED BY <1>9, <2>2, <2>3
<1> QED BY <1>10, <1>11 DEF n

\* The head leaves the line.
LEMMA TailSorted ==
    ASSUME NEW l \in Seq(Waiter), NEW time, l # <<>>, Sorted(l), Timed(l, time)
    PROVE  Sorted(Tail(l)) /\ Timed(Tail(l), time)
<1> DEFINE t == Tail(l)
<1>1. /\ Len(l) \in Nat /\ DOMAIN l = 1..Len(l) /\ DOMAIN t = 1..Len(l) - 1
      /\ \A i \in 1..Len(l) - 1 : t[i] = l[i + 1] /\ i + 1 \in 1..Len(l)
  OBVIOUS
<1> HIDE DEF t
<1>2. Sorted(t)
  BY <1>1 DEF Sorted
<1>3. Timed(t, time)
  BY <1>1 DEF Timed
<1> QED BY <1>2, <1>3 DEF t

\* Waiters change their state only.
LEMMA MarkSorted ==
    ASSUME NEW l, NEW n, NEW time, DOMAIN n = DOMAIN l, Sorted(l), Timed(l, time),
           \A i \in DOMAIN l : n[i].msg = l[i].msg /\ n[i].at = l[i].at /\ (l[i].st = "gone" => n[i].st = "gone")
    PROVE  Sorted(n) /\ Timed(n, time)
BY DEF Sorted, Timed

\* Every step keeps the order, unless it is a reorder.
LEMMA OrderStep ==
    ASSUME OInv, Next
    PROVE  OInv'
<1>1. IInv /\ IInv' /\ line \in Seq(Waiter) /\ at \in [Msg -> Nat]
  BY NextStep DEF OInv, IInv, TypeOK
<1> SUFFICES ASSUME ~reordered' PROVE Sorted(line') /\ Timed(line', at')
  BY <1>1 DEF OInv
<1>2. CASE Crash
  BY <1>2 DEF Crash, Sorted, Timed
<1> SUFFICES ASSUME ~Crash PROVE Sorted(line') /\ Timed(line', at')
  BY <1>2
<1>3. ~reordered /\ Sorted(line) /\ Timed(line, at)
  BY DEF Next, Receive, ReceiveSteer, ReceiveQueue, PassLock, Grant, GrantGone, GrantCancelled, Run, Begin, StartStopped,
         PersistRoot, Prepared, WorkspaceLost, Throws, MaxFinalization, EndRun, Save, Inject, GiveToRunner,
         Finalize, FinalizeKeep, KeepConsumed, FinalizeDone, CompleteTransfer, FinalizeRequeue, Requeue,
         Finish, EndFailed, LeaveFailed, EndTurn, Successor, Recover, RecoverKeep, RecoverDone, RecoverQueue,
         User, SteerQueued, MoveToTurn, RemoveQueued, TakeOut, ReorderQueue, Reorder, StopTurn, CancelAll, Send, Crash,
         StartTurn, Settle, memory, durable, aside, OInv, Publish, Record
<1>4. CASE line' = line /\ at' = at
  BY <1>3, <1>4
<1>5. ASSUME NEW m \in Msg, NEW p \in Nat, line' = Insert(line, m, p), at' = [at EXCEPT ![m] = p], m \notin Queued
      PROVE  Sorted(line') /\ Timed(line', at')
  BY <1>1, <1>3, <1>5, QueuedIsIn, InsertSorted
<1>6. CASE line # <<>> /\ line' = Tail(line) /\ at' = at
  BY <1>1, <1>3, <1>6, TailSorted
<1>7. ASSUME NEW m \in Msg, line' = SetState(m, "gone"), at' = at
      PROVE  Sorted(line') /\ Timed(line', at')
  <2>1. /\ DOMAIN line' = DOMAIN line
        /\ \A i \in DOMAIN line : /\ line'[i].msg = line[i].msg /\ line'[i].at = line[i].at
                                  /\ line[i].st = "gone" => line'[i].st = "gone"
    BY <1>1, <1>7 DEF SetState, Waiter
  <2> QED BY <1>3, <1>7, <2>1, MarkSorted
<1>8. CASE CancelAll
  <2>1. /\ DOMAIN line' = DOMAIN line
        /\ \A i \in DOMAIN line : /\ line'[i].msg = line[i].msg /\ line'[i].at = line[i].at
                                  /\ line[i].st = "gone" => line'[i].st = "gone"
    BY <1>1, <1>8 DEF CancelAll, Waiter
  <2>2. at' = at
    BY <1>8 DEF CancelAll
  <2> QED BY <1>3, <2>1, <2>2, MarkSorted
<1>9. ASSUME NEW m \in Msg, RecoverQueue(m) PROVE Sorted(line') /\ Timed(line', at')
  <2>1. transfer[m].at \in Nat /\ m \notin Queued
    BY <1>1, <1>9 DEF IInv, TypeOK, Transfer, MsgOK, Recovering, Held, RecoverQueue, NextToRecover
  <2>2. CASE LockFree
    BY <1>9, <2>2 DEF RecoverQueue, LockFree, Sorted, Timed
  <2>3. CASE ~LockFree
    BY <1>5, <1>9, <2>1, <2>3 DEF RecoverQueue
  <2> QED BY <2>2, <2>3
<1>10. ASSUME NEW m \in Msg, FinalizeRequeue(m) PROVE Sorted(line') /\ Timed(line', at')
  <2>1. transfer[m].at \in Nat /\ m \notin Queued
    BY <1>1, <1>10 DEF IInv, TypeOK, Transfer, MsgOK, Admitted, FinalizeRequeue, Requeue
  <2> QED BY <1>5, <1>10, <2>1 DEF FinalizeRequeue, Requeue
<1>11. ASSUME NEW m \in Msg, ReceiveQueue(m) PROVE Sorted(line') /\ Timed(line', at')
  <2>1. lastAt + 1 \in Nat /\ m \notin Queued
    BY <1>1, <1>11 DEF IInv, TypeOK, MsgOK, Places, ReceiveQueue
  <2> QED BY <1>4, <1>5, <1>11, <2>1 DEF ReceiveQueue
<1>12. CASE PassLock
  BY <1>6, <1>12 DEF PassLock, Grant, GrantGone, GrantCancelled
<1>13. CASE Run \/ Finish
  BY <1>4, <1>13 DEF Run, Begin, StartStopped, PersistRoot, Prepared, WorkspaceLost, Throws, MaxFinalization, EndRun,
     Save, Inject, GiveToRunner, Finish, EndFailed, LeaveFailed, EndTurn, Successor
<1>14. ASSUME NEW m \in Msg, ReceiveSteer(m) \/ FinalizeKeep(m) \/ FinalizeDone(m) \/ RecoverKeep(m) \/ RecoverDone(m)
      PROVE  Sorted(line') /\ Timed(line', at')
  BY <1>4, <1>14 DEF ReceiveSteer, FinalizeKeep, KeepConsumed, FinalizeDone, CompleteTransfer, RecoverKeep, RecoverDone,
     memory
<1>15. CASE User
  <2>1. ASSUME NEW m \in Msg, SteerQueued(m) \/ RemoveQueued(m) PROVE Sorted(line') /\ Timed(line', at')
    BY <1>7, <2>1 DEF SteerQueued, MoveToTurn, RemoveQueued, TakeOut
  <2>2. ~ReorderQueue
    BY DEF ReorderQueue, Reorder
  <2>3. CASE StopTurn \/ \E m \in Msg, a \in {"queue", "steer"} : Send(m, a)
    BY <1>4, <2>3 DEF StopTurn, Send
  <2> QED BY <1>8, <1>15, <2>1, <2>2, <2>3 DEF User
<1> QED BY <1>9, <1>10, <1>11, <1>12, <1>13, <1>14, <1>15 DEF Next, Receive, Finalize, Recover

\* Until the user reorders the queue the lock is passed in the order of the times shown.
THEOREM OrderIsKept == Spec => []QueueKeepsOrder
<1>1. Init => OInv
  BY InitInv DEF Init, OInv, Sorted, Timed
<1>2. OInv /\ UNCHANGED vars => OInv'
  BY StutterStep DEF OInv, Sorted, Timed, vars, memory, aside
<1>3. OInv /\ [Next]_vars => OInv'
  BY <1>2, OrderStep
<1>4. OInv => QueueKeepsOrder
  BY DEF OInv, Sorted, Timed, QueueKeepsOrder, Waiting
<1> QED BY <1>1, <1>3, <1>4, PTL DEF Spec

-------------------------------------------------------------------------------
(* The refinement *)

\* The status of a message, without the impossible cases.
Status(m) == IF Recorded(m) THEN "recorded"
             ELSE IF HasTransfer(m) THEN "promised"
             ELSE IF Held(m) THEN "held"
             ELSE IF m \in sent THEN "lost" ELSE "unsent"

\* A message is recorded if it is in the history once.
LEMMA HistoryLength ==
    ASSUME NEW h \in Seq(Msg), Len(h) <= 1
    PROVE  ~(Len(h) > 1) /\ (Len(h) = 1 <=> h # <<>>)
<1>1. h = <<>> <=> Len(h) = 0
  BY EmptySeq
<1>2. Len(h) \in Nat
  OBVIOUS
<1>3. Len(h) = 0 \/ Len(h) = 1
  BY <1>2
<1>4. ~(Len(h) > 1) /\ (Len(h) = 1 <=> Len(h) # 0)
  BY <1>3
<1> QED BY <1>1, <1>4, Zenon

\* The status the refinement maps to, in a state and in the next one.
LEMMA StatusIs ==
    ASSUME IInv, IInv'
    PROVE  \A m \in Msg : StatusOf(m) = Status(m) /\ StatusOf(m)' = Status(m)'
<1> SUFFICES ASSUME NEW m \in Msg PROVE StatusOf(m) = Status(m) /\ StatusOf(m)' = Status(m)'
  OBVIOUS
<1>1. ~(Len(history[m]) > 1) /\ (Len(history[m]) = 1 <=> Recorded(m))
  BY HistoryLength DEF IInv, TypeOK, AtMostOnce, Recorded
<1>2. ~(Len(history'[m]) > 1) /\ (Len(history'[m]) = 1 <=> Recorded(m)')
  BY HistoryLength DEF IInv, TypeOK, AtMostOnce, Recorded
<1>3. StatusOf(m) = Status(m)
  BY <1>1 DEF StatusOf, Status
<1>4. StatusOf(m)' = Status(m)'
  BY <1>2 DEF StatusOf, Status
<1> QED BY <1>3, <1>4

\* The queue implements the ledger: a promised message is never lost, a recorded one stays
\* recorded, a lost one never comes back, whatever the interleaving and the crashes.
THEOREM QueueImplementsLedger == Spec => ImplementsLedger
<1> DEFINE st == [m \in Msg |-> StatusOf(m)]
<1>1. Init => st = [m \in Msg |-> "unsent"]
  <2> SUFFICES ASSUME Init, NEW m \in Msg PROVE StatusOf(m) = "unsent"
    OBVIOUS
  <2>1. Len(history[m]) = 0 /\ ~Recorded(m) /\ ~HasTransfer(m) /\ m \notin sent
    BY DEF Init, Recorded, HasTransfer, None
  <2>2. ~Held(m)
    BY TurnAssumption DEF Init, Held, Queued, Waiting
  <2> QED BY <2>1, <2>2 DEF StatusOf
<1>2. ASSUME IInv, Next PROVE [Ledger!LNext]_st
  <2>1. IInv'
    BY <1>2, NextStep
  <2>2. \A m \in Msg : st[m] = Status(m) /\ st'[m] = Status(m)'
    BY <1>2, <2>1, StatusIs
  <2>3. CASE Loses
    <3> DEFINE S == {m \in Msg : st[m] = "held" /\ st'[m] = "lost"}
    <3>1. \A m \in Msg : st'[m] = IF m \in S THEN "lost" ELSE st[m]
      BY <1>2, <2>2, <2>3 DEF Status, Loses, Unsettled, IInv, MsgOK, Known
    <3>2. S \in SUBSET {m \in Msg : st[m] \in {"held"}}
      OBVIOUS
    <3>3. Ledger!LLose
      BY <3>1, <3>2 DEF Ledger!LLose, Ledger!Put, Ledger!In
    <3> QED BY <3>3 DEF Ledger!LNext
  <2>4. CASE Records
    <3> DEFINE S == {m \in Msg : st[m] \in {"held", "promised"} /\ st'[m] = "recorded"}
    <3>1. \A m \in Msg : st'[m] = IF m \in S THEN "recorded" ELSE st[m]
      BY <1>2, <2>2, <2>4 DEF Status, Records, Unsettled, IInv, MsgOK, Known
    <3>2. S \in SUBSET {m \in Msg : st[m] \in {"held", "promised"}}
      OBVIOUS
    <3>3. Ledger!LRecord
      BY <3>1, <3>2 DEF Ledger!LRecord, Ledger!Put, Ledger!In
    <3> QED BY <3>3 DEF Ledger!LNext
  <2>5. ASSUME NEW m \in Msg, Promises(m) PROVE Ledger!LNext
    <3>1. st[m] = "held" /\ \A n \in Msg : st'[n] = IF n \in {m} THEN "promised" ELSE st[n]
      BY <1>2, <2>2, <2>5 DEF Status, Promises
    <3>2. Ledger!LPromise
      BY <3>1 DEF Ledger!LPromise, Ledger!Put, Ledger!In
    <3> QED BY <3>2 DEF Ledger!LNext
  <2>6. ASSUME NEW m \in Msg, Sends(m) PROVE Ledger!LNext
    <3>1. st[m] = "unsent" /\ \A n \in Msg : st'[n] = IF n \in {m} THEN "held" ELSE st[n]
      BY <1>2, <2>2, <2>6 DEF Status, Sends, IInv, MsgOK, Known
    <3>2. Ledger!LSend
      BY <3>1 DEF Ledger!LSend, Ledger!Put, Ledger!In
    <3> QED BY <3>2 DEF Ledger!LNext
  <2> QED BY <1>2, <2>3, <2>4, <2>5, <2>6, NextStep
<1>3. ASSUME UNCHANGED vars PROVE UNCHANGED st
  BY <1>3 DEF StatusOf, Recorded, HasTransfer, Held, Queued, Waiting, vars, memory, durable, aside
<1> HIDE DEF st
<1>4. IInv /\ [Next]_vars => [Ledger!LNext]_st
  BY <1>2, <1>3
<1> QED BY Invariance, <1>1, <1>4, PTL DEF Spec, ImplementsLedger, Ledger!LSpec, Ledger!LInit, st
==============================================================================
