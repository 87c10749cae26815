-------------------------- MODULE CronServiceProofs --------------------------
(* Theorems about CronService, for every set of tasks, every period, sleep and  *)
(* bound.  What the recursive function in Merged computes is proved by induction *)
(* over the log; the CHOOSE of armTimer by the least number principle.           *)
EXTENDS CronService, LeastNumber, TLAPS

-------------------------------------------------------------------------------
(* The action log *)

\* f is the function that Merged(s) defines by recursion, up to n.
MergesTo(f, s, n) == f = [i \in 0..n |-> IF i = 0 THEN s ELSE Apply(f[i - 1], log[i])]

\* The recursion has a solution.
LEMMA MergeExists ==
    ASSUME NEW s, log \in Seq(Action)
    PROVE  \E f : MergesTo(f, s, Len(log))
<1> DEFINE T == {n \in 0..Len(log) : \E f : MergesTo(f, s, n)}
<1>1. Len(log) \in Nat
  OBVIOUS
<1>2. 0 \in T
  <2> DEFINE g == [i \in 0..0 |-> s]
  <2>1. MergesTo(g, s, 0)
    BY DEF MergesTo
  <2> QED BY <1>1, <2>1
<1>3. ASSUME NEW n \in 0..Len(log) - 1, n \in T PROVE n + 1 \in T
  <2>1. PICK f : MergesTo(f, s, n)
    BY <1>3
  <2> DEFINE g == [i \in 0..n + 1 |-> IF i <= n THEN f[i] ELSE Apply(f[n], log[n + 1])]
  <2>2. ASSUME NEW i \in 0..n + 1
        PROVE  g[i] = IF i = 0 THEN s ELSE Apply(g[i - 1], log[i])
    <3>1. CASE i = 0
      <4>1. f[0] = s /\ g[0] = f[0]
        BY <1>1, <1>3, <2>1 DEF MergesTo
      <4> QED BY <3>1, <4>1
    <3>2. CASE i # 0 /\ i <= n
      <4>1. i \in 0..n /\ i - 1 \in 0..n + 1 /\ i - 1 <= n
        BY <1>1, <1>3, <3>2
      <4>2. f[i] = Apply(f[i - 1], log[i])
        BY <2>1, <3>2, <4>1 DEF MergesTo
      <4>3. g[i] = f[i] /\ g[i - 1] = f[i - 1]
        BY <3>2, <4>1
      <4> QED BY <3>2, <4>2, <4>3
    <3>3. CASE i = n + 1
      <4>1. i # 0 /\ ~(i <= n) /\ i - 1 = n /\ n \in 0..n + 1 /\ n <= n
        BY <1>1, <1>3, <3>3
      <4>2. g[i] = Apply(f[n], log[n + 1]) /\ g[n] = f[n]
        BY <4>1
      <4> QED BY <3>3, <4>1, <4>2
    <3> QED BY <1>1, <1>3, <3>1, <3>2, <3>3
  <2>3. MergesTo(g, s, n + 1)
    BY <2>2 DEF MergesTo
  <2>4. n + 1 \in 0..Len(log)
    BY <1>1, <1>3
  <2> HIDE DEF g
  <2> QED BY <2>3, <2>4
<1> HIDE DEF T
<1>4. CASE Len(log) = 0
  BY <1>2, <1>4 DEF T
<1>5. CASE Len(log) # 0
  <2>1. Len(log) - 1 \in Nat
    BY <1>1, <1>5
  <2>2. Len(log) - 1 \in T
    BY <1>2, <1>3, <2>1, SetInduction
  <2>3. Len(log) \in T
    BY <1>1, <1>3, <2>1, <2>2
  <2> QED BY <2>3 DEF T
<1> QED BY <1>4, <1>5

LEMMA MergedIs ==
    ASSUME NEW s, log \in Seq(Action)
    PROVE  \E f : MergesTo(f, s, Len(log)) /\ Merged(s) = f[Len(log)]
<1> DEFINE f == CHOOSE g : MergesTo(g, s, Len(log))
<1>1. MergesTo(f, s, Len(log))
  BY MergeExists
<1>2. Merged(s) = f[Len(log)]
  BY DEF Merged, MergesTo
<1> QED BY <1>1, <1>2

LEMMA ApplyFacts ==
    ASSUME NEW s \in [Job -> Row], NEW a \in Action
    PROVE  /\ Apply(s, a) \in [Job -> Row]
           /\ \A j \in Job : j # a.job => Apply(s, a)[j] = s[j]
<1>1. Absent \in Row /\ a.row \in Row /\ a.job \in Job
  BY DEF Absent, Row, Action
<1> QED BY <1>1 DEF Apply

\* mergeAction leaves the tasks alone that the log does not name.
LEMMA MergedFacts ==
    ASSUME NEW s \in [Job -> Row], log \in Seq(Action)
    PROVE  /\ Merged(s) \in [Job -> Row]
           /\ \A j \in Job \ Touched : Merged(s)[j] = s[j]
<1>1. PICK f : MergesTo(f, s, Len(log)) /\ Merged(s) = f[Len(log)]
  BY MergedIs
<1>2. Len(log) \in Nat /\ DOMAIN log = 1..Len(log) /\ \A i \in 1..Len(log) : log[i] \in Action
  OBVIOUS
<1> DEFINE T == {n \in 0..Len(log) : /\ f[n] \in [Job -> Row]
                                     /\ \A j \in Job \ Touched : f[n][j] = s[j]}
<1>3. 0 \in T
  BY <1>1, <1>2 DEF MergesTo
<1>4. ASSUME NEW n \in 0..Len(log) - 1, n \in T PROVE n + 1 \in T
  <2>1. n + 1 \in 0..Len(log) /\ n + 1 \in 1..Len(log) /\ n + 1 # 0 /\ n + 1 - 1 = n
    BY <1>2, <1>4
  <2>2. f[n + 1] = Apply(f[n], log[n + 1])
    BY <1>1, <2>1 DEF MergesTo
  <2>3. log[n + 1] \in Action /\ log[n + 1].job \in Touched
    BY <1>2, <2>1 DEF Touched
  <2>4. /\ f[n + 1] \in [Job -> Row]
        /\ \A j \in Job : j # log[n + 1].job => f[n + 1][j] = f[n][j]
    BY <1>4, <2>2, <2>3, ApplyFacts
  <2> QED BY <1>4, <2>1, <2>3, <2>4
<1> HIDE DEF T
<1>5. CASE Len(log) = 0
  BY <1>1, <1>3, <1>5 DEF T
<1>6. CASE Len(log) # 0
  <2>1. Len(log) - 1 \in Nat
    BY <1>2, <1>6
  <2>2. Len(log) - 1 \in T
    BY <1>3, <1>4, <2>1, SetInduction
  <2>3. Len(log) \in T
    BY <1>2, <1>4, <2>1, <2>2
  <2> QED BY <1>1, <2>3 DEF T
<1> QED BY <1>5, <1>6
-------------------------------------------------------------------------------
(* The other operators *)

LEMMA Constants ==
    /\ Period \in Nat /\ Period > 0 /\ MaxSleep \in Nat /\ MaxSleep > 0 /\ MaxNow \in Nat
    /\ MaxEdits \in Nat /\ MaxManual \in Nat /\ MaxExternal \in Nat /\ MaxCrashes \in Nat
BY CronAssumption

\* The timer is set within the sleep, and in time for what the store holds.
LEMMA WakeAtFacts ==
    ASSUME NEW s \in [Job -> Row], now \in Nat
    PROVE  /\ WakeAt(s) \in Nat /\ WakeAt(s) >= now /\ WakeAt(s) <= now + MaxSleep
           /\ \A j \in Job : Wanted(s, j) => WakeAt(s) <= s[j].next \/ WakeAt(s) <= now
<1> DEFINE times == {s[j].next : j \in {k \in Job : Wanted(s, k)}} \cup {now + MaxSleep}
           first == CHOOSE t \in times : \A u \in times : t <= u
<1>1. now + MaxSleep \in Nat /\ MaxSleep \in Nat /\ \A j \in Job : s[j].next \in Nat
  BY Constants DEF Row
<1>2. times \subseteq Nat /\ times # {}
  BY <1>1
<1>3. \E t \in times : \A u \in times : t <= u
  BY <1>2, LeastNatural
<1>4. first \in times /\ \A u \in times : first <= u
  BY <1>3
<1>5. WakeAt(s) = IF first < now THEN now ELSE first
  BY DEF WakeAt
<1>6. first \in Nat /\ first <= now + MaxSleep /\ \A j \in Job : Wanted(s, j) => first <= s[j].next
  BY <1>2, <1>4
<1> HIDE DEF times, first
<1> QED BY <1>1, <1>5, <1>6

LEMMA ComputeNextType ==
    ASSUME NEW j \in Job, NEW row \in Row, now \in Nat
    PROVE  /\ ComputeNext(j, row) \in Nat
           /\ j \in OneTime => ComputeNext(j, row) = row.at
           /\ j \notin OneTime => ComputeNext(j, row) > now
<1>1. row.at \in Nat /\ now + Period \in Nat /\ now + Period > now
  BY Constants DEF Row
<1> QED BY <1>1 DEF ComputeNext

LEMMA NewRowFacts ==
    ASSUME NEW j \in Job, NEW t \in Nat, NEW del \in BOOLEAN, now \in Nat
    PROVE  /\ NewRow(j, t, del) \in Row /\ NewRow(j, t, del).here /\ NewRow(j, t, del).enabled
           /\ j \in OneTime => NewRow(j, t, del).next = NewRow(j, t, del).at
<1> DEFINE row == [here |-> TRUE, enabled |-> TRUE, at |-> t, next |-> 0, del |-> del]
           n == ComputeNext(j, row)
<1>1. row \in Row
  BY DEF Row
<1>2. n \in Nat /\ (j \in OneTime => n = row.at)
  BY <1>1, ComputeNextType
<1>3. NewRow(j, t, del) = [row EXCEPT !.next = n]
  BY DEF NewRow
<1> HIDE DEF n
<1>4. NewRow(j, t, del) = [here |-> TRUE, enabled |-> TRUE, at |-> t, next |-> n, del |-> del]
  BY <1>3
<1> QED BY <1>2, <1>4 DEF Row

\* advanceInterval: a deadline that is over gives one that is not, another is kept.
LEMMA AdvanceFacts ==
    ASSUME NEW due \in Nat, now \in Nat
    PROVE  Advance(due) \in Nat /\ (due <= now => Advance(due) > now) /\ (due > now => Advance(due) = due)
<1>1. Period \in Nat /\ Period > 0
  BY Constants
<1>2. CASE due <= now
  <2> DEFINE d == now - due
             k == d \div Period
  <2>1. d \in Nat
    BY <1>2
  <2> HIDE DEF d
  <2>2. k \in Nat /\ k * Period + Period > d
    BY <1>1, <2>1
  <2>3. (k + 1) * Period = k * Period + Period /\ k * Period \in Nat
    <3> HIDE DEF k
    <3> QED BY <1>1, <2>2
  <2>4. Advance(due) = due + (k + 1) * Period
    BY <1>2 DEF Advance, d
  <2> HIDE DEF k
  <2> QED BY <1>1, <1>2, <2>2, <2>3, <2>4 DEF d
<1>3. CASE due > now
  BY <1>3 DEF Advance
<1> QED BY <1>2, <1>3

LEMMA RunFacts ==
    ASSUME NEW v \in Run \cup {NoRun}
    PROVE  /\ v.active \in BOOLEAN /\ v.same \in BOOLEAN /\ v.was \in BOOLEAN /\ v.due \in Nat
           /\ v.active => v \in Run /\ v.job \in Job
<1>1. CASE v \in Run
  BY <1>1 DEF Run
<1>2. CASE v = NoRun
  BY <1>2 DEF NoRun
<1> QED BY <1>1, <1>2

\* Replaced takes away only the identity, and only of runs of the tasks S.
LEMMA ReplacedFacts ==
    ASSUME NEW S, runs \in [Runner -> Run \cup {NoRun}]
    PROVE  /\ Replaced(S) \in [Runner -> Run \cup {NoRun}]
           /\ \A r \in Runner :
                /\ Replaced(S)[r].active = runs[r].active
                /\ runs[r].active => Replaced(S)[r].job = runs[r].job /\ Replaced(S)[r].due = runs[r].due
                /\ runs[r].active => Replaced(S)[r].same = (runs[r].same /\ runs[r].job \notin S)
<1> SUFFICES ASSUME NEW r \in Runner
             PROVE  /\ Replaced(S)[r] \in Run \cup {NoRun}
                    /\ Replaced(S)[r].active = runs[r].active
                    /\ runs[r].active => Replaced(S)[r].job = runs[r].job /\ Replaced(S)[r].due = runs[r].due
                    /\ runs[r].active => Replaced(S)[r].same = (runs[r].same /\ runs[r].job \notin S)
  BY DEF Replaced
<1>1. CASE runs[r].active /\ runs[r].job \in S
  <2>1. runs[r] \in Run
    BY <1>1, RunFacts
  <2>2. Replaced(S)[r] = [runs[r] EXCEPT !.same = FALSE]
    BY <1>1 DEF Replaced
  <2> QED BY <1>1, <2>1, <2>2 DEF Run
<1>2. CASE ~(runs[r].active /\ runs[r].job \in S)
  <2>1. Replaced(S)[r] = runs[r] /\ runs[r] \in Run \cup {NoRun}
    BY <1>2 DEF Replaced
  <2> QED BY <1>2, <2>1, RunFacts
<1> QED BY <1>1, <1>2

\* A completion changes the row of its task or nothing, and only if nobody else has: then it
\* retires a one-time task, and gives an interval another deadline if this one is over.
LEMMA CompletedFacts ==
    ASSUME NEW s \in [Job -> Row], NEW run \in Run, now \in Nat
    PROVE  /\ Completed(s, run) \in [Job -> Row]
           /\ \A j \in Job : j # run.job => Completed(s, run)[j] = s[j]
           /\ Completed(s, run) = s \/ (run.same /\ s[run.job].enabled /\ s[run.job].next = run.due)
           /\ run.job \in OneTime =>
                 Completed(s, run)[run.job] = s[run.job] \/ ~Completed(s, run)[run.job].enabled
           /\ run.same /\ s[run.job].enabled /\ s[run.job].next = run.due =>
                 \/ ~Completed(s, run)[run.job].enabled
                 \/ run.due <= now /\ Completed(s, run)[run.job].next > now
                 \/ Completed(s, run)[run.job].next = run.due /\ run.due > now
<1> DEFINE j == run.job
           t == Completed(s, run)
<1>1. /\ j \in Job /\ run.due \in Nat /\ s[j] \in Row /\ Absent \in Row
      /\ Advance(run.due) \in Nat /\ (run.due <= now => Advance(run.due) > now)
      /\ run.due > now => Advance(run.due) = run.due
  BY AdvanceFacts DEF Run, Absent, Row
<1>2. CASE ~run.same \/ ~s[j].enabled \/ s[j].next # run.due
  <2>1. t = s
    BY <1>2 DEF Completed
  <2> QED BY <1>2, <2>1
<1>3. CASE ~(~run.same \/ ~s[j].enabled \/ s[j].next # run.due)
  <2> DEFINE r == IF j \in Interval THEN [s[j] EXCEPT !.next = Advance(run.due)]
                  ELSE IF s[j].del THEN Absent ELSE [s[j] EXCEPT !.enabled = FALSE, !.next = 0]
  <2>1. t = [s EXCEPT ![j] = r]
    BY <1>3 DEF Completed
  <2>2. r \in Row
    BY <1>1 DEF Row
  <2>3. CASE j \in Interval
    <3>1. j \notin OneTime
      BY <2>3, CronAssumption
    <3>2. r = [s[j] EXCEPT !.next = Advance(run.due)]
      BY <2>3
    <3> HIDE DEF r
    <3>3. r.next = Advance(run.due)
      BY <1>1, <3>2 DEF Row
    <3>4. t \in [Job -> Row] /\ t[j] = r /\ \A k \in Job : k # j => t[k] = s[k]
      BY <1>1, <2>1, <2>2
    <3>5. run.due <= now \/ run.due > now
      BY <1>1
    <3> HIDE DEF t
    <3> QED BY <1>1, <1>3, <3>1, <3>3, <3>4, <3>5 DEF t
  <2>4. CASE j \notin Interval
    <3>1. ~r.enabled
      BY <1>1, <2>4 DEF Absent, Row
    <3> HIDE DEF r
    <3>2. t \in [Job -> Row] /\ t[j] = r /\ \A k \in Job : k # j => t[k] = s[k]
      BY <1>1, <2>1, <2>2
    <3> HIDE DEF t
    <3> QED BY <1>3, <3>1, <3>2 DEF t
  <2> QED BY <2>3, <2>4
<1> QED BY <1>2, <1>3

-------------------------------------------------------------------------------
(* The inductive invariant *)

\* The loop's run is of a task that the loop has begun in this round, at a deadline that is over.
InLoop ==
    /\ runs[LoopRun].active => loop /\ runs[LoopRun].job \in executed /\ runs[LoopRun].due <= now
    /\ ~loop => executed = {}
    /\ \A j \in Job : begun[j] <= now

\* The tasks whose deadline in memory is one that the loop's run will settle.
Held == {j \in Job : /\ runs[LoopRun].active /\ runs[LoopRun].job = j /\ runs[LoopRun].same
                     /\ runs[LoopRun].due = mem[j].next}

\* A deadline to come is later than the last one that was begun, but for the tasks X.
Fresh(s, b, X) == \A j \in Job \ X : Wanted(s, j) => b[j] < s[j].next

\* A one-time task is wanted at its deadline: a start in the middle of a run moves none.
Punctual(s, E) == \A j \in OneTime \ E : s[j].enabled => s[j].next = s[j].at

Kept(s, O, E) == \A j \in O \ E : s[j].here /\ s[j].enabled

\* No run in progress may settle a task that was set during the run.
Unclaimed == \A r \in Runner : runs[r].active /\ runs[r].job \in owed \ external => ~runs[r].same

Rest == WakeIsSet /\ NothingToLose

\* The file, which lags behind memory while the loop is at work.
OnDisk ==
    /\ Fresh(disk, begun, external \cup lost \cup executed)
    /\ Punctual(disk, external) /\ Kept(disk, owed, external)

\* The store in memory, which is not looked at while nothing runs.
InMemory == Busy =>
    /\ Fresh(mem, begun, external \cup lost \cup Held)
    /\ Punctual(mem, external) /\ Kept(mem, owed, external)

Tasks == owed \subseteq OneTime /\ Unclaimed /\ OnDisk /\ InMemory
IInv == TypeOK /\ Rest /\ InLoop /\ Tasks

\* A store that a step takes up: what loadStore takes, but for the tasks of the log.
Source(s) ==
    /\ s \in [Job -> Row]
    /\ \A j \in Job \ external' : s[j] = IF Busy THEN mem[j] ELSE disk[j]

\* What happens to the log.
LogStep == log' \in Seq(Action) /\ external \subseteq external' /\ external' \subseteq Job

LEMMA Loops == LoopRun \in Runner /\ \A h \in 1..MaxManual : h \in Runner /\ h # LoopRun
BY Constants DEF LoopRun, Runner

LEMMA BusyIs ==
    /\ Busy <=> loop \/ \E r \in Runner : runs[r].active
    /\ Busy' <=> loop' \/ \E r \in Runner : runs'[r].active
BY DEF Busy, Active

\* What holds of a store that a step takes up.
LEMMA SourceFacts ==
    ASSUME TypeOK, InLoop, Tasks, external \subseteq external', NEW s, Source(s)
    PROVE  /\ s \in [Job -> Row]
           /\ Fresh(s, begun, external' \cup lost \cup Held)
           /\ Punctual(s, external') /\ Kept(s, owed, external')
           /\ Held \subseteq executed
<1>1. OneTime \subseteq Job /\ owed \subseteq Job
  BY DEF Job, TypeOK
<1>2. Held \subseteq executed
  BY DEF InLoop, Held
<1>3. CASE Busy
  <2>1. \A j \in Job \ external' : s[j] = mem[j]
    BY <1>3 DEF Source
  <2> QED BY <1>1, <1>2, <1>3, <2>1 DEF Tasks, InMemory, Source, Fresh, Wanted, Punctual, Kept
<1>4. CASE ~Busy
  <2>1. \A j \in Job \ external' : s[j] = disk[j]
    BY <1>4 DEF Source
  <2>2. executed = {}
    BY <1>4, BusyIs DEF InLoop
  <2> QED BY <1>1, <1>2, <2>1, <2>2 DEF Tasks, OnDisk, Source, Fresh, Wanted, Punctual, Kept
<1> QED BY <1>3, <1>4

\* The log is taken over: what it does not name is as it was.
LEMMA TakeLogFacts ==
    ASSUME TypeOK, TakeLog
    PROVE  /\ LogStep /\ external' = external \cup Touched
           /\ Busy => Source(Merged(mem))
           /\ ~Busy => Source(Merged(disk))
<1>1. log \in Seq(Action) /\ mem \in [Job -> Row] /\ disk \in [Job -> Row] /\ external \subseteq Job
  BY DEF TypeOK
<1>2. Touched \subseteq Job
  <2>1. DOMAIN log = 1..Len(log) /\ \A i \in 1..Len(log) : log[i] \in Action
    BY <1>1
  <2> QED BY <2>1 DEF Touched, Action
<1>3. log' = << >> /\ external' = external \cup Touched
  BY DEF TakeLog
<1>4. << >> \in Seq(Action)
  OBVIOUS
<1>5. LogStep
  BY <1>1, <1>2, <1>3, <1>4 DEF LogStep
<1>6. CASE Busy
  BY <1>1, <1>3, <1>5, <1>6, MergedFacts DEF Source
<1>7. CASE ~Busy
  BY <1>1, <1>3, <1>5, <1>7, MergedFacts DEF Source
<1> QED BY <1>6, <1>7

LEMMA LoadedFacts ==
    ASSUME TypeOK, LoadLog
    PROVE  /\ LogStep /\ Source(Loaded)
           /\ Busy => Loaded = mem /\ external' = external
<1>1. CASE Busy
  BY <1>1 DEF Loaded, LoadLog, KeepLog, LogStep, Source, TypeOK
<1>2. CASE ~Busy
  BY <1>2, TakeLogFacts DEF Loaded, LoadLog
<1> QED BY <1>1, <1>2

\* A service that comes to rest has just saved its store and armed the timer.
LEMMA RestFrom ==
    ASSUME TypeOK, mem' \in [Job -> Row], now' = now,
           running' /\ ~Busy' => disk' = mem' /\ timer' = WakeAt(mem')
    PROVE  Rest'
<1>1. now \in Nat /\ now >= 1
  BY DEF TypeOK
<1>2. running' /\ ~Busy' => WakeIsSet' /\ NothingToLose'
  <2>1. /\ WakeAt(mem') \in Nat /\ WakeAt(mem') >= now /\ WakeAt(mem') <= now + MaxSleep
        /\ \A j \in Job : Wanted(mem', j) => WakeAt(mem') <= mem'[j].next \/ WakeAt(mem') <= now
    BY <1>1, WakeAtFacts
  <2> QED BY <1>1, <2>1 DEF WakeIsSet, NothingToLose, Wanted
<1> QED BY <1>2 DEF Rest, WakeIsSet, NothingToLose

\* The tasks' part of the invariant after a step, from its parts.
LEMMA TasksFrom ==
    ASSUME owed' \subseteq OneTime, Unclaimed',
           Fresh(disk', begun', external' \cup lost' \cup executed'),
           Punctual(disk', external'), Kept(disk', owed', external'),
           Busy' => /\ Fresh(mem', begun', external' \cup lost' \cup Held')
                    /\ Punctual(mem', external') /\ Kept(mem', owed', external')
    PROVE  Tasks'
<1>1. OnDisk'
  BY DEF OnDisk, Fresh, Punctual, Kept
<1>2. InMemory'
  BY DEF InMemory, Fresh, Punctual, Kept
<1> QED BY <1>1, <1>2 DEF Tasks

LEMMA InitOK == Init => IInv
<1> SUFFICES ASSUME Init PROVE IInv
  OBVIOUS
<1>1. NoRun.active = FALSE /\ Absent \in Row /\ ~Absent.enabled
  BY DEF NoRun, Absent, Row
<1>2. \A r \in Runner : runs[r] = NoRun
  BY DEF Init
<1>3. TypeOK
  <2>1. << >> \in Seq(Action)
    OBVIOUS
  <2>2. 1 \in 1..MaxNow
    BY CronAssumption
  <2>3. mem \in [Job -> Row] /\ disk \in [Job -> Row] /\ begun \in [Job -> Nat]
    BY <1>1 DEF Init
  <2>4. runs \in [Runner -> Run \cup {NoRun}]
    BY DEF Init
  <2>5. /\ edits \in 0..MaxEdits /\ manuals \in 0..MaxManual
        /\ externals \in 0..MaxExternal /\ crashes \in 0..MaxCrashes
    BY Constants DEF Init
  <2>6. now \in 1..MaxNow /\ log \in Seq(Action) /\ cli \in Seq(Action)
    BY <2>1, <2>2 DEF Init
  <2>7. /\ running \in BOOLEAN /\ timer \in Nat /\ loop \in BOOLEAN /\ executed \in SUBSET Job
        /\ lost \in SUBSET Job /\ unarmed \in SUBSET Job
        /\ owed \in SUBSET Job /\ external \in SUBSET Job
    BY DEF Init
  <2> QED BY <2>3, <2>4, <2>5, <2>6, <2>7 DEF TypeOK
<1>4. Rest
  BY DEF Init, Rest, WakeIsSet, NothingToLose
<1>5. InLoop
  BY <1>1, <1>2, Loops DEF Init, InLoop
<1>6. Tasks
  <2>1. Unclaimed
    BY <1>1, <1>2 DEF Unclaimed
  <2>2. \A j \in Job : ~disk[j].enabled
    BY <1>1 DEF Init
  <2>3. Fresh(disk, begun, external \cup lost \cup executed)
    BY <2>2 DEF Fresh, Wanted
  <2>4. Punctual(disk, external)
    BY <2>2 DEF Punctual, Job
  <2>5. Kept(disk, owed, external) /\ owed \subseteq OneTime
    BY DEF Init, Kept
  <2>6. ~Busy
    BY <1>1, <1>2, BusyIs DEF Init
  <2> QED BY <2>1, <2>3, <2>4, <2>5, <2>6 DEF Tasks, OnDisk, InMemory
<1> QED BY <1>3, <1>4, <1>5, <1>6 DEF IInv
-------------------------------------------------------------------------------
(* The steps of the service and its clients *)

LEMMA StartOK == ASSUME IInv, Start PROVE IInv'
<1>1. TypeOK /\ Rest /\ InLoop /\ Tasks /\ now \in Nat
  BY DEF IInv, TypeOK
<1> DEFINE s == Loaded
           t == [j \in Job |-> IF s[j].here /\ s[j].enabled /\ (j \in OneTime \/ s[j].next = 0)
                                 THEN [s[j] EXCEPT !.next = ComputeNext(j, s[j])] ELSE s[j]]
<1>2. /\ running' = TRUE /\ mem' = t /\ disk' = t
      /\ timer' = (IF ~Busy THEN WakeAt(t) ELSE 0) /\ unarmed' = {} /\ LoadLog
      /\ UNCHANGED <<now, cli, loop, executed, runs, begun, lost, owed, edits, manuals, externals, crashes>>
  BY DEF Start, Store, ArmTimer, bounds
<1>3. LogStep /\ Source(s) /\ (Busy => s = mem /\ external' = external)
  BY <1>1, <1>2, LoadedFacts
<1>4. /\ s \in [Job -> Row] /\ Fresh(s, begun, external' \cup lost \cup Held)
      /\ Punctual(s, external') /\ Kept(s, owed, external') /\ Held \subseteq executed
  BY <1>1, <1>3, SourceFacts DEF LogStep
<1> HIDE DEF s
<1>5. ASSUME NEW j \in Job
      PROVE  /\ t[j] \in Row /\ t[j].here = s[j].here /\ t[j].enabled = s[j].enabled
             /\ t[j].at = s[j].at
             /\ t[j].next = s[j].next \/ (j \in OneTime /\ t[j].next = t[j].at) \/ t[j].next > now
             /\ j \in OneTime /\ s[j].next = s[j].at => t[j].next = t[j].at
  <2>1. s[j] \in Row
    BY <1>4
  <2>2. CASE s[j].here /\ s[j].enabled /\ (j \in OneTime \/ s[j].next = 0)
    <3> DEFINE n == ComputeNext(j, s[j])
    <3>1. n \in Nat /\ (j \in OneTime => n = s[j].at) /\ (j \notin OneTime => n > now)
      BY <1>1, <2>1, ComputeNextType
    <3>2. t[j] = [s[j] EXCEPT !.next = n]
      BY <2>2
    <3> HIDE DEF n, t
    <3>3. t[j] \in Row /\ t[j].here = s[j].here /\ t[j].enabled = s[j].enabled /\ t[j].at = s[j].at /\ t[j].next = n
      BY <2>1, <3>1, <3>2 DEF Row
    <3> QED BY <2>2, <3>1, <3>3
  <2>3. CASE ~(s[j].here /\ s[j].enabled /\ (j \in OneTime \/ s[j].next = 0))
    <3>1. t[j] = s[j]
      BY <2>3
    <3> HIDE DEF t
    <3> QED BY <2>1, <3>1
  <2> QED BY <2>2, <2>3
<1>6. t \in [Job -> Row]
  BY <1>5
<1> HIDE DEF t
<1>7. WakeAt(t) \in Nat
  BY <1>1, <1>6, WakeAtFacts
<1>8. TypeOK'
  BY <1>1, <1>2, <1>3, <1>6, <1>7 DEF TypeOK, LogStep
<1>9. Busy' = Busy
  BY <1>2, BusyIs DEF Busy, Active
<1>10. Rest'
  BY <1>1, <1>2, <1>6, <1>9, RestFrom
<1>11. InLoop'
  BY <1>1, <1>2 DEF InLoop
<1>12. Punctual(t, external') /\ Kept(t, owed, external')
  BY <1>1, <1>4, <1>5 DEF Punctual, Kept, TypeOK, Job
<1>13. ASSUME NEW j \in Job \ (external' \cup lost), Wanted(t, j)
       PROVE  begun[j] < t[j].next \/ (j \in Held /\ t[j].next = mem[j].next)
  <2>1. begun[j] <= now /\ begun[j] \in Nat /\ t[j].next \in Nat
    BY <1>1, <1>5 DEF InLoop, TypeOK, Row
  <2>2. CASE t[j].next > now
    BY <1>1, <2>1, <2>2
  <2>3. CASE ~(t[j].next > now)
    <3>1. s[j].here /\ s[j].enabled
      BY <1>5, <1>13 DEF Wanted
    <3>2. j \in OneTime => s[j].next = s[j].at
      BY <1>4, <3>1 DEF Punctual
    <3>3. t[j].next = s[j].next
      BY <1>5, <2>3, <3>2
    <3>4. Wanted(s, j)
      BY <1>13, <3>1, <3>3 DEF Wanted
    <3>5. CASE j \notin Held
      BY <1>4, <3>3, <3>4, <3>5 DEF Fresh
    <3>6. CASE j \in Held
      <4>1. Busy
        BY <3>6, BusyIs, Loops DEF Held
      <4> QED BY <1>3, <3>3, <3>6, <4>1
    <3> QED BY <3>5, <3>6
  <2> QED BY <2>2, <2>3
<1>14. Fresh(disk', begun', external' \cup lost' \cup executed')
  BY <1>2, <1>4, <1>13 DEF Fresh
<1>15. Fresh(mem', begun', external' \cup lost' \cup Held')
  <2>1. \A j \in Held : t[j].next = mem[j].next => j \in Held'
    BY <1>2 DEF Held
  <2> QED BY <1>2, <1>13, <2>1 DEF Fresh
<1>16. Unclaimed' /\ owed' \subseteq OneTime
  BY <1>1, <1>2, <1>3 DEF Tasks, Unclaimed, LogStep
<1>17. Tasks'
  BY <1>2, <1>12, <1>14, <1>15, <1>16, TasksFrom
<1> QED BY <1>8, <1>10, <1>11, <1>17 DEF IInv

LEMMA StopOK == ASSUME IInv, Stop PROVE IInv'
<1>1. TypeOK /\ Rest /\ InLoop /\ Tasks
  BY DEF IInv
<1>2. /\ crashes < MaxCrashes /\ crashes' = crashes + 1 /\ running' = FALSE /\ timer' = 0
      /\ UNCHANGED <<now, mem, disk, log, cli, loop, executed, runs, begun, lost, unarmed, owed, external,
                     edits, manuals, externals>>
  BY DEF Stop, files, history
<1>3. crashes' \in 0..MaxCrashes
  BY <1>1, <1>2, Constants DEF TypeOK
<1>4. TypeOK'
  BY <1>1, <1>2, <1>3 DEF TypeOK
<1>5. Rest' /\ InLoop'
  BY <1>1, <1>2 DEF Rest, InLoop, WakeIsSet, NothingToLose
<1>6. Unclaimed' /\ owed' \subseteq OneTime
  BY <1>1, <1>2 DEF Tasks, Unclaimed
<1>7. (Busy' <=> Busy) /\ Held' = Held
  BY <1>2, BusyIs DEF Held
<1>8. Tasks'
  BY <1>1, <1>2, <1>6, <1>7, TasksFrom DEF Tasks, OnDisk, InMemory
<1> QED BY <1>4, <1>5, <1>8 DEF IInv

\* What the process has begun and not saved is lost, by the definition of lost.
LEMMA CrashOK == ASSUME IInv, Crash PROVE IInv'
<1>1. TypeOK /\ Rest /\ InLoop /\ Tasks
  BY DEF IInv
<1>2. /\ crashes < MaxCrashes /\ crashes' = crashes + 1
      /\ running' = FALSE /\ timer' = 0 /\ loop' = FALSE /\ executed' = {}
      /\ runs' = [r \in Runner |-> NoRun] /\ mem' = disk /\ unarmed' = {}
      /\ lost' = lost \cup {j \in executed : Wanted(disk, j) /\ disk[j].next <= begun[j]}
      /\ KeepLog \/ TakeLog
      /\ UNCHANGED <<now, disk, cli, begun, owed, edits, manuals, externals>>
  BY DEF Crash
<1>3. LogStep
  BY <1>1, <1>2, TakeLogFacts DEF LogStep, KeepLog, TypeOK
<1>4. crashes' \in 0..MaxCrashes /\ lost' \in SUBSET Job
  BY <1>1, <1>2, Constants DEF TypeOK
<1>5. runs' \in [Runner -> Run \cup {NoRun}] /\ \A r \in Runner : ~runs'[r].active
  BY <1>2 DEF NoRun
<1>6. TypeOK'
  BY <1>1, <1>2, <1>3, <1>4, <1>5 DEF TypeOK, LogStep
<1>7. Rest'
  BY <1>2 DEF Rest, WakeIsSet, NothingToLose
<1>8. InLoop'
  BY <1>1, <1>2, <1>5, Loops DEF InLoop
<1>9. Unclaimed' /\ owed' \subseteq OneTime
  BY <1>1, <1>2, <1>5 DEF Unclaimed, Tasks
<1>10. Fresh(disk', begun', external' \cup lost' \cup executed')
  <2> SUFFICES ASSUME NEW j \in Job \ (external' \cup lost'), Wanted(disk, j) PROVE begun[j] < disk[j].next
    BY <1>2 DEF Fresh
  <2>1. j \notin external \cup lost
    BY <1>2, <1>3 DEF LogStep
  <2>2. begun[j] \in Nat /\ disk[j].next \in Nat
    BY <1>1 DEF TypeOK, Row
  <2>3. CASE j \in executed
    BY <1>2, <2>2, <2>3
  <2>4. CASE j \notin executed
    BY <1>1, <2>1, <2>4 DEF Tasks, OnDisk, Fresh
  <2> QED BY <2>3, <2>4
<1>11. Punctual(disk', external') /\ Kept(disk', owed', external')
  BY <1>1, <1>2, <1>3 DEF Tasks, OnDisk, Punctual, Kept, LogStep
<1>12. ~Busy'
  BY <1>2, <1>5, BusyIs
<1>13. Tasks'
  BY <1>9, <1>10, <1>11, <1>12, TasksFrom
<1> QED BY <1>6, <1>7, <1>8, <1>13 DEF IInv

\* A read of a service at rest leaves its timer; the tasks of the log are those that may be
\* due before it fires.
LEMMA ReadOK == ASSUME IInv, Read PROVE IInv'
<1>1. TypeOK /\ Rest /\ InLoop /\ Tasks
  BY DEF IInv
<1> DEFINE s == Merged(disk)
<1>2. /\ ~Busy /\ mem' = s
      /\ IF running THEN disk' = s /\ TakeLog /\ unarmed' = unarmed \cup Touched
                    ELSE disk' = disk /\ KeepLog /\ unarmed' = unarmed
      /\ UNCHANGED <<now, cli, running, timer, loop, executed, runs, begun, lost, owed,
                     edits, manuals, externals, crashes>>
  BY DEF Read, bounds
<1>3. s \in [Job -> Row] /\ \A j \in Job \ Touched : s[j] = disk[j]
  BY <1>1, MergedFacts DEF TypeOK
<1>4. /\ LogStep /\ unarmed' \in SUBSET Job
      /\ running => external' = external \cup Touched
  <2>1. CASE running
    <3>1. LogStep /\ external' = external \cup Touched
      BY <1>1, <1>2, <2>1, TakeLogFacts
    <3> QED BY <1>1, <1>2, <2>1, <3>1 DEF LogStep, TypeOK
  <2>2. CASE ~running
    BY <1>1, <1>2, <2>2 DEF KeepLog, LogStep, TypeOK
  <2> QED BY <2>1, <2>2
<1> HIDE DEF s
<1>5. ~Busy'
  BY <1>2, BusyIs
<1>6. TypeOK'
  BY <1>1, <1>2, <1>3, <1>4 DEF TypeOK, LogStep
<1>7. Rest'
  <2> SUFFICES ASSUME running PROVE WakeIsSet' /\ NothingToLose'
    BY <1>2 DEF Rest, WakeIsSet, NothingToLose
  <2>1. NothingToLose'
    BY <1>2 DEF NothingToLose
  <2>2. /\ timer # 0 /\ timer <= now + MaxSleep /\ disk = mem
        /\ \A j \in Job \ unarmed : Wanted(mem, j) => timer <= mem[j].next \/ timer <= now
    BY <1>1, <1>2 DEF Rest, WakeIsSet, NothingToLose
  <2>3. ASSUME NEW j \in Job \ unarmed', Wanted(mem', j) PROVE timer <= mem'[j].next \/ timer <= now
    <3>1. mem'[j] = mem[j] /\ j \notin unarmed
      BY <1>2, <1>3, <2>2
    <3> QED BY <2>2, <2>3, <3>1 DEF Wanted
  <2> QED BY <1>2, <2>1, <2>2, <2>3 DEF WakeIsSet
<1>8. InLoop'
  BY <1>1, <1>2 DEF InLoop
<1>9. Unclaimed' /\ owed' \subseteq OneTime
  BY <1>1, <1>2, <1>4 DEF Unclaimed, Tasks, LogStep
<1>10. \A j \in Job \ external' : disk'[j] = disk[j]
  BY <1>2, <1>3, <1>4
<1>11. Fresh(disk', begun', external' \cup lost' \cup executed')
  BY <1>1, <1>2, <1>4, <1>10 DEF Tasks, OnDisk, Fresh, Wanted, LogStep
<1>12. Punctual(disk', external') /\ Kept(disk', owed', external')
  BY <1>1, <1>2, <1>4, <1>10 DEF Tasks, OnDisk, Punctual, Kept, LogStep, Job, TypeOK
<1>13. Tasks'
  BY <1>5, <1>9, <1>11, <1>12, TasksFrom
<1> QED BY <1>6, <1>7, <1>8, <1>13 DEF IInv

\* A run that is refused has loaded the store; a running service arms its timer.
LEMMA RunRefusedOK == ASSUME IInv, RunRefused PROVE IInv'
<1>1. TypeOK /\ Rest /\ InLoop /\ Tasks /\ now \in Nat
  BY DEF IInv, TypeOK
<1> DEFINE s == Loaded
<1>2. /\ mem' = s /\ disk' = (IF Busy THEN disk ELSE s) /\ LoadLog
      /\ IF running THEN timer' = (IF ~Busy THEN WakeAt(s) ELSE 0) /\ unarmed' = {}
                    ELSE timer' = timer /\ unarmed' = unarmed
      /\ UNCHANGED <<now, cli, running, loop, executed, runs, begun, lost, owed,
                     edits, manuals, externals, crashes>>
  BY DEF RunRefused, ArmTimer, KeepTimer, bounds
<1>3. LogStep /\ Source(s) /\ (Busy => s = mem /\ external' = external)
  BY <1>1, <1>2, LoadedFacts
<1>4. /\ s \in [Job -> Row] /\ Fresh(s, begun, external' \cup lost \cup Held)
      /\ Punctual(s, external') /\ Kept(s, owed, external') /\ Held \subseteq executed
  BY <1>1, <1>3, SourceFacts DEF LogStep
<1> HIDE DEF s
<1>5. WakeAt(s) \in Nat
  BY <1>1, <1>4, WakeAtFacts
<1>6. TypeOK'
  <2>1. timer' \in Nat /\ unarmed' \in SUBSET Job
    BY <1>1, <1>2, <1>5 DEF TypeOK
  <2> QED BY <1>1, <1>2, <1>3, <1>4, <2>1 DEF TypeOK, LogStep
<1>7. Busy' <=> Busy
  BY <1>2, BusyIs
<1>8. Rest'
  BY <1>1, <1>2, <1>4, <1>7, RestFrom
<1>9. InLoop'
  BY <1>1, <1>2 DEF InLoop
<1>10. Unclaimed' /\ owed' \subseteq OneTime
  BY <1>1, <1>2, <1>3 DEF Unclaimed, Tasks, LogStep
<1>11. CASE Busy
  <2>1. mem' = mem /\ disk' = disk /\ external' = external /\ Held' = Held
    BY <1>2, <1>3, <1>11 DEF Held
  <2> QED BY <1>1, <1>2, <1>6, <1>7, <1>8, <1>9, <1>10, <2>1, TasksFrom DEF IInv, Tasks, OnDisk, InMemory
<1>12. CASE ~Busy
  <2>1. Fresh(disk', begun', external' \cup lost' \cup executed')
    BY <1>2, <1>4, <1>12 DEF Fresh
  <2>2. Tasks'
    BY <1>2, <1>4, <1>7, <1>10, <1>12, <2>1, TasksFrom
  <2> QED BY <1>6, <1>8, <1>9, <2>2 DEF IInv
<1> QED BY <1>11, <1>12

\* An edit by a client, with what the clients see to.
UserEdit(j, row, keeps) ==
    /\ row \in Row /\ keeps \in BOOLEAN /\ Edit(j, row, keeps)
    /\ owed' \subseteq OneTime /\ owed' \ {j} \subseteq owed
    /\ j \in OneTime /\ row.enabled => row.next = row.at
    /\ j \in owed' \ external' =>
         /\ row.here /\ row.enabled
         /\ \A r \in Runner : runs[r].active /\ runs[r].job = j => ~keeps \/ ~runs[r].same

LEMMA EditOK ==
    ASSUME IInv, NEW j \in Job, NEW row, NEW keeps, UserEdit(j, row, keeps)
    PROVE  IInv'
<1>1. TypeOK /\ Rest /\ InLoop /\ Tasks /\ now \in Nat
  BY DEF IInv, TypeOK
<1> DEFINE s == Loaded
           t == [s EXCEPT ![j] = row]
<1>2. /\ running /\ edits < MaxEdits /\ edits' = edits + 1
      /\ mem' = t /\ disk' = t /\ timer' = (IF ~Busy THEN WakeAt(t) ELSE 0) /\ unarmed' = {}
      /\ LoadLog /\ begun' = [begun EXCEPT ![j] = 0] /\ lost' = lost \ {j}
      /\ runs' = (IF keeps THEN runs ELSE Replaced({j}))
      /\ UNCHANGED <<now, cli, running, loop, executed, manuals, externals, crashes>>
  BY DEF UserEdit, Edit, Store, ArmTimer, Reset
<1>3. LogStep /\ Source(s) /\ (Busy => s = mem /\ external' = external)
  BY <1>1, <1>2, LoadedFacts
<1>4. /\ s \in [Job -> Row] /\ Fresh(s, begun, external' \cup lost \cup Held)
      /\ Punctual(s, external') /\ Kept(s, owed, external') /\ Held \subseteq executed
  BY <1>1, <1>3, SourceFacts DEF LogStep
<1> HIDE DEF s
<1>5. t \in [Job -> Row] /\ t[j] = row /\ \A k \in Job : k # j => t[k] = s[k]
  BY <1>4 DEF UserEdit
<1> HIDE DEF t
<1>6. WakeAt(t) \in Nat /\ edits' \in 0..MaxEdits
  BY <1>1, <1>2, <1>5, WakeAtFacts, Constants DEF TypeOK
<1>7. /\ runs' \in [Runner -> Run \cup {NoRun}]
      /\ \A r \in Runner :
           /\ runs'[r].active = runs[r].active
           /\ runs[r].active => runs'[r].job = runs[r].job /\ runs'[r].due = runs[r].due
           /\ runs[r].active => runs'[r].same = (runs[r].same /\ (runs[r].job = j => keeps))
  <2>1. runs \in [Runner -> Run \cup {NoRun}]
    BY <1>1 DEF TypeOK
  <2>2. CASE keeps
    <3>1. \A r \in Runner : runs[r].same \in BOOLEAN
      BY <2>1, RunFacts
    <3> QED BY <1>2, <2>1, <2>2, <3>1
  <2>3. CASE ~keeps
    BY <1>2, <2>1, <2>3, ReplacedFacts
  <2> QED BY <2>2, <2>3
<1>8. begun' \in [Job -> Nat] /\ begun'[j] = 0 /\ \A k \in Job : k # j => begun'[k] = begun[k]
  BY <1>1, <1>2 DEF TypeOK
<1>9. TypeOK'
  <2>1. owed' \in SUBSET Job
    BY DEF UserEdit, Job
  <2> QED BY <1>1, <1>2, <1>3, <1>5, <1>6, <1>7, <1>8, <2>1 DEF TypeOK, LogStep
<1>10. Busy' <=> Busy
  BY <1>2, <1>7, BusyIs
<1>11. Rest'
  BY <1>1, <1>2, <1>5, <1>10, RestFrom
<1>12. InLoop'
  <2>1. \A k \in Job : begun'[k] <= now
    BY <1>1, <1>8 DEF InLoop
  <2> QED BY <1>1, <1>2, <1>7, <2>1, Loops DEF InLoop
<1>13. Punctual(t, external')
  BY <1>4, <1>5 DEF Punctual, UserEdit, Job
<1>14. Kept(t, owed', external')
  BY <1>4, <1>5 DEF Kept, UserEdit, Job
<1>15. ASSUME NEW k \in Job \ (external' \cup lost'), Wanted(t, k)
       PROVE  begun'[k] < t[k].next \/ (k \in Held /\ k \in Held')
  <2>1. CASE k = j
    <3>1. t[j].next \in Nat /\ t[j].next # 0
      BY <1>5, <1>15, <2>1 DEF Wanted, Row
    <3> QED BY <1>8, <2>1, <3>1
  <2>2. CASE k # j
    <3>1. k \notin external' \cup lost /\ t[k] = s[k] /\ begun'[k] = begun[k] /\ Wanted(s, k)
      BY <1>2, <1>5, <1>8, <1>15, <2>2 DEF Wanted
    <3>2. CASE k \notin Held
      BY <1>4, <3>1, <3>2 DEF Fresh
    <3>3. CASE k \in Held
      <4>1. Busy /\ runs[LoopRun].active /\ runs[LoopRun].job = k /\ runs[LoopRun].same
            /\ runs[LoopRun].due = mem[k].next
        BY <3>3, BusyIs, Loops DEF Held
      <4>2. mem'[k] = mem[k]
        BY <1>2, <1>3, <3>1, <4>1
      <4>3. k \in Held'
        BY <1>7, <2>2, <4>1, <4>2, Loops DEF Held
      <4> QED BY <3>3, <4>3
    <3> QED BY <3>2, <3>3
  <2> QED BY <2>1, <2>2
<1>16. Fresh(disk', begun', external' \cup lost' \cup executed')
  BY <1>2, <1>4, <1>15 DEF Fresh
<1>17. Fresh(mem', begun', external' \cup lost' \cup Held')
  BY <1>2, <1>15 DEF Fresh
<1>18. Unclaimed'
  <2> SUFFICES ASSUME NEW r \in Runner, runs'[r].active, runs'[r].job \in owed' \ external'
               PROVE  ~runs'[r].same
    BY DEF Unclaimed
  <2>1. runs[r].active /\ runs[r].job \in owed' \ external'
    BY <1>7
  <2>2. CASE runs[r].job = j
    BY <1>7, <2>1, <2>2 DEF UserEdit
  <2>3. CASE runs[r].job # j
    <3>1. runs[r].job \in owed \ external
      BY <1>3, <2>1, <2>3 DEF UserEdit, LogStep
    <3> QED BY <1>1, <1>7, <2>1, <3>1 DEF Tasks, Unclaimed
  <2> QED BY <2>2, <2>3
<1>19. owed' \subseteq OneTime
  BY DEF UserEdit
<1>20. Tasks'
  BY <1>2, <1>13, <1>14, <1>16, <1>17, <1>18, <1>19, TasksFrom
<1> QED BY <1>9, <1>11, <1>12, <1>20 DEF IInv

\* The five edits of the clients.
LEMMA ClientOK ==
    ASSUME IInv, NEW j \in Job,
           \/ \E t \in Deadlines(j), del \in Deletes(j) : AddJob(j, t, del)
           \/ \E t \in Deadlines(j) : UpdateJob(j, t)
           \/ RemoveJob(j) \/ EnableJob(j) \/ DisableJob(j)
    PROVE  IInv'
<1>1. TypeOK /\ InLoop /\ Tasks /\ now \in Nat /\ MaxNow \in Nat /\ owed \subseteq OneTime
  BY Constants DEF IInv, TypeOK, Tasks
<1>2. \A t \in Deadlines(j) : t \in Nat
  BY <1>1 DEF Deadlines
<1>3. {j} \cap OneTime \subseteq OneTime
  OBVIOUS
<1>4. ASSUME NEW row, NEW keeps, Edit(j, row, keeps)
      PROVE  /\ LogStep /\ Loaded[j] \in Row
             /\ j \in owed \ external' => Loaded[j].here /\ Loaded[j].enabled
  <2>1. LoadLog
    BY <1>4 DEF Edit
  <2>2. LogStep /\ Source(Loaded)
    BY <1>1, <2>1, LoadedFacts
  <2>3. Kept(Loaded, owed, external') /\ Loaded \in [Job -> Row]
    BY <1>1, <2>2, SourceFacts DEF LogStep, Source
  <2> QED BY <2>2, <2>3 DEF Kept
<1>5. ASSUME NEW t \in Deadlines(j), NEW del \in Deletes(j), AddJob(j, t, del) PROVE IInv'
  <2> DEFINE row == NewRow(j, t, del)
  <2>1. del \in BOOLEAN
    BY DEF Deletes
  <2>2. row \in Row /\ row.here /\ row.enabled /\ (j \in OneTime => row.next = row.at)
    BY <1>1, <1>2, <2>1, NewRowFacts
  <2>3. Edit(j, row, FALSE) /\ ~RunsNow(j) /\ owed' = owed \cup ({j} \cap OneTime)
    BY <1>5 DEF AddJob
  <2> HIDE DEF row
  <2>4. \A r \in Runner : ~(runs[r].active /\ runs[r].job = j)
    BY <2>3 DEF RunsNow, Active
  <2>5. UserEdit(j, row, FALSE)
    BY <1>1, <1>3, <2>2, <2>3, <2>4 DEF UserEdit
  <2> QED BY <2>5, EditOK
<1>6. ASSUME NEW t \in Deadlines(j), UpdateJob(j, t) PROVE IInv'
  <2> DEFINE old == Loaded[j]
             row == [old EXCEPT !.at = t]
             new == IF row.enabled THEN [row EXCEPT !.next = ComputeNext(j, row)] ELSE row
  <2>1. Edit(j, new, FALSE) /\ old.here /\ owed' = (IF old.enabled THEN owed \cup ({j} \cap OneTime) ELSE owed)
    BY <1>6 DEF UpdateJob
  <2>2. old \in Row /\ (j \in owed \ external' => old.here /\ old.enabled)
    BY <1>4, <2>1
  <2> HIDE DEF old
  <2>3. row \in Row /\ row.here = old.here /\ row.enabled = old.enabled
    BY <1>2, <2>2 DEF Row
  <2>4. ComputeNext(j, row) \in Nat /\ (j \in OneTime => ComputeNext(j, row) = row.at)
    BY <1>1, <2>3, ComputeNextType
  <2> HIDE DEF row
  <2>5. /\ new \in Row /\ new.here = row.here /\ new.enabled = row.enabled
        /\ j \in OneTime /\ new.enabled => new.next = new.at
    <3>1. CASE row.enabled
      <4> DEFINE n == ComputeNext(j, row)
      <4>1. new = [row EXCEPT !.next = n] /\ n \in Nat
        BY <2>4, <3>1
      <4> HIDE DEF n, new
      <4>2. new \in Row /\ new.here = row.here /\ new.enabled = row.enabled /\ new.at = row.at /\ new.next = n
        BY <2>3, <4>1 DEF Row
      <4> QED BY <2>4, <4>2 DEF n
    <3>2. CASE ~row.enabled
      <4>1. new = row
        BY <3>2
      <4> HIDE DEF new
      <4> QED BY <2>3, <3>2, <4>1
    <3> QED BY <3>1, <3>2
  <2> HIDE DEF new
  <2>6. UserEdit(j, new, FALSE)
    BY <1>1, <1>3, <2>1, <2>2, <2>3, <2>5 DEF UserEdit
  <2> QED BY <2>6, EditOK
<1>7. CASE RemoveJob(j)
  <2>1. Edit(j, Absent, FALSE) /\ owed' = owed \ {j}
    BY <1>7 DEF RemoveJob
  <2>2. Absent \in Row /\ ~Absent.enabled
    BY DEF Absent, Row
  <2>3. UserEdit(j, Absent, FALSE)
    BY <1>1, <2>1, <2>2 DEF UserEdit
  <2> QED BY <2>3, EditOK
<1>8. CASE EnableJob(j)
  <2> DEFINE old == Loaded[j]
             n == ComputeNext(j, old)
             new == [old EXCEPT !.enabled = TRUE, !.next = n]
  <2>1. Edit(j, new, TRUE) /\ old.here /\ owed' = owed \cup {k \in {j} \cap OneTime : ~RunsNow(k)}
    BY <1>8 DEF EnableJob
  <2>2. old \in Row /\ LogStep
    BY <1>4, <2>1
  <2>3. n \in Nat /\ (j \in OneTime => n = old.at)
    BY <1>1, <2>2, ComputeNextType
  <2> HIDE DEF old, n
  <2>4. new \in Row /\ new.here = old.here /\ new.enabled /\ new.next = n /\ new.at = old.at
    BY <2>2, <2>3 DEF Row
  <2> HIDE DEF new
  <2>5. ASSUME j \in owed' \ external', NEW r \in Runner, runs[r].active, runs[r].job = j
        PROVE  ~runs[r].same
    <3>1. RunsNow(j)
      BY <2>5 DEF RunsNow, Active
    <3>2. j \in owed \ external
      BY <2>1, <2>2, <2>5, <3>1 DEF LogStep
    <3> QED BY <1>1, <2>5, <3>2 DEF Tasks, Unclaimed
  <2>6. UserEdit(j, new, TRUE)
    BY <1>1, <1>3, <2>1, <2>3, <2>4, <2>5 DEF UserEdit
  <2> QED BY <2>6, EditOK
<1>9. CASE DisableJob(j)
  <2> DEFINE old == Loaded[j]
             new == [old EXCEPT !.enabled = FALSE, !.next = 0]
  <2>1. Edit(j, new, TRUE) /\ owed' = owed \ {j}
    BY <1>9 DEF DisableJob
  <2>2. old \in Row
    BY <1>4, <2>1
  <2> HIDE DEF old
  <2>3. new \in Row /\ ~new.enabled
    BY <2>2 DEF Row
  <2> HIDE DEF new
  <2>4. UserEdit(j, new, TRUE)
    BY <1>1, <2>1, <2>3 DEF UserEdit
  <2> QED BY <2>4, EditOK
<1> QED BY <1>5, <1>6, <1>7, <1>8, <1>9

-------------------------------------------------------------------------------
(* The steps of runs *)

\* The store that a turn of the loop looks at, when no run of the loop is in progress.
LEMMA RoundFacts ==
    ASSUME TypeOK, InLoop, Tasks, TakeLog, ~runs[LoopRun].active, NEW s,
           Busy => s = Merged(mem), ~Busy => s = Merged(disk)
    PROVE  /\ s \in [Job -> Row] /\ Fresh(s, begun, external' \cup lost)
           /\ Punctual(s, external') /\ Kept(s, owed, external')
<1>1. LogStep /\ Source(s)
  BY TakeLogFacts
<1>2. /\ s \in [Job -> Row] /\ Fresh(s, begun, external' \cup lost \cup Held)
      /\ Punctual(s, external') /\ Kept(s, owed, external')
  BY <1>1, SourceFacts DEF LogStep
<1>3. Held = {}
  BY DEF Held
<1> QED BY <1>2, <1>3 DEF Fresh

\* The loop begins a task: it will settle the deadline that it has begun.
LEMMA TakeOK ==
    ASSUME IInv, NEW s, Busy => s = Merged(mem), ~Busy => s = Merged(disk), NEW j \in Job,
           Take(s, executed, j), ~runs[LoopRun].active, timer' \in Nat,
           UNCHANGED <<now, cli, running, edits, manuals, externals, crashes>>
    PROVE  IInv'
<1>1. TypeOK /\ Rest /\ InLoop /\ Tasks /\ now \in Nat
  BY DEF IInv, TypeOK
<1> DEFINE run == [active |-> TRUE, job |-> j, due |-> s[j].next, same |-> TRUE, was |-> TRUE]
<1>2. /\ mem' = s /\ disk' = (IF log = <<>> THEN disk ELSE s) /\ TakeLog
      /\ loop' = TRUE /\ executed' = executed \cup {j}
      /\ runs' = [Replaced(Touched) EXCEPT ![LoopRun] = run]
      /\ begun' = [begun EXCEPT ![j] = s[j].next] /\ lost' = lost \ {j} /\ owed' = owed \ {j}
      /\ unarmed' = unarmed
  BY DEF Take
<1>3. LogStep /\ external' = external \cup Touched
  BY <1>1, <1>2, TakeLogFacts
<1>4. /\ s \in [Job -> Row] /\ Fresh(s, begun, external' \cup lost)
      /\ Punctual(s, external') /\ Kept(s, owed, external')
  BY <1>1, <1>2, RoundFacts
<1>5. s[j].next <= now /\ s[j].next \in Nat
  BY <1>4 DEF Take, First, Due, Row
<1>6. run \in Run /\ run.active /\ run.job = j /\ run.due = s[j].next /\ run.same
  BY <1>5 DEF Run
<1> HIDE DEF run
<1>7. /\ runs \in [Runner -> Run \cup {NoRun}] /\ LoopRun \in Runner
      /\ begun' \in [Job -> Nat] /\ begun'[j] = s[j].next /\ \A k \in Job : k # j => begun'[k] = begun[k]
  BY <1>1, <1>2, <1>5, Loops DEF TypeOK
<1>8. /\ runs' \in [Runner -> Run \cup {NoRun}] /\ runs'[LoopRun] = run
      /\ \A r \in Runner : r # LoopRun =>
           /\ runs'[r].active = runs[r].active
           /\ runs[r].active => runs'[r].job = runs[r].job /\ (runs'[r].same => runs[r].same)
  <2>1. /\ Replaced(Touched) \in [Runner -> Run \cup {NoRun}]
        /\ \A r \in Runner :
             /\ Replaced(Touched)[r].active = runs[r].active
             /\ runs[r].active => Replaced(Touched)[r].job = runs[r].job
             /\ runs[r].active =>
                   Replaced(Touched)[r].same = (runs[r].same /\ runs[r].job \notin Touched)
    BY <1>7, ReplacedFacts
  <2>2. runs'[LoopRun] = run /\ \A r \in Runner : r # LoopRun => runs'[r] = Replaced(Touched)[r]
    BY <1>2, <1>7, <2>1
  <2>3. runs' \in [Runner -> Run \cup {NoRun}]
    BY <1>2, <1>6, <2>1
  <2> QED BY <2>1, <2>2, <2>3
<1>9. TypeOK'
  <2>1. /\ mem' \in [Job -> Row] /\ disk' \in [Job -> Row] /\ owed' \in SUBSET Job
        /\ executed' \in SUBSET Job /\ lost' \in SUBSET Job /\ unarmed' \in SUBSET Job
    BY <1>1, <1>2, <1>4 DEF TypeOK
  <2> QED BY <1>1, <1>2, <1>3, <1>7, <1>8, <2>1 DEF TypeOK, LogStep
<1>10. Busy'
  BY <1>2, BusyIs
<1>11. Rest'
  BY <1>1, <1>2, <1>4, <1>10, RestFrom
<1>12. InLoop'
  <2>1. \A k \in Job : begun'[k] <= now
    BY <1>1, <1>5, <1>7 DEF InLoop
  <2> QED BY <1>2, <1>5, <1>6, <1>8, <2>1 DEF InLoop
<1>13. Fresh(disk', begun', external' \cup lost' \cup executed')
  <2>1. Fresh(disk, begun', external' \cup lost' \cup executed')
    BY <1>1, <1>2, <1>3, <1>7 DEF Tasks, OnDisk, Fresh
  <2>2. Fresh(s, begun', external' \cup lost' \cup executed')
    BY <1>2, <1>4, <1>7 DEF Fresh
  <2> QED BY <1>2, <2>1, <2>2
<1>14. Fresh(mem', begun', external' \cup lost' \cup Held')
  <2>1. j \in Held'
    BY <1>2, <1>6, <1>8 DEF Held
  <2> QED BY <1>2, <1>4, <1>7, <2>1 DEF Fresh
<1>15. Unclaimed' /\ owed' \subseteq OneTime
  BY <1>1, <1>2, <1>3, <1>6, <1>8 DEF Unclaimed, Tasks, LogStep
<1>16. Punctual(disk', external') /\ Kept(disk', owed', external') /\ Kept(mem', owed', external')
  BY <1>1, <1>2, <1>3, <1>4 DEF Tasks, OnDisk, Punctual, Kept, LogStep
<1>17. Tasks'
  BY <1>2, <1>4, <1>13, <1>14, <1>15, <1>16, TasksFrom
<1> QED BY <1>9, <1>11, <1>12, <1>17 DEF IInv

\* onTimer ends.
LEMMA LeaveOK ==
    ASSUME IInv, NEW s, Leave(s), LogStep, ~runs[LoopRun].active,
           s \in [Job -> Row], Fresh(s, begun, external' \cup lost),
           Punctual(s, external'), Kept(s, owed, external'),
           runs' = runs \/ runs' = Replaced(Touched),
           UNCHANGED <<now, cli, running, begun, lost, owed, edits, manuals, externals, crashes>>
    PROVE  IInv'
<1>1. TypeOK /\ Rest /\ InLoop /\ Tasks /\ now \in Nat /\ runs \in [Runner -> Run \cup {NoRun}]
  BY DEF IInv, TypeOK
<1>2. /\ mem' = s /\ disk' = s /\ loop' = FALSE /\ executed' = {} /\ unarmed' = {}
      /\ timer' = (IF running /\ ~(Active # {}) THEN WakeAt(s) ELSE 0)
  BY DEF Leave, Store, ArmTimer
<1>3. WakeAt(s) \in Nat
  BY <1>1, WakeAtFacts
<1>4. /\ runs' \in [Runner -> Run \cup {NoRun}]
      /\ \A r \in Runner : /\ runs'[r].active = runs[r].active
                           /\ runs[r].active => /\ runs'[r].job = runs[r].job
                                                /\ runs'[r].same => runs[r].same
  <2>1. CASE runs' = runs
    BY <1>1, <2>1
  <2>2. CASE runs' = Replaced(Touched)
    <3>1. /\ Replaced(Touched) \in [Runner -> Run \cup {NoRun}]
          /\ \A r \in Runner :
               /\ Replaced(Touched)[r].active = runs[r].active
               /\ runs[r].active => Replaced(Touched)[r].job = runs[r].job
               /\ runs[r].active =>
                     Replaced(Touched)[r].same = (runs[r].same /\ runs[r].job \notin Touched)
      BY <1>1, ReplacedFacts
    <3> QED BY <2>2, <3>1
  <2> QED BY <2>1, <2>2
<1>5. TypeOK'
  BY <1>1, <1>2, <1>3, <1>4 DEF TypeOK, LogStep
<1>6. Rest'
  <2>1. ~Busy' => Active = {}
    BY <1>4, BusyIs DEF Active
  <2> QED BY <1>1, <1>2, <2>1, RestFrom
<1>7. InLoop'
  BY <1>1, <1>2, <1>4, Loops DEF InLoop
<1>8. Unclaimed' /\ owed' \subseteq OneTime
  BY <1>1, <1>4 DEF Unclaimed, Tasks, LogStep
<1>9. /\ Fresh(disk', begun', external' \cup lost' \cup executed')
      /\ Fresh(mem', begun', external' \cup lost' \cup Held')
  BY <1>2 DEF Fresh
<1>10. Tasks'
  BY <1>2, <1>8, <1>9, TasksFrom
<1> QED BY <1>5, <1>6, <1>7, <1>10 DEF IInv

LEMMA TimerFiresOK == ASSUME IInv, TimerFires PROVE IInv'
<1>1. /\ running /\ ~Busy /\ TypeOK /\ InLoop /\ Tasks
      /\ UNCHANGED <<now, cli, running, edits, manuals, externals, crashes>>
  BY DEF TimerFires, IInv, bounds
<1>2. ~runs[LoopRun].active /\ executed = {}
  BY <1>1, BusyIs, Loops DEF InLoop
<1>3. ASSUME NEW j \in Job, Take(Merged(disk), {}, j), timer' = 0 PROVE IInv'
  BY <1>1, <1>2, <1>3, TakeOK
<1>4. ASSUME Leave(Merged(disk)), TakeLog, UNCHANGED <<runs, begun, lost, owed>> PROVE IInv'
  <2>1. LogStep
    BY <1>1, <1>4, TakeLogFacts
  <2>2. /\ Merged(disk) \in [Job -> Row] /\ Fresh(Merged(disk), begun, external' \cup lost)
        /\ Punctual(Merged(disk), external') /\ Kept(Merged(disk), owed, external')
    BY <1>1, <1>2, <1>4, RoundFacts
  <2> QED BY <1>1, <1>2, <1>4, <2>1, <2>2, LeaveOK
<1> QED BY <1>3, <1>4 DEF TimerFires

LEMMA LoopStartsOK == ASSUME IInv, NEW j \in Job, LoopStarts(j) PROVE IInv'
<1>1. /\ loop /\ ~runs[LoopRun].active /\ Take(Merged(mem), executed, j)
      /\ UNCHANGED <<now, cli, running, timer, edits, manuals, externals, crashes>>
  BY DEF LoopStarts, bounds
<1>2. timer' \in Nat /\ Busy
  BY <1>1, BusyIs DEF IInv, TypeOK
<1> QED BY <1>1, <1>2, TakeOK

LEMMA LoopEndsOK == ASSUME IInv, LoopEnds PROVE IInv'
<1>1. /\ loop /\ ~runs[LoopRun].active /\ TypeOK /\ InLoop /\ Tasks
      /\ UNCHANGED <<now, cli, running, begun, lost, owed, edits, manuals, externals, crashes>>
  BY DEF LoopEnds, IInv, bounds
<1>2. Busy
  BY <1>1, BusyIs
<1>3. CASE running
  <2>1. Leave(Merged(mem)) /\ TakeLog /\ runs' = Replaced(Touched)
    BY <1>3 DEF LoopEnds
  <2>2. LogStep
    BY <1>1, <2>1, TakeLogFacts
  <2>3. /\ Merged(mem) \in [Job -> Row] /\ Fresh(Merged(mem), begun, external' \cup lost)
        /\ Punctual(Merged(mem), external') /\ Kept(Merged(mem), owed, external')
    BY <1>1, <1>2, <2>1, RoundFacts
  <2> QED BY <1>1, <2>1, <2>2, <2>3, LeaveOK
<1>4. CASE ~running
  <2>1. Leave(mem) /\ KeepLog /\ runs' = runs
    BY <1>4 DEF LoopEnds
  <2>2. LogStep /\ Source(mem)
    BY <1>1, <1>2, <2>1 DEF LogStep, Source, KeepLog, TypeOK
  <2>3. /\ mem \in [Job -> Row] /\ Fresh(mem, begun, external' \cup lost \cup Held)
        /\ Punctual(mem, external') /\ Kept(mem, owed, external')
    BY <1>1, <2>2, SourceFacts DEF LogStep
  <2>4. Held = {}
    BY <1>1 DEF Held
  <2>5. Fresh(mem, begun, external' \cup lost)
    BY <2>3, <2>4 DEF Fresh
  <2> QED BY <1>1, <2>1, <2>2, <2>3, <2>5, LeaveOK
<1> QED BY <1>3, <1>4

\* What a completion does to the tasks: one that was set during the run is left alone, and
\* the deadline that is settled makes way for one that was never begun.
LEMMA CompletionFacts ==
    ASSUME TypeOK, InLoop, Tasks, NEW r \in Runner, runs[r].active, NEW t, t = Completed(mem, runs[r])
    PROVE  /\ t \in [Job -> Row] /\ Punctual(t, external) /\ Kept(t, owed, external)
           /\ \A k \in Job \ (external \cup lost) : Wanted(t, k) =>
                \/ begun[k] < t[k].next
                \/ k \in Held /\ t[k].next = mem[k].next /\ r # LoopRun
<1> DEFINE run == runs[r]
<1>1. /\ now \in Nat /\ mem \in [Job -> Row] /\ begun \in [Job -> Nat]
      /\ owed \subseteq Job /\ OneTime \subseteq Job
  BY DEF TypeOK, Job
<1>2. run \in Run /\ run.job \in Job /\ run.due \in Nat
  BY RunFacts DEF TypeOK
<1>3. Busy
  BY BusyIs
<1>4. /\ Fresh(mem, begun, external \cup lost \cup Held)
      /\ Punctual(mem, external) /\ Kept(mem, owed, external) /\ Unclaimed
  BY <1>3 DEF Tasks, InMemory
<1>5. /\ t \in [Job -> Row]
      /\ \A j \in Job : j # run.job => t[j] = mem[j]
      /\ t = mem \/ (run.same /\ mem[run.job].enabled /\ mem[run.job].next = run.due)
      /\ run.job \in OneTime => t[run.job] = mem[run.job] \/ ~t[run.job].enabled
      /\ run.same /\ mem[run.job].enabled /\ mem[run.job].next = run.due =>
            \/ ~t[run.job].enabled
            \/ run.due <= now /\ t[run.job].next > now
            \/ t[run.job].next = run.due /\ run.due > now
  BY <1>1, <1>2, CompletedFacts
<1>6. Punctual(t, external)
  BY <1>1, <1>4, <1>5 DEF Punctual
<1>7. Kept(t, owed, external)
  <2> SUFFICES ASSUME NEW j \in owed \ external PROVE t[j].here /\ t[j].enabled
    BY DEF Kept
  <2>1. t[j] = mem[j]
    BY <1>1, <1>4, <1>5 DEF Unclaimed
  <2> QED BY <1>4, <2>1 DEF Kept
<1>8. ASSUME NEW k \in Job \ (external \cup lost), Wanted(t, k)
      PROVE  begun[k] < t[k].next \/ (k \in Held /\ t[k].next = mem[k].next /\ r # LoopRun)
  <2>1. begun[k] <= now /\ begun[k] \in Nat /\ t[k].next \in Nat
    BY <1>1, <1>5 DEF InLoop, Row
  <2>2. CASE k = run.job /\ run.same /\ mem[k].enabled /\ mem[k].next = run.due
    <3>1. t[k].next > now
      BY <1>2, <1>5, <1>8, <2>2 DEF Wanted
    <3> QED BY <1>1, <2>1, <3>1
  <2>3. CASE ~(k = run.job /\ run.same /\ mem[k].enabled /\ mem[k].next = run.due)
    <3>1. t[k] = mem[k] /\ Wanted(mem, k)
      BY <1>5, <1>8, <2>3 DEF Wanted
    <3>2. CASE k \notin Held
      BY <1>4, <3>1, <3>2 DEF Fresh
    <3>3. CASE k \in Held
      <4>1. r # LoopRun
        BY <2>3, <3>1, <3>3 DEF Held, Wanted
      <4> QED BY <3>1, <3>3, <4>1
    <3> QED BY <3>2, <3>3
  <2> QED BY <2>2, <2>3
<1> QED BY <1>5, <1>6, <1>7, <1>8

LEMMA LoopRunEndsOK == ASSUME IInv, LoopRunEnds PROVE IInv'
<1>1. TypeOK /\ Rest /\ InLoop /\ Tasks /\ runs \in [Runner -> Run \cup {NoRun}] /\ LoopRun \in Runner
  BY Loops DEF IInv, TypeOK
<1> DEFINE t == Completed(mem, runs[LoopRun])
<1>2. /\ runs[LoopRun].active /\ mem' = t
      /\ runs' = [runs EXCEPT ![LoopRun] = NoRun]
      /\ UNCHANGED <<now, disk, log, cli, running, timer, loop, executed, begun, lost, unarmed, owed, external,
                     edits, manuals, externals, crashes>>
  BY DEF LoopRunEnds, files, history, bounds
<1>3. /\ t \in [Job -> Row] /\ Punctual(t, external) /\ Kept(t, owed, external)
      /\ \A k \in Job \ (external \cup lost) : Wanted(t, k) => begun[k] < t[k].next
  BY <1>1, <1>2, CompletionFacts
<1> HIDE DEF t
<1>4. /\ runs' \in [Runner -> Run \cup {NoRun}] /\ ~runs'[LoopRun].active
      /\ \A r \in Runner : runs'[r].active => runs'[r] = runs[r] /\ runs[r].active
  BY <1>1, <1>2 DEF NoRun
<1>5. TypeOK'
  BY <1>1, <1>2, <1>3, <1>4 DEF TypeOK
<1>6. loop /\ Busy'
  BY <1>1, <1>2, BusyIs DEF InLoop
<1>7. Rest'
  BY <1>1, <1>2, <1>3, <1>6, RestFrom
<1>8. InLoop'
  BY <1>1, <1>2, <1>4, <1>6 DEF InLoop
<1>9. Unclaimed' /\ owed' \subseteq OneTime
  BY <1>1, <1>2, <1>4 DEF Unclaimed, Tasks
<1>10. Fresh(mem', begun', external' \cup lost' \cup Held')
  BY <1>2, <1>3 DEF Fresh
<1>11. Tasks'
  BY <1>1, <1>2, <1>3, <1>9, <1>10, TasksFrom DEF Tasks, OnDisk
<1> QED BY <1>5, <1>7, <1>8, <1>11 DEF IInv

LEMMA RunNowOK == ASSUME IInv, NEW j \in Job, RunNow(j) PROVE IInv'
<1>1. TypeOK /\ Rest /\ InLoop /\ Tasks /\ runs \in [Runner -> Run \cup {NoRun}]
  BY DEF IInv, TypeOK
<1> DEFINE s == Loaded
           run == [active |-> TRUE, job |-> j, due |-> s[j].next, same |-> TRUE, was |-> running]
<1>2. /\ manuals < MaxManual /\ manuals' = manuals + 1 /\ running' = TRUE
      /\ mem' = s /\ disk' = (IF Busy THEN disk ELSE s) /\ LoadLog
      /\ runs' = [runs EXCEPT ![manuals'] = run] /\ owed' = owed \ {j}
      /\ UNCHANGED <<now, cli, timer, loop, executed, begun, lost, unarmed, edits, externals, crashes>>
  BY DEF RunNow
<1>3. LogStep /\ Source(s) /\ (Busy => s = mem /\ external' = external)
  BY <1>1, <1>2, LoadedFacts
<1>4. /\ s \in [Job -> Row] /\ Fresh(s, begun, external' \cup lost \cup Held)
      /\ Punctual(s, external') /\ Kept(s, owed, external') /\ Held \subseteq executed
  BY <1>1, <1>3, SourceFacts DEF LogStep
<1> HIDE DEF s
<1>5. run \in Run /\ run.active /\ run.job = j
  <2>1. s[j].next \in Nat /\ running \in BOOLEAN
    BY <1>1, <1>4 DEF Row, TypeOK
  <2> QED BY <2>1 DEF Run
<1> HIDE DEF run
<1>6. manuals' \in 0..MaxManual /\ manuals' \in Runner /\ manuals' # LoopRun /\ LoopRun \in Runner
  <2>1. manuals' \in 1..MaxManual
    BY <1>1, <1>2, Constants DEF TypeOK
  <2> QED BY <2>1, Loops, Constants
<1>7. /\ runs' \in [Runner -> Run \cup {NoRun}] /\ runs'[LoopRun] = runs[LoopRun]
      /\ runs'[manuals'] = run /\ \A r \in Runner : r # manuals' => runs'[r] = runs[r]
  BY <1>1, <1>2, <1>5, <1>6
<1>8. TypeOK'
  <2>1. disk' \in [Job -> Row] /\ owed' \in SUBSET Job
    BY <1>1, <1>2, <1>4 DEF TypeOK
  <2> QED BY <1>1, <1>2, <1>3, <1>4, <1>6, <1>7, <2>1 DEF TypeOK, LogStep
<1>9. Busy'
  BY <1>5, <1>6, <1>7, BusyIs
<1>10. Rest'
  BY <1>1, <1>2, <1>4, <1>9, RestFrom
<1>11. InLoop'
  BY <1>1, <1>2, <1>7 DEF InLoop
<1>12. Unclaimed' /\ owed' \subseteq OneTime
  <2> SUFFICES ASSUME NEW r \in Runner, runs'[r].active, runs'[r].job \in owed' \ external'
               PROVE  ~runs'[r].same
    BY <1>1, <1>2 DEF Unclaimed, Tasks
  <2>1. r # manuals'
    BY <1>2, <1>5, <1>7
  <2> QED BY <1>1, <1>2, <1>3, <1>7, <2>1 DEF Unclaimed, Tasks, LogStep
<1>13. Fresh(disk', begun', external' \cup lost' \cup executed')
  <2>1. Fresh(disk, begun, external' \cup lost \cup executed)
    BY <1>1, <1>3 DEF Tasks, OnDisk, Fresh, LogStep
  <2>2. Fresh(s, begun, external' \cup lost \cup executed)
    BY <1>4 DEF Fresh
  <2> QED BY <1>2, <2>1, <2>2
<1>14. Fresh(mem', begun', external' \cup lost' \cup Held')
  <2>1. ASSUME NEW k \in Held PROVE k \in Held'
    <3>1. Busy
      BY <1>6, BusyIs DEF Held
    <3> QED BY <1>2, <1>3, <1>7, <3>1 DEF Held
  <2> QED BY <1>2, <1>4, <2>1 DEF Fresh
<1>15. Punctual(disk', external') /\ Kept(disk', owed', external') /\ Kept(mem', owed', external')
  BY <1>1, <1>2, <1>3, <1>4 DEF Tasks, OnDisk, Punctual, Kept, LogStep
<1>16. Tasks'
  BY <1>2, <1>4, <1>12, <1>13, <1>14, <1>15, TasksFrom
<1> QED BY <1>8, <1>10, <1>11, <1>16 DEF IInv

LEMMA RunNowEndsOK == ASSUME IInv, NEW h \in 1..MaxManual, RunNowEnds(h) PROVE IInv'
<1>1. TypeOK /\ Rest /\ InLoop /\ Tasks /\ runs \in [Runner -> Run \cup {NoRun}] /\ now \in Nat
  BY DEF IInv, TypeOK
<1>2. h \in Runner /\ h # LoopRun /\ LoopRun \in Runner /\ ~NoRun.active
  BY Loops DEF NoRun
<1> DEFINE run == runs[h]
           t == Completed(mem, run)
<1>3. /\ run.active /\ mem' = t /\ disk' = t
      /\ runs' = [runs EXCEPT ![h] = NoRun] /\ running' = run.was
      /\ IF run.was THEN timer' = (IF ~OthersRun(h) THEN WakeAt(t) ELSE 0) /\ unarmed' = {}
                    ELSE timer' = timer /\ unarmed' = unarmed
      /\ UNCHANGED <<now, log, cli, loop, executed, begun, lost, owed, external,
                     edits, manuals, externals, crashes>>
  BY DEF RunNowEnds, Store, ArmTimer, KeepTimer, bounds
<1>4. /\ t \in [Job -> Row] /\ Punctual(t, external) /\ Kept(t, owed, external)
      /\ \A k \in Job \ (external \cup lost) : Wanted(t, k) =>
           begun[k] < t[k].next \/ (k \in Held /\ t[k].next = mem[k].next)
  BY <1>1, <1>2, <1>3, CompletionFacts
<1> HIDE DEF t
<1>5. /\ runs' \in [Runner -> Run \cup {NoRun}] /\ runs'[LoopRun] = runs[LoopRun]
      /\ \A r \in Runner : r # h => runs'[r] = runs[r]
      /\ ~runs'[h].active /\ running' \in BOOLEAN
  BY <1>1, <1>2, <1>3, RunFacts
<1>6. timer' \in Nat /\ unarmed' \in SUBSET Job
  BY <1>1, <1>3, <1>4, WakeAtFacts DEF TypeOK
<1>7. TypeOK'
  BY <1>1, <1>3, <1>4, <1>5, <1>6 DEF TypeOK
<1>8. Rest'
  <2>1. ~Busy' => ~OthersRun(h)
    BY <1>3, <1>5, BusyIs DEF OthersRun, Active
  <2> QED BY <1>1, <1>3, <1>4, <2>1, RestFrom
<1>9. InLoop'
  BY <1>1, <1>3, <1>5 DEF InLoop
<1>10. Unclaimed' /\ owed' \subseteq OneTime
  BY <1>1, <1>2, <1>3, <1>5 DEF Unclaimed, Tasks
<1>11. Held \subseteq executed
  BY <1>1 DEF InLoop, Held
<1>12. Fresh(disk', begun', external' \cup lost' \cup executed')
  BY <1>3, <1>4, <1>11 DEF Fresh
<1>13. Fresh(mem', begun', external' \cup lost' \cup Held')
  <2>1. \A k \in Held : t[k].next = mem[k].next => k \in Held'
    BY <1>3, <1>5 DEF Held
  <2> QED BY <1>3, <1>4, <2>1 DEF Fresh
<1>14. Tasks'
  BY <1>3, <1>4, <1>10, <1>12, <1>13, TasksFrom
<1> QED BY <1>7, <1>8, <1>9, <1>14 DEF IInv

\* A timer that fires while something runs: what runs arms it again.
LEMMA TimerIgnoredOK == ASSUME IInv, TimerIgnored PROVE IInv'
<1>1. TypeOK /\ Rest /\ InLoop /\ Tasks
  BY DEF IInv
<1>2. /\ timer' = 0 /\ (Busy \/ ~running)
      /\ UNCHANGED <<now, mem, disk, log, cli, running, loop, executed, runs, begun, lost, unarmed, owed,
                     external, edits, manuals, externals, crashes>>
  BY DEF TimerIgnored, files, history, bounds
<1>3. TypeOK'
  BY <1>1, <1>2 DEF TypeOK
<1>4. (Busy' <=> Busy) /\ Held' = Held /\ mem' \in [Job -> Row]
  BY <1>2, <1>3, BusyIs DEF Held, TypeOK
<1>5. Rest'
  BY <1>1, <1>2, <1>4, RestFrom
<1>6. InLoop' /\ Unclaimed' /\ owed' \subseteq OneTime
  BY <1>1, <1>2 DEF Tasks, InLoop, Unclaimed
<1>7. Tasks'
  BY <1>1, <1>2, <1>4, <1>6, TasksFrom DEF Tasks, OnDisk, InMemory
<1> QED BY <1>3, <1>5, <1>6, <1>7 DEF IInv

LEMMA Later ==
    ASSUME NEW a \in Nat, NEW b \in Nat, a <= b, NEW m \in Nat, NEW t \in Nat, t <= a + m
    PROVE  t <= b + m
OBVIOUS

\* The command line, the clock and a step that does nothing leave the service alone.
LEMMA OthersOK ==
    ASSUME IInv,
           UNCHANGED <<mem, disk, running, timer, loop, executed, runs, begun, lost, unarmed, owed, external,
                       edits, manuals, crashes>>,
           now' \in 1..MaxNow, now' >= now, log' \in Seq(Action), cli' \in Seq(Action),
           externals' \in 0..MaxExternal
    PROVE  IInv'
<1>1. /\ TypeOK /\ Rest /\ InLoop /\ Tasks /\ now \in Nat /\ now' \in Nat
      /\ runs \in [Runner -> Run \cup {NoRun}]
  BY Constants DEF IInv, TypeOK
<1>2. TypeOK'
  BY <1>1 DEF TypeOK
<1>3. (Busy' <=> Busy) /\ Held' = Held
  BY BusyIs DEF Held
<1>4. Rest'
  <2>1. MaxSleep \in Nat /\ timer \in Nat /\ \A j \in Job : mem[j].next \in Nat
    BY <1>1, Constants DEF TypeOK, Row
  <2>2. WakeIsSet'
    <3> SUFFICES ASSUME running', ~Busy' PROVE WakeIsSet'
      BY DEF WakeIsSet
    <3>1. /\ timer # 0 /\ timer <= now + MaxSleep
          /\ \A j \in Job \ unarmed : Wanted(mem, j) => timer <= mem[j].next \/ timer <= now
      BY <1>1, <1>3 DEF Rest, WakeIsSet
    <3>2. timer' = timer /\ mem' = mem /\ unarmed' = unarmed /\ now <= now'
      OBVIOUS
    <3>3. timer' # 0 /\ timer' <= now' + MaxSleep
      <4>1. timer # 0 /\ timer <= now + MaxSleep /\ now \in Nat /\ now' \in Nat
        BY <1>1, <3>1
      <4>2. timer \in Nat /\ MaxSleep \in Nat
        BY <2>1
      <4>3. timer <= now' + MaxSleep
        BY <3>2, <4>1, <4>2, Later
      <4> QED BY <3>2, <4>1, <4>3
    <3>4. ASSUME NEW j \in Job \ unarmed', Wanted(mem', j) PROVE timer' <= mem'[j].next \/ timer' <= now'
      <4>1. timer <= mem[j].next \/ timer <= now
        BY <3>1, <3>2, <3>4 DEF Wanted
      <4> QED BY <1>1, <2>1, <3>2, <4>1
    <3> QED BY <3>3, <3>4 DEF WakeIsSet, Wanted
  <2>3. NothingToLose'
    BY <1>1, <1>3 DEF Rest, NothingToLose
  <2> QED BY <2>2, <2>3 DEF Rest
<1>5. InLoop'
  <2>1. runs[LoopRun].due \in Nat /\ \A j \in Job : begun[j] \in Nat
    BY <1>1, RunFacts, Loops DEF TypeOK
  <2> QED BY <1>1, <2>1 DEF InLoop
<1>6. Unclaimed' /\ owed' \subseteq OneTime
  BY <1>1 DEF Tasks, Unclaimed
<1>7. Tasks'
  BY <1>1, <1>3, <1>6, TasksFrom DEF Tasks, OnDisk, InMemory
<1> QED BY <1>2, <1>4, <1>5, <1>7 DEF IInv

LEMMA CliOK == ASSUME IInv, Cli PROVE IInv'
<1>1. TypeOK /\ now \in 1..MaxNow /\ now \in Nat /\ log \in Seq(Action) /\ cli \in Seq(Action)
      /\ disk \in [Job -> Row] /\ externals \in 0..MaxExternal
  BY Constants DEF IInv, TypeOK
<1>2. Merged(disk) \in [Job -> Row] /\ Absent \in Row
  BY <1>1, MergedFacts DEF Absent, Row
<1>3. CASE CliAppends
  <2>1. /\ cli' = <<>> /\ log' = log \o cli
        /\ UNCHANGED <<now, mem, disk, running, timer, loop, executed, runs, begun, lost, unarmed, owed, external,
                       edits, manuals, externals, crashes>>
    BY <1>3 DEF CliAppends, service, history, bounds
  <2>2. log' \in Seq(Action) /\ cli' \in Seq(Action)
    BY <1>1, <2>1
  <2> QED BY <1>1, <2>1, <2>2, OthersOK
<1>4. ASSUME NEW op \in {"add", "update", "del"}, NEW j \in Job, NEW row \in Row, CliReads(op, j, row)
      PROVE  IInv'
  <2> DEFINE a == [op |-> op, job |-> j, row |-> row]
  <2>1. /\ externals < MaxExternal /\ externals' = externals + 1 /\ cli' = <<a>>
        /\ UNCHANGED <<now, mem, disk, log, running, timer, loop, executed, runs, begun, lost, unarmed, owed, external,
                       edits, manuals, crashes>>
    BY <1>4 DEF CliReads, files, service, history
  <2>2. a \in Action
    BY DEF Action
  <2> HIDE DEF a
  <2>3. cli' \in Seq(Action) /\ externals' \in 0..MaxExternal
    BY <1>1, <2>1, <2>2, Constants
  <2> QED BY <1>1, <2>1, <2>3, OthersOK
<1>5. ASSUME NEW j \in Job, CliAdds(j) \/ CliRemoves(j) \/ CliRenames(j) PROVE IInv'
  <2>1. NewRow(j, now + 1, FALSE) \in Row /\ Merged(disk)[j] \in Row
    <3>1. now + 1 \in Nat /\ FALSE \in BOOLEAN
      BY <1>1
    <3> QED BY <1>1, <1>2, <3>1, NewRowFacts
  <2> QED BY <1>2, <1>4, <1>5, <2>1 DEF CliAdds, CliRemoves, CliRenames
<1> QED BY <1>3, <1>5 DEF Cli

LEMMA NextOK == IInv /\ [Next]_vars => IInv'
<1> SUFFICES ASSUME IInv, [Next]_vars PROVE IInv'
  OBVIOUS
<1>1. now \in 1..MaxNow /\ MaxNow \in Nat /\ log \in Seq(Action) /\ cli \in Seq(Action)
      /\ externals \in 0..MaxExternal
  BY Constants DEF IInv, TypeOK
<1>2. CASE Client
  BY <1>2, ClientOK, RunNowOK DEF Client
<1>3. CASE Loop
  BY <1>3, LoopRunEndsOK, LoopEndsOK, LoopStartsOK DEF Loop
<1>4. CASE Tick
  <2>1. /\ now < MaxNow /\ now' = now + 1
        /\ UNCHANGED <<mem, disk, log, cli, running, timer, loop, executed, runs, begun, lost, unarmed, owed, external,
                       edits, manuals, externals, crashes>>
    BY <1>4 DEF Tick, files, service, history, bounds
  <2>2. now' \in 1..MaxNow /\ now' >= now
    BY <1>1, <2>1
  <2> QED BY <1>1, <2>1, <2>2, OthersOK
<1>5. CASE UNCHANGED vars
  <2>1. UNCHANGED <<now, mem, disk, log, cli, running, timer, loop, executed, runs, begun, lost, unarmed, owed, external,
                    edits, manuals, externals, crashes>>
    BY <1>5 DEF vars, files, service, history, bounds
  <2> QED BY <1>1, <2>1, OthersOK
<1> QED BY <1>2, <1>3, <1>4, <1>5, StartOK, StopOK, CrashOK, ReadOK, RunRefusedOK, TimerIgnoredOK,
           TimerFiresOK, RunNowEndsOK, CliOK DEF Next

-------------------------------------------------------------------------------
(* The theorems *)

\* The variables keep their types, also those that the log and the grid compute.
THEOREM CronTypeCorrect == Spec => []TypeOK
<1>1. IInv => TypeOK
  BY DEF IInv
<1> QED BY <1>1, InitOK, NextOK, PTL DEF Spec

\* armTimer is called whenever the service comes to rest, and in time for every task but those
\* that a read has taken from the action log since.
THEOREM WakeIsAlwaysSet == Spec => []WakeIsSet
<1>1. IInv => WakeIsSet
  BY DEF IInv, Rest
<1> QED BY <1>1, InitOK, NextOK, PTL DEF Spec

\* loadStore of a service at rest forgets nothing.
THEOREM NothingIsLost == Spec => []NothingToLose
<1>1. IInv => NothingToLose
  BY DEF IInv, Rest
<1> QED BY <1>1, InitOK, NextOK, PTL DEF Spec

\* The deadline of the task that a turn of the loop takes was not begun before, or it was begun
\* by a process that died before it saved that.
LEMMA TakeOnce ==
    ASSUME IInv, NEW s, Busy => s = Merged(mem), ~Busy => s = Merged(disk), NEW j \in Job \ external',
           Take(s, executed, j), ~runs[LoopRun].active
    PROVE  j \in lost \/ (runs'[LoopRun].job = j /\ runs'[LoopRun].due > begun[j])
<1>1. TypeOK /\ InLoop /\ Tasks /\ TakeLog
  BY DEF IInv, Take
<1>2. s \in [Job -> Row] /\ Fresh(s, begun, external' \cup lost)
  BY <1>1, RoundFacts
<1>3. Wanted(s, j)
  BY DEF Take, First, Due
<1>4. runs'[LoopRun].job = j /\ runs'[LoopRun].due = s[j].next
  <2>1. Replaced(Touched) \in [Runner -> Run \cup {NoRun}] /\ LoopRun \in Runner
    BY <1>1, ReplacedFacts, Loops DEF TypeOK
  <2> QED BY <2>1 DEF Take
<1>5. j \notin lost => s[j].next > begun[j]
  <2>1. s[j].next \in Nat /\ begun[j] \in Nat
    BY <1>1, <1>2 DEF TypeOK, Row
  <2> QED BY <1>2, <1>3, <2>1 DEF Fresh
<1> QED BY <1>4, <1>5

\* Only the two steps that take a task start a run of the loop.
LEMMA LoopRunStarts ==
    ASSUME IInv, [Next]_vars, ~runs[LoopRun].active, runs'[LoopRun].active
    PROVE  TimerFires \/ \E j \in Job : LoopStarts(j)
<1>1. runs \in [Runner -> Run \cup {NoRun}] /\ LoopRun \in Runner /\ manuals \in 0..MaxManual
  BY Loops DEF IInv, TypeOK
<1>2. \A S : Replaced(S)[LoopRun].active = runs[LoopRun].active
  BY <1>1, ReplacedFacts
<1>3. runs' # runs /\ \A S : runs' # Replaced(S)
  BY <1>2
<1>4. ASSUME NEW j \in Job, NEW row, NEW keeps, Edit(j, row, keeps) PROVE FALSE
  BY <1>3, <1>4 DEF Edit
<1>5. ASSUME NEW j \in Job, RunNow(j) PROVE FALSE
  <2>1. manuals' \in 1..MaxManual /\ manuals' \in Runner /\ manuals' # LoopRun
    BY <1>1, <1>5, Constants, Loops DEF RunNow
  <2>2. runs'[LoopRun] = runs[LoopRun]
    BY <1>1, <1>5, <2>1 DEF RunNow
  <2> QED BY <2>2
<1>6. ASSUME Client PROVE FALSE
  BY <1>4, <1>5, <1>6 DEF Client, AddJob, UpdateJob, RemoveJob, EnableJob, DisableJob
<1>7. ASSUME NEW h \in 1..MaxManual, RunNowEnds(h) PROVE FALSE
  BY <1>1, <1>7, Loops DEF RunNowEnds
<1>8. ASSUME Crash \/ LoopRunEnds PROVE FALSE
  BY <1>1, <1>8 DEF Crash, LoopRunEnds, NoRun
<1>9. ASSUME LoopEnds PROVE FALSE
  BY <1>3, <1>9 DEF LoopEnds
<1>10. ASSUME Cli \/ Tick PROVE FALSE
  BY <1>3, <1>10 DEF Cli, CliAppends, CliAdds, CliRemoves, CliRenames, CliReads, Tick, service
<1>11. ASSUME Start \/ Stop \/ Read \/ RunRefused \/ TimerIgnored PROVE FALSE
  BY <1>3, <1>11 DEF Start, Stop, Read, RunRefused, TimerIgnored
<1>12. ASSUME UNCHANGED vars PROVE FALSE
  BY <1>3, <1>12 DEF vars, service
<1> QED BY <1>6, <1>7, <1>8, <1>9, <1>10, <1>11, <1>12 DEF Next, Loop

\* onTimer begins a deadline for the second time only when a crash undid the first, whatever is
\* edited, started by hand or stopped during the run; what the command line touches is excepted.
THEOREM DeadlinesRunOnce == Spec => DeadlineOnce
<1>1. ASSUME IInv, [Next]_vars
      PROVE  \A j \in Job \ external' :
               ~runs[LoopRun].active /\ runs'[LoopRun].active /\ runs'[LoopRun].job = j
               => runs'[LoopRun].due > begun[j] \/ j \in lost
  <2> SUFFICES ASSUME NEW j \in Job \ external', ~runs[LoopRun].active,
                      runs'[LoopRun].active, runs'[LoopRun].job = j
               PROVE  runs'[LoopRun].due > begun[j] \/ j \in lost
    OBVIOUS
  <2>1. runs \in [Runner -> Run \cup {NoRun}] /\ LoopRun \in Runner
    BY <1>1, Loops DEF IInv, TypeOK
  <2>2. ASSUME NEW s, NEW k \in Job, Take(s, executed, k) PROVE k = j
    BY <2>1, <2>2, ReplacedFacts DEF Take
  <2>3. CASE TimerFires
    <3>1. ~Busy /\ executed = {} /\ runs' # runs
      BY <1>1, <2>3, BusyIs DEF TimerFires, IInv, InLoop
    <3>2. PICK k \in Job : Take(Merged(disk), executed, k)
      BY <2>3, <3>1 DEF TimerFires
    <3>3. k = j
      BY <2>2, <3>2
    <3> QED BY <1>1, <3>1, <3>2, <3>3, TakeOnce
  <2>4. ASSUME NEW k \in Job, LoopStarts(k) PROVE runs'[LoopRun].due > begun[j] \/ j \in lost
    <3>1. Busy /\ Take(Merged(mem), executed, k)
      BY <2>4, BusyIs DEF LoopStarts
    <3>2. k = j
      BY <2>2, <3>1
    <3> QED BY <1>1, <3>1, <3>2, TakeOnce
  <2> QED BY <1>1, <2>3, <2>4, LoopRunStarts
<1>2. IInv /\ [Next]_vars =>
        [\A j \in Job \ external' :
           ~runs[LoopRun].active /\ runs'[LoopRun].active /\ runs'[LoopRun].job = j
           => runs'[LoopRun].due > begun[j] \/ j \in lost]_vars
  BY <1>1
<1> QED BY <1>2, InitOK, NextOK, PTL DEF Spec, DeadlineOnce

\* A one-time task that was set is on disk until it is begun, at its deadline, and no run of its
\* earlier deadline settles it.
THEOREM OwedTasksAreOnDisk == Spec => []OwedIsOnDisk
<1>1. IInv => OwedIsOnDisk
  BY DEF IInv, Tasks, OnDisk, Kept, Punctual, OwedIsOnDisk
<1> QED BY <1>1, InitOK, NextOK, PTL DEF Spec
==============================================================================
