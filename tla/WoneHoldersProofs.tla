-------------------------- MODULE WoneHoldersProofs --------------------------
(***************************************************************************)
(* wone-holders: the balances are exact and the error reported is the root *)
(* cause, for every number of workers, holders, events, ranges and         *)
(* attempts, and every word size.  As long as no error is offered to the   *)
(* channel, what the producer has left, the jobs, the workers, the results *)
(* and the balances together account for every block once (Conserved), and *)
(* for every initial range once (Counted).                                 *)
(***************************************************************************)
EXTENDS WoneHolders, SumTheorems, SequenceTheorems

(* The events' effect, as functions of the deployment block d. *)
BlockD(d, b, a) ==
    LET n == b - d
        events == IF n \in DOMAIN Events THEN Events[n] ELSE <<>>
    IN  SumFunction([i \in DOMAIN events |-> applyLog(events[i], a)])
RangeD(d, r, a) == SumFunction([b \in r[1]..r[2] |-> BlockD(d, b, a)])
LogsD(d, logs, a) == SumFunction([i \in DOMAIN logs |-> RangeD(d, logs[i], a)])
ResultsD(d, rs, a) == SumFunction([i \in DOMAIN rs |-> LogsD(d, rs[i], a)])
PoolD(d, pool, a) ==
    SumFunction([w \in Worker |-> LogsD(d, pool[w].open, a) + LogsD(d, pool[w].logs, a)])
RestD(d, p, cutoff, a) == IF p = Done THEN 0 ELSE RangeD(d, <<p, cutoff>>, a)

(* The ranges still to come from the producer, and the workers that hold one. *)
RestN(p, cutoff, size) == IF p = Done THEN 0 ELSE (cutoff - p) \div size + 1
BusyN(pool) == SumFunction([w \in Worker |-> IF pool[w].st \in {"fetch", "send", "report"} THEN 1 ELSE 0])

WorkerState == [st : {"idle", "fetch", "send", "report", "cancel", "done"},
                open : Seq(RangeJob), logs : Seq(RangeJob), attempt : 0..(MaxAttempts - 1),
                err : ErrorKind \cup {"none"}]

AllDone == \A w \in Worker : worker[w].st = "done"

(* Nothing runs before the scan starts. *)
Quiet ==
    /\ producer = Done /\ jobs = <<>> /\ ~jobsClosed /\ worker = [w \in Worker |-> Idle]
    /\ results = <<>> /\ ~resultsClosed /\ errorChannel = <<>> /\ ~cancelled
    /\ balances = [a \in Holder |-> 0] /\ completed = 0

(* The search closes in on the deployment block. *)
Searching ==
    /\ flags.deployed <= flags.cutoff
    /\ producer # Done => producer <= flags.cutoff
    /\ main = "search" =>
           /\ Quiet
           /\ flags.deployed > 0 =>
                 low <= flags.deployed /\ flags.deployed <= high /\ high <= flags.cutoff
    /\ main \notin {"search", "merge"} => Quiet \/ AllDone
    /\ main \notin {"search", "fatal"} => low = flags.deployed
    /\ jobsClosed => producer = Done
    /\ resultsClosed => AllDone

(* A context that was cancelled has an error in the channel, and the first one *)
(* there is a worker's own.                                                    *)
Errors ==
    /\ main = "merge" /\ cancelled => errorChannel # <<>>
    /\ \A w \in Worker :
          /\ worker[w].st = "cancel" => errorChannel # <<>>
          /\ worker[w].st = "report" =>
                worker[w].err # "none" /\ (worker[w].err = "cancelled" => cancelled)
    /\ errorChannel # <<>> => errorChannel[1] # "cancelled"
    /\ failure \notin {"cancelled", "incomplete"}

(* Idle workers hold nothing; a worker that sends has queried everything. *)
Holding ==
    \A w \in Worker :
        /\ worker[w].st \in {"idle", "cancel", "done"} => worker[w].open = <<>> /\ worker[w].logs = <<>>
        /\ worker[w].st = "send" => worker[w].open = <<>>

(* Without an error, a worker returns only when no job is left. *)
Drained ==
    main = "merge" /\ errorChannel = <<>> /\ (\E w \in Worker : worker[w].st = "done")
        => jobs = <<>> /\ jobsClosed

Conserved ==
    main = "merge" /\ errorChannel = <<>> =>
        \A a \in Holder :
            balances[a] + ResultsD(flags.deployed, results, a) + PoolD(flags.deployed, worker, a)
              + LogsD(flags.deployed, jobs, a) + RestD(flags.deployed, producer, flags.cutoff, a)
            = RangeD(flags.deployed, <<low, flags.cutoff>>, a)

(* completed wraps to 0 when there are as many ranges as words. *)
Counted ==
    main = "merge" /\ errorChannel = <<>> =>
        LET total == completed + Len(results) + BusyN(worker) + Len(jobs)
                       + RestN(producer, flags.cutoff, flags.rangeSize)
            all == RestN(low, flags.cutoff, flags.rangeSize)
        IN  total = all \/ total = all - Word

(* What has been published, once the scan has returned. *)
Scanned ==
    /\ main \in {"supply", "csv", "reserve", "summary", "passed"} =>
          \A a \in Holder : balances[a] = RangeD(flags.deployed, <<flags.deployed, flags.cutoff>>, a)
Published ==
    /\ main \in {"search", "merge", "supply", "csv"} => csv = <<>>
    /\ main \in {"search", "merge", "supply", "csv", "reserve", "summary", "fatal"} => summary = <<>>
    /\ main \in {"reserve", "summary", "passed"} =>
          /\ csv = <<{<<a, balances[a]>> : a \in {h \in Holder : balances[h] # 0}}>>
          /\ SumFunction(balances) = supply
    /\ main = "passed" => Len(summary) = 1 /\ summary[1].total = supply

IInv ==
    /\ TypeOK /\ Searching /\ Errors /\ Holding /\ Drained /\ Conserved /\ Counted /\ Scanned
    /\ Published

-----------------------------------------------------------------------------
(* The operators *)

(* The model's operators are those of the deployment block in flags. *)
LEMMA DeltaD ==
    ASSUME NEW a
    PROVE  /\ \A r : RangeDelta(r, a) = RangeD(flags.deployed, r, a)
           /\ \A logs : LogsDelta(logs, a) = LogsD(flags.deployed, logs, a)
  <1>1. \A r : RangeDelta(r, a) = RangeD(flags.deployed, r, a)
    BY Zenon DEF RangeDelta, RangeD, BlockDelta, BlockD, EventsAt
  <1> QED BY <1>1, Zenon DEF LogsDelta, LogsD

(* An event adds an integer. *)
LEMMA BlockInt ==
    ASSUME NEW d, NEW b, NEW a
    PROVE  BlockD(d, b, a) \in Int
  <1> DEFINE n == b - d
             events == IF n \in DOMAIN Events THEN Events[n] ELSE <<>>
             E == [topic : {"deposit", "withdrawal", "transfer"},
                   src : Holder \cup {Zero}, dst : Holder \cup {Zero}, amount : Nat]
             f == [i \in DOMAIN events |-> applyLog(events[i], a)]
  <1>1. events \in Seq(E)
    <2>1. \A k \in DOMAIN Events : Events[k] \in Seq(E)
      BY WoneAssumption DEF WoneAssumption
    <2> HIDE DEF E
    <2>2. <<>> \in Seq(E)
      OBVIOUS
    <2> QED BY <2>1, <2>2
  <1>2. \A e \in E : applyLog(e, a) \in Int
    BY DEF applyLog, addDelta
  <1> HIDE DEF events, E
  <1>3. DOMAIN events = 1..Len(events) /\ Len(events) \in Nat /\ \A i \in DOMAIN events : events[i] \in E
    BY <1>1
  <1>4. \A i \in DOMAIN events : f[i] \in Int
    BY <1>3, <1>2
  <1>5. IsFiniteSet(DOMAIN events)
    BY <1>3, FS_Interval
  <1>6. SumFunction(f) = SumFunctionOnSet(f, DOMAIN events)
    BY SumOn
  <1>7. SumFunction(f) \in Int
    <2> HIDE DEF f
    <2> QED BY <1>4, <1>5, <1>6, IntOfSum
  <1> QED BY <1>7 DEF BlockD, events

(* A range is cut in two. *)
LEMMA RangeCut ==
    ASSUME NEW d, NEW l \in Int, NEW m \in Int, NEW n \in Int, l <= m, m < n, NEW a
    PROVE  RangeD(d, <<l, n>>, a) = RangeD(d, <<l, m>>, a) + RangeD(d, <<m + 1, n>>, a)
  <1> DEFINE F(S) == [b \in S |-> BlockD(d, b, a)]
             f == F(l..n)
  <1>1. \A b \in l..n : f[b] \in Int
    BY BlockInt
  <1>2. SumFunctionOnSet(f, l..n) = SumFunctionOnSet(f, l..m) + SumFunctionOnSet(f, (m + 1)..n)
    <2> HIDE DEF f
    <2> QED BY <1>1, SumCut
  <1>3. SumFunctionOnSet(f, l..m) = SumFunctionOnSet(F(l..m), l..m)
    <2>1. \A b \in l..m : f[b] = F(l..m)[b] /\ f[b] \in Int
      BY <1>1
    <2>2. IsFiniteSet(l..m)
      BY FS_Interval
    <2> HIDE DEF f, F
    <2> QED BY <2>1, <2>2, SumSame
  <1>4. SumFunctionOnSet(f, (m + 1)..n) = SumFunctionOnSet(F((m + 1)..n), (m + 1)..n)
    <2>1. \A b \in (m + 1)..n : f[b] = F((m + 1)..n)[b] /\ f[b] \in Int
      BY <1>1
    <2>2. IsFiniteSet((m + 1)..n)
      BY FS_Interval
    <2> HIDE DEF f, F
    <2> QED BY <2>1, <2>2, SumSame
  <1>5. \A S : SumFunction(F(S)) = SumFunctionOnSet(F(S), S)
    BY SumOn
  <1>6. \A p, q : RangeD(d, <<p, q>>, a) = SumFunction(F(p..q))
    BY Zenon DEF RangeD
  <1> HIDE DEF F
  <1> QED BY <1>2, <1>3, <1>4, <1>5, <1>6 DEF f

(* What a range adds is a number. *)
LEMMA RangeInt ==
    ASSUME NEW d, NEW r \in RangeJob, NEW a
    PROVE  RangeD(d, r, a) \in Int
  <1> DEFINE S == r[1]..r[2]
             f == [b \in S |-> BlockD(d, b, a)]
  <1>1. r[1] \in Int /\ r[2] \in Int
    BY WoneAssumption DEF RangeJob, Block, WoneAssumption
  <1>2. IsFiniteSet(S)
    BY <1>1, FS_Interval
  <1>3. \A b \in S : f[b] \in Int
    BY BlockInt
  <1>4. SumFunction(f) = SumFunctionOnSet(f, S)
    BY SumOn
  <1> HIDE DEF f, S
  <1>5. SumFunction(f) \in Int
    BY <1>2, <1>3, <1>4, IntOfSum
  <1> QED BY <1>5 DEF RangeD, f, S

(* The sum of g along a sequence. *)
Along(g, s) == SumFunction([i \in DOMAIN s |-> g[s[i]]])

(* Sums along a sequence: one more at the end, one less in front. *)
LEMMA SeqSum ==
    ASSUME NEW T, NEW s \in Seq(T), NEW g \in [T -> Int]
    PROVE  /\ Along(g, s) \in Int
           /\ \A x \in T : Along(g, Append(s, x)) = Along(g, s) + g[x]
           /\ s # <<>> => Along(g, s) = g[Head(s)] + Along(g, Tail(s))
  <1> DEFINE n == Len(s)
             F(t) == [i \in DOMAIN t |-> g[t[i]]]
  <1>1. n \in Nat /\ DOMAIN s = 1..n /\ \A i \in 1..n : s[i] \in T
    OBVIOUS
  <1>2. \A i \in 1..n : F(s)[i] = g[s[i]] /\ F(s)[i] \in Int
    BY <1>1
  <1>3. SumFunction(F(s)) = SumFunctionOnSet(F(s), 1..n)
    BY <1>1, SumOn
  <1>4. SumFunction(F(s)) \in Int
    <2>1. IsFiniteSet(1..n)
      BY <1>1, FS_Interval
    <2> DEFINE f == F(s)
               S == 1..n
    <2>2. \A i \in S : f[i] \in Int
      BY <1>2
    <2> HIDE DEF f, S
    <2>3. SumFunctionOnSet(f, S) \in Int
      BY <2>1, <2>2, IntOfSum DEF S
    <2> QED BY <2>3, <1>3 DEF f, S
  <1>5. ASSUME NEW x \in T
        PROVE  SumFunction(F(Append(s, x))) = SumFunction(F(s)) + g[x]
    <2> DEFINE t == Append(s, x)
    <2>1. /\ t \in Seq(T) /\ DOMAIN t = 1..(n + 1)
          /\ \A i \in 1..n : t[i] = s[i]
          /\ t[n + 1] = x
      BY <1>1
    <2> HIDE DEF t
    <2>2. \A i \in 1..(n + 1) : F(t)[i] = g[t[i]] /\ F(t)[i] \in Int
      BY <2>1
    <2>3. SumFunction(F(t)) = SumFunctionOnSet(F(t), 1..(n + 1))
      BY <2>1, SumOn
    <2>4. \A i \in 1..n : F(s)[i] = F(t)[i] /\ F(s)[i] \in Int
      BY <1>1, <1>2, <2>1, <2>2
    <2>5. F(t)[n + 1] = g[x]
      BY <1>1, <2>1, <2>2
    <2>6. IsFiniteSet(1..n)
      BY <1>1, FS_Interval
    <2> HIDE DEF F, n
    <2>7. SumFunctionOnSet(F(t), 1..(n + 1)) = SumFunctionOnSet(F(t), 1..n) + F(t)[n + 1]
      BY <1>1, <2>2, SumLast
    <2>8. SumFunctionOnSet(F(s), 1..n) = SumFunctionOnSet(F(t), 1..n)
      BY <2>4, <2>6, SumSame
    <2>9. SumFunction(F(t)) = SumFunction(F(s)) + g[x]
      BY <1>3, <2>3, <2>5, <2>7, <2>8
    <2> QED BY <2>9 DEF t
  <1>6. ASSUME s # <<>>
        PROVE  SumFunction(F(s)) = g[Head(s)] + SumFunction(F(Tail(s)))
    <2> DEFINE t == Tail(s)
    <2>1. /\ n > 0 /\ t \in Seq(T) /\ DOMAIN t = 1..(n - 1) /\ Head(s) = s[1]
          /\ \A i \in 1..(n - 1) : t[i] = s[i + 1]
      BY <1>1, <1>6
    <2> HIDE DEF t
    <2>2. \A i \in 1..(n - 1) : F(t)[i] = F(s)[i + 1]
      BY <1>1, <1>2, <2>1
    <2>3. SumFunction(F(t)) = SumFunctionOnSet(F(t), 1..(n - 1))
      BY <2>1, SumOn
    <2>4. F(s)[1] = g[Head(s)]
      BY <1>1, <1>2, <2>1
    <2>5. SumFunctionOnSet(F(s), 1..n) = F(s)[1] + SumFunctionOnSet(F(t), 1..(n - 1))
      <3> DEFINE f == F(s)
                 h == F(t)
      <3>1. \A i \in 1..n : f[i] \in Int
        BY <1>2
      <3>2. \A i \in 1..(n - 1) : h[i] = f[i + 1]
        BY <2>2
      <3> HIDE DEF f, h, n
      <3>3. SumFunctionOnSet(f, 1..n) = f[1] + SumFunctionOnSet(h, 1..(n - 1))
        BY <1>1, <2>1, <3>1, <3>2, SumFirst
      <3> QED BY <3>3 DEF f, h
    <2> HIDE DEF F, n
    <2> QED BY <1>3, <2>3, <2>4, <2>5 DEF t
  <1>7. \A t : Along(g, t) = SumFunction(F(t))
    BY Zenon DEF Along
  <1> HIDE DEF F
  <1> QED BY <1>4, <1>5, <1>6, <1>7

(* An empty function sums to 0. *)
LEMMA EmptySum ==
    ASSUME NEW f, DOMAIN f = {}
    PROVE  SumFunction(f) = 0
  BY SumOn, SumEmpty

(* What a sequence of ranges adds. *)
LEMMA LogsRules ==
    ASSUME NEW d, NEW a, NEW s \in Seq(RangeJob)
    PROVE  /\ LogsD(d, s, a) \in Int
           /\ \A x \in RangeJob : LogsD(d, Append(s, x), a) = LogsD(d, s, a) + RangeD(d, x, a)
           /\ s # <<>> => LogsD(d, s, a) = RangeD(d, Head(s), a) + LogsD(d, Tail(s), a)
  <1> DEFINE g == [r \in RangeJob |-> RangeD(d, r, a)]
  <1>1. g \in [RangeJob -> Int]
    BY RangeInt
  <1>2. ASSUME NEW t \in Seq(RangeJob)
        PROVE  LogsD(d, t, a) = Along(g, t)
    <2>1. \A i \in DOMAIN t : t[i] \in RangeJob
      OBVIOUS
    <2>2. [i \in DOMAIN t |-> RangeD(d, t[i], a)] = [i \in DOMAIN t |-> g[t[i]]]
      BY <2>1
    <2> QED BY <2>2 DEF LogsD, Along
  <1>3. \A x \in RangeJob : g[x] = RangeD(d, x, a)
    OBVIOUS
  <1> HIDE DEF g
  <1>4. LogsD(d, s, a) \in Int
    BY <1>1, <1>2, SeqSum
  <1>5. ASSUME NEW x \in RangeJob
        PROVE  LogsD(d, Append(s, x), a) = LogsD(d, s, a) + RangeD(d, x, a)
    <2>1. Append(s, x) \in Seq(RangeJob)
      OBVIOUS
    <2>2. LogsD(d, Append(s, x), a) = Along(g, Append(s, x))
      BY <2>1, <1>2
    <2>3. LogsD(d, s, a) = Along(g, s)
      BY <1>2
    <2>4. Along(g, Append(s, x)) = Along(g, s) + g[x]
      BY <1>1, SeqSum
    <2> QED BY <2>2, <2>3, <2>4, <1>3
  <1>6. ASSUME s # <<>>
        PROVE  LogsD(d, s, a) = RangeD(d, Head(s), a) + LogsD(d, Tail(s), a)
    <2>1. Tail(s) \in Seq(RangeJob) /\ Head(s) \in RangeJob
      BY <1>6
    <2>2. LogsD(d, Tail(s), a) = Along(g, Tail(s))
      BY <2>1, <1>2
    <2>3. LogsD(d, s, a) = Along(g, s)
      BY <1>2
    <2>4. Along(g, s) = g[Head(s)] + Along(g, Tail(s))
      BY <1>1, <1>6, SeqSum
    <2> QED BY <2>1, <2>2, <2>3, <2>4, <1>3
  <1> QED BY <1>4, <1>5, <1>6

(* No range adds nothing. *)
LEMMA LogsEmpty ==
    ASSUME NEW d, NEW a
    PROVE  LogsD(d, <<>>, a) = 0 /\ ResultsD(d, <<>>, a) = 0
  <1>1. DOMAIN [i \in DOMAIN <<>> |-> RangeD(d, <<>>[i], a)] = {}
    OBVIOUS
  <1>2. DOMAIN [i \in DOMAIN <<>> |-> LogsD(d, <<>>[i], a)] = {}
    OBVIOUS
  <1> QED BY <1>1, <1>2, EmptySum DEF LogsD, ResultsD

(* The two halves of the first range take its place. *)
LEMMA LogsSplit ==
    ASSUME NEW d, NEW a, NEW s \in Seq(RangeJob), s # <<>>, NEW p \in RangeJob, NEW q \in RangeJob,
           RangeD(d, Head(s), a) = RangeD(d, p, a) + RangeD(d, q, a)
    PROVE  LogsD(d, <<p, q>> \o Tail(s), a) = LogsD(d, s, a)
  <1> DEFINE u == Tail(s)
             t == <<p, q>> \o u
             v == <<q>> \o u
  <1>1. u \in Seq(RangeJob) /\ Head(s) \in RangeJob
    OBVIOUS
  <1> HIDE DEF u
  <1>2. t \in Seq(RangeJob) /\ v \in Seq(RangeJob) /\ t # <<>> /\ v # <<>>
    BY <1>1
  <1>3. Head(t) = p /\ Head(v) = q
    BY <1>1
  <1>4. Tail(t) = v /\ Tail(v) = u
    BY <1>1
  <1> HIDE DEF t, v
  <1>5. LogsD(d, t, a) = RangeD(d, p, a) + LogsD(d, v, a)
    BY <1>2, <1>3, <1>4, LogsRules
  <1>6. LogsD(d, v, a) = RangeD(d, q, a) + LogsD(d, u, a)
    BY <1>2, <1>3, <1>4, LogsRules
  <1>7. LogsD(d, s, a) = RangeD(d, Head(s), a) + LogsD(d, u, a)
    BY LogsRules DEF u
  <1>8. LogsD(d, u, a) \in Int /\ RangeD(d, p, a) \in Int /\ RangeD(d, q, a) \in Int
    BY <1>1, LogsRules, RangeInt
  <1> QED BY <1>5, <1>6, <1>7, <1>8 DEF t, u

(* What a channel of results adds. *)
LEMMA ResultsRules ==
    ASSUME NEW d, NEW a, NEW s \in Seq(Seq(RangeJob))
    PROVE  /\ ResultsD(d, s, a) \in Int
           /\ \A x \in Seq(RangeJob) : ResultsD(d, Append(s, x), a) = ResultsD(d, s, a) + LogsD(d, x, a)
           /\ s # <<>> => ResultsD(d, s, a) = LogsD(d, Head(s), a) + ResultsD(d, Tail(s), a)
  <1> DEFINE Q == Seq(RangeJob)
             g == [r \in Q |-> LogsD(d, r, a)]
  <1>1. g \in [Q -> Int]
    BY LogsRules
  <1>3. \A x \in Q : g[x] = LogsD(d, x, a)
    OBVIOUS
  <1>4. s \in Seq(Q)
    OBVIOUS
  <1> HIDE DEF g, Q
  <1>2. ASSUME NEW t \in Seq(Q)
        PROVE  ResultsD(d, t, a) = Along(g, t)
    <2>1. \A i \in DOMAIN t : t[i] \in Q
      OBVIOUS
    <2>2. [i \in DOMAIN t |-> LogsD(d, t[i], a)] = [i \in DOMAIN t |-> g[t[i]]]
      BY <2>1, <1>3
    <2> QED BY <2>2 DEF ResultsD, Along
  <1>5. ResultsD(d, s, a) \in Int
    BY <1>1, <1>2, <1>4, SeqSum
  <1>6. ASSUME NEW x \in Q
        PROVE  ResultsD(d, Append(s, x), a) = ResultsD(d, s, a) + LogsD(d, x, a)
    <2>1. Append(s, x) \in Seq(Q)
      BY <1>4
    <2>2. ResultsD(d, Append(s, x), a) = Along(g, Append(s, x))
      BY <2>1, <1>2
    <2>3. ResultsD(d, s, a) = Along(g, s)
      BY <1>2, <1>4
    <2>4. Along(g, Append(s, x)) = Along(g, s) + g[x]
      BY <1>1, <1>4, SeqSum
    <2> QED BY <2>2, <2>3, <2>4, <1>3
  <1>7. ASSUME s # <<>>
        PROVE  ResultsD(d, s, a) = LogsD(d, Head(s), a) + ResultsD(d, Tail(s), a)
    <2>1. Tail(s) \in Seq(Q) /\ Head(s) \in Q
      BY <1>4, <1>7
    <2>2. ResultsD(d, Tail(s), a) = Along(g, Tail(s))
      BY <2>1, <1>2
    <2>3. ResultsD(d, s, a) = Along(g, s)
      BY <1>2, <1>4
    <2>4. Along(g, s) = g[Head(s)] + Along(g, Tail(s))
      BY <1>1, <1>4, <1>7, SeqSum
    <2> QED BY <2>1, <2>2, <2>3, <2>4, <1>3
  <1> QED BY <1>5, <1>6, <1>7 DEF Q

(* What the workers hold: one of them changes, or none holds anything. *)
LEMMA PoolRules ==
    ASSUME NEW d, NEW a, NEW pool \in [Worker -> WorkerState]
    PROVE  /\ PoolD(d, pool, a) \in Int
           /\ \A w \in Worker : \A rec \in WorkerState :
                 PoolD(d, [pool EXCEPT ![w] = rec], a)
                   = PoolD(d, pool, a) - (LogsD(d, pool[w].open, a) + LogsD(d, pool[w].logs, a))
                       + (LogsD(d, rec.open, a) + LogsD(d, rec.logs, a))
           /\ (\A w \in Worker : pool[w].open = <<>> /\ pool[w].logs = <<>>) => PoolD(d, pool, a) = 0
  <1> DEFINE F(q) == [w \in Worker |-> LogsD(d, q[w].open, a) + LogsD(d, q[w].logs, a)]
  <1>1. IsFiniteSet(Worker)
    BY WoneAssumption DEF WoneAssumption
  <1>2. \A rec \in WorkerState : rec.open \in Seq(RangeJob) /\ rec.logs \in Seq(RangeJob)
    BY DEF WorkerState
  <1>3. \A rec \in WorkerState : LogsD(d, rec.open, a) \in Int /\ LogsD(d, rec.logs, a) \in Int
    BY <1>2, LogsRules
  <1>4. ASSUME NEW q \in [Worker -> WorkerState]
        PROVE  \A w \in Worker : F(q)[w] = LogsD(d, q[w].open, a) + LogsD(d, q[w].logs, a) /\ F(q)[w] \in Int
    BY <1>3
  <1>5. \A q : PoolD(d, q, a) = SumFunctionOnSet(F(q), Worker)
    BY SumOn DEF PoolD
  <1>6. PoolD(d, pool, a) \in Int
    <2> DEFINE f == F(pool)
    <2>1. \A w \in Worker : f[w] \in Int
      BY <1>4
    <2> HIDE DEF f
    <2>2. SumFunctionOnSet(f, Worker) \in Int
      BY <1>1, <2>1, IntOfSum
    <2> QED BY <2>2, <1>5 DEF f
  <1>7. ASSUME NEW w \in Worker, NEW rec \in WorkerState
        PROVE  PoolD(d, [pool EXCEPT ![w] = rec], a)
                   = PoolD(d, pool, a) - (LogsD(d, pool[w].open, a) + LogsD(d, pool[w].logs, a))
                       + (LogsD(d, rec.open, a) + LogsD(d, rec.logs, a))
    <2> DEFINE q == [pool EXCEPT ![w] = rec]
               f == F(pool)
               g == F(q)
    <2>1. q \in [Worker -> WorkerState] /\ q[w] = rec /\ \A v \in Worker \ {w} : q[v] = pool[v]
      OBVIOUS
    <2> HIDE DEF q
    <2>2. \A v \in Worker : f[v] \in Int /\ g[v] \in Int
      BY <1>4, <2>1
    <2>3. \A v \in Worker \ {w} : f[v] = g[v]
      BY <2>1
    <2>4. /\ f[w] = LogsD(d, pool[w].open, a) + LogsD(d, pool[w].logs, a)
          /\ g[w] = LogsD(d, rec.open, a) + LogsD(d, rec.logs, a)
      BY <2>1
    <2> HIDE DEF f, g
    <2>5. SumFunctionOnSet(g, Worker) = SumFunctionOnSet(f, Worker) - f[w] + g[w]
      BY <1>1, <2>2, <2>3, SumUpdate
    <2> QED BY <1>5, <2>4, <2>5 DEF f, g, q
  <1>8. ASSUME \A w \in Worker : pool[w].open = <<>> /\ pool[w].logs = <<>>
        PROVE  PoolD(d, pool, a) = 0
    <2> DEFINE f == F(pool)
    <2>1. \A w \in Worker : f[w] = 0
      BY <1>8, LogsEmpty
    <2> HIDE DEF f
    <2>2. SumFunctionOnSet(f, Worker) = SumFunctionOnSet(f, {})
      BY <1>1, <2>1, SumZeros
    <2> QED BY <2>2, <1>5, SumEmpty DEF f
  <1> QED BY <1>6, <1>7, <1>8

(* The workers that hold a range. *)
LEMMA BusyRules ==
    ASSUME NEW pool \in [Worker -> WorkerState]
    PROVE  /\ BusyN(pool) \in Nat
           /\ \A w \in Worker : \A rec \in WorkerState :
                 BusyN([pool EXCEPT ![w] = rec])
                   = BusyN(pool) - (IF pool[w].st \in {"fetch", "send", "report"} THEN 1 ELSE 0)
                       + (IF rec.st \in {"fetch", "send", "report"} THEN 1 ELSE 0)
           /\ (\A w \in Worker : pool[w].st \notin {"fetch", "send", "report"}) => BusyN(pool) = 0
  <1> DEFINE B(rec) == IF rec.st \in {"fetch", "send", "report"} THEN 1 ELSE 0
             F(q) == [w \in Worker |-> B(q[w])]
  <1>1. IsFiniteSet(Worker)
    BY WoneAssumption DEF WoneAssumption
  <1>2. \A q : \A w \in Worker : F(q)[w] = B(q[w]) /\ F(q)[w] \in Nat
    OBVIOUS
  <1>3. \A q : BusyN(q) = SumFunctionOnSet(F(q), Worker)
    BY SumOn DEF BusyN
  <1>4. BusyN(pool) \in Nat
    <2> DEFINE f == F(pool)
    <2>1. \A w \in Worker : f[w] \in Nat
      BY <1>2
    <2> HIDE DEF f
    <2>2. SumFunctionOnSet(f, Worker) \in Nat
      BY <1>1, <2>1, NatOfSum
    <2> QED BY <2>2, <1>3 DEF f
  <1>5. ASSUME NEW w \in Worker, NEW rec \in WorkerState
        PROVE  BusyN([pool EXCEPT ![w] = rec]) = BusyN(pool) - B(pool[w]) + B(rec)
    <2> DEFINE q == [pool EXCEPT ![w] = rec]
               f == F(pool)
               g == F(q)
    <2>1. q[w] = rec /\ \A v \in Worker \ {w} : q[v] = pool[v]
      OBVIOUS
    <2> HIDE DEF q
    <2>2. \A v \in Worker : f[v] \in Int /\ g[v] \in Int
      BY <1>2
    <2>3. \A v \in Worker \ {w} : f[v] = g[v]
      BY <2>1
    <2>4. f[w] = B(pool[w]) /\ g[w] = B(rec)
      BY <2>1
    <2> HIDE DEF f, g
    <2>5. SumFunctionOnSet(g, Worker) = SumFunctionOnSet(f, Worker) - f[w] + g[w]
      BY <1>1, <2>2, <2>3, SumUpdate
    <2> QED BY <1>3, <2>4, <2>5 DEF f, g, q
  <1>6. ASSUME \A w \in Worker : pool[w].st \notin {"fetch", "send", "report"}
        PROVE  BusyN(pool) = 0
    <2> DEFINE f == F(pool)
    <2>1. \A w \in Worker : f[w] = 0
      BY <1>6
    <2> HIDE DEF f
    <2>2. SumFunctionOnSet(f, Worker) = SumFunctionOnSet(f, {})
      BY <1>1, <2>1, SumZeros
    <2> QED BY <2>2, <1>3, SumEmpty DEF f
  <1> QED BY <1>4, <1>5, <1>6

-----------------------------------------------------------------------------
(* Types *)

(* A range of more than one block is cut into two ranges. *)
LEMMA Halves ==
    ASSUME NEW r \in RangeJob, r[1] # r[2], NEW m, m = r[1] + (r[2] - r[1]) \div 2
    PROVE  /\ <<r[1], m>> \in RangeJob /\ <<m + 1, r[2]>> \in RangeJob
           /\ \A d, a : RangeD(d, r, a) = RangeD(d, <<r[1], m>>, a) + RangeD(d, <<m + 1, r[2]>>, a)
  <1>1. /\ r = <<r[1], r[2]>> /\ r[1] \in Block /\ r[2] \in Block /\ r[1] <= r[2]
    BY DEF RangeJob
  <1>2. r[1] \in Nat /\ r[2] \in Nat /\ r[1] < r[2] /\ r[2] < Word /\ Word \in Nat
    BY <1>1, WoneAssumption DEF Block, WoneAssumption
  <1>3. m \in Nat /\ r[1] <= m /\ m < r[2]
    BY <1>2
  <1>4. m \in Block /\ m + 1 \in Block
    BY <1>2, <1>3 DEF Block
  <1>5. <<r[1], m>> \in RangeJob
    BY <1>1, <1>2, <1>3, <1>4 DEF RangeJob
  <1>6. <<m + 1, r[2]>> \in RangeJob
    BY <1>1, <1>2, <1>3, <1>4 DEF RangeJob
  <1>7. ASSUME NEW d, NEW a
        PROVE  RangeD(d, <<r[1], r[2]>>, a) = RangeD(d, <<r[1], m>>, a) + RangeD(d, <<m + 1, r[2]>>, a)
    BY <1>2, <1>3, RangeCut
  <1> QED BY <1>1, <1>5, <1>6, <1>7

(* A worker without a job. *)
LEMMA IdleState == Idle \in WorkerState /\ MaxAttempts - 1 \in Nat /\ Cap \in Nat
  <1>1. MaxAttempts - 1 \in Nat
    BY WoneAssumption DEF WoneAssumption
  <1>2. <<>> \in Seq(RangeJob)
    OBVIOUS
  <1>3. Cardinality(Worker) \in Nat
    BY WoneAssumption, FS_CardinalityType DEF WoneAssumption
  <1> QED BY <1>1, <1>2, <1>3 DEF Idle, WorkerState, Cap

(* A failed query leaves a worker that reports, or one with the halves. *)
LEMMA QueryFailedTyped ==
    ASSUME NEW w \in Worker, worker[w] \in WorkerState, worker[w].open # <<>>,
           NEW e \in ErrorKind, QueryFailed(w, e)
    PROVE  \E rec \in WorkerState :
               /\ worker' = [worker EXCEPT ![w] = rec]
               /\ \/ rec = [worker[w] EXCEPT !.st = "report", !.err = e]
                  \/ \E p, q \in RangeJob :
                        /\ \A d, a : RangeD(d, Head(worker[w].open), a) = RangeD(d, p, a) + RangeD(d, q, a)
                        /\ rec = [worker[w] EXCEPT !.attempt = 0, !.open = <<p, q>> \o Tail(@)]
  <1> DEFINE r == Head(worker[w].open)
             m == r[1] + (r[2] - r[1]) \div 2
  <1>1. worker[w].open \in Seq(RangeJob)
    BY DEF WorkerState
  <1>2. r \in RangeJob
    BY <1>1
  <1>3. CASE r[1] = r[2]
    <2> DEFINE rec == [worker[w] EXCEPT !.st = "report", !.err = e]
    <2>1. rec \in WorkerState
      BY DEF WorkerState
    <2>2. worker' = [worker EXCEPT ![w] = rec]
      BY <1>3 DEF QueryFailed, Set
    <2> QED BY <2>1, <2>2
  <1>4. CASE r[1] # r[2]
    <2> DEFINE p == <<r[1], m>>
               q == <<m + 1, r[2]>>
               rec == [worker[w] EXCEPT !.attempt = 0, !.open = <<p, q>> \o Tail(@)]
    <2>1. worker' = [worker EXCEPT ![w] = rec]
      BY <1>4 DEF QueryFailed, Set
    <2>2. p \in RangeJob /\ q \in RangeJob /\ \A d, a : RangeD(d, r, a) = RangeD(d, p, a) + RangeD(d, q, a)
      BY <1>2, <1>4, Halves
    <2> HIDE DEF p, q
    <2>3. <<p, q>> \o Tail(worker[w].open) \in Seq(RangeJob)
      BY <1>1, <2>2
    <2>4. rec \in WorkerState
      <3>1. 0 \in 0..(MaxAttempts - 1)
        BY IdleState
      <3>2. ASSUME NEW o \in Seq(RangeJob)
            PROVE  [worker[w] EXCEPT !.attempt = 0, !.open = o] \in WorkerState
        BY <3>1 DEF WorkerState
      <3> QED BY <2>3, <3>2
    <2> QED BY <2>1, <2>2, <2>4
  <1> QED BY <1>3, <1>4

-----------------------------------------------------------------------------
(* What a step of a worker does, with rec the worker's next state. *)

Empty(rec) == rec.open = <<>> /\ rec.logs = <<>>

Takes(w, rec) ==
    /\ worker[w].st = "idle" /\ jobs # <<>> /\ jobs' = Tail(jobs)
    /\ rec.st = "fetch" /\ rec.open = <<Head(jobs)>> /\ rec.logs = <<>>
    /\ results' = results /\ errorChannel' = errorChannel /\ cancelled' = cancelled

Stops(w, rec) ==
    /\ worker[w].st = "idle" /\ jobs = <<>> /\ jobsClosed
    /\ rec.st = "done" /\ Empty(rec)
    /\ jobs' = jobs /\ results' = results /\ errorChannel' = errorChannel /\ cancelled' = cancelled

(* Queries, splits and retries leave the sum of what is open and fetched. *)
Fetches(w, rec) ==
    /\ worker[w].st = "fetch" /\ rec.st \in {"fetch", "send", "report"}
    /\ rec.st = "send" => rec.open = <<>>
    /\ rec.st = "report" => rec.err # "none" /\ (rec.err = "cancelled" => cancelled)
    /\ \A d, a : LogsD(d, rec.open, a) + LogsD(d, rec.logs, a)
                   = LogsD(d, worker[w].open, a) + LogsD(d, worker[w].logs, a)
    /\ jobs' = jobs /\ results' = results /\ errorChannel' = errorChannel /\ cancelled' = cancelled

Sends(w, rec) ==
    /\ worker[w].st = "send" /\ Len(results) < Cap /\ results' = Append(results, worker[w].logs)
    /\ rec.st = "idle" /\ Empty(rec)
    /\ jobs' = jobs /\ errorChannel' = errorChannel /\ cancelled' = cancelled

Abandons(w, rec) ==
    /\ worker[w].st = "send" /\ cancelled
    /\ rec.st = "done" /\ Empty(rec)
    /\ jobs' = jobs /\ results' = results /\ errorChannel' = errorChannel /\ cancelled' = cancelled

Offers(w, rec) ==
    /\ worker[w].st = "report"
    /\ errorChannel' = IF errorChannel = <<>> THEN <<worker[w].err>> ELSE errorChannel
    /\ rec.st = "cancel" /\ Empty(rec)
    /\ jobs' = jobs /\ results' = results /\ cancelled' = cancelled

Cancels(w, rec) ==
    /\ worker[w].st = "cancel" /\ cancelled' = TRUE
    /\ rec.st = "done" /\ Empty(rec)
    /\ jobs' = jobs /\ results' = results /\ errorChannel' = errorChannel

Moves(w, rec) ==
    /\ worker' = [worker EXCEPT ![w] = rec]
    /\ UNCHANGED poolVars /\ resultsClosed' = resultsClosed
    /\ \/ Takes(w, rec) \/ Stops(w, rec) \/ Fetches(w, rec) \/ Sends(w, rec) \/ Abandons(w, rec)
       \/ Offers(w, rec) \/ Cancels(w, rec)

(* A call that succeeds moves a range to the logs. *)
LEMMA QueryMoves ==
    ASSUME NEW w \in Worker, worker[w] \in WorkerState, QueryOk(w)
    PROVE  \E rec \in WorkerState : Moves(w, rec)
  <1> DEFINE s == worker[w].open
             l == worker[w].logs
             rec == [worker[w] EXCEPT !.open = Tail(@), !.attempt = 0, !.logs = Append(@, Head(s))]
  <1>1. /\ worker[w].st = "fetch" /\ s # <<>> /\ worker' = [worker EXCEPT ![w] = rec]
        /\ UNCHANGED poolVars /\ resultsClosed' = resultsClosed
        /\ jobs' = jobs /\ results' = results /\ errorChannel' = errorChannel /\ cancelled' = cancelled
    BY DEF QueryOk, Set
  <1>2. s \in Seq(RangeJob) /\ l \in Seq(RangeJob)
    BY DEF WorkerState
  <1>3. Tail(s) \in Seq(RangeJob) /\ Head(s) \in RangeJob /\ Append(l, Head(s)) \in Seq(RangeJob)
    BY <1>1, <1>2
  <1>4. rec.st = "fetch" /\ rec.open = Tail(s) /\ rec.logs = Append(l, Head(s))
    BY <1>1 DEF WorkerState
  <1>5. rec \in WorkerState
    <2>1. 0 \in 0..(MaxAttempts - 1)
      BY IdleState
    <2>2. ASSUME NEW x \in Seq(RangeJob), NEW y \in Seq(RangeJob)
          PROVE  [worker[w] EXCEPT !.open = x, !.attempt = 0, !.logs = y] \in WorkerState
      BY <2>1 DEF WorkerState
    <2> QED BY <2>2, <1>3
  <1>6. ASSUME NEW d, NEW a
        PROVE  LogsD(d, Tail(s), a) + LogsD(d, Append(l, Head(s)), a) = LogsD(d, s, a) + LogsD(d, l, a)
    <2> HIDE DEF s, l
    <2>1. LogsD(d, s, a) = RangeD(d, Head(s), a) + LogsD(d, Tail(s), a)
      BY <1>1, <1>2, LogsRules
    <2>2. LogsD(d, Append(l, Head(s)), a) = LogsD(d, l, a) + RangeD(d, Head(s), a)
      BY <1>2, <1>3, LogsRules
    <2>3. LogsD(d, Tail(s), a) \in Int /\ LogsD(d, l, a) \in Int /\ RangeD(d, Head(s), a) \in Int
      BY <1>2, <1>3, LogsRules, RangeInt
    <2> QED BY <2>1, <2>2, <2>3
  <1> HIDE DEF rec
  <1>7. Fetches(w, rec)
    BY <1>1, <1>4, <1>6 DEF Fetches
  <1> QED BY <1>1, <1>5, <1>7 DEF Moves

(* A call that fails is tried again, halves the range or reports. *)
LEMMA CallMoves ==
    ASSUME NEW w \in Worker, worker[w] \in WorkerState, CallFails(w)
    PROVE  \E rec \in WorkerState : Moves(w, rec)
  <1> DEFINE s == worker[w].open
             l == worker[w].logs
  <1>1. /\ worker[w].st = "fetch" /\ s # <<>>
        /\ UNCHANGED poolVars /\ resultsClosed' = resultsClosed
        /\ jobs' = jobs /\ results' = results /\ errorChannel' = errorChannel /\ cancelled' = cancelled
    BY DEF CallFails
  <1>2. s \in Seq(RangeJob) /\ l \in Seq(RangeJob)
    BY DEF WorkerState
  <1>3. ASSUME NEW e \in ErrorKind, QueryFailed(w, e), e = "cancelled" => cancelled
        PROVE  \E rec \in WorkerState : Moves(w, rec)
    <2>1. PICK rec \in WorkerState :
               /\ worker' = [worker EXCEPT ![w] = rec]
               /\ \/ rec = [worker[w] EXCEPT !.st = "report", !.err = e]
                  \/ \E p, q \in RangeJob :
                        /\ \A d, a : RangeD(d, Head(worker[w].open), a) = RangeD(d, p, a) + RangeD(d, q, a)
                        /\ rec = [worker[w] EXCEPT !.attempt = 0, !.open = <<p, q>> \o Tail(@)]
      BY <1>1, <1>3, QueryFailedTyped
    <2>2. CASE rec = [worker[w] EXCEPT !.st = "report", !.err = e]
      <3>1. rec.st = "report" /\ rec.err = e /\ rec.open = s /\ rec.logs = l
        BY <2>2 DEF WorkerState
      <3>2. Fetches(w, rec)
        BY <1>1, <1>3, <3>1 DEF Fetches, ErrorKind
      <3> QED BY <1>1, <2>1, <3>2 DEF Moves
    <2>3. ASSUME NEW p \in RangeJob, NEW q \in RangeJob,
                 \A d, a : RangeD(d, Head(worker[w].open), a) = RangeD(d, p, a) + RangeD(d, q, a),
                 rec = [worker[w] EXCEPT !.attempt = 0, !.open = <<p, q>> \o Tail(@)]
          PROVE  Moves(w, rec)
      <3>1. rec.st = "fetch" /\ rec.open = <<p, q>> \o Tail(s) /\ rec.logs = l
        BY <1>1, <2>3 DEF WorkerState
      <3>2. \A d, a : LogsD(d, <<p, q>> \o Tail(s), a) = LogsD(d, s, a)
        BY <1>1, <1>2, <2>3, LogsSplit
      <3>3. Fetches(w, rec)
        BY <1>1, <3>1, <3>2 DEF Fetches
      <3> QED BY <1>1, <2>1, <3>3 DEF Moves
    <2> QED BY <2>1, <2>2, <2>3
  <1>4. ASSUME worker[w].attempt < MaxAttempts - 1, Set(w, [worker[w] EXCEPT !.attempt = @ + 1])
        PROVE  \E rec \in WorkerState : Moves(w, rec)
    <2> DEFINE rec == [worker[w] EXCEPT !.attempt = @ + 1]
    <2>1. worker[w].attempt + 1 \in 0..(MaxAttempts - 1)
      BY <1>4, IdleState DEF WorkerState
    <2>2. rec \in WorkerState /\ rec.st = "fetch" /\ rec.open = s /\ rec.logs = l
      BY <1>1, <2>1 DEF WorkerState
    <2>3. worker' = [worker EXCEPT ![w] = rec]
      BY <1>4 DEF Set
    <2> HIDE DEF rec
    <2>4. Fetches(w, rec)
      BY <1>1, <2>2 DEF Fetches
    <2> QED BY <1>1, <2>2, <2>3, <2>4 DEF Moves
  <1>5. "rpc" \in ErrorKind /\ "cancelled" \in ErrorKind
    BY DEF ErrorKind
  <1> QED BY <1>3, <1>4, <1>5 DEF CallFails

(* The logs of a job become one result, or an error. *)
LEMMA ApplyMoves ==
    ASSUME NEW w \in Worker, worker[w] \in WorkerState, ApplyLogs(w)
    PROVE  \E rec \in WorkerState : Moves(w, rec)
  <1>1. /\ worker[w].st = "fetch" /\ worker[w].open = <<>>
        /\ UNCHANGED poolVars /\ resultsClosed' = resultsClosed
        /\ jobs' = jobs /\ results' = results /\ errorChannel' = errorChannel /\ cancelled' = cancelled
    BY DEF ApplyLogs
  <1>2. PICK rec : /\ worker' = [worker EXCEPT ![w] = rec]
                   /\ \/ rec = [worker[w] EXCEPT !.st = "send"]
                      \/ rec = [worker[w] EXCEPT !.st = "report", !.err = "log"]
    BY DEF ApplyLogs, Set
  <1>3. /\ rec \in WorkerState /\ rec.st \in {"send", "report"} /\ (rec.st = "report" => rec.err = "log")
        /\ rec.open = worker[w].open /\ rec.logs = worker[w].logs
    BY <1>2 DEF WorkerState, ErrorKind
  <1>4. Fetches(w, rec)
    BY <1>1, <1>3 DEF Fetches
  <1> QED BY <1>1, <1>2, <1>3, <1>4 DEF Moves

(* The other steps start from the idle state. *)
LEMMA WorkerMoves ==
    ASSUME jobs \in Seq(RangeJob), NEW w \in Worker, worker[w] \in WorkerState, WorkerStep(w)
    PROVE  \E rec \in WorkerState : Moves(w, rec)
  <1>1. ASSUME NEW s \in {"idle", "cancel", "done"}
        PROVE  /\ [Idle EXCEPT !.st = s] \in WorkerState /\ [Idle EXCEPT !.st = s].st = s
               /\ Empty([Idle EXCEPT !.st = s])
    BY IdleState DEF WorkerState, Idle, Empty
  <1>2. CASE TakeJob(w)
    <2> DEFINE rec == [Idle EXCEPT !.st = "fetch", !.open = <<Head(jobs)>>]
    <2>1. <<Head(jobs)>> \in Seq(RangeJob)
      BY <1>2 DEF TakeJob
    <2>2. ASSUME NEW o \in Seq(RangeJob)
          PROVE  /\ [Idle EXCEPT !.st = "fetch", !.open = o] \in WorkerState
                 /\ [Idle EXCEPT !.st = "fetch", !.open = o].st = "fetch"
                 /\ [Idle EXCEPT !.st = "fetch", !.open = o].open = o
                 /\ [Idle EXCEPT !.st = "fetch", !.open = o].logs = <<>>
      BY IdleState DEF WorkerState, Idle
    <2>3. rec \in WorkerState /\ rec.st = "fetch" /\ rec.open = <<Head(jobs)>> /\ rec.logs = <<>>
      BY <2>1, <2>2
    <2>4. /\ worker' = [worker EXCEPT ![w] = rec] /\ worker[w].st = "idle" /\ jobs # <<>> /\ jobs' = Tail(jobs)
          /\ UNCHANGED poolVars /\ resultsClosed' = resultsClosed
          /\ results' = results /\ errorChannel' = errorChannel /\ cancelled' = cancelled
      BY <1>2 DEF TakeJob, Set
    <2> HIDE DEF rec
    <2>5. Takes(w, rec)
      BY <2>3, <2>4 DEF Takes
    <2> QED BY <2>3, <2>4, <2>5 DEF Moves
  <1>3. CASE NoMoreJobs(w)
    <2> DEFINE rec == [Idle EXCEPT !.st = "done"]
    <2>1. /\ worker' = [worker EXCEPT ![w] = rec] /\ worker[w].st = "idle" /\ jobs = <<>> /\ jobsClosed
          /\ UNCHANGED poolVars /\ resultsClosed' = resultsClosed
          /\ jobs' = jobs /\ results' = results /\ errorChannel' = errorChannel /\ cancelled' = cancelled
      BY <1>3 DEF NoMoreJobs, Set
    <2>2. rec \in WorkerState /\ rec.st = "done" /\ Empty(rec)
      BY <1>1
    <2> HIDE DEF rec
    <2> QED BY <2>1, <2>2 DEF Moves, Stops
  <1>4. CASE SendResult(w)
    <2>1. /\ worker' = [worker EXCEPT ![w] = Idle] /\ worker[w].st = "send" /\ Len(results) < Cap
          /\ results' = Append(results, worker[w].logs)
          /\ UNCHANGED poolVars /\ resultsClosed' = resultsClosed
          /\ jobs' = jobs /\ errorChannel' = errorChannel /\ cancelled' = cancelled
      BY <1>4 DEF SendResult, Set
    <2>2. Idle \in WorkerState /\ Idle.st = "idle" /\ Empty(Idle)
      BY IdleState DEF Idle, Empty
    <2> QED BY <2>1, <2>2 DEF Moves, Sends
  <1>5. CASE AbandonResult(w)
    <2> DEFINE rec == [Idle EXCEPT !.st = "done"]
    <2>1. /\ worker' = [worker EXCEPT ![w] = rec] /\ worker[w].st = "send" /\ cancelled
          /\ UNCHANGED poolVars /\ resultsClosed' = resultsClosed
          /\ jobs' = jobs /\ results' = results /\ errorChannel' = errorChannel /\ cancelled' = cancelled
      BY <1>5 DEF AbandonResult, Set
    <2>2. rec \in WorkerState /\ rec.st = "done" /\ Empty(rec)
      BY <1>1
    <2> HIDE DEF rec
    <2> QED BY <2>1, <2>2 DEF Moves, Abandons
  <1>6. CASE ReportError(w)
    <2> DEFINE rec == [Idle EXCEPT !.st = "cancel"]
    <2>1. /\ worker' = [worker EXCEPT ![w] = rec] /\ worker[w].st = "report"
          /\ errorChannel' = IF errorChannel = <<>> THEN <<worker[w].err>> ELSE errorChannel
          /\ UNCHANGED poolVars /\ resultsClosed' = resultsClosed
          /\ jobs' = jobs /\ results' = results /\ cancelled' = cancelled
      BY <1>6 DEF ReportError, Set
    <2>2. rec \in WorkerState /\ rec.st = "cancel" /\ Empty(rec)
      BY <1>1
    <2> HIDE DEF rec
    <2> QED BY <2>1, <2>2 DEF Moves, Offers
  <1>7. CASE Cancel(w)
    <2> DEFINE rec == [Idle EXCEPT !.st = "done"]
    <2>1. /\ worker' = [worker EXCEPT ![w] = rec] /\ worker[w].st = "cancel" /\ cancelled' = TRUE
          /\ UNCHANGED poolVars /\ resultsClosed' = resultsClosed
          /\ jobs' = jobs /\ results' = results /\ errorChannel' = errorChannel
      BY <1>7 DEF Cancel, Set
    <2>2. rec \in WorkerState /\ rec.st = "done" /\ Empty(rec)
      BY <1>1
    <2> HIDE DEF rec
    <2> QED BY <2>1, <2>2 DEF Moves, Cancels
  <1> QED BY <1>2, <1>3, <1>4, <1>5, <1>6, <1>7, QueryMoves, CallMoves, ApplyMoves DEF WorkerStep

-----------------------------------------------------------------------------
(* A step of a worker *)

(* The parts of the type invariant, with the workers' states named. *)
LEMMA Typed ==
    ASSUME TypeOK
    PROVE  /\ flags.cutoff \in Block /\ flags.rangeSize \in 1..MaxRange /\ flags.deployed \in Block
           /\ low \in Block /\ high \in Block /\ producer \in Block \cup {Done}
           /\ jobs \in Seq(RangeJob) /\ Len(jobs) \in Nat /\ results \in Seq(Seq(RangeJob)) /\ Len(results) \in Nat
           /\ worker \in [Worker -> WorkerState]
           /\ errorChannel \in Seq(ErrorKind)
           /\ balances \in [Holder -> Int] /\ completed \in Block
           /\ jobsClosed \in BOOLEAN /\ resultsClosed \in BOOLEAN /\ cancelled \in BOOLEAN
  BY DEF TypeOK, WorkerState

(* Workers step only during the scan. *)
LEMMA MoveInMerge ==
    ASSUME IInv, NEW w \in Worker, NEW rec \in WorkerState, Moves(w, rec)
    PROVE  main = "merge" /\ ~resultsClosed
  <1>1. worker[w].st # "done"
    BY DEF Moves, Takes, Stops, Fetches, Sends, Abandons, Offers, Cancels
  <1>2. ~ AllDone
    BY <1>1 DEF AllDone
  <1>3. ~ Quiet
    <2> SUFFICES ASSUME Quiet PROVE FALSE
      OBVIOUS
    <2>1. worker[w] = Idle /\ jobs = <<>> /\ ~jobsClosed
      BY DEF Quiet
    <2>2. worker[w].st = "idle"
      BY <2>1 DEF Idle
    <2> QED BY <2>1, <2>2 DEF Moves, Takes, Stops, Fetches, Sends, Abandons, Offers, Cancels
  <1> QED BY <1>2, <1>3 DEF IInv, Searching

(* The types of what a worker's step changes. *)
LEMMA MoveTyped ==
    ASSUME IInv, NEW w \in Worker, NEW rec \in WorkerState, Moves(w, rec)
    PROVE  TypeOK'
  <1>0. TypeOK
    BY DEF IInv
  <1>1. /\ jobs \in Seq(RangeJob) /\ Len(jobs) \in Nat /\ Len(jobs) <= Cap
        /\ results \in Seq(Seq(RangeJob)) /\ Len(results) \in Nat /\ Len(results) <= Cap
        /\ worker \in [Worker -> WorkerState]
        /\ errorChannel \in Seq(ErrorKind) /\ Len(errorChannel) <= 1
    BY <1>0, Typed DEF TypeOK
  <1>2. worker' \in [Worker -> WorkerState]
    BY <1>1 DEF Moves
  <1>3. jobs' \in Seq(RangeJob) /\ Len(jobs') <= Cap
    <2>1. CASE jobs # <<>> /\ jobs' = Tail(jobs)
      <3>1. Tail(jobs) \in Seq(RangeJob) /\ Len(Tail(jobs)) = Len(jobs) - 1
        BY <1>1, <2>1
      <3> QED BY <1>1, <2>1, <3>1, IdleState
    <2>2. CASE jobs' = jobs
      BY <1>1, <2>2
    <2> QED BY <2>1, <2>2 DEF Moves, Takes, Stops, Fetches, Sends, Abandons, Offers, Cancels
  <1>4. results' \in Seq(Seq(RangeJob)) /\ Len(results') <= Cap
    <2>1. CASE Len(results) < Cap /\ results' = Append(results, worker[w].logs)
      <3> DEFINE Q == Seq(RangeJob)
      <3>1. worker[w].logs \in Q
        BY <1>1 DEF WorkerState
      <3>2. results \in Seq(Q)
        BY <1>1
      <3> HIDE DEF Q
      <3>3. Append(results, worker[w].logs) \in Seq(Q) /\ Len(Append(results, worker[w].logs)) = Len(results) + 1
        BY <3>1, <3>2
      <3>4. Len(results) + 1 <= Cap
        BY <1>1, <2>1, IdleState
      <3> QED BY <2>1, <3>3, <3>4 DEF Q
    <2>2. CASE results' = results
      BY <1>1, <2>2
    <2> QED BY <2>1, <2>2 DEF Moves, Takes, Stops, Fetches, Sends, Abandons, Offers, Cancels
  <1>5. errorChannel' \in Seq(ErrorKind) /\ Len(errorChannel') <= 1
    <2>1. CASE Offers(w, rec)
      <3>1. worker[w].err \in ErrorKind
        BY <1>1, <2>1 DEF IInv, Errors, Offers, WorkerState
      <3>2. <<worker[w].err>> \in Seq(ErrorKind) /\ Len(<<worker[w].err>>) = 1
        BY <3>1
      <3> QED BY <1>1, <2>1, <3>2 DEF Offers
    <2>2. CASE errorChannel' = errorChannel
      BY <1>1, <2>2
    <2> QED BY <2>1, <2>2 DEF Moves, Takes, Stops, Fetches, Sends, Abandons, Cancels
  <1>6. cancelled' \in BOOLEAN
    BY <1>0 DEF TypeOK, Moves, Takes, Stops, Fetches, Sends, Abandons, Offers, Cancels
  <1>7. /\ flags' = flags /\ main' = main /\ low' = low /\ high' = high /\ producer' = producer
        /\ jobsClosed' = jobsClosed /\ resultsClosed' = resultsClosed /\ balances' = balances
        /\ completed' = completed /\ failure' = failure
    BY DEF Moves, poolVars, mergeVars
  <1> QED BY <1>0, <1>2, <1>3, <1>4, <1>5, <1>6, <1>7 DEF TypeOK, WorkerState

(* A step of a worker moves what it takes, holds or sends; nothing is lost    *)
(* before an error is offered.                                                *)
LEMMA MoveConserves ==
    ASSUME IInv, NEW w \in Worker, NEW rec \in WorkerState, Moves(w, rec)
    PROVE  Conserved'
  <1>1. main = "merge"
    BY MoveInMerge
  <1>2. /\ flags' = flags /\ main' = main /\ low' = low /\ producer' = producer /\ balances' = balances
        /\ worker' = [worker EXCEPT ![w] = rec]
    BY DEF Moves, poolVars, mergeVars
  <1>3. /\ jobs \in Seq(RangeJob) /\ results \in Seq(Seq(RangeJob)) /\ worker \in [Worker -> WorkerState]
        /\ balances \in [Holder -> Int] /\ flags.cutoff \in Block /\ producer \in Block \cup {Done}
        /\ (producer # Done => producer <= flags.cutoff)
    BY Typed DEF IInv, Searching
  <1> SUFFICES ASSUME errorChannel' = <<>>, NEW a \in Holder
               PROVE  (balances[a] + ResultsD(flags.deployed, results, a) + PoolD(flags.deployed, worker, a)
                         + LogsD(flags.deployed, jobs, a) + RestD(flags.deployed, producer, flags.cutoff, a)
                       = RangeD(flags.deployed, <<low, flags.cutoff>>, a))'
    BY DEF Conserved
  <1>4. errorChannel = <<>> /\ ~ Offers(w, rec)
    BY DEF Moves, Takes, Stops, Fetches, Sends, Abandons, Offers, Cancels
  <1> DEFINE d == flags.deployed
             R == ResultsD(d, results, a)
             W == PoolD(d, worker, a)
             J == LogsD(d, jobs, a)
             P == RestD(d, producer, flags.cutoff, a)
             o == LogsD(d, worker[w].open, a) + LogsD(d, worker[w].logs, a)
             n == LogsD(d, rec.open, a) + LogsD(d, rec.logs, a)
             Rn == ResultsD(d, results', a)
             Wn == PoolD(d, worker', a)
             Jn == LogsD(d, jobs', a)
  <1>5. balances[a] + R + W + J + P = RangeD(d, <<low, flags.cutoff>>, a)
    BY <1>1, <1>4 DEF IInv, Conserved
  <1>6. R \in Int /\ W \in Int /\ J \in Int /\ balances[a] \in Int
    BY <1>3, ResultsRules, PoolRules, LogsRules
  <1>7. /\ worker[w].open \in Seq(RangeJob) /\ worker[w].logs \in Seq(RangeJob)
        /\ rec.open \in Seq(RangeJob) /\ rec.logs \in Seq(RangeJob)
    BY <1>3 DEF WorkerState
  <1>8. o \in Int /\ n \in Int
    BY <1>7, LogsRules
  <1>9. Wn = W - o + n
    BY <1>2, <1>3, PoolRules
  <1>10. LogsD(d, <<>>, a) = 0
    BY LogsEmpty
  <1>11. Empty(rec) => n = 0
    BY <1>10 DEF Empty
  <1>12. worker[w].st \in {"idle", "cancel", "done"} => o = 0
    BY <1>10 DEF IInv, Holding
  <1>13. Rn + Wn + Jn = R + W + J
    <2>1. CASE Takes(w, rec)
      <3>1. /\ jobs # <<>> /\ jobs' = Tail(jobs) /\ rec.open = <<Head(jobs)>> /\ rec.logs = <<>>
            /\ results' = results /\ worker[w].st = "idle"
        BY <2>1 DEF Takes
      <3>2. J = RangeD(d, Head(jobs), a) + Jn
        BY <1>3, <3>1, LogsRules
      <3>3. Head(jobs) \in RangeJob /\ <<Head(jobs)>> = Append(<<>>, Head(jobs)) /\ <<>> \in Seq(RangeJob)
            /\ Tail(jobs) \in Seq(RangeJob)
        BY <1>3, <3>1
      <3>4. LogsD(d, Append(<<>>, Head(jobs)), a) = LogsD(d, <<>>, a) + RangeD(d, Head(jobs), a)
        BY <3>3, LogsRules
      <3>5. RangeD(d, Head(jobs), a) \in Int /\ Jn \in Int
        BY <3>1, <3>3, RangeInt, LogsRules
      <3>6. n = RangeD(d, Head(jobs), a)
        BY <3>1, <3>3, <3>4, <3>5, <1>10
      <3>7. o = 0 /\ Rn = R
        BY <3>1, <1>12
      <3> HIDE DEF R, W, J, o, n, Rn, Wn, Jn
      <3> QED BY <3>2, <3>5, <3>6, <3>7, <1>6, <1>9
    <2>2. CASE Fetches(w, rec)
      <3>1. n = o /\ Rn = R /\ Jn = J
        BY <2>2 DEF Fetches
      <3> HIDE DEF R, W, J, o, n, Rn, Wn, Jn
      <3> QED BY <3>1, <1>6, <1>8, <1>9
    <2>3. CASE Sends(w, rec)
      <3>1. /\ results' = Append(results, worker[w].logs) /\ jobs' = jobs /\ worker[w].st = "send" /\ Empty(rec)
        BY <2>3 DEF Sends
      <3>2. Rn = R + LogsD(d, worker[w].logs, a)
        BY <1>3, <1>7, <3>1, ResultsRules
      <3>3. worker[w].open = <<>>
        BY <3>1 DEF IInv, Holding
      <3>4. LogsD(d, worker[w].logs, a) \in Int
        BY <1>7, LogsRules
      <3>5. o = LogsD(d, worker[w].logs, a) /\ n = 0 /\ Jn = J
        BY <1>10, <1>11, <3>1, <3>3, <3>4
      <3> HIDE DEF R, W, J, o, n, Rn, Wn, Jn
      <3> QED BY <3>2, <3>4, <3>5, <1>6, <1>9
    <2>4. CASE Stops(w, rec) \/ Cancels(w, rec)
      <3>1. o = 0 /\ n = 0 /\ Rn = R /\ Jn = J
        BY <2>4, <1>11, <1>12 DEF Stops, Cancels
      <3> HIDE DEF R, W, J, o, n, Rn, Wn, Jn
      <3> QED BY <3>1, <1>6, <1>9
    <2>5. ~ Abandons(w, rec)
      BY <1>1, <1>4 DEF IInv, Errors, Abandons
    <2> QED BY <1>4, <2>1, <2>2, <2>3, <2>4, <2>5 DEF Moves
  <1>14. Rn \in Int /\ Wn \in Int /\ Jn \in Int
    <2>1. /\ jobs' \in Seq(RangeJob) /\ results' \in Seq(Seq(RangeJob)) /\ worker' \in [Worker -> WorkerState]
      BY MoveTyped, <1>3, <1>2 DEF TypeOK
    <2> QED BY <2>1, ResultsRules, PoolRules, LogsRules
  <1>15. balances[a] + Rn + Wn + Jn + P = RangeD(d, <<low, flags.cutoff>>, a)
    <2> HIDE DEF R, W, J, P, o, n, Rn, Wn, Jn
    <2>1. balances[a] + Rn + Wn + Jn = balances[a] + R + W + J
      BY <1>6, <1>13, <1>14
    <2> QED BY <1>5, <2>1
  <1> QED BY <1>2, <1>15

(* A range is counted where it is. *)
LEMMA MoveCounts ==
    ASSUME IInv, NEW w \in Worker, NEW rec \in WorkerState, Moves(w, rec)
    PROVE  Counted'
  <1>1. main = "merge"
    BY MoveInMerge
  <1>2. /\ flags' = flags /\ main' = main /\ low' = low /\ producer' = producer /\ completed' = completed
        /\ worker' = [worker EXCEPT ![w] = rec]
    BY DEF Moves, poolVars, mergeVars
  <1>3. /\ jobs \in Seq(RangeJob) /\ Len(jobs) \in Nat /\ results \in Seq(Seq(RangeJob)) /\ Len(results) \in Nat
        /\ worker \in [Worker -> WorkerState] /\ worker' \in [Worker -> WorkerState]
        /\ Len(jobs') \in Nat /\ Len(results') \in Nat
    <2>1. TypeOK'
      BY MoveTyped
    <2>2. jobs' \in Seq(RangeJob) /\ results' \in Seq(Seq(RangeJob)) /\ worker' \in [Worker -> WorkerState]
      BY <2>1 DEF TypeOK, WorkerState
    <2>3. Len(jobs') \in Nat /\ Len(results') \in Nat
      BY <2>2
    <2> QED BY <2>2, <2>3, Typed DEF IInv
  <1>4. errorChannel' = <<>> => errorChannel = <<>> /\ ~ Offers(w, rec) /\ ~ Abandons(w, rec)
    BY <1>1 DEF IInv, Errors, Moves, Takes, Stops, Fetches, Sends, Abandons, Offers, Cancels
  <1>5. /\ BusyN(worker) \in Nat /\ BusyN(worker') \in Nat
        /\ BusyN(worker') = BusyN(worker) - (IF worker[w].st \in {"fetch", "send", "report"} THEN 1 ELSE 0)
                              + (IF rec.st \in {"fetch", "send", "report"} THEN 1 ELSE 0)
    <2>1. \A v \in Worker : \A x \in WorkerState :
            BusyN([worker EXCEPT ![v] = x])
              = BusyN(worker) - (IF worker[v].st \in {"fetch", "send", "report"} THEN 1 ELSE 0)
                  + (IF x.st \in {"fetch", "send", "report"} THEN 1 ELSE 0)
      BY <1>3, BusyRules
    <2>2. BusyN(worker) \in Nat /\ BusyN(worker') \in Nat
      BY <1>3, BusyRules
    <2> QED BY <2>1, <2>2, <1>2
  <1>6. ASSUME errorChannel' = <<>>
        PROVE  Len(results') + BusyN(worker') + Len(jobs') = Len(results) + BusyN(worker) + Len(jobs)
    <2>1. CASE Takes(w, rec)
      <3>1. jobs # <<>> /\ jobs' = Tail(jobs) /\ results' = results /\ BusyN(worker') = BusyN(worker) + 1
        BY <2>1, <1>5 DEF Takes
      <3>2. Len(jobs') = Len(jobs) - 1
        BY <3>1, <1>3
      <3> QED BY <3>1, <3>2, <1>3, <1>5
    <2>2. CASE Fetches(w, rec) \/ Stops(w, rec) \/ Cancels(w, rec)
      <3>1. jobs' = jobs /\ results' = results /\ BusyN(worker') = BusyN(worker)
        BY <2>2, <1>5 DEF Fetches, Stops, Cancels
      <3> QED BY <3>1
    <2>3. CASE Sends(w, rec)
      <3>1. /\ jobs' = jobs /\ results' = Append(results, worker[w].logs) /\ BusyN(worker') = BusyN(worker) - 1
        BY <2>3, <1>5 DEF Sends
      <3>2. Len(results') = Len(results) + 1
        BY <3>1, <1>3
      <3> QED BY <3>1, <3>2, <1>3, <1>5
    <2> QED BY <1>4, <1>6, <2>1, <2>2, <2>3 DEF Moves
  <1>7. completed \in Int
    BY Typed DEF IInv, Block
  <1>8. ASSUME errorChannel' = <<>>
        PROVE  completed + Len(results') + BusyN(worker') + Len(jobs')
                 = completed + Len(results) + BusyN(worker) + Len(jobs)
    <2> DEFINE r == Len(results)
               b == BusyN(worker)
               j == Len(jobs)
               rn == Len(results')
               bn == BusyN(worker')
               jn == Len(jobs')
    <2>1. r \in Int /\ b \in Int /\ j \in Int /\ rn \in Int /\ bn \in Int /\ jn \in Int
      BY <1>3, <1>5
    <2>2. rn + bn + jn = r + b + j
      BY <1>6, <1>8
    <2> HIDE DEF r, b, j, rn, bn, jn
    <2>3. completed + rn + bn + jn = completed + r + b + j
      BY <2>1, <2>2, <1>7
    <2> QED BY <2>3 DEF r, b, j, rn, bn, jn
  <1>9. errorChannel = <<>> =>
          LET total == completed + Len(results) + BusyN(worker) + Len(jobs)
                         + RestN(producer, flags.cutoff, flags.rangeSize)
              all == RestN(low, flags.cutoff, flags.rangeSize)
          IN  total = all \/ total = all - Word
    BY <1>1 DEF IInv, Counted
  <1> QED BY <1>2, <1>4, <1>8, <1>9 DEF Counted

(* The other parts of the invariant. *)
LEMMA MoveKeeps ==
    ASSUME IInv, NEW w \in Worker, NEW rec \in WorkerState, Moves(w, rec)
    PROVE  IInv'
  <1>1. main = "merge" /\ ~resultsClosed
    BY MoveInMerge
  <1>2. /\ flags' = flags /\ main' = main /\ low' = low /\ high' = high /\ producer' = producer
        /\ jobsClosed' = jobsClosed /\ resultsClosed' = resultsClosed /\ balances' = balances
        /\ completed' = completed /\ failure' = failure /\ csv' = csv /\ summary' = summary
        /\ supply' = supply
    BY DEF Moves, poolVars, mergeVars, fileVars
  <1>3. worker \in [Worker -> WorkerState] /\ errorChannel \in Seq(ErrorKind)
    BY Typed DEF IInv
  <1>4. worker'[w] = rec /\ \A v \in Worker \ {w} : worker'[v] = worker[v]
    BY <1>3 DEF Moves
  <1>5. Searching'
    BY <1>1, <1>2 DEF IInv, Searching
  <1>6. Errors'
    <2>1. CASE Offers(w, rec)
      <3>1. /\ worker[w].st = "report" /\ rec.st = "cancel" /\ cancelled' = cancelled
            /\ errorChannel' = IF errorChannel = <<>> THEN <<worker[w].err>> ELSE errorChannel
        BY <2>1 DEF Offers
      <3>2. errorChannel' # <<>>
        BY <3>1
      <3>3. errorChannel'[1] # "cancelled"
        <4>1. CASE errorChannel = <<>>
          <5>1. worker[w].err # "cancelled"
            BY <4>1, <3>1, <1>1 DEF IInv, Errors
          <5> QED BY <4>1, <5>1, <3>1
        <4>2. CASE errorChannel # <<>>
          BY <4>2, <3>1 DEF IInv, Errors
        <4> QED BY <4>1, <4>2
      <3>4. ASSUME NEW v \in Worker, worker'[v].st = "report"
            PROVE  worker'[v].err # "none" /\ (worker'[v].err = "cancelled" => cancelled')
        BY <3>1, <3>4, <1>4 DEF IInv, Errors
      <3> QED BY <3>2, <3>3, <3>4, <1>2 DEF IInv, Errors
    <2>2. CASE ~ Offers(w, rec)
      <3>1. errorChannel' = errorChannel
        BY <2>2 DEF Moves, Takes, Stops, Fetches, Sends, Abandons, Cancels
      <3>2. cancelled => cancelled'
        BY DEF Moves, Takes, Stops, Fetches, Sends, Abandons, Offers, Cancels
      <3>3. cancelled' => errorChannel # <<>>
        BY <2>2, <1>1 DEF IInv, Errors, Moves, Takes, Stops, Fetches, Sends, Abandons, Cancels
      <3>4. rec.st # "cancel" /\ (rec.st = "report" => rec.err # "none" /\ (rec.err = "cancelled" => cancelled))
        BY <2>2 DEF Moves, Takes, Stops, Fetches, Sends, Abandons, Cancels
      <3>5. \A v \in Worker :
              /\ worker'[v].st = "cancel" => errorChannel # <<>>
              /\ worker'[v].st = "report" =>
                    worker'[v].err # "none" /\ (worker'[v].err = "cancelled" => cancelled')
        BY <3>2, <3>4, <1>4 DEF IInv, Errors
      <3> QED BY <3>1, <3>3, <3>5, <1>2 DEF IInv, Errors
    <2> QED BY <2>1, <2>2
  <1>7. Holding'
    <2>1. /\ rec.st \in {"idle", "cancel", "done"} => rec.open = <<>> /\ rec.logs = <<>>
          /\ rec.st = "send" => rec.open = <<>>
      BY DEF Moves, Takes, Stops, Fetches, Sends, Abandons, Offers, Cancels, Empty
    <2> QED BY <2>1, <1>4 DEF IInv, Holding
  <1>8. Drained'
    <2> SUFFICES ASSUME errorChannel' = <<>>, NEW v \in Worker, worker'[v].st = "done"
                 PROVE  jobs' = <<>> /\ jobsClosed
      BY <1>2 DEF Drained
    <2>1. errorChannel = <<>>
      BY DEF Moves, Takes, Stops, Fetches, Sends, Abandons, Offers, Cancels
    <2>2. CASE v # w
      <3>1. jobs = <<>> /\ jobsClosed
        BY <2>1, <2>2, <1>1, <1>4 DEF IInv, Drained
      <3> QED BY <3>1 DEF Moves, Takes, Stops, Fetches, Sends, Abandons, Offers, Cancels
    <2>3. CASE v = w
      <3>1. rec.st = "done"
        BY <2>3, <1>4
      <3>2. ~ Abandons(w, rec) /\ ~ Cancels(w, rec)
        BY <2>1, <1>1 DEF IInv, Errors, Abandons, Cancels
      <3> QED BY <3>1, <3>2 DEF Moves, Takes, Stops, Fetches, Sends, Offers
    <2> QED BY <2>2, <2>3
  <1>9. Scanned' /\ Published'
    BY <1>1, <1>2 DEF IInv, Scanned, Published
  <1> QED BY <1>5, <1>6, <1>7, <1>8, <1>9, MoveTyped, MoveConserves, MoveCounts DEF IInv

-----------------------------------------------------------------------------
(* main, before and after the scan *)

(* Everything but main, failure and the files stays. *)
LEMMA MainAlone ==
    ASSUME IInv, UNCHANGED <<flags, low, high, scanVars, mergeVars>>,
           main # "merge", main' \in {"supply", "csv", "reserve", "summary", "passed", "fatal"},
           main' # "fatal" => main \in {"supply", "csv", "reserve", "summary", "passed"},
           failure' \in ErrorKind \cup {"none", "balances", "reserve", "write"}, failure' # "cancelled",
           Published'
    PROVE  IInv'
  <1>1. /\ flags' = flags /\ low' = low /\ high' = high /\ producer' = producer /\ jobs' = jobs
        /\ jobsClosed' = jobsClosed /\ worker' = worker /\ results' = results
        /\ resultsClosed' = resultsClosed /\ errorChannel' = errorChannel /\ cancelled' = cancelled
        /\ balances' = balances /\ completed' = completed
    BY DEF scanVars, mergeVars
  <1>2. TypeOK'
    BY <1>1 DEF IInv, TypeOK
  <1>3. (Quiet => Quiet') /\ (AllDone => AllDone')
    BY <1>1 DEF Quiet, AllDone
  <1>4. Searching'
    BY <1>1, <1>3 DEF IInv, Searching
  <1>5. Errors'
    BY <1>1 DEF IInv, Errors, ErrorKind
  <1>6. Holding'
    BY <1>1 DEF IInv, Holding
  <1>7. Drained' /\ Conserved' /\ Counted'
    BY DEF Drained, Conserved, Counted
  <1>8. Scanned'
    BY <1>1 DEF IInv, Scanned
  <1> QED BY <1>2, <1>4, <1>5, <1>6, <1>7, <1>8 DEF IInv

(* The steps of main outside the scan keep the invariant. *)
LEMMA MainKeeps ==
    ASSUME IInv,
           MainCallFails \/ (\E s \in 0..Word : ReadSupply(s) \/ CheckReserve(s))
             \/ WriteCSV \/ WriteJSON \/ WriteFails
    PROVE  IInv'
  <1>0. failure \in ErrorKind \cup {"none", "balances", "reserve", "write"} /\ failure # "cancelled"
    BY DEF IInv, TypeOK, Errors
  <1>1. CASE MainCallFails
    <2>1. /\ main \in {"search", "supply"} /\ main' = "fatal" /\ failure' = "rpc"
          /\ UNCHANGED <<flags, low, high, scanVars, mergeVars>> /\ summary' = summary
      BY <1>1 DEF MainCallFails, Fatal, fileVars
    <2>2. Published'
      BY <2>1 DEF IInv, Published
    <2> QED BY <2>1, <2>2, MainAlone DEF ErrorKind
  <1>2. ASSUME NEW s \in 0..Word, ReadSupply(s)
        PROVE  IInv'
    <2>1. /\ main = "supply" /\ main' = "csv" /\ failure' = failure
          /\ UNCHANGED <<flags, low, high, scanVars, mergeVars>> /\ summary' = summary /\ csv' = csv
      BY <1>2 DEF ReadSupply
    <2>2. Published'
      BY <2>1 DEF IInv, Published
    <2> QED BY <1>0, <2>1, <2>2, MainAlone
  <1>3. ASSUME NEW s \in 0..Word, CheckReserve(s)
        PROVE  IInv'
    <2>1. /\ main = "reserve" /\ UNCHANGED <<flags, low, high, scanVars, mergeVars>>
          /\ summary' = summary /\ csv' = csv /\ supply' = supply /\ balances' = balances
          /\ \/ main' = "summary" /\ failure' = failure
             \/ main' = "fatal" /\ failure' = "reserve"
      BY <1>3 DEF CheckReserve, Fatal, fileVars, mergeVars
    <2>2. Published'
      BY <2>1 DEF IInv, Published
    <2> QED BY <1>0, <2>1, <2>2, MainAlone
  <1>4. CASE WriteCSV
    <2>1. /\ main = "csv" /\ UNCHANGED <<flags, low, high, scanVars, mergeVars>>
          /\ summary' = summary /\ supply' = supply /\ balances' = balances
      BY <1>4 DEF WriteCSV, mergeVars
    <2>2. \/ /\ main' = "reserve" /\ failure' = failure /\ SumFunction(balances) = supply
             /\ csv' = <<{<<a, balances[a]>> : a \in {h \in Holder : balances[h] # 0}}>>
          \/ main' = "fatal" /\ failure' = "balances"
      BY <1>4 DEF WriteCSV, Fatal
    <2>3. Published'
      BY <2>1, <2>2 DEF IInv, Published
    <2> QED BY <1>0, <2>1, <2>2, <2>3, MainAlone
  <1>5. CASE WriteJSON
    <2>1. /\ main = "summary" /\ main' = "passed" /\ failure' = failure
          /\ UNCHANGED <<flags, low, high, scanVars, mergeVars>>
          /\ summary' = <<[deployment |-> low, total |-> supply]>>
          /\ csv' = csv /\ supply' = supply /\ balances' = balances
      BY <1>5 DEF WriteJSON, mergeVars
    <2>2. Len(summary') = 1 /\ summary'[1].total = supply'
      BY <2>1
    <2>3. Published'
      BY <2>1, <2>2 DEF IInv, Published
    <2> QED BY <1>0, <2>1, <2>3, MainAlone
  <1>6. CASE WriteFails
    <2>1. /\ main \in {"csv", "summary"} /\ main' = "fatal" /\ failure' = "write"
          /\ UNCHANGED <<flags, low, high, scanVars, mergeVars>> /\ summary' = summary
      BY <1>6 DEF WriteFails, Fatal, fileVars
    <2>2. Published'
      BY <2>1 DEF IInv, Published
    <2> QED BY <2>1, <2>2, MainAlone
  <1> QED BY <1>1, <1>2, <1>3, <1>4, <1>5, <1>6

(* The bisection keeps the deployment block between low and high. *)
LEMMA ProbeKeeps ==
    ASSUME IInv, ProbeCode
    PROVE  IInv'
  <1> DEFINE m == low + (high - low) \div 2
  <1>1. /\ flags' = flags /\ main = "search" /\ main' = main /\ producer' = producer /\ jobs' = jobs
        /\ jobsClosed' = jobsClosed /\ worker' = worker /\ results' = results
        /\ resultsClosed' = resultsClosed /\ errorChannel' = errorChannel /\ cancelled' = cancelled
        /\ balances' = balances /\ completed' = completed /\ failure' = failure
        /\ supply' = supply /\ csv' = csv /\ summary' = summary
    BY DEF ProbeCode, scanVars, mergeVars, fileVars
  <1>2. /\ low \in Nat /\ high \in Nat /\ flags.deployed \in Nat /\ flags.cutoff \in Nat /\ high < Word /\ Word \in Nat
    BY Typed, WoneAssumption DEF IInv, Block, WoneAssumption
  <1>3. flags.deployed > 0 /\ low < high
    BY <1>2 DEF ProbeCode, HasCode
  <1>4. low <= flags.deployed /\ flags.deployed <= high /\ high <= flags.cutoff
    BY <1>1, <1>3 DEF IInv, Searching
  <1>5. m \in Nat /\ low <= m /\ m < high
    BY <1>2, <1>3
  <1>6. \/ m >= flags.deployed /\ high' = m /\ low' = low
        \/ ~(m >= flags.deployed) /\ low' = m + 1 /\ high' = high
    BY DEF ProbeCode, HasCode
  <1> HIDE DEF m
  <1>7. /\ low' \in Nat /\ high' \in Nat /\ high' < Word /\ low' < Word
        /\ low' <= flags.deployed /\ flags.deployed <= high' /\ high' <= flags.cutoff
    BY <1>2, <1>4, <1>5, <1>6
  <1>8. low' \in Block /\ high' \in Block
    BY <1>2, <1>7 DEF Block
  <1>9. TypeOK'
    BY <1>1, <1>8 DEF IInv, TypeOK
  <1>10. (Quiet => Quiet') /\ (AllDone => AllDone')
    BY <1>1 DEF Quiet, AllDone
  <1>11. Searching'
    BY <1>1, <1>7, <1>10 DEF IInv, Searching
  <1>12. Errors' /\ Holding'
    BY <1>1 DEF IInv, Errors, Holding
  <1>13. Drained' /\ Conserved' /\ Counted' /\ Scanned'
    BY <1>1 DEF Drained, Conserved, Counted, Scanned
  <1>14. Published'
    BY <1>1 DEF IInv, Published
  <1> QED BY <1>9, <1>11, <1>12, <1>13, <1>14 DEF IInv

(* The scan starts at the deployment block, with nothing in its channels. *)
LEMMA StartKeeps ==
    ASSUME IInv, GenesisCode \/ DeploymentFound
    PROVE  IInv'
  <1> DEFINE d == flags.deployed
  <1>1. /\ low \in Nat /\ high \in Nat /\ d \in Nat /\ flags.cutoff \in Nat /\ d <= flags.cutoff
    BY Typed, WoneAssumption DEF IInv, Searching, Block, WoneAssumption
  <1>2. main = "search" /\ Quiet
    BY DEF GenesisCode, DeploymentFound, IInv, Searching
  <1>3. StartScan(d)
    <2>1. CASE GenesisCode
      <3>1. d = 0 /\ StartScan(0)
        BY <1>1, <2>1 DEF GenesisCode, HasCode
      <3> QED BY <3>1
    <2>2. CASE DeploymentFound
      <3>1. low >= high /\ d > 0 /\ StartScan(low)
        BY <1>1, <2>2 DEF DeploymentFound, HasCode
      <3>2. low <= d /\ d <= high
        BY <3>1, <1>2 DEF IInv, Searching
      <3>3. low = d
        BY <3>1, <3>2, <1>1
      <3> QED BY <3>1, <3>3
    <2> QED BY <2>1, <2>2
  <1>4. /\ main' = "merge" /\ low' = d /\ producer' = d /\ flags' = flags /\ high' = high /\ jobs' = jobs
        /\ jobsClosed' = jobsClosed /\ worker' = worker /\ results' = results
        /\ resultsClosed' = resultsClosed /\ errorChannel' = errorChannel /\ cancelled' = cancelled
        /\ balances' = balances /\ completed' = completed /\ failure' = failure
        /\ supply' = supply /\ csv' = csv /\ summary' = summary
    BY <1>3 DEF StartScan, mergeVars, fileVars
  <1>5. /\ jobs = <<>> /\ ~jobsClosed /\ worker = [w \in Worker |-> Idle]
        /\ results = <<>> /\ ~resultsClosed /\ errorChannel = <<>> /\ ~cancelled
        /\ balances = [a \in Holder |-> 0] /\ completed = 0
    BY <1>2 DEF Quiet
  <1>6. d \in Block /\ worker \in [Worker -> WorkerState] /\ d # Done
    BY <1>1, Typed DEF IInv, Done
  <1>7. TypeOK'
    BY <1>4, <1>6 DEF IInv, TypeOK
  <1>8. Searching'
    BY <1>1, <1>4, <1>5 DEF IInv, Searching
  <1>9. \A w \in Worker : worker[w].st = "idle" /\ worker[w].open = <<>> /\ worker[w].logs = <<>>
    BY <1>5 DEF Idle
  <1>10. Errors' /\ Holding' /\ Drained'
    BY <1>4, <1>5, <1>9 DEF IInv, Errors, Holding, Drained
  <1>11. Conserved'
    <2> SUFFICES ASSUME NEW a \in Holder
                 PROVE  0 + ResultsD(d, <<>>, a) + PoolD(d, worker, a) + LogsD(d, <<>>, a)
                          + RestD(d, d, flags.cutoff, a)
                        = RangeD(d, <<d, flags.cutoff>>, a)
      BY <1>4, <1>5 DEF Conserved
    <2>1. ResultsD(d, <<>>, a) = 0 /\ LogsD(d, <<>>, a) = 0
      BY LogsEmpty
    <2>2. PoolD(d, worker, a) = 0
      BY <1>6, <1>9, PoolRules
    <2>3. RestD(d, d, flags.cutoff, a) = RangeD(d, <<d, flags.cutoff>>, a)
      BY <1>6 DEF RestD
    <2>4. <<d, flags.cutoff>> \in RangeJob
      BY <1>1, Typed DEF IInv, RangeJob
    <2>5. RangeD(d, <<d, flags.cutoff>>, a) \in Int
      BY <2>4, RangeInt
    <2> QED BY <2>1, <2>2, <2>3, <2>5
  <1>12. Counted'
    <2> DEFINE n == RestN(d, flags.cutoff, flags.rangeSize)
    <2>1. BusyN(worker) = 0
      BY <1>6, <1>9, BusyRules
    <2>2. n \in Int
      <3>1. flags.rangeSize \in Nat /\ flags.rangeSize > 0
        BY Typed, WoneAssumption DEF IInv, WoneAssumption
      <3> QED BY <1>1, <1>6, <3>1 DEF RestN
    <2>3. Len(<<>>) = 0
      OBVIOUS
    <2> HIDE DEF n
    <2>4. 0 + Len(<<>>) + BusyN(worker) + Len(<<>>) + n = n
      BY <2>1, <2>2, <2>3
    <2> QED BY <2>4, <1>4, <1>5 DEF Counted, n
  <1>13. Scanned' /\ Published'
    BY <1>2, <1>4 DEF IInv, Scanned, Published
  <1> QED BY <1>7, <1>8, <1>10, <1>11, <1>12, <1>13 DEF IInv

-----------------------------------------------------------------------------
(* The producer *)

(* The end of a range: the cutoff when the rest is at most one range, else    *)
(* a full range; the addition may wrap, and is then past the cutoff.          *)
LEMMA RangeEnds ==
    ASSUME NEW p \in Nat, p <= flags.cutoff, flags.cutoff \in Nat, flags.cutoff < Word,
           flags.rangeSize \in Nat, flags.rangeSize > 0, flags.rangeSize < Word
    PROVE  \/ RangeEnd(p) = flags.cutoff /\ flags.cutoff - p < flags.rangeSize
           \/ RangeEnd(p) = p + flags.rangeSize - 1 /\ p + flags.rangeSize <= flags.cutoff
  <1> DEFINE x == p + flags.rangeSize - 1
  <1>1. x \in Nat /\ Word \in Nat /\ Word > 0 /\ x < 2 * Word
    BY WoneAssumption DEF WoneAssumption
  <1>2. x < Word => x % Word = x
    BY <1>1
  <1>3. x >= Word => x % Word = x - Word
    BY <1>1
  <1>4. RangeEnd(p) = IF x % Word < p \/ x % Word > flags.cutoff THEN flags.cutoff ELSE x % Word
    BY DEF RangeEnd
  <1> DEFINE y == x % Word
  <1> HIDE DEF y
  <1>5. CASE x < Word
    <2>1. RangeEnd(p) = IF x < p \/ x > flags.cutoff THEN flags.cutoff ELSE x
      BY <1>2, <1>4, <1>5
    <2> QED BY <2>1
  <1>6. CASE x >= Word
    <2>1. RangeEnd(p) = IF x - Word < p \/ x - Word > flags.cutoff THEN flags.cutoff ELSE x - Word
      BY <1>3, <1>4, <1>6
    <2>2. x - Word < p /\ flags.cutoff - p < flags.rangeSize
      BY <1>1, <1>6
    <2> QED BY <2>1, <2>2
  <1> QED BY <1>1, <1>5, <1>6

(* A job is cut from the producer's rest. *)
LEMMA ProduceKeeps ==
    ASSUME IInv, ProduceJob
    PROVE  IInv'
  <1> DEFINE p == producer
             e == RangeEnd(producer)
             d == flags.deployed
             c == flags.cutoff
             s == flags.rangeSize
  <1>0. TypeOK
    BY DEF IInv
  <1>1. /\ p \in Nat /\ c \in Nat /\ c < Word /\ Word \in Nat /\ p <= c /\ c \in Block
        /\ s \in Nat /\ s > 0 /\ s < Word /\ p \in Block /\ p # Done
    <2>1. p # Done /\ p \in Block /\ c \in Block /\ s \in 1..MaxRange /\ p <= c
      BY <1>0, Typed DEF IInv, Searching, ProduceJob
    <2>2. Word \in Nat /\ MaxRange \in Nat /\ MaxRange < Word
      BY WoneAssumption DEF WoneAssumption
    <2> HIDE DEF p, c, s
    <2> QED BY <2>1, <2>2 DEF Block
  <1>2. \/ e = c /\ c - p < s
        \/ e = p + s - 1 /\ p + s <= c
    BY <1>1, RangeEnds
  <1>3. /\ jobs' = Append(jobs, <<p, e>>) /\ Len(jobs) < Cap
        /\ \/ e = c /\ producer' = Done /\ jobsClosed' = TRUE
           \/ e # c /\ producer' = e + 1 /\ jobsClosed' = jobsClosed
    BY DEF ProduceJob
  <1>4. /\ flags' = flags /\ main' = main /\ low' = low /\ high' = high /\ worker' = worker
        /\ results' = results /\ resultsClosed' = resultsClosed /\ errorChannel' = errorChannel
        /\ cancelled' = cancelled /\ balances' = balances /\ completed' = completed /\ failure' = failure
        /\ supply' = supply /\ csv' = csv /\ summary' = summary
    BY DEF ProduceJob, mergeVars, fileVars
  <1> HIDE DEF p, e, c, s
  <1>5. e \in Nat /\ p <= e /\ e <= c /\ e \in Block
    BY <1>1, <1>2 DEF Block
  <1>6. <<p, e>> \in RangeJob
    BY <1>1, <1>5 DEF RangeJob
  <1>7. /\ jobs \in Seq(RangeJob) /\ Len(jobs) \in Nat
    BY <1>0, Typed
  <1>8. jobs' \in Seq(RangeJob) /\ Len(jobs') = Len(jobs) + 1 /\ Len(jobs') <= Cap
    <2> DEFINE r == <<p, e>>
    <2>1. jobs' = Append(jobs, r) /\ r \in RangeJob
      BY <1>3, <1>6
    <2> HIDE DEF r
    <2>2. jobs' \in Seq(RangeJob) /\ Len(jobs') = Len(jobs) + 1
      BY <2>1, <1>7
    <2> QED BY <2>2, <1>3, <1>7, IdleState
  <1>9. /\ producer' \in Block \cup {Done} /\ jobsClosed' \in BOOLEAN
        /\ producer' # Done => producer' <= c
    <2>1. e # c => e + 1 <= c /\ e + 1 \in Block
      BY <1>1, <1>5 DEF Block
    <2> QED BY <2>1, <1>3, <1>0 DEF TypeOK
  <1>10. TypeOK'
    BY <1>0, <1>4, <1>8, <1>9 DEF TypeOK
  <1>11. ~ jobsClosed /\ main # "search" /\ ~ Quiet
    BY <1>1 DEF IInv, Searching, Quiet, p
  <1>12. Searching'
    <2>1. AllDone => AllDone'
      BY <1>4 DEF AllDone
    <2>2. jobsClosed' => producer' = Done
      BY <1>3, <1>11
    <2> QED BY <1>4, <1>9, <1>11, <2>1, <2>2 DEF IInv, Searching, c
  <1>13. Errors' /\ Holding'
    BY <1>4 DEF IInv, Errors, Holding
  <1>14. Drained'
    BY <1>4, <1>11 DEF IInv, Drained
  <1>15. Conserved'
    <2> SUFFICES ASSUME main = "merge", errorChannel = <<>>, NEW a \in Holder
                 PROVE  balances[a] + ResultsD(d, results, a) + PoolD(d, worker, a)
                          + LogsD(d, jobs', a) + RestD(d, producer', flags.cutoff, a)
                        = RangeD(d, <<low, flags.cutoff>>, a)
      BY <1>4 DEF Conserved
    <2> DEFINE r == RangeD(d, <<p, e>>, a)
               X == balances[a] + ResultsD(d, results, a) + PoolD(d, worker, a)
               J == LogsD(d, jobs, a)
               P == RestD(d, producer, flags.cutoff, a)
               Jn == LogsD(d, jobs', a)
               Pn == RestD(d, producer', flags.cutoff, a)
    <2>1. X + J + P = RangeD(d, <<low, flags.cutoff>>, a)
      BY DEF IInv, Conserved
    <2>2. r \in Int /\ J \in Int
      BY <1>6, <1>7, RangeInt, LogsRules
    <2>3. X \in Int
      <3>1. /\ balances[a] \in Int /\ results \in Seq(Seq(RangeJob)) /\ worker \in [Worker -> WorkerState]
        BY <1>0, Typed
      <3>2. ResultsD(d, results, a) \in Int /\ PoolD(d, worker, a) \in Int
        BY <3>1, ResultsRules, PoolRules
      <3> QED BY <3>1, <3>2
    <2>4. Jn = J + r
      BY <1>3, <1>6, <1>7, LogsRules
    <2>5. P = r + Pn /\ Pn \in Int
      <3>1. P = RangeD(d, <<p, c>>, a)
        BY <1>1 DEF RestD, p, c
      <3>2. CASE e = c
        <4>1. Pn = 0
          BY <3>2, <1>3 DEF RestD
        <4> QED BY <3>1, <3>2, <4>1, <2>2
      <3>3. CASE e # c
        <4>1. e < c /\ producer' = e + 1 /\ e + 1 # Done /\ e + 1 <= c /\ e + 1 \in Block
          BY <3>3, <1>1, <1>3, <1>5 DEF Done, Block
        <4>2. Pn = RangeD(d, <<e + 1, c>>, a)
          BY <4>1 DEF RestD, c
        <4>3. RangeD(d, <<p, c>>, a) = r + RangeD(d, <<e + 1, c>>, a)
          BY <1>1, <1>5, <4>1, RangeCut
        <4>4. <<e + 1, c>> \in RangeJob
          BY <1>1, <4>1 DEF RangeJob
        <4> QED BY <3>1, <4>2, <4>3, <4>4, RangeInt
      <3> QED BY <3>2, <3>3
    <2> HIDE DEF r, X, J, P, Jn, Pn
    <2>6. X + Jn + Pn = X + J + P
      BY <2>2, <2>3, <2>4, <2>5
    <2>7. X + Jn + Pn = RangeD(d, <<low, flags.cutoff>>, a)
      BY <2>1, <2>6
    <2> QED BY <2>7 DEF X, Jn, Pn
  <1>16. Counted'
    <2> SUFFICES ASSUME main = "merge", errorChannel = <<>>
                 PROVE  LET total == completed + Len(results) + BusyN(worker) + Len(jobs')
                                       + RestN(producer', flags.cutoff, flags.rangeSize)
                            all == RestN(low, flags.cutoff, flags.rangeSize)
                        IN  total = all \/ total = all - Word
      BY <1>4 DEF Counted
    <2> DEFINE X == completed + Len(results) + BusyN(worker)
               P == RestN(producer, flags.cutoff, flags.rangeSize)
               Pn == RestN(producer', flags.cutoff, flags.rangeSize)
               all == RestN(low, flags.cutoff, flags.rangeSize)
    <2>1. X + Len(jobs) + P = all \/ X + Len(jobs) + P = all - Word
      BY DEF IInv, Counted
    <2>2. X \in Int
      <3>1. completed \in Nat /\ Len(results) \in Nat /\ worker \in [Worker -> WorkerState]
        BY <1>0, Typed DEF Block
      <3>2. BusyN(worker) \in Nat
        BY <3>1, BusyRules
      <3> QED BY <3>1, <3>2
    <2>3. Pn \in Int /\ P = Pn + 1
      <3>1. P = (c - p) \div s + 1
        BY <1>1 DEF RestN, p, c, s
      <3>2. CASE e = c
        <4>1. c - p \in Nat /\ c - p < s
          BY <3>2, <1>1, <1>2
        <4>2. (c - p) \div s = 0
          BY <4>1, <1>1
        <4>3. Pn = 0
          BY <3>2, <1>3 DEF RestN
        <4> QED BY <3>1, <4>2, <4>3
      <3>3. CASE e # c
        <4>1. producer' = p + s /\ p + s <= c
          BY <3>3, <1>1, <1>2, <1>3
        <4> DEFINE x == c - p
        <4>2. x \in Nat /\ x >= s /\ c - (p + s) = x - s /\ p + s # Done
          BY <4>1, <1>1 DEF Done
        <4>3. Pn = (x - s) \div s + 1
          BY <4>1, <4>2 DEF RestN, c, s
        <4> HIDE DEF x
        <4>4. (x - s) \div s = x \div s - 1 /\ x \div s \in Int
          BY <4>2, <1>1
        <4> QED BY <3>1, <4>3, <4>4 DEF x
      <3> QED BY <3>2, <3>3
    <2> HIDE DEF X, P, Pn, all
    <2>4. X + Len(jobs') + Pn = X + Len(jobs) + P
      BY <2>2, <2>3, <1>7, <1>8
    <2>5. X + Len(jobs') + Pn = all \/ X + Len(jobs') + Pn = all - Word
      BY <2>1, <2>4
    <2> QED BY <2>5 DEF X, Pn, all
  <1>17. Scanned' /\ Published'
    BY <1>4 DEF IInv, Scanned, Published
  <1> QED BY <1>10, <1>12, <1>13, <1>14, <1>15, <1>16, <1>17 DEF IInv

(* A producer that is cancelled leaves its rest, after an error. *)
LEMMA ProducerCancelledKeeps ==
    ASSUME IInv, ProducerCancelled
    PROVE  IInv'
  <1>1. /\ producer # Done /\ cancelled /\ producer' = Done /\ jobsClosed' = TRUE
        /\ flags' = flags /\ main' = main /\ low' = low /\ high' = high /\ worker' = worker /\ jobs' = jobs
        /\ results' = results /\ resultsClosed' = resultsClosed /\ errorChannel' = errorChannel
        /\ cancelled' = cancelled /\ balances' = balances /\ completed' = completed /\ failure' = failure
        /\ supply' = supply /\ csv' = csv /\ summary' = summary
    BY DEF ProducerCancelled, mergeVars, fileVars
  <1>2. TypeOK'
    BY <1>1 DEF IInv, TypeOK
  <1>3. ~ Quiet /\ (AllDone => AllDone')
    BY <1>1 DEF Quiet, AllDone
  <1>4. Searching'
    BY <1>1, <1>3 DEF IInv, Searching
  <1>5. Errors' /\ Holding' /\ (main = "merge" => errorChannel # <<>>)
    BY <1>1 DEF IInv, Errors, Holding
  <1>6. Drained' /\ Conserved' /\ Counted'
    BY <1>1, <1>5 DEF Drained, Conserved, Counted
  <1>7. Scanned' /\ Published'
    BY <1>1 DEF IInv, Scanned, Published
  <1> QED BY <1>2, <1>4, <1>5, <1>6, <1>7 DEF IInv

-----------------------------------------------------------------------------
(* The merge *)

(* Results are closed when every worker has returned. *)
LEMMA CloseKeeps ==
    ASSUME IInv, CloseResults
    PROVE  IInv'
  <1>1. /\ AllDone /\ main = "merge" /\ resultsClosed' = TRUE
        /\ producer' = producer /\ jobsClosed' = jobsClosed
        /\ flags' = flags /\ main' = main /\ low' = low /\ high' = high /\ worker' = worker /\ jobs' = jobs
        /\ results' = results /\ errorChannel' = errorChannel
        /\ cancelled' = cancelled /\ balances' = balances /\ completed' = completed /\ failure' = failure
        /\ supply' = supply /\ csv' = csv /\ summary' = summary
    BY DEF CloseResults, AllDone, poolVars, mergeVars, fileVars
  <1>2. TypeOK'
    BY <1>1 DEF IInv, TypeOK
  <1>3. AllDone'
    BY <1>1 DEF AllDone
  <1>4. Searching'
    BY <1>1, <1>3 DEF IInv, Searching
  <1>5. Errors' /\ Holding' /\ Drained'
    BY <1>1 DEF IInv, Errors, Holding, Drained
  <1>6. Conserved'
    BY <1>1 DEF IInv, Conserved
  <1>7. Counted'
    BY <1>1 DEF IInv, Counted
  <1>8. Scanned' /\ Published'
    BY <1>1 DEF IInv, Scanned, Published
  <1> QED BY <1>2, <1>4, <1>5, <1>6, <1>7, <1>8 DEF IInv

(* There is at least one range and there are at most as many as words. *)
LEMMA RangesBound ==
    ASSUME IInv, main = "merge"
    PROVE  /\ RestN(low, flags.cutoff, flags.rangeSize) \in 1..Word
           /\ RestN(low, flags.cutoff, flags.rangeSize) = (flags.cutoff - low) \div flags.rangeSize + 1
           /\ RestN(producer, flags.cutoff, flags.rangeSize) \in Nat
  <1> DEFINE c == flags.cutoff
             s == flags.rangeSize
             x == c - low
  <1>1. /\ low \in Block /\ c \in Block /\ producer \in Block \cup {Done} /\ low <= c /\ s \in 1..MaxRange
        /\ (producer # Done => producer <= c)
    BY Typed DEF IInv, Searching
  <1>2. Word \in Nat /\ MaxRange \in Nat
    BY WoneAssumption DEF WoneAssumption
  <1> HIDE DEF c, s
  <1>3. /\ low \in Nat /\ c \in Nat /\ c < Word /\ s \in Nat /\ s > 0 /\ low # Done
        /\ x \in Nat /\ x <= Word - 1
    BY <1>1, <1>2 DEF Block, Done
  <1>4. x \div s \in Nat /\ x \div s <= x
    <2> HIDE DEF x
    <2> QED BY <1>3
  <1>5. RestN(low, c, s) = x \div s + 1
    BY <1>3 DEF RestN
  <1>6. RestN(producer, c, s) \in Nat
    <2>1. CASE producer = Done
      BY <2>1 DEF RestN
    <2>2. CASE producer # Done
      <3> DEFINE y == c - producer
      <3>1. y \in Nat
        BY <2>2, <1>1, <1>2, <1>3 DEF Block
      <3>2. RestN(producer, c, s) = y \div s + 1
        BY <2>2 DEF RestN
      <3> HIDE DEF y
      <3>3. y \div s \in Nat
        BY <3>1, <1>3
      <3> QED BY <3>2, <3>3
    <2> QED BY <2>1, <2>2
  <1>7. x \div s + 1 \in 1..Word
    <2> HIDE DEF x
    <2> QED BY <1>2, <1>3, <1>4
  <1> QED BY <1>5, <1>6, <1>7 DEF c, s

(* A result moves to the balances. *)
LEMMA MergeKeeps ==
    ASSUME IInv, MergeResult
    PROVE  IInv'
  <1>0. TypeOK
    BY DEF IInv
  <1>1. /\ main = "merge" /\ results # <<>> /\ results' = Tail(results)
        /\ balances' = [a \in Holder |-> balances[a] + LogsDelta(Head(results), a)]
        /\ completed' = (completed + 1) % Word
        /\ producer' = producer /\ jobsClosed' = jobsClosed /\ resultsClosed' = resultsClosed
        /\ flags' = flags /\ main' = main /\ low' = low /\ high' = high /\ worker' = worker /\ jobs' = jobs
        /\ errorChannel' = errorChannel /\ cancelled' = cancelled /\ failure' = failure
        /\ supply' = supply /\ csv' = csv /\ summary' = summary
    BY DEF MergeResult, fileVars
  <1> DEFINE d == flags.deployed
             Q == Seq(RangeJob)
             h == Head(results)
  <1>2. /\ results \in Seq(Q) /\ Len(results) \in Nat /\ balances \in [Holder -> Int] /\ completed \in Block
        /\ worker \in [Worker -> WorkerState] /\ jobs \in Q /\ Len(jobs) \in Nat
    BY <1>0, Typed
  <1>3. h \in Q /\ Tail(results) \in Seq(Q) /\ Len(Tail(results)) = Len(results) - 1 /\ Len(results) > 0
    <2> HIDE DEF Q
    <2> QED BY <1>1, <1>2
  <1>4. \A a \in Holder : /\ balances'[a] = balances[a] + LogsD(d, h, a)
                          /\ LogsD(d, h, a) \in Int /\ balances'[a] \in Int
    <2> TAKE a \in Holder
    <2>1. LogsDelta(h, a) = LogsD(d, h, a)
      BY DeltaD
    <2>2. LogsD(d, h, a) \in Int
      BY <1>3, LogsRules
    <2>3. balances[a] \in Int /\ balances'[a] = balances[a] + LogsDelta(h, a)
      BY <1>1, <1>2
    <2> HIDE DEF h
    <2> QED BY <2>1, <2>2, <2>3
  <1>5. balances' \in [Holder -> Int]
    <2>1. DOMAIN balances' = Holder /\ balances' = [a \in Holder |-> balances'[a]]
      BY <1>1
    <2> QED BY <1>4, <2>1
  <1>6. /\ completed \in Nat /\ completed < Word /\ Word \in Nat /\ Word > 1
    BY <1>2, WoneAssumption DEF Block, WoneAssumption
  <1>7. /\ completed + 1 < Word => completed' = completed + 1
        /\ completed + 1 = Word => completed' = 0
    BY <1>1, <1>6
  <1>8. completed' \in Block
    BY <1>6, <1>7 DEF Block
  <1>9. TypeOK'
    <2>1. results' \in Seq(Seq(RangeJob)) /\ Len(results') <= Cap
      BY <1>0, <1>1, <1>2, <1>3, IdleState DEF TypeOK
    <2> QED BY <1>0, <1>1, <1>5, <1>8, <2>1 DEF TypeOK
  <1>10. Searching'
    <2>1. AllDone => AllDone'
      BY <1>1 DEF AllDone
    <2> QED BY <1>1, <2>1 DEF IInv, Searching
  <1>11. Errors' /\ Holding' /\ Drained'
    BY <1>1 DEF IInv, Errors, Holding, Drained
  <1>12. Conserved'
    <2> SUFFICES ASSUME errorChannel = <<>>, NEW a \in Holder
                 PROVE  balances'[a] + ResultsD(d, results', a) + PoolD(d, worker, a)
                          + LogsD(d, jobs, a) + RestD(d, producer, flags.cutoff, a)
                        = RangeD(d, <<low, flags.cutoff>>, a)
      BY <1>1 DEF Conserved
    <2> DEFINE R == ResultsD(d, results, a)
               Rn == ResultsD(d, results', a)
               l == LogsD(d, h, a)
    <2>1. balances[a] + R + PoolD(d, worker, a) + LogsD(d, jobs, a) + RestD(d, producer, flags.cutoff, a)
            = RangeD(d, <<low, flags.cutoff>>, a)
      BY <1>1 DEF IInv, Conserved
    <2>2. R = l + Rn
      BY <1>1, <1>2, ResultsRules
    <2>3. R \in Int /\ Rn \in Int
      BY <1>1, <1>2, <1>3, ResultsRules
    <2>4. balances'[a] = balances[a] + l /\ l \in Int /\ balances[a] \in Int
      BY <1>2, <1>4
    <2> HIDE DEF R, Rn, l
    <2>5. balances'[a] + Rn = balances[a] + R
      BY <2>2, <2>3, <2>4
    <2> QED BY <2>1, <2>5 DEF Rn
  <1>13. Counted'
    <2> SUFFICES ASSUME errorChannel = <<>>
                 PROVE  LET total == completed' + Len(results') + BusyN(worker) + Len(jobs)
                                       + RestN(producer, flags.cutoff, flags.rangeSize)
                            all == RestN(low, flags.cutoff, flags.rangeSize)
                        IN  total = all \/ total = all - Word
      BY <1>1 DEF Counted
    <2> DEFINE b == BusyN(worker)
               P == RestN(producer, flags.cutoff, flags.rangeSize)
               all == RestN(low, flags.cutoff, flags.rangeSize)
               r == Len(results)
               rn == Len(results')
               j == Len(jobs)
    <2>1. completed + r + b + j + P = all \/ completed + r + b + j + P = all - Word
      BY <1>1 DEF IInv, Counted
    <2>2. P \in Nat /\ all \in 1..Word
      BY <1>1, RangesBound
    <2>3. b \in Nat /\ j \in Nat /\ r \in Nat /\ rn = r - 1 /\ r > 0
      BY <1>1, <1>2, <1>3, BusyRules
    <2> HIDE DEF b, P, all, r, rn, j
    <2>4. completed' + rn + b + j + P = all \/ completed' + rn + b + j + P = all - Word
      <3>1. CASE completed + 1 < Word
        <4>1. completed' = completed + 1
          BY <1>7, <3>1
        <4>2. completed' + rn + b + j + P = completed + r + b + j + P
          BY <1>6, <2>2, <2>3, <4>1
        <4> QED BY <2>1, <4>2
      <3>2. CASE completed + 1 = Word
        <4>1. completed' = 0
          BY <1>7, <3>2
        <4>2. completed' + rn + b + j + P = (completed + r + b + j + P) - Word
          BY <1>6, <2>2, <2>3, <3>2, <4>1
        <4>3. completed + r + b + j + P >= Word
          BY <1>6, <2>2, <2>3, <3>2
        <4>4. completed + r + b + j + P = all
          BY <1>6, <2>1, <2>2, <4>3
        <4> QED BY <4>2, <4>4
      <3> QED BY <1>6, <3>1, <3>2
    <2> QED BY <2>4 DEF b, P, all, r, rn, j
  <1>14. Scanned' /\ Published'
    BY <1>1 DEF IInv, Scanned, Published
  <1> QED BY <1>9, <1>10, <1>11, <1>12, <1>13, <1>14 DEF IInv

(* A scan without an error has drained its channels: all blocks are in the     *)
(* balances and all ranges are counted.                                        *)
LEMMA ReturnDrained ==
    ASSUME IInv, main = "merge", results = <<>>, resultsClosed, errorChannel = <<>>
    PROVE  /\ \A a \in Holder : balances[a] = RangeD(flags.deployed, <<flags.deployed, flags.cutoff>>, a)
           /\ completed = initialRanges
  <1> DEFINE d == flags.deployed
  <1>1. AllDone /\ low = d
    BY DEF IInv, Searching
  <1>2. jobs = <<>> /\ jobsClosed /\ producer = Done
    BY <1>1, WoneAssumption DEF IInv, Drained, AllDone, Searching, WoneAssumption
  <1>3. /\ worker \in [Worker -> WorkerState] /\ balances \in [Holder -> Int] /\ completed \in Block
    BY Typed DEF IInv
  <1>4. \A w \in Worker : worker[w].open = <<>> /\ worker[w].logs = <<>> /\ worker[w].st = "done"
    BY <1>1 DEF IInv, Holding, AllDone
  <1>5. ASSUME NEW a \in Holder
        PROVE  balances[a] = RangeD(d, <<d, flags.cutoff>>, a)
    <2>1. balances[a] + ResultsD(d, <<>>, a) + PoolD(d, worker, a)
            + LogsD(d, <<>>, a) + RestD(d, Done, flags.cutoff, a)
          = RangeD(d, <<d, flags.cutoff>>, a)
      BY <1>1, <1>2 DEF IInv, Conserved
    <2>2. ResultsD(d, <<>>, a) = 0 /\ LogsD(d, <<>>, a) = 0
      BY LogsEmpty
    <2>3. PoolD(d, worker, a) = 0
      BY <1>3, <1>4, PoolRules
    <2>4. RestD(d, Done, flags.cutoff, a) = 0
      BY DEF RestD
    <2>5. balances[a] \in Int
      BY <1>3
    <2> QED BY <2>1, <2>2, <2>3, <2>4, <2>5
  <1>6. completed = initialRanges
    <2> DEFINE all == RestN(low, flags.cutoff, flags.rangeSize)
    <2>1. BusyN(worker) = 0
      BY <1>3, <1>4, BusyRules
    <2>2. RestN(Done, flags.cutoff, flags.rangeSize) = 0 /\ Len(<<>>) = 0
      BY DEF RestN
    <2>3. \/ completed + Len(<<>>) + BusyN(worker) + Len(<<>>) + RestN(Done, flags.cutoff, flags.rangeSize) = all
          \/ completed + Len(<<>>) + BusyN(worker) + Len(<<>>) + RestN(Done, flags.cutoff, flags.rangeSize) = all - Word
      BY <1>2 DEF IInv, Counted
    <2>4. completed \in Nat /\ completed < Word /\ Word \in Nat /\ Word > 1
      BY <1>3, WoneAssumption DEF Block, WoneAssumption
    <2>5. all \in 1..Word /\ initialRanges = all % Word
      BY RangesBound DEF initialRanges
    <2> HIDE DEF all
    <2>6. completed = all \/ completed = all - Word
      BY <2>1, <2>2, <2>3, <2>4
    <2>7. all < Word => all % Word = all
      BY <2>4, <2>5
    <2>8. all = Word => all % Word = 0
      BY <2>4, <2>5
    <2> QED BY <2>4, <2>5, <2>6, <2>7, <2>8
  <1> QED BY <1>5, <1>6

(* The scan returns: nothing is left, or there was an error. *)
LEMMA ReturnKeeps ==
    ASSUME IInv, ScanReturns
    PROVE  IInv'
  <1>0. TypeOK
    BY DEF IInv
  <1>1. /\ main = "merge" /\ results = <<>> /\ resultsClosed /\ cancelled' = TRUE
        /\ producer' = producer /\ jobsClosed' = jobsClosed /\ resultsClosed' = resultsClosed
        /\ flags' = flags /\ low' = low /\ high' = high /\ worker' = worker /\ jobs' = jobs
        /\ results' = results /\ errorChannel' = errorChannel
        /\ balances' = balances /\ completed' = completed
        /\ supply' = supply /\ csv' = csv /\ summary' = summary
    BY DEF ScanReturns, mergeVars, fileVars
  <1>2. AllDone /\ low = flags.deployed
    BY <1>1 DEF IInv, Searching
  <1>3. \/ errorChannel # <<>> /\ main' = "fatal" /\ failure' = errorChannel[1]
        \/ errorChannel = <<>> /\ main' = "supply" /\ failure' = failure
    <2>1. errorChannel # <<>> => Head(errorChannel) = errorChannel[1]
      BY <1>0, Typed
    <2>2. errorChannel = <<>> => completed = initialRanges
      BY <1>1, ReturnDrained
    <2> QED BY <2>1, <2>2 DEF ScanReturns, Fatal
  <1>4. errorChannel # <<>> => errorChannel[1] \in ErrorKind /\ errorChannel[1] # "cancelled"
    BY <1>0, Typed DEF IInv, Errors
  <1>5. failure' \in ErrorKind \cup {"none", "incomplete", "balances", "reserve", "write"}
        /\ failure' \notin {"cancelled", "incomplete"}
    BY <1>0, <1>3, <1>4 DEF IInv, TypeOK, Errors, ErrorKind
  <1>6. TypeOK'
    BY <1>0, <1>1, <1>3, <1>5 DEF TypeOK
  <1>7. AllDone'
    BY <1>1, <1>2 DEF AllDone
  <1>8. Searching'
    BY <1>1, <1>2, <1>3, <1>7 DEF IInv, Searching
  <1>9. Errors' /\ Holding'
    BY <1>1, <1>3, <1>5 DEF IInv, Errors, Holding
  <1>10. Drained' /\ Conserved' /\ Counted'
    BY <1>3 DEF Drained, Conserved, Counted
  <1>11. Scanned'
    <2>1. errorChannel = <<>> =>
            \A a \in Holder : balances[a] = RangeD(flags.deployed, <<flags.deployed, flags.cutoff>>, a)
      BY <1>1, ReturnDrained
    <2> QED BY <1>1, <1>3, <2>1 DEF Scanned
  <1>12. Published'
    BY <1>1, <1>3 DEF IInv, Published
  <1> QED BY <1>6, <1>8, <1>9, <1>10, <1>11, <1>12 DEF IInv

-----------------------------------------------------------------------------
(* The theorems *)

(* The invariant holds at first. *)
LEMMA IInvInit == Init => IInv
  <1> SUFFICES ASSUME Init PROVE IInv
    OBVIOUS
  <1>1. PICK cutoff \in 1..(Word - 1), size \in 1..MaxRange : \E deployed \in 0..cutoff :
          flags = [cutoff |-> cutoff, rangeSize |-> size, deployed |-> deployed]
    BY DEF Init
  <1>2. PICK deployed \in 0..cutoff : flags = [cutoff |-> cutoff, rangeSize |-> size, deployed |-> deployed]
    BY <1>1
  <1>3. Word \in Nat /\ Word > 1 /\ MaxRange \in Nat
    BY WoneAssumption DEF WoneAssumption
  <1>4. /\ flags \in [cutoff : Block, rangeSize : 1..MaxRange, deployed : Block]
        /\ flags.cutoff = cutoff /\ flags.deployed = deployed
        /\ cutoff \in Block /\ deployed \in Nat /\ deployed <= cutoff /\ 1 \in Block
    BY <1>2, <1>3 DEF Block
  <1>5. /\ main = "search" /\ low = 1 /\ high = cutoff /\ producer = Done
        /\ jobs = <<>> /\ jobsClosed = FALSE /\ worker = [w \in Worker |-> Idle]
        /\ results = <<>> /\ resultsClosed = FALSE /\ errorChannel = <<>> /\ cancelled = FALSE
        /\ balances = [a \in Holder |-> 0] /\ completed = 0 /\ failure = "none"
        /\ csv = <<>> /\ summary = <<>>
    BY <1>4 DEF Init
  <1>6. TypeOK
    <2>1. worker \in [Worker -> WorkerState]
      BY <1>5, IdleState
    <2>2. balances \in [Holder -> Int] /\ completed \in Block
      BY <1>3, <1>5 DEF Block
    <2>3. /\ jobs \in Seq(RangeJob) /\ Len(jobs) <= Cap /\ results \in Seq(Seq(RangeJob)) /\ Len(results) <= Cap
          /\ errorChannel \in Seq(ErrorKind) /\ Len(errorChannel) <= 1
      BY <1>5, IdleState
    <2> QED BY <1>4, <1>5, <2>1, <2>2, <2>3 DEF TypeOK, WorkerState
  <1>7. Quiet
    BY <1>5 DEF Quiet
  <1>8. Searching
    BY <1>4, <1>5, <1>7 DEF Searching
  <1>9. \A w \in Worker : worker[w].st = "idle" /\ worker[w].open = <<>> /\ worker[w].logs = <<>>
    BY <1>5 DEF Idle
  <1>10. Errors /\ Holding
    BY <1>5, <1>9 DEF Errors, Holding
  <1>11. Drained /\ Conserved /\ Counted /\ Scanned /\ Published
    BY <1>5 DEF Drained, Conserved, Counted, Scanned, Published
  <1> QED BY <1>6, <1>8, <1>10, <1>11 DEF IInv

(* Every step keeps it. *)
LEMMA IInvStep ==
    ASSUME IInv, [Next]_vars
    PROVE  IInv'
  <1>1. ASSUME NEW w \in Worker, WorkerStep(w)
        PROVE  IInv'
    <2>1. jobs \in Seq(RangeJob) /\ worker[w] \in WorkerState
      BY Typed DEF IInv
    <2>2. PICK rec \in WorkerState : Moves(w, rec)
      BY <1>1, <2>1, WorkerMoves
    <2> QED BY <2>2, MoveKeeps
  <1>2. CASE Main
    BY <1>2, MainKeeps, ProbeKeeps, StartKeeps, MergeKeeps, ReturnKeeps DEF Main
  <1>3. CASE Producer
    BY <1>3, ProduceKeeps, ProducerCancelledKeeps DEF Producer
  <1>4. CASE CloseResults
    BY <1>4, CloseKeeps
  <1>5. CASE UNCHANGED vars
    <2>1. /\ flags' = flags /\ main' = main /\ low' = low /\ high' = high /\ producer' = producer /\ jobs' = jobs
          /\ jobsClosed' = jobsClosed /\ worker' = worker /\ results' = results
          /\ resultsClosed' = resultsClosed /\ errorChannel' = errorChannel /\ cancelled' = cancelled
          /\ balances' = balances /\ completed' = completed /\ failure' = failure
          /\ supply' = supply /\ csv' = csv /\ summary' = summary
      BY <1>5 DEF vars, scanVars, mergeVars, fileVars
    <2>2. TypeOK'
      BY <2>1 DEF IInv, TypeOK
    <2>3. Searching'
      BY <2>1 DEF IInv, Searching, Quiet, AllDone
    <2>4. Errors' /\ Holding' /\ Drained'
      BY <2>1 DEF IInv, Errors, Holding, Drained
    <2>5. Conserved' /\ Counted'
      BY <2>1 DEF IInv, Conserved, Counted
    <2>6. Scanned' /\ Published'
      BY <2>1 DEF IInv, Scanned, Published
    <2> QED BY <2>2, <2>3, <2>4, <2>5, <2>6 DEF IInv
  <1> QED BY <1>1, <1>2, <1>3, <1>4, <1>5 DEF Next, Ended

(* wone-holders: a scan that returns without an error starts at the true       *)
(* deployment block and has added every event up to the cutoff exactly once,   *)
(* however findDeploymentBlock bisects, ranges are split and retried, and      *)
(* workers interleave.                                                         *)
THEOREM BalancesCorrect == Spec => []BalancesExact
  <1>1. IInv => BalancesExact
    <2> SUFFICES ASSUME IInv, main \in {"supply", "csv", "reserve", "summary", "passed"}
                 PROVE  low = flags.deployed /\ \A a \in Holder : balances[a] = TrueBalance(a)
      BY DEF IInv, BalancesExact
    <2>1. \A a \in Holder : TrueBalance(a) = RangeD(flags.deployed, <<flags.deployed, flags.cutoff>>, a)
      BY DeltaD DEF TrueBalance
    <2> QED BY <2>1 DEF IInv, Searching, Scanned
  <1>2. IInv /\ [Next]_vars => IInv'
    BY IInvStep
  <1> QED BY <1>1, <1>2, IInvInit, PTL DEF Spec

(* The error of a failed scan is the one that stopped it: the cancellation it  *)
(* caused never overtakes it in the one-slot channel, and the count of ranges  *)
(* never falls short, also when it wraps.                                      *)
THEOREM RootCause == Spec => []RootCauseReported
  <1>1. IInv => RootCauseReported
    BY DEF IInv, Errors, RootCauseReported
  <1>2. IInv /\ [Next]_vars => IInv'
    BY IInvStep
  <1> QED BY <1>1, <1>2, IInvInit, PTL DEF Spec

(* A summary stands beside a CSV of the true balances, and states their total. *)
THEOREM SummaryIsBacked == Spec => []SummaryBacked
  <1>1. IInv => SummaryBacked
    <2> SUFFICES ASSUME IInv, summary # <<>> PROVE SummaryBacked
      BY DEF SummaryBacked
    <2>1. main = "passed"
      BY DEF IInv, TypeOK, Published
    <2>2. \A a \in Holder : balances[a] = TrueBalance(a)
      <3>1. \A a \in Holder : TrueBalance(a) = RangeD(flags.deployed, <<flags.deployed, flags.cutoff>>, a)
        BY DeltaD DEF TrueBalance
      <3> QED BY <2>1, <3>1 DEF IInv, Scanned
    <2>3. balances = [a \in Holder |-> TrueBalance(a)]
      BY <2>2, Typed DEF IInv
    <2>4. {<<a, balances[a]>> : a \in {h \in Holder : balances[h] # 0}}
            = {<<a, TrueBalance(a)>> : a \in {h \in Holder : TrueBalance(h) # 0}}
      BY <2>2
    <2>5. /\ csv = <<{<<a, balances[a]>> : a \in {h \in Holder : balances[h] # 0}}>>
          /\ SumFunction(balances) = supply /\ summary[1].total = supply
      BY <2>1 DEF IInv, Published
    <2> QED BY <2>3, <2>4, <2>5 DEF SummaryBacked
  <1>2. IInv /\ [Next]_vars => IInv'
    BY IInvStep
  <1> QED BY <1>1, <1>2, IInvInit, PTL DEF Spec
=============================================================================
