---------------------------- MODULE WoneHolders ----------------------------
(***************************************************************************)
(* toolkit/cmd/wone-holders: finds the block that deployed the WONE        *)
(* contract, replays its events over ranges of blocks with a pool of       *)
(* workers, and publishes the holders as a CSV file and a summary.         *)
(*                                                                         *)
(* Goroutines: the producer of ranges, the workers, the goroutine that     *)
(* closes the results when all workers have returned, and main.  They share*)
(* the channels jobs, results and errorChannel and one cancellable context.*)
(***************************************************************************)
EXTENDS Integers, Sequences, FiniteSets, Functions

CONSTANTS
    Worker,         \* worker goroutines
    Holder,         \* addresses other than the zero address
    Zero,           \* the zero address
    Events,         \* log events of the n-th block since deployment
    Word,           \* bound: an unsigned integer is less than Word (2^64)
    MaxRange,       \* bound: the range-size flag
    MaxAttempts     \* attempts of one RPC call (5)

ASSUME WoneAssumption ==
    /\ Word \in Nat /\ Word > 1
    /\ MaxRange \in Nat \ {0} /\ MaxRange < Word
    /\ MaxAttempts \in Nat \ {0}
    /\ Zero \notin Holder
    /\ IsFiniteSet(Worker) /\ Worker # {}
    /\ \A n \in DOMAIN Events :
          Events[n] \in Seq([topic : {"deposit", "withdrawal", "transfer"},
                            src : Holder \cup {Zero}, dst : Holder \cup {Zero}, amount : Nat])

VARIABLES
    flags,          \* cutoff, rangeSize and the block that deployed the contract
    main,           \* what main is doing
    low, high,      \* findDeploymentBlock's interval
    producer,       \* next block of the producer, or Done
    jobs, jobsClosed,
    worker,         \* each worker's open ranges, fetched ranges and RPC attempt
    results, resultsClosed,
    errorChannel,   \* capacity 1
    cancelled,      \* the context of scanRanges
    balances, completed,
    failure,        \* the error main exits with
    supply,         \* totalSupply read from the RPC
    csv, summary    \* published files: <<content>>, or <<>> when there is none

scanVars == <<producer, jobs, jobsClosed, worker, results, resultsClosed, errorChannel, cancelled>>
mergeVars == <<balances, completed>>
fileVars == <<supply, csv, summary>>
vars == <<flags, main, low, high, scanVars, mergeVars, failure, fileVars>>

Block == 0..(Word - 1)
RangeJob == {r \in Block \X Block : r[1] <= r[2]}
Cap == 2 * Cardinality(Worker)
Done == -1
ErrorKind == {"rpc", "log", "cancelled"}

Idle == [st |-> "idle", open |-> <<>>, logs |-> <<>>, attempt |-> 0, err |-> "none"]

-----------------------------------------------------------------------------
(* Events *)

EventsAt(b) ==
    LET n == b - flags.deployed IN IF n \in DOMAIN Events THEN Events[n] ELSE <<>>

addDelta(a, address, amount) == IF a = address /\ address # Zero THEN amount ELSE 0

(* What one event adds to the balance of a. *)
applyLog(e, a) ==
    CASE e.topic = "deposit" -> addDelta(a, e.dst, e.amount)
      [] e.topic = "withdrawal" -> addDelta(a, e.src, -e.amount)
      [] e.topic = "transfer" -> addDelta(a, e.src, -e.amount) + addDelta(a, e.dst, e.amount)

BlockDelta(b, a) == SumFunction([i \in DOMAIN EventsAt(b) |-> applyLog(EventsAt(b)[i], a)])

RangeDelta(r, a) == SumFunction([b \in r[1]..r[2] |-> BlockDelta(b, a)])

LogsDelta(logs, a) == SumFunction([i \in DOMAIN logs |-> RangeDelta(logs[i], a)])

-----------------------------------------------------------------------------
Init ==
    /\ \E cutoff \in 1..(Word - 1), size \in 1..MaxRange : \E deployed \in 0..cutoff :
          flags = [cutoff |-> cutoff, rangeSize |-> size, deployed |-> deployed]
    /\ main = "search"
    /\ low = 1 /\ high = flags.cutoff
    /\ producer = Done
    /\ jobs = <<>> /\ jobsClosed = FALSE
    /\ worker = [w \in Worker |-> Idle]
    /\ results = <<>> /\ resultsClosed = FALSE
    /\ errorChannel = <<>> /\ cancelled = FALSE
    /\ balances = [a \in Holder |-> 0] /\ completed = 0
    /\ failure = "none"
    /\ supply = 0 /\ csv = <<>> /\ summary = <<>>

Fatal(e) == main' = "fatal" /\ failure' = e

-----------------------------------------------------------------------------
(* findDeploymentBlock *)

HasCode(b) == b >= flags.deployed

StartScan(deployment) ==
    /\ main' = "merge"
    /\ low' = deployment
    /\ producer' = deployment
    /\ UNCHANGED <<flags, high, jobs, jobsClosed, worker, results, resultsClosed, errorChannel,
                   cancelled, mergeVars, failure, fileVars>>

GenesisCode ==
    /\ main = "search" /\ HasCode(0)
    /\ StartScan(0)

ProbeCode ==
    /\ main = "search" /\ ~HasCode(0) /\ low < high
    /\ LET middle == low + (high - low) \div 2
       IN  IF HasCode(middle)
           THEN high' = middle /\ low' = low
           ELSE low' = middle + 1 /\ high' = high
    /\ UNCHANGED <<flags, main, scanVars, mergeVars, failure, fileVars>>

DeploymentFound ==
    /\ main = "search" /\ ~HasCode(0) /\ low >= high
    /\ StartScan(low)

(* Any RPC call main makes itself, or the check of what it returns, can fail. *)
MainCallFails ==
    /\ main \in {"search", "supply"}
    /\ Fatal("rpc")
    /\ UNCHANGED <<flags, low, high, scanVars, mergeVars, fileVars>>

-----------------------------------------------------------------------------
(* scanRanges: the producer *)

initialRanges == ((flags.cutoff - low) \div flags.rangeSize + 1) % Word

RangeEnd(from) ==
    LET to == (from + flags.rangeSize - 1) % Word
    IN  IF to < from \/ to > flags.cutoff THEN flags.cutoff ELSE to

(* Mutant: the producer returns after the last range without closing jobs. *)
JobsLeftOpen ==
    /\ producer # Done
    /\ Len(jobs) < Cap
    /\ jobs' = Append(jobs, <<producer, RangeEnd(producer)>>)
    /\ producer' = IF RangeEnd(producer) = flags.cutoff THEN Done ELSE RangeEnd(producer) + 1
    /\ UNCHANGED <<flags, main, low, high, jobsClosed, worker, results, resultsClosed, errorChannel,
                   cancelled, mergeVars, failure, fileVars>>

ProduceJob ==
    /\ producer # Done
    /\ Len(jobs) < Cap
    /\ jobs' = Append(jobs, <<producer, RangeEnd(producer)>>)
    /\ IF RangeEnd(producer) = flags.cutoff
       THEN producer' = Done /\ jobsClosed' = TRUE
       ELSE producer' = RangeEnd(producer) + 1 /\ jobsClosed' = jobsClosed
    /\ UNCHANGED <<flags, main, low, high, worker, results, resultsClosed, errorChannel, cancelled,
                   mergeVars, failure, fileVars>>

ProducerCancelled ==
    /\ producer # Done /\ cancelled
    /\ producer' = Done /\ jobsClosed' = TRUE
    /\ UNCHANGED <<flags, main, low, high, jobs, worker, results, resultsClosed, errorChannel,
                   cancelled, mergeVars, failure, fileVars>>

Producer == ProduceJob \/ ProducerCancelled

-----------------------------------------------------------------------------
(* scanRanges: a worker *)

Set(w, rec) == worker' = [worker EXCEPT ![w] = rec]

poolVars == <<flags, main, low, high, producer, jobsClosed, mergeVars, failure, fileVars>>

TakeJob(w) ==
    /\ worker[w].st = "idle" /\ jobs # <<>>
    /\ Set(w, [Idle EXCEPT !.st = "fetch", !.open = <<Head(jobs)>>])
    /\ jobs' = Tail(jobs)
    /\ UNCHANGED <<poolVars, results, resultsClosed, errorChannel, cancelled>>

NoMoreJobs(w) ==
    /\ worker[w].st = "idle" /\ jobs = <<>> /\ jobsClosed
    /\ Set(w, [Idle EXCEPT !.st = "done"])
    /\ UNCHANGED <<poolVars, jobs, results, resultsClosed, errorChannel, cancelled>>

(* fetchLogs is depth first: open holds the ranges it has yet to query, in   *)
(* order, logs the ranges whose logs it returns.  The response may be there   *)
(* already when the context is cancelled.                                     *)
QueryOk(w) ==
    /\ worker[w].st = "fetch" /\ worker[w].open # <<>>
    /\ Set(w, [worker[w] EXCEPT !.open = Tail(@), !.attempt = 0,
                              !.logs = Append(@, Head(worker[w].open))])
    /\ UNCHANGED <<poolVars, jobs, results, resultsClosed, errorChannel, cancelled>>

(* Mutant: both halves of a split contain the middle block. *)
HalvesOverlap(w, e) ==
    LET from == Head(worker[w].open)[1]
        to == Head(worker[w].open)[2]
        middle == from + (to - from) \div 2
    IN  IF from = to
        THEN Set(w, [worker[w] EXCEPT !.st = "report", !.err = e])
        ELSE Set(w, [worker[w] EXCEPT !.attempt = 0,
                        !.open = <<<<from, middle>>, <<middle, to>>>> \o Tail(@)])

(* fetchLogs after a failed call: a single block reports, a longer range is  *)
(* split whatever the error was.                                             *)
QueryFailed(w, e) ==
    LET from == Head(worker[w].open)[1]
        to == Head(worker[w].open)[2]
        middle == from + (to - from) \div 2
    IN  IF from = to
        THEN Set(w, [worker[w] EXCEPT !.st = "report", !.err = e])
        ELSE Set(w, [worker[w] EXCEPT !.attempt = 0,
                        !.open = <<<<from, middle>>, <<middle + 1, to>>>> \o Tail(@)])

(* rpcClient.call: a lost request is retried unless the context is cancelled; *)
(* an error the server returned is not.                                      *)
CallFails(w) ==
    /\ worker[w].st = "fetch" /\ worker[w].open # <<>>
    /\ \/ QueryFailed(w, "rpc")
       \/ ~cancelled /\ worker[w].attempt < MaxAttempts - 1
            /\ Set(w, [worker[w] EXCEPT !.attempt = @ + 1])
       \/ cancelled /\ QueryFailed(w, "cancelled")
    /\ UNCHANGED <<poolVars, jobs, results, resultsClosed, errorChannel, cancelled>>

(* applyLog accepts every event, or the RPC returned a removed, foreign or    *)
(* undecodable one.                                                           *)
ApplyLogs(w) ==
    /\ worker[w].st = "fetch" /\ worker[w].open = <<>>
    /\ \/ Set(w, [worker[w] EXCEPT !.st = "send"])
       \/ Set(w, [worker[w] EXCEPT !.st = "report", !.err = "log"])
    /\ UNCHANGED <<poolVars, jobs, results, resultsClosed, errorChannel, cancelled>>

SendResult(w) ==
    /\ worker[w].st = "send" /\ Len(results) < Cap
    /\ results' = Append(results, worker[w].logs)
    /\ Set(w, Idle)
    /\ UNCHANGED <<poolVars, jobs, resultsClosed, errorChannel, cancelled>>

AbandonResult(w) ==
    /\ worker[w].st = "send" /\ cancelled
    /\ Set(w, [Idle EXCEPT !.st = "done"])
    /\ UNCHANGED <<poolVars, jobs, results, resultsClosed, errorChannel, cancelled>>

(* Mutant: the context is cancelled before the error is offered. *)
CancelBeforeReport(w) ==
    /\ worker[w].st = "report"
    /\ cancelled' = TRUE
    /\ IF ~cancelled
       THEN UNCHANGED <<worker, errorChannel>>
       ELSE /\ errorChannel' = IF errorChannel = <<>> THEN <<worker[w].err>> ELSE errorChannel
            /\ Set(w, [Idle EXCEPT !.st = "done"])
    /\ UNCHANGED <<poolVars, jobs, results, resultsClosed>>

(* The error is offered to the channel, and dropped when one is there. *)
ReportError(w) ==
    /\ worker[w].st = "report"
    /\ errorChannel' = IF errorChannel = <<>> THEN <<worker[w].err>> ELSE errorChannel
    /\ Set(w, [Idle EXCEPT !.st = "cancel"])
    /\ UNCHANGED <<poolVars, jobs, results, resultsClosed, cancelled>>

Cancel(w) ==
    /\ worker[w].st = "cancel"
    /\ cancelled' = TRUE
    /\ Set(w, [Idle EXCEPT !.st = "done"])
    /\ UNCHANGED <<poolVars, jobs, results, resultsClosed, errorChannel>>

WorkerStep(w) ==
    \/ TakeJob(w) \/ NoMoreJobs(w)
    \/ QueryOk(w) \/ CallFails(w) \/ ApplyLogs(w)
    \/ SendResult(w) \/ AbandonResult(w)
    \/ ReportError(w) \/ Cancel(w)

CloseResults ==
    /\ main = "merge" /\ ~resultsClosed
    /\ \A w \in Worker : worker[w].st = "done"
    /\ resultsClosed' = TRUE
    /\ UNCHANGED <<poolVars, jobs, worker, results, errorChannel, cancelled>>

-----------------------------------------------------------------------------
(* main *)

MergeResult ==
    /\ main = "merge" /\ results # <<>>
    /\ balances' = [a \in Holder |-> balances[a] + LogsDelta(Head(results), a)]
    /\ completed' = (completed + 1) % Word
    /\ results' = Tail(results)
    /\ UNCHANGED <<flags, main, low, high, producer, jobs, jobsClosed, worker, resultsClosed,
                   errorChannel, cancelled, failure, fileVars>>

(* scanRanges returns; its deferred cancel ends the context. *)
ScanReturns ==
    /\ main = "merge" /\ results = <<>> /\ resultsClosed
    /\ IF errorChannel # <<>> THEN Fatal(Head(errorChannel))
       ELSE IF completed # initialRanges THEN Fatal("incomplete")
       ELSE main' = "supply" /\ failure' = failure
    /\ cancelled' = TRUE
    /\ UNCHANGED <<flags, low, high, producer, jobs, jobsClosed, worker, results, resultsClosed,
                   errorChannel, mergeVars, fileVars>>

ReadSupply(s) ==
    /\ main = "supply"
    /\ supply' = s
    /\ main' = "csv"
    /\ UNCHANGED <<flags, low, high, scanVars, mergeVars, failure, csv, summary>>

(* Mutant: the total of the rows is not compared with the supply. *)
TotalUnchecked ==
    /\ main = "csv"
    /\ csv' = <<{<<a, balances[a]>> : a \in {h \in Holder : balances[h] # 0}}>>
    /\ main' = "reserve"
    /\ UNCHANGED <<flags, low, high, scanVars, mergeVars, failure, supply, summary>>

(* writeCSV checks the balances, then publishes the rows. *)
WriteCSV ==
    /\ main = "csv"
    /\ IF /\ \A a \in Holder : balances[a] >= 0
          /\ SumFunction(balances) = supply
       THEN /\ csv' = <<{<<a, balances[a]>> : a \in {h \in Holder : balances[h] # 0}}>>
            /\ main' = "reserve" /\ failure' = failure
       ELSE Fatal("balances") /\ csv' = csv
    /\ UNCHANGED <<flags, low, high, scanVars, mergeVars, supply, summary>>

(* The reserve was read with the supply; it is compared after the CSV is out. *)
CheckReserve(reserve) ==
    /\ main = "reserve"
    /\ IF reserve = supply THEN main' = "summary" /\ failure' = failure ELSE Fatal("reserve")
    /\ UNCHANGED <<flags, low, high, scanVars, mergeVars, fileVars>>

WriteJSON ==
    /\ main = "summary"
    /\ summary' = <<[deployment |-> low, total |-> supply]>>
    /\ main' = "passed"
    /\ UNCHANGED <<flags, low, high, scanVars, mergeVars, failure, supply, csv>>

(* Creating, writing or renaming a file fails. *)
WriteFails ==
    /\ main \in {"csv", "summary"}
    /\ Fatal("write")
    /\ UNCHANGED <<flags, low, high, scanVars, mergeVars, fileVars>>

Main ==
    \/ GenesisCode \/ ProbeCode \/ DeploymentFound \/ MainCallFails
    \/ MergeResult \/ ScanReturns
    \/ \E s \in 0..Word : ReadSupply(s) \/ CheckReserve(s)
    \/ WriteCSV \/ WriteJSON \/ WriteFails

Ended == main \in {"passed", "fatal"} /\ producer = Done /\ UNCHANGED vars

Next ==
    \/ Main \/ Producer \/ CloseResults
    \/ \E w \in Worker : WorkerStep(w)
    \/ Ended

Spec == Init /\ [][Next]_vars

(* Goroutines are scheduled, and an RPC call returns within its timeout. *)
FairSpec ==
    /\ Spec
    /\ WF_vars(Main) /\ WF_vars(Producer) /\ WF_vars(CloseResults)
    /\ \A w \in Worker : WF_vars(WorkerStep(w))

-----------------------------------------------------------------------------
(* Properties *)

(* The true balance at the cutoff: every event since the deployment, once. *)
TrueBalance(a) == RangeDelta(<<flags.deployed, flags.cutoff>>, a)

(* The types of the scan: block numbers are words, jobs are ranges of them    *)
(* and no channel holds more than its capacity.                               *)
TypeOK ==
    /\ flags \in [cutoff : Block, rangeSize : 1..MaxRange, deployed : Block]
    /\ main \in {"search", "merge", "supply", "csv", "reserve", "summary", "passed", "fatal"}
    /\ low \in Block /\ high \in Block
    /\ producer \in Block \cup {Done}
    /\ jobs \in Seq(RangeJob) /\ Len(jobs) <= Cap
    /\ jobsClosed \in BOOLEAN /\ resultsClosed \in BOOLEAN /\ cancelled \in BOOLEAN
    /\ worker \in [Worker -> [st : {"idle", "fetch", "send", "report", "cancel", "done"},
                              open : Seq(RangeJob), logs : Seq(RangeJob), attempt : 0..(MaxAttempts - 1),
                              err : ErrorKind \cup {"none"}]]
    /\ results \in Seq(Seq(RangeJob)) /\ Len(results) <= Cap
    /\ errorChannel \in Seq(ErrorKind) /\ Len(errorChannel) <= 1
    /\ balances \in [Holder -> Int] /\ completed \in Block
    /\ failure \in ErrorKind \cup {"none", "incomplete", "balances", "reserve", "write"}

(* Once scanRanges has returned without an error, every event from the true  *)
(* deployment block to the cutoff was added exactly once, however ranges were *)
(* split, retried and interleaved.                                           *)
(* The types hold as well.                                                   *)
BalancesExact ==
    /\ TypeOK
    /\ main \in {"supply", "csv", "reserve", "summary", "passed"} =>
           low = flags.deployed /\ \A a \in Holder : balances[a] = TrueBalance(a)

(* The error a failed scan exits with is the error that stopped it, never the *)
(* cancellation it caused in the other workers, and never an incomplete count:*)
(* no range is lost without an error, and both counters wrap together.        *)
RootCauseReported == failure \notin {"cancelled", "incomplete"}

(* The program ends: no channel is waited on for ever. *)
Ends == <>(main \in {"passed", "fatal"})

(* A summary is published only beside a CSV with the true balances, whose     *)
(* total it states.                                                           *)
SummaryBacked ==
    summary # <<>> =>
        /\ csv = <<{<<a, TrueBalance(a)>> : a \in {h \in Holder : TrueBalance(h) # 0}}>>
        /\ summary[1].total = SumFunction([a \in Holder |-> TrueBalance(a)])
=============================================================================
