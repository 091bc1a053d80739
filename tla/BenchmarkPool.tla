--------------------------- MODULE BenchmarkPool ---------------------------
(***************************************************************************)
(* One concurrency level of a benchmark: a warm-up, then repetitions in    *)
(* which a pool of workers measures, the collection of what they measured, *)
(* and the two output files.                                               *)
(*                                                                         *)
(* The harnesses share this shape and differ in how a repetition ends:     *)
(*   "threads"  MiddleLayerCorpusRunner and SunXacmlCorpusRunner wait for  *)
(*              every worker and then collect; an Exception of an          *)
(*              evaluation is caught and the call still timed, only a Java *)
(*              Error makes a worker raise;                                *)
(*   "futures"  run-authzforce-benchmark.py collects worker by worker      *)
(*              while later ones still run; a call that exits nonzero is   *)
(*              timed like any other, one that times out makes its worker  *)
(*              raise;                                                     *)
(*   "files"    run-casbin-benchmark.py collects in the same way.  A       *)
(*              worker is a process that leaves its rows in a file; it     *)
(*              never checks that they got there, and whatever rows the    *)
(*              file holds are taken.  A process that exits nonzero, or a  *)
(*              file that is missing or cannot be parsed, makes the worker *)
(*              raise; there is no timeout.                                *)
(* When a worker raised, the program waits for the others and ends without *)
(* output.  The raw file and the summary are written to a disk that has    *)
(* room; CorpusRun models the loss of these.                               *)
(*                                                                         *)
(* The samples are sorted before anything is computed from them, so all    *)
(* that is kept of them is how many are at most v, for every v.            *)
(***************************************************************************)
EXTENDS Integers, Sequences

CONSTANTS
  Concurrency,    \* workers of this level
  Measured,       \* measured_iterations
  Repetitions,    \* repetitions
  ScenarioCount,  \* rows of scenarios.tsv
  Latencies,      \* the latencies a call can take
  MaxLatency,     \* bound on the latencies
  Cuts            \* the lengths a Casbin worker's file may be cut to

ASSUME PoolAssumption ==
  /\ {Concurrency, Measured, Repetitions, ScenarioCount} \subseteq Nat \ {0}
  /\ MaxLatency \in Nat /\ Latencies \subseteq 0..MaxLatency
  /\ Cuts \subseteq 0..(Measured - 1)

VARIABLES
  mode,     \* "threads", "futures" or "files"
  pc,       \* where the main program is
  rep,      \* the current repetition
  worker,   \* per worker: "idle", "running", "finished" or "raised"
  batch,    \* per worker: the rows of this repetition
  taken,    \* per worker: how many latencies of batch are at most v
  next,     \* the worker the collecting loop is at
  rows,     \* all_rows / allRawLines
  counts,   \* all_latencies / allLatencies: how many are at most v
  short,    \* history: a batch came with fewer rows than were measured
  raw,      \* the rows of the raw file, once written
  summary   \* the summary file, once written

vars == <<mode, pc, rep, worker, batch, taken, next, rows, counts, short, raw, summary>>

Workers == 0..(Concurrency - 1)

None == [v \in 0..MaxLatency |-> 0]

\* One more sample, of latency l.
WithSample(count, l) == [v \in 0..MaxLatency |-> IF l <= v THEN count[v] + 1 ELSE count[v]]

Total == counts[MaxLatency]

Init ==
  /\ mode \in {"threads", "futures", "files"}
  /\ pc = "warmup"
  /\ rep = 0
  /\ worker = [w \in Workers |-> "idle"]
  /\ batch = [w \in Workers |-> <<>>]
  /\ taken = [w \in Workers |-> None]
  /\ next = 0
  /\ rows = <<>>
  /\ counts = None
  /\ short = FALSE
  /\ raw = <<>>
  /\ summary = <<>>

\* The warm-up ends.  Its evaluations leave nothing behind; one that raises
\* ends the program.
WarmUp ==
  /\ pc = "warmup"
  /\ pc' = "submit"
  /\ UNCHANGED <<mode, rep, worker, batch, taken, next, rows, counts, short, raw, summary>>

WarmUpRaises ==
  /\ pc = "warmup"
  /\ pc' = "failed"
  /\ UNCHANGED <<mode, rep, worker, batch, taken, next, rows, counts, short, raw, summary>>

\* Start one worker per slot of the pool, or leave the loop.
Submit ==
  /\ pc = "submit"
  /\ IF rep < Repetitions
     THEN /\ worker' = [w \in Workers |-> "running"]
          /\ batch' = [w \in Workers |-> <<>>]
          /\ taken' = [w \in Workers |-> None]
          /\ pc' = "collect"
     ELSE /\ pc' = "write"
          /\ UNCHANGED <<worker, batch, taken>>
  /\ UNCHANGED <<mode, rep, next, rows, counts, short, raw, summary>>

\* The scenario of a worker's i-th call: every worker starts from the first.
Scenario(i) == i % ScenarioCount

\* The row of that call.
Row(w, i) == [rep |-> rep, worker |-> w, iteration |-> i, scenario |-> Scenario(i)]

\* One timed call of a worker.
Measure(w) ==
  /\ worker[w] = "running"
  /\ Len(batch[w]) < Measured
  /\ \E l \in Latencies : taken' = [taken EXCEPT ![w] = WithSample(@, l)]
  /\ batch' = [batch EXCEPT ![w] = Append(@, Row(w, Len(@)))]
  /\ UNCHANGED <<mode, pc, rep, worker, next, rows, counts, short, raw, summary>>

\* A worker returns its rows.
Finish(w) ==
  /\ worker[w] = "running"
  /\ Len(batch[w]) = Measured
  /\ worker' = [worker EXCEPT ![w] = "finished"]
  /\ UNCHANGED <<mode, pc, rep, batch, taken, next, rows, counts, short, raw, summary>>

\* The rows after these never reach the file of a Casbin worker, whose stream
\* has failed: it measures on, exits with 0, and run_worker takes the rows
\* that are there.
FinishShort(w) ==
  /\ mode = "files"
  /\ worker[w] = "running"
  /\ Len(batch[w]) \in Cuts
  /\ worker' = [worker EXCEPT ![w] = "finished"]
  /\ UNCHANGED <<mode, pc, rep, batch, taken, next, rows, counts, short, raw, summary>>

\* A call of AuthzForce times out, a Casbin process fails or leaves a file
\* that cannot be parsed, or Java throws an Error.
Raise(w) ==
  /\ worker[w] = "running"
  /\ worker' = [worker EXCEPT ![w] = "raised"]
  /\ UNCHANGED <<mode, pc, rep, batch, taken, next, rows, counts, short, raw, summary>>

\* Faulty: results are collected as the workers complete.
FaultyCollect ==
  /\ pc = "collect"
  /\ next < Concurrency
  /\ \E w \in Workers :
       /\ worker[w] = "finished"
       /\ rows' = rows \o batch[w]
       /\ counts' = [v \in 0..MaxLatency |-> counts[v] + taken[w][v]]
       /\ worker' = [worker EXCEPT ![w] = "idle"]
       /\ short' = (short \/ Len(batch[w]) < Measured)
  /\ next' = next + 1
  /\ UNCHANGED <<mode, pc, rep, batch, taken, raw, summary>>

\* invokeAll returns when no worker runs; fut.result() waits for its own.
Awaited == mode = "threads" => \A w \in Workers : worker[w] # "running"

\* The result of the next worker in line is appended.
Collect ==
  /\ pc = "collect"
  /\ next < Concurrency
  /\ worker[next] = "finished"
  /\ Awaited
  /\ rows' = rows \o batch[next]
  /\ counts' = [v \in 0..MaxLatency |-> counts[v] + taken[next][v]]
  /\ worker' = [worker EXCEPT ![next] = "idle"]
  /\ short' = (short \/ Len(batch[next]) < Measured)
  /\ next' = next + 1
  /\ UNCHANGED <<mode, pc, rep, batch, taken, raw, summary>>

\* Faulty: what was collected before the exception is written out.
FaultyCollectRaises ==
  /\ pc = "collect"
  /\ next < Concurrency
  /\ worker[next] = "raised"
  /\ pc' = IF rows = <<>> THEN "shutdown" ELSE "write"
  /\ UNCHANGED <<mode, rep, worker, batch, taken, next, rows, counts, short, raw, summary>>

\* f.get() or fut.result() raises: the finally clause, or leaving the with
\* statement, shuts the pool down.
CollectRaises ==
  /\ pc = "collect"
  /\ next < Concurrency
  /\ worker[next] = "raised"
  /\ Awaited
  /\ pc' = "shutdown"
  /\ UNCHANGED <<mode, rep, worker, batch, taken, next, rows, counts, short, raw, summary>>

\* Faulty: the shutdown waits for workers that return their rows.
FaultyShutdown ==
  /\ pc = "shutdown"
  /\ \A w \in Workers : worker[w] \in {"idle", "finished"}
  /\ pc' = "failed"
  /\ UNCHANGED <<mode, rep, worker, batch, taken, next, rows, counts, short, raw, summary>>

\* shutdown(wait=True): the program ends once no worker runs.
Shutdown ==
  /\ pc = "shutdown"
  /\ \A w \in Workers : worker[w] # "running"
  /\ pc' = "failed"
  /\ UNCHANGED <<mode, rep, worker, batch, taken, next, rows, counts, short, raw, summary>>

\* Every result of the repetition is in.
EndRepetition ==
  /\ pc = "collect"
  /\ next = Concurrency
  /\ rep' = rep + 1
  /\ next' = 0
  /\ pc' = "submit"
  /\ UNCHANGED <<mode, worker, batch, taken, rows, counts, short, raw, summary>>

WriteRaw ==
  /\ pc = "write"
  /\ raw' = rows
  /\ pc' = "summarise"
  /\ UNCHANGED <<mode, rep, worker, batch, taken, next, rows, counts, short, summary>>

-----------------------------------------------------------------------------
(***************************************************************************)
(* The summary                                                             *)
(***************************************************************************)

\* How many samples are at most v.
AtMost(v) == IF v < 0 THEN 0 ELSE counts[v]

\* sorted[idx], the indices counted from zero.
Sorted(idx) ==
  CHOOSE v \in 0..MaxLatency :
    /\ AtMost(v) > idx
    /\ \A u \in 0..MaxLatency : AtMost(u) > idx => v <= u

\* Faulty: the index is rounded down.
FaultyRank(p) == (p * Total) \div 100

\* percentile's index: ceil(p n / 100) - 1.
Rank(p) == ((p * Total + 99) \div 100) - 1

\* percentile: the index is kept inside of the list.
Percentile(p) ==
  LET low == IF Rank(p) < 0 THEN 0 ELSE Rank(p)
  IN Sorted(IF low >= Total THEN Total - 1 ELSE low)

\* Twice the median: the scripts take the middle of the two middle samples
\* (statistics.median), the Java runners the lower one (percentile 0.50).
TwiceMedian ==
  IF mode # "threads"
  THEN Sorted((Total - 1) \div 2) + Sorted(Total \div 2)
  ELSE 2 * Percentile(50)

Summary == [sample_count |-> Total,
            min |-> Sorted(0),
            max |-> Sorted(Total - 1),
            twice_median |-> TwiceMedian,
            p95 |-> Percentile(95),
            p99 |-> Percentile(99)]

WriteSummary ==
  /\ pc = "summarise"
  /\ Total > 0
  /\ summary' = Summary
  /\ pc' = "done"
  /\ UNCHANGED <<mode, rep, worker, batch, taken, next, rows, counts, short, raw>>

\* statistics.mean raises when no file held a row.
SummaryRaises ==
  /\ pc = "summarise"
  /\ Total = 0
  /\ pc' = "failed"
  /\ UNCHANGED <<mode, rep, worker, batch, taken, next, rows, counts, short, raw, summary>>

Main ==
  \/ WarmUp
  \/ WarmUpRaises
  \/ Submit
  \/ Collect
  \/ CollectRaises
  \/ Shutdown
  \/ EndRepetition
  \/ WriteRaw
  \/ WriteSummary
  \/ SummaryRaises

Work(w) == Measure(w) \/ Finish(w) \/ FinishShort(w) \/ Raise(w)

Next == Main \/ \E w \in Workers : Work(w)

Spec == Init /\ [][Next]_vars

\* The main program goes on when it can, and so does every worker: each is
\* a thread the operating system schedules.  That a worker's call comes back is
\* assumed: of the subprocesses only AuthzForce's have a timeout.
FairSpec == Spec /\ WF_vars(Main) /\ \A w \in Workers : WF_vars(Work(w))

-----------------------------------------------------------------------------
(***************************************************************************)
(* Properties                                                              *)
(***************************************************************************)

\* What the samples of a level are whatever order the workers run and end in.
Log == INSTANCE BenchmarkLog WITH batches <- rep * Concurrency + next

\* The pool implements the log: rows are appended batch by batch, in the order
\* of the repetitions and of the workers, never of their completion, and a
\* batch that is short is the beginning of the one due
\* (MiddleLayerCorpusRunner 168-174, run-casbin-benchmark.py 97-103).
ImplementsLog == Log!Spec

\* A summary counts the rows of the raw file, and its sample count tells
\* whether they are all there: it is workers times calls times repetitions
\* exactly when no batch came short, and only a Casbin worker's file can.  A
\* worker that raised leaves no summary of the rest.
SummaryCountsEverySample ==
  pc = "done" =>
    /\ summary.sample_count = Len(raw)
    /\ summary.sample_count = Concurrency * Measured * Repetitions <=> ~short
    /\ mode # "files" => ~short

\* The reported percentiles are nearest ranks: at least p percent of the
\* samples are at most the value, and fewer are below it; and as many samples
\* may lie below the median as above it (percentile, writeSummary).
PercentilesAreNearestRank ==
  LET below(v) == AtMost(v - 1)
      nearest(v, p) ==
        /\ 100 * AtMost(v) >= p * Total
        /\ 100 * below(v) < p * Total
  IN pc = "done" =>
       /\ nearest(summary.p95, 95)
       /\ nearest(summary.p99, 99)
       /\ summary.min <= summary.p95 /\ summary.p95 <= summary.p99
       /\ summary.p99 <= summary.max
       /\ 2 * below((summary.twice_median + 1) \div 2) <= Total
       /\ 2 * AtMost(summary.twice_median \div 2) >= Total

\* The program comes to an end, with its files or without: neither a slow nor
\* a failing worker leaves the main program waiting, whichever worker it is
\* and whatever the others are at.
PoolEnds == <>(pc \in {"done", "failed"})
=============================================================================
