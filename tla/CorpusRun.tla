----------------------------- MODULE CorpusRun ------------------------------
(***************************************************************************)
(* One machine's results directory under repeated executions of            *)
(* run-correctness.sh and run-benchmark.sh for its engine: the gate, the   *)
(* per-scenario records it leaves in <engine>.<scale>.jsonl, and the raw   *)
(* and summary file of every concurrency level that follow it.  Any step   *)
(* may fail, any process may be killed, and a write may be lost on a full  *)
(* disk; "set -e" stops the script at the first process that fails.        *)
(***************************************************************************)
EXTENDS Integers, Sequences

CONSTANTS
  Expected,   \* the expected decision of every canonical scenario
  Levels,     \* the number of concurrency levels in the manifest
  MaxRuns     \* bound: how often a script is started

ASSUME CorpusRunAssumption ==
  /\ Expected \in Seq({"Permit", "Deny", "NotApplicable", "Indeterminate"})
  /\ Levels \in Nat \ {0} /\ MaxRuns \in Nat

VARIABLES
  engine,     \* the engine of this machine
  script,     \* the script that runs, or ran last
  pc,         \* where it is
  run,        \* its number: the run_id
  status,     \* how it ended
  lines,      \* the records this run has handed to its output stream
  correct,    \* how many of them are correct
  supportedCount,  \* how many of them are of supported scenarios
  jsonl,      \* the records file: its run, its records, whether it was closed
  level,      \* the concurrency level being measured
  raw,        \* raw[l]: the raw samples file of level l
  summary,    \* summary[l]: the summary file of level l
  passed,     \* history: the runs whose correctness gate passed
  lost        \* history: the runs that lost a write without noticing

counters == <<correct, supportedCount>>

vars == <<engine, script, pc, run, status, lines, counters, jsonl, level, raw,
          summary, passed, lost>>

Engines == {"middle-layer", "sunxacml", "authzforce", "casbin-cpp"}

Total == Len(Expected)

NoFile == [run |-> 0, whole |-> FALSE]

Init ==
  /\ engine \in Engines
  /\ script = "correctness" /\ pc = "idle" /\ run = 0 /\ status = "none"
  /\ lines = <<>> /\ correct = 0 /\ supportedCount = 0
  /\ jsonl = [run |-> 0, lines |-> <<>>, whole |-> FALSE]
  /\ level = 1
  /\ raw = [l \in 1..Levels |-> NoFile]
  /\ summary = [l \in 1..Levels |-> NoFile]
  /\ passed = {} /\ lost = {}

(* Faulty: the script goes on to the benchmark after a failed gate.        *)
FaultyStop ==
  IF script = "benchmark" /\ pc = "verdict" THEN pc' = "measure" /\ level' = 1 /\ status' = status
  ELSE pc' = "idle" /\ status' = "failed" /\ UNCHANGED level

(* A process exits with an error: "set -e" ends the script.                *)
Stop == pc' = "idle" /\ status' = "failed" /\ UNCHANGED level

(* One script at a time uses the directory: the scripts take no lock, and  *)
(* two of them started together are not represented.                       *)
Start(s) ==
  /\ pc = "idle" /\ run < MaxRuns
  /\ script' = s /\ run' = run + 1 /\ pc' = "corpus" /\ status' = "running"
  /\ lines' = <<>> /\ correct' = 0 /\ supportedCount' = 0
  /\ UNCHANGED <<engine, jsonl, level, raw, summary, passed, lost>>

GenerateCorpus ==
  /\ pc = "corpus"
  /\ \/ pc' = "load" /\ UNCHANGED <<status, level>>
     \/ Stop
  /\ UNCHANGED <<engine, script, run, lines, counters, jsonl, raw, summary, passed, lost>>

-----------------------------------------------------------------------------
(* The correctness runners.                                                *)

(* Faulty: the records of an earlier run are taken for this run's.         *)
FaultyLoadPolicy ==
  /\ pc = "load" /\ pc' = "verdict"
  /\ lines' = [i \in 1..Total |-> [actual |-> Expected[i], supported |-> TRUE, correct |-> TRUE]]
  /\ correct' = Total /\ supportedCount' = Total
  /\ UNCHANGED <<engine, script, run, status, jsonl, level, raw, summary, passed, lost>>

(* The policy is loaded (and the Middle Layer warmed up) before the        *)
(* records file is opened, which truncates it.  A file that cannot be      *)
(* opened is an exception, but not for Casbin: an ofstream takes the       *)
(* records and drops them.                                                 *)
LoadPolicy ==
  /\ pc = "load"
  /\ \/ /\ pc' = "rows"
        /\ jsonl' = [run |-> run, lines |-> <<>>, whole |-> FALSE]
        /\ UNCHANGED <<status, level, lost>>
     \/ Stop /\ UNCHANGED <<jsonl, lost>>
     \/ /\ engine = "casbin-cpp" /\ pc' = "rows" /\ lost' = lost \cup {run}
        /\ UNCHANGED <<jsonl, status, level>>
  /\ UNCHANGED <<engine, script, run, lines, counters, raw, summary, passed>>

(* The records file after records went to the stream, if it did open.      *)
Written(records, whole) ==
  IF jsonl.run = run THEN [jsonl EXCEPT !.lines = records, !.whole = whole] ELSE jsonl

(* The record of one scenario: "null" is the answer of an engine that      *)
(* threw, or of a CLI whose output has no decision.  Casbin calls a        *)
(* scenario unsupported when it expects NotApplicable or Enforce() throws. *)
Record(expected, actual) ==
  LET supported == engine # "casbin-cpp" \/ (expected # "NotApplicable" /\ actual # "null")
  IN  [actual |-> actual, supported |-> supported, correct |-> supported /\ actual = expected]

Actuals ==
  IF engine = "casbin-cpp" THEN {"Permit", "Deny", "null"}
  ELSE {"Permit", "Deny", "NotApplicable", "Indeterminate", "null"}

EvaluateScenario ==
  /\ pc = "rows" /\ Len(lines) < Total
  /\ \E actual \in Actuals :
       LET record == Record(Expected[Len(lines) + 1], actual)
       IN  /\ lines' = Append(lines, record)
           /\ correct' = IF record.correct THEN correct + 1 ELSE correct
           /\ supportedCount' = IF record.supported THEN supportedCount + 1 ELSE supportedCount
  /\ UNCHANGED <<engine, script, pc, run, status, jsonl, level, raw, summary, passed, lost>>

(* What escapes the loop (the CLI's timeout, a Java Error) closes the      *)
(* records file on its way out.                                            *)
AbortRows ==
  /\ pc = "rows" /\ engine # "casbin-cpp" /\ Len(lines) < Total
  /\ jsonl' = Written(lines, FALSE)
  /\ Stop
  /\ UNCHANGED <<engine, script, run, lines, counters, raw, summary, passed, lost>>

CloseJsonl ==
  /\ pc = "rows" /\ Len(lines) = Total
  /\ jsonl' = Written(lines, TRUE)
  /\ pc' = "verdict"
  /\ UNCHANGED <<engine, script, run, status, lines, counters, level, raw, summary, passed, lost>>

(* A full disk: Python raises, PrintWriter and ofstream say nothing.       *)
LoseJsonl ==
  /\ pc = "rows" /\ Len(lines) = Total
  /\ \E n \in 0..(Len(lines) - 1) : jsonl' = Written(SubSeq(lines, 1, n), FALSE)
  /\ IF engine = "authzforce"
     THEN Stop /\ UNCHANGED lost
     ELSE pc' = "verdict" /\ lost' = lost \cup {run} /\ UNCHANGED <<status, level>>
  /\ UNCHANGED <<engine, script, run, lines, counters, raw, summary, passed>>

(* Faulty: it is enough that every scenario was evaluated.                 *)
FaultyAllCorrect == Len(lines) = Total

(* Casbin's runner compares with the supported scenarios, the others with  *)
(* all of them.                                                            *)
AllCorrect == correct = IF engine = "casbin-cpp" THEN supportedCount ELSE Len(lines)

(* The exit code, and what the script makes of it.                         *)
Verdict ==
  /\ pc = "verdict"
  /\ \/ /\ AllCorrect
        /\ passed' = passed \cup {run}
        /\ IF script = "benchmark" THEN pc' = "measure" /\ level' = 1 /\ UNCHANGED status
                                   ELSE pc' = "idle" /\ status' = "ok" /\ UNCHANGED level
     \/ ~AllCorrect /\ Stop /\ UNCHANGED passed
  /\ UNCHANGED <<engine, script, run, lines, counters, jsonl, raw, summary, lost>>

-----------------------------------------------------------------------------
(* The benchmark runners, once per concurrency level.                      *)

(* Faulty: the summary is written before the samples are.                  *)
FaultyMeasureLevel ==
  /\ pc = "measure" /\ pc' = "statistics"
  /\ UNCHANGED <<engine, script, run, status, lines, counters, jsonl, level, raw, summary, passed, lost>>

(* Samples are kept in memory until all repetitions are done.  How many    *)
(* they are is the matter of BenchmarkPool, in which the temporary file of *)
(* a Casbin worker may be cut; a file below is whole when it has all that  *)
(* was handed to it.                                                       *)
MeasureLevel ==
  /\ pc = "measure"
  /\ \/ pc' = "samples" /\ UNCHANGED <<status, level>>
     \/ Stop
  /\ UNCHANGED <<engine, script, run, lines, counters, jsonl, raw, summary, passed, lost>>

OpenRaw ==
  /\ pc = "samples"
  /\ raw' = [raw EXCEPT ![level] = [run |-> run, whole |-> FALSE]]
  /\ pc' = "raw"
  /\ UNCHANGED <<engine, script, run, status, lines, counters, jsonl, level, summary, passed, lost>>

(* Both output files close whole, or lose a write: silently in Java, with  *)
(* an exception in the Python orchestrators.                               *)
CloseOrLose(file, next) ==
  \/ file' = [file EXCEPT ![level] = [run |-> run, whole |-> TRUE]] /\ next /\ UNCHANGED lost
  \/ /\ engine \in {"middle-layer", "sunxacml"}
     /\ UNCHANGED file /\ next /\ lost' = lost \cup {run}
  \/ engine \in {"authzforce", "casbin-cpp"} /\ UNCHANGED <<file, lost>> /\ Stop

CloseRaw ==
  /\ pc = "raw"
  /\ CloseOrLose(raw, pc' = "statistics" /\ UNCHANGED <<status, level>>)
  /\ UNCHANGED <<engine, script, run, lines, counters, jsonl, summary, passed>>

(* Faulty: every level writes the summary of the last one.                 *)
FaultyOpenSummary ==
  /\ pc = "statistics"
  /\ summary' = [summary EXCEPT ![Levels] = [run |-> run, whole |-> FALSE]]
  /\ pc' = "summary"
  /\ UNCHANGED <<engine, script, run, status, lines, counters, jsonl, level, raw, passed, lost>>

(* A mean of no samples raises, which leaves what Kill leaves here.        *)
OpenSummary ==
  /\ pc = "statistics"
  /\ summary' = [summary EXCEPT ![level] = [run |-> run, whole |-> FALSE]]
  /\ pc' = "summary"
  /\ UNCHANGED <<engine, script, run, status, lines, counters, jsonl, level, raw, passed, lost>>

(* Faulty: the same level is measured again.                               *)
FaultyCloseSummary ==
  /\ pc = "summary"
  /\ CloseOrLose(summary, pc' = "measure" /\ UNCHANGED <<status, level>>)
  /\ UNCHANGED <<engine, script, run, lines, counters, jsonl, raw, passed>>

(* Faulty: the script ends after the first level.                          *)
FaultyOneLevel ==
  /\ pc = "summary"
  /\ CloseOrLose(summary, pc' = "idle" /\ status' = "ok" /\ UNCHANGED level)
  /\ UNCHANGED <<engine, script, run, lines, counters, jsonl, raw, passed>>

CloseSummary ==
  /\ pc = "summary"
  /\ CloseOrLose(summary,
       IF level < Levels THEN pc' = "measure" /\ level' = level + 1 /\ UNCHANGED status
       ELSE pc' = "idle" /\ status' = "ok" /\ UNCHANGED level)
  /\ UNCHANGED <<engine, script, run, lines, counters, jsonl, raw, passed>>

-----------------------------------------------------------------------------
(* The script and its child are killed: a stream loses what it has         *)
(* buffered.  A child that dies alone is a failed process to the script; a *)
(* script that dies alone leaves its child writing, which is not           *)
(* represented.                                                            *)
Kill ==
  /\ pc # "idle"
  /\ IF pc = "rows"
     THEN \E n \in 0..Len(lines) : jsonl' = Written(SubSeq(lines, 1, n), FALSE)
     ELSE UNCHANGED jsonl
  /\ pc' = "idle" /\ status' = "failed"
  /\ UNCHANGED <<engine, script, run, lines, counters, level, raw, summary, passed, lost>>

Step ==
  \/ GenerateCorpus \/ LoadPolicy \/ EvaluateScenario \/ AbortRows
  \/ CloseJsonl \/ LoseJsonl \/ Verdict
  \/ MeasureLevel \/ OpenRaw \/ CloseRaw \/ OpenSummary \/ CloseSummary

Next == (\E s \in {"correctness", "benchmark"} : Start(s)) \/ Step \/ Kill

Spec == Init /\ [][Next]_vars

(* A script that was started keeps running: the operating system schedules *)
(* it, every engine call returns (AuthzForce's has a timeout).             *)
FairSpec == Spec /\ WF_vars(Step)

-----------------------------------------------------------------------------
(* Records of a run that passed the gate, unless writes were lost, are     *)
(* complete and show the expected decision for every supported scenario.   *)
PassMeansAllCorrect ==
  (jsonl.run \in passed \ lost) =>
    /\ jsonl.whole /\ Len(jsonl.lines) = Total
    /\ \A i \in 1..Total : jsonl.lines[i].supported => jsonl.lines[i].actual = Expected[i]

(* "Requires the correctness gate to pass first": no step touches a raw or *)
(* summary file, an earlier run's included, unless its run has passed.     *)
ResultsNeedGate ==
  [][(raw' # raw \/ summary' # summary) => run \in passed]_vars

(* When the scripts are idle and the records file is not the last run's,   *)
(* that run failed before it evaluated a single scenario, or it is one of  *)
(* Casbin's that lost its records without noticing.                        *)
StaleRecordsMeanEarlyFailure ==
  (pc = "idle" /\ jsonl.run # run) =>
    \/ status = "failed" /\ lines = <<>> /\ run \notin passed
    \/ engine = "casbin-cpp" /\ run \in lost

(* The levels are measured in the manifest's order: a file of a lower      *)
(* level is never older than one of a higher level.                        *)
LevelsInOrder ==
  \A i, j \in 1..Levels : i < j =>
    raw[i].run >= raw[j].run /\ summary[i].run >= summary[j].run

(* A summary is never newer than the samples it was computed from, and     *)
(* samples of the same run are all there, unless writes were lost.         *)
RawBacksSummary ==
  \A l \in 1..Levels :
    /\ summary[l].run <= raw[l].run
    /\ (summary[l].run = raw[l].run /\ raw[l].run \notin lost \cup {0}) => raw[l].whole

(* A benchmark that ends well has replaced every file of every level, and  *)
(* unless writes were lost they are whole and the records are its own: no  *)
(* table mixes it with an earlier run.                                     *)
CompletedBenchmarkIsUniform ==
  (pc = "idle" /\ status = "ok" /\ script = "benchmark") =>
    /\ \A l \in 1..Levels : raw[l].run = run /\ summary[l].run = run
    /\ run \notin lost =>
         jsonl.run = run /\ \A l \in 1..Levels : raw[l].whole /\ summary[l].whole

(* A script that was started ends.                                         *)
ScriptEnds == (pc # "idle") ~> (pc = "idle")

-----------------------------------------------------------------------------
(* run-correctness.sh "never fabricates a pass": a run that passes the     *)
(* gate has given the expected answer to every scenario its engine is      *)
(* meant to support, those that do not expect NotApplicable.               *)
PassCoversApplicable ==
  (jsonl.run \in passed \ lost) =>
    \A i \in 1..Total : Expected[i] # "NotApplicable" => jsonl.lines[i].correct
=============================================================================
