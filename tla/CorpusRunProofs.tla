-------------------------- MODULE CorpusRunProofs ---------------------------
(***************************************************************************)
(* The results directory after any number of runs, over any number of      *)
(* concurrency levels.  The inductive invariant says how far the current   *)
(* run has come: files of the levels below the current one are its own,    *)
(* files of the levels above it are older.                                 *)
(***************************************************************************)
EXTENDS CorpusRun, TLAPS

Benchmarking == {"measure", "samples", "raw", "statistics", "summary"}

AnyFile == [run : Nat, whole : BOOLEAN]

(* File f of run r is all there, unless r lost a write.                    *)
Kept(f, r) == f.run = r /\ (r \notin lost => f.whole)

(* The records are the current run's, unless Casbin could not open them.   *)
Recorded == jsonl.run = run \/ (engine = "casbin-cpp" /\ run \in lost)

(* Where the current run is among the levels.                              *)
Progress ==
  /\ pc \in Benchmarking =>
       /\ script = "benchmark" /\ run \in passed /\ Recorded
       /\ \A l \in 1..(level - 1) : Kept(raw[l], run) /\ Kept(summary[l], run)
       /\ \A l \in (level + 1)..Levels : raw[l].run < run /\ summary[l].run < run
  /\ pc \in {"measure", "samples"} => raw[level].run < run
  /\ pc \in {"measure", "samples", "raw", "statistics"} => summary[level].run < run
  /\ pc = "raw" => raw[level].run = run
  /\ pc \in {"statistics", "summary"} => Kept(raw[level], run)
  /\ pc = "summary" => summary[level].run = run
  /\ pc \in {"corpus", "load", "rows", "verdict"} =>
       \A l \in 1..Levels : raw[l].run < run /\ summary[l].run < run
  /\ pc \in {"rows", "verdict"} => Recorded
  /\ pc \in {"corpus", "load"} => lines = <<>> /\ run \notin passed

ResultsInv ==
  /\ run \in Nat /\ level \in 1..Levels
  /\ raw \in [1..Levels -> AnyFile] /\ summary \in [1..Levels -> AnyFile]
  /\ pc \in {"idle", "corpus", "load", "rows", "verdict"} \cup Benchmarking
  /\ DOMAIN jsonl = {"run", "lines", "whole"}
  /\ passed \cup lost \subseteq 0..run
  /\ \A l \in 1..Levels : raw[l].run <= run /\ summary[l].run <= run
  /\ Progress
  /\ LevelsInOrder /\ RawBacksSummary
  /\ CompletedBenchmarkIsUniform /\ StaleRecordsMeanEarlyFailure

(* Before any run the directory is empty.                                  *)
LEMMA ResultsInit == Init => ResultsInv
<1> SUFFICES ASSUME Init PROVE ResultsInv
  OBVIOUS
<1> USE CorpusRunAssumption DEF Init, NoFile
<1>1. \A l \in 1..Levels : raw[l] = [run |-> 0, whole |-> FALSE] /\ summary[l] = raw[l]
  OBVIOUS
<1>2. LevelsInOrder /\ RawBacksSummary
  BY <1>1 DEF LevelsInOrder, RawBacksSummary
<1>3. CompletedBenchmarkIsUniform /\ StaleRecordsMeanEarlyFailure
  BY DEF CompletedBenchmarkIsUniform, StaleRecordsMeanEarlyFailure
<1>4. Progress
  BY DEF Progress, Benchmarking
<1>. QED  BY <1>1, <1>2, <1>3, <1>4 DEF ResultsInv, AnyFile

(* A step that leaves the result files, the run and the histories alone    *)
(* only has to re-establish what depends on where the script is.           *)
LEMMA FilesUnchanged ==
  ASSUME ResultsInv, UNCHANGED <<run, raw, summary, passed, lost>>, level' \in 1..Levels,
         pc' \in {"idle", "corpus", "load", "rows", "verdict"} \cup Benchmarking,
         DOMAIN jsonl' = {"run", "lines", "whole"},
         Progress', CompletedBenchmarkIsUniform', StaleRecordsMeanEarlyFailure'
  PROVE  ResultsInv'
BY DEF ResultsInv, LevelsInOrder, RawBacksSummary

(* A script that starts finds only older files.                            *)
LEMMA StartStep ==
  ASSUME ResultsInv, NEW s, Start(s) PROVE ResultsInv'
<1> USE CorpusRunAssumption
<1>1. /\ run' = run + 1 /\ pc' = "corpus" /\ lines' = <<>> /\ run \in Nat
      /\ UNCHANGED <<jsonl, level, raw, summary, passed, lost>>
  BY DEF Start, ResultsInv
<1>2. \A l \in 1..Levels : /\ raw[l].run \in Nat /\ summary[l].run \in Nat
                           /\ raw[l].run < run' /\ summary[l].run < run'
  BY SMTT(30), <1>1 DEF ResultsInv, AnyFile
<1>3. run' \notin passed'
  BY <1>1 DEF ResultsInv
<1>4. Progress'
  BY <1>1, <1>2, <1>3 DEF Progress, Benchmarking
<1>5. LevelsInOrder' /\ RawBacksSummary'
  BY <1>1 DEF ResultsInv, LevelsInOrder, RawBacksSummary
<1>6. CompletedBenchmarkIsUniform' /\ StaleRecordsMeanEarlyFailure'
  BY <1>1 DEF CompletedBenchmarkIsUniform, StaleRecordsMeanEarlyFailure
<1>7. (passed \cup lost)' \subseteq 0..run'
  <2>1. passed \cup lost \subseteq 0..run
    BY DEF ResultsInv
  <2>. QED  BY <1>1, <2>1
<1>. QED  BY <1>1, <1>2, <1>4, <1>5, <1>6, <1>7 DEF ResultsInv

(* A step that ends the script with a failure.                             *)
LEMMA FailureStep ==
  ASSUME ResultsInv, pc # "idle", pc' = "idle", status' = "failed", level' \in 1..Levels,
         UNCHANGED <<engine, run, lines, raw, summary, passed, lost>>,
         DOMAIN jsonl' = {"run", "lines", "whole"}, jsonl'.run = jsonl.run
  PROVE  ResultsInv'
<1>1. Progress'
  BY DEF Progress, Benchmarking
<1>2. CompletedBenchmarkIsUniform'
  BY DEF CompletedBenchmarkIsUniform
<1>3. Recorded \/ (lines = <<>> /\ run \notin passed)
  BY DEF ResultsInv, Progress, Benchmarking
<1>4. StaleRecordsMeanEarlyFailure'
  BY <1>3 DEF StaleRecordsMeanEarlyFailure, Recorded
<1>. QED  BY <1>1, <1>2, <1>4, FilesUnchanged

(* The steps up to the verdict touch no result file.                       *)
LEMMA GateSteps ==
  ASSUME ResultsInv,
         GenerateCorpus \/ LoadPolicy \/ EvaluateScenario \/ AbortRows \/ CloseJsonl
  PROVE  ResultsInv'
<1>0. level \in 1..Levels /\ DOMAIN jsonl = {"run", "lines", "whole"}
  BY DEF ResultsInv
<1>1. CASE GenerateCorpus
  <2>1. CASE pc' = "load" /\ UNCHANGED <<status, level>>
    <3>1. UNCHANGED <<run, raw, summary, passed, lost, lines, jsonl>> /\ pc = "corpus"
      BY <1>1 DEF GenerateCorpus
    <3>2. Progress'
      BY <2>1, <3>1 DEF ResultsInv, Progress, Benchmarking
    <3>. QED  BY <1>0, <2>1, <3>1, <3>2, FilesUnchanged
              DEF CompletedBenchmarkIsUniform, StaleRecordsMeanEarlyFailure
  <2>2. CASE Stop
    BY <1>0, <1>1, <2>2, FailureStep DEF GenerateCorpus, Stop
  <2>. QED  BY <1>1, <2>1, <2>2 DEF GenerateCorpus
<1>2. CASE LoadPolicy
  <2>1. CASE pc' = "rows"
    <3>1. UNCHANGED <<run, raw, summary, passed, level, engine>> /\ pc = "load"
      BY <1>2, <2>1 DEF LoadPolicy, Stop
    <3>2. CASE jsonl' = [run |-> run, lines |-> <<>>, whole |-> FALSE] /\ UNCHANGED lost
      <4>1. Progress'
        BY <2>1, <3>1, <3>2 DEF ResultsInv, Progress, Benchmarking, Recorded
      <4>. QED  BY <1>0, <2>1, <3>1, <3>2, <4>1, FilesUnchanged
                DEF CompletedBenchmarkIsUniform, StaleRecordsMeanEarlyFailure
    <3>3. CASE engine = "casbin-cpp" /\ lost' = lost \cup {run} /\ UNCHANGED jsonl
      <4>1. Progress'
        BY <2>1, <3>1, <3>3 DEF ResultsInv, Progress, Benchmarking, Recorded
      <4>2. LevelsInOrder' /\ RawBacksSummary'
        BY <3>1, <3>3 DEF ResultsInv, LevelsInOrder, RawBacksSummary
      <4>3. CompletedBenchmarkIsUniform' /\ StaleRecordsMeanEarlyFailure'
        BY <2>1 DEF CompletedBenchmarkIsUniform, StaleRecordsMeanEarlyFailure
      <4>4. (passed \cup lost)' \subseteq 0..run'
        <5>1. passed \cup lost \subseteq 0..run /\ run \in Nat
          BY DEF ResultsInv
        <5>. QED  BY <3>1, <3>3, <5>1
      <4>. QED  BY <1>0, <2>1, <3>1, <3>3, <4>1, <4>2, <4>3, <4>4 DEF ResultsInv
    <3>. QED  BY <1>2, <2>1, <3>2, <3>3 DEF LoadPolicy, Stop
  <2>2. CASE Stop /\ UNCHANGED <<jsonl, lost>>
    BY <1>0, <1>2, <2>2, FailureStep DEF LoadPolicy, Stop
  <2>. QED  BY <1>2, <2>1, <2>2 DEF LoadPolicy
<1>3. CASE EvaluateScenario
  <2>1. UNCHANGED <<run, raw, summary, passed, lost, level, pc, jsonl, engine>> /\ pc = "rows"
    BY <1>3 DEF EvaluateScenario
  <2>2. Progress'
    BY <2>1 DEF ResultsInv, Progress, Benchmarking, Recorded
  <2>. QED  BY <1>0, <2>1, <2>2, FilesUnchanged
            DEF CompletedBenchmarkIsUniform, StaleRecordsMeanEarlyFailure
<1>4. CASE AbortRows
  BY <1>0, <1>4, FailureStep DEF AbortRows, Stop, Written
<1>5. CASE CloseJsonl
  <2>1. /\ UNCHANGED <<run, raw, summary, passed, lost, level, engine>>
        /\ pc = "rows" /\ pc' = "verdict"
        /\ DOMAIN jsonl' = DOMAIN jsonl /\ jsonl'.run = jsonl.run
    BY <1>0, <1>5 DEF CloseJsonl, Written
  <2>2. Progress'
    BY <2>1 DEF ResultsInv, Progress, Benchmarking, Recorded
  <2>. QED  BY <1>0, <2>1, <2>2, FilesUnchanged
            DEF CompletedBenchmarkIsUniform, StaleRecordsMeanEarlyFailure
<1>. QED  BY <1>1, <1>2, <1>3, <1>4, <1>5

(* A lost write of the records goes unnoticed or ends the script.          *)
LEMMA LoseJsonlStep == ResultsInv /\ LoseJsonl => ResultsInv'
<1> SUFFICES ASSUME ResultsInv, LoseJsonl PROVE ResultsInv'
  OBVIOUS
<1>1. /\ level \in 1..Levels /\ DOMAIN jsonl' = {"run", "lines", "whole"}
      /\ jsonl'.run = jsonl.run /\ pc = "rows"
      /\ UNCHANGED <<engine, run, lines, raw, summary, passed>>
  BY DEF ResultsInv, LoseJsonl, Written
<1>2. CASE Stop /\ UNCHANGED lost
  BY <1>1, <1>2, FailureStep DEF Stop
<1>3. CASE pc' = "verdict" /\ lost' = lost \cup {run} /\ UNCHANGED <<status, level>>
  <2>1. Progress'
    BY <1>1, <1>3 DEF ResultsInv, Progress, Benchmarking, Recorded
  <2>2. RawBacksSummary' /\ LevelsInOrder'
    BY <1>1, <1>3 DEF ResultsInv, RawBacksSummary, LevelsInOrder
  <2>3. CompletedBenchmarkIsUniform' /\ StaleRecordsMeanEarlyFailure'
    BY <1>3 DEF CompletedBenchmarkIsUniform, StaleRecordsMeanEarlyFailure
  <2>. QED  BY <1>1, <1>3, <2>1, <2>2, <2>3 DEF ResultsInv
<1>. QED  BY <1>2, <1>3 DEF LoseJsonl

(* A gate that passes opens the benchmark at the first level.              *)
LEMMA VerdictStep == ResultsInv /\ Verdict => ResultsInv'
<1> SUFFICES ASSUME ResultsInv, Verdict PROVE ResultsInv'
  OBVIOUS
<1> USE CorpusRunAssumption
<1>1. /\ level \in 1..Levels /\ DOMAIN jsonl = {"run", "lines", "whole"} /\ run \in Nat
      /\ pc = "verdict" /\ Recorded
      /\ UNCHANGED <<engine, run, lines, jsonl, raw, summary, lost, script>>
      /\ \A l \in 1..Levels : raw[l].run < run /\ summary[l].run < run
  BY DEF ResultsInv, Verdict, Progress
<1>2. CASE Stop /\ UNCHANGED passed
  BY <1>1, <1>2, FailureStep DEF Stop
<1>3. CASE /\ passed' = passed \cup {run}
           /\ IF script = "benchmark" THEN pc' = "measure" /\ level' = 1 /\ UNCHANGED status
              ELSE pc' = "idle" /\ status' = "ok" /\ UNCHANGED level
  <2>1. Progress'
    <3>1. CASE pc' = "measure" /\ level' = 1 /\ script = "benchmark"
      <4>1. 1..(level' - 1) = {} /\ (level' + 1)..Levels \subseteq 1..Levels /\ 1 \in 1..Levels
        BY <3>1
      <4>. QED  BY <1>1, <1>3, <3>1, <4>1 DEF Progress, Benchmarking, Recorded
    <3>2. CASE pc' = "idle"
      BY <3>2 DEF Progress, Benchmarking
    <3>. QED  BY <1>3, <3>1, <3>2
  <2>2. RawBacksSummary' /\ LevelsInOrder'
    BY <1>1 DEF ResultsInv, RawBacksSummary, LevelsInOrder
  <2>3. CompletedBenchmarkIsUniform' /\ StaleRecordsMeanEarlyFailure'
    BY <1>1, <1>3 DEF CompletedBenchmarkIsUniform, StaleRecordsMeanEarlyFailure, Recorded
  <2>4. level' \in 1..Levels /\ pc' \in {"idle", "measure"}
    BY <1>1, <1>3
  <2>5. (passed \cup lost)' \subseteq 0..run'
    <3>1. passed \cup lost \subseteq 0..run
      BY DEF ResultsInv
    <3>. QED  BY <1>1, <1>3, <3>1
  <2>. QED  BY <1>1, <2>1, <2>2, <2>3, <2>4, <2>5 DEF ResultsInv, Benchmarking
<1>. QED  BY <1>2, <1>3 DEF Verdict

(* Measuring writes nothing.                                               *)
LEMMA MeasureStep == ResultsInv /\ MeasureLevel => ResultsInv'
<1> SUFFICES ASSUME ResultsInv, MeasureLevel PROVE ResultsInv'
  OBVIOUS
<1>1. /\ level \in 1..Levels /\ DOMAIN jsonl = {"run", "lines", "whole"}
      /\ pc = "measure" /\ UNCHANGED <<engine, run, lines, jsonl, raw, summary, lost, script, passed>>
  BY DEF ResultsInv, MeasureLevel
<1>2. CASE Stop
  BY <1>1, <1>2, FailureStep DEF Stop
<1>3. CASE pc' = "samples" /\ UNCHANGED <<status, level>>
  <2>1. Progress'
    BY <1>1, <1>3 DEF ResultsInv, Progress, Benchmarking, Kept, Recorded
  <2>. QED  BY <1>1, <1>3, <2>1, FilesUnchanged
            DEF CompletedBenchmarkIsUniform, StaleRecordsMeanEarlyFailure, Benchmarking
<1>. QED  BY <1>2, <1>3 DEF MeasureLevel

(* Opening the samples file of a level: its summary is older.              *)
LEMMA OpenRawStep == ResultsInv /\ OpenRaw => ResultsInv'
<1> SUFFICES ASSUME ResultsInv, OpenRaw PROVE ResultsInv'
  OBVIOUS
<1> USE CorpusRunAssumption
<1>1. /\ level \in 1..Levels /\ pc = "samples" /\ pc' = "raw" /\ run \in Nat
      /\ UNCHANGED <<engine, run, lines, jsonl, summary, lost, script, passed, level, status>>
      /\ raw \in [1..Levels -> AnyFile]
      /\ raw' = [raw EXCEPT ![level] = [run |-> run, whole |-> FALSE]]
  BY DEF ResultsInv, OpenRaw
<1>2. /\ raw'[level] = [run |-> run, whole |-> FALSE]
      /\ \A l \in 1..Levels : l # level => raw'[l] = raw[l]
      /\ raw' \in [1..Levels -> AnyFile]
  BY <1>1 DEF AnyFile
<1>3. Progress'
  <2>1. \A l \in 1..(level - 1) : l \in 1..Levels /\ l # level
    BY <1>1
  <2>2. \A l \in (level + 1)..Levels : l \in 1..Levels /\ l # level
    BY <1>1
  <2>. QED  BY <1>1, <1>2, <2>1, <2>2 DEF ResultsInv, Progress, Benchmarking, Kept, Recorded
<1>4. LevelsInOrder'
  <2> SUFFICES ASSUME NEW i \in 1..Levels, NEW j \in 1..Levels, i < j
               PROVE  raw'[i].run >= raw'[j].run
    BY <1>1 DEF ResultsInv, LevelsInOrder
  <2>1. raw[i].run >= raw[j].run /\ raw[j].run <= run /\ raw[i].run \in Nat /\ raw[j].run \in Nat
    BY Zenon, <1>1 DEF ResultsInv, LevelsInOrder, AnyFile
  <2>2. i < level => raw[i].run = run
    BY <1>1 DEF ResultsInv, Progress, Benchmarking, Kept
  <2>. QED  BY <1>1, <1>2, <2>1, <2>2
<1>5. RawBacksSummary'
  <2>1. summary[level].run < run /\ summary[level].run \in Nat
    BY <1>1 DEF ResultsInv, Progress, AnyFile
  <2> SUFFICES ASSUME NEW l \in 1..Levels
               PROVE  /\ summary[l].run <= raw'[l].run
                      /\ (summary[l].run = raw'[l].run /\ raw'[l].run \notin lost \cup {0})
                           => raw'[l].whole
    BY <1>1 DEF RawBacksSummary
  <2>2. CASE l = level
    BY <1>1, <1>2, <2>1, <2>2
  <2>3. CASE l # level
    BY <1>2, <2>3 DEF ResultsInv, RawBacksSummary
  <2>. QED  BY <2>2, <2>3
<1>6. \A l \in 1..Levels : raw'[l].run <= run /\ summary[l].run <= run
  BY <1>1, <1>2 DEF ResultsInv
<1>7. CompletedBenchmarkIsUniform' /\ StaleRecordsMeanEarlyFailure'
  BY <1>1 DEF CompletedBenchmarkIsUniform, StaleRecordsMeanEarlyFailure
<1>. QED  BY <1>1, <1>2, <1>3, <1>4, <1>5, <1>6, <1>7 DEF ResultsInv, Benchmarking

(* The samples are all there when the summary is computed, unless a write  *)
(* was lost.                                                               *)
LEMMA CloseRawStep == ResultsInv /\ CloseRaw => ResultsInv'
<1> SUFFICES ASSUME ResultsInv, CloseRaw PROVE ResultsInv'
  OBVIOUS
<1> USE CorpusRunAssumption
<1>1. /\ level \in 1..Levels /\ pc = "raw" /\ run \in Nat
      /\ UNCHANGED <<engine, run, lines, jsonl, summary, script, passed>>
      /\ DOMAIN jsonl = {"run", "lines", "whole"}
      /\ raw \in [1..Levels -> AnyFile] /\ raw[level].run = run /\ passed \cup lost \subseteq 0..run
  BY DEF ResultsInv, CloseRaw, Progress
<1>2. CASE UNCHANGED <<raw, lost>> /\ Stop
  BY <1>1, <1>2, FailureStep DEF Stop
<1>3. CASE /\ pc' = "statistics" /\ UNCHANGED <<status, level>>
           /\ \/ raw' = [raw EXCEPT ![level] = [run |-> run, whole |-> TRUE]] /\ UNCHANGED lost
              \/ UNCHANGED raw /\ lost' = lost \cup {run}
  <2>1. /\ raw' \in [1..Levels -> AnyFile] /\ raw'[level].run = run
        /\ \A l \in 1..Levels : l # level => raw'[l] = raw[l]
        /\ raw'[level].whole \/ run \in lost'
    <3>1. CASE raw' = [raw EXCEPT ![level] = [run |-> run, whole |-> TRUE]]
      BY <1>1, <3>1 DEF AnyFile
    <3>2. CASE UNCHANGED raw /\ lost' = lost \cup {run}
      BY <1>1, <3>2
    <3>. QED  BY <1>3, <3>1, <3>2
  <2>2. \A l \in 1..Levels : raw'[l].run = raw[l].run
    BY <1>1, <2>1
  <2>3. lost \subseteq lost' /\ (passed \cup lost)' \subseteq 0..run
    BY <1>1, <1>3
  <2>4. Progress'
    <3>1. \A l \in 1..(level - 1) : l \in 1..Levels /\ l # level
      BY <1>1
    <3>2. \A l \in (level + 1)..Levels : l \in 1..Levels /\ l # level
      BY <1>1
    <3>. QED  BY <1>1, <1>3, <2>1, <2>3, <3>1, <3>2
              DEF ResultsInv, Progress, Benchmarking, Kept, Recorded
  <2>5. LevelsInOrder'
    BY <1>1, <2>2 DEF ResultsInv, LevelsInOrder
  <2>6. RawBacksSummary'
    BY <1>1, <2>1, <2>2, <2>3 DEF ResultsInv, RawBacksSummary
  <2>7. CompletedBenchmarkIsUniform' /\ StaleRecordsMeanEarlyFailure'
    BY <1>3 DEF CompletedBenchmarkIsUniform, StaleRecordsMeanEarlyFailure
  <2>. QED  BY <1>1, <1>3, <2>1, <2>2, <2>3, <2>4, <2>5, <2>6, <2>7 DEF ResultsInv, Benchmarking
<1>. QED  BY <1>2, <1>3 DEF CloseRaw, CloseOrLose

(* Opening the summary of a level: its samples are this run's.             *)
LEMMA OpenSummaryStep == ResultsInv /\ OpenSummary => ResultsInv'
<1> SUFFICES ASSUME ResultsInv, OpenSummary PROVE ResultsInv'
  OBVIOUS
<1> USE CorpusRunAssumption
<1>1. /\ level \in 1..Levels /\ pc = "statistics" /\ pc' = "summary" /\ run \in Nat
      /\ UNCHANGED <<engine, run, lines, jsonl, raw, lost, script, passed, level, status>>
      /\ summary \in [1..Levels -> AnyFile] /\ Kept(raw[level], run)
      /\ summary' = [summary EXCEPT ![level] = [run |-> run, whole |-> FALSE]]
  BY DEF ResultsInv, OpenSummary, Progress
<1>2. /\ summary'[level] = [run |-> run, whole |-> FALSE]
      /\ \A l \in 1..Levels : l # level => summary'[l] = summary[l]
      /\ summary' \in [1..Levels -> AnyFile]
  BY <1>1 DEF AnyFile
<1>3. Progress'
  <2>1. \A l \in 1..(level - 1) : l \in 1..Levels /\ l # level
    BY <1>1
  <2>2. \A l \in (level + 1)..Levels : l \in 1..Levels /\ l # level
    BY <1>1
  <2>. QED  BY <1>1, <1>2, <2>1, <2>2 DEF ResultsInv, Progress, Benchmarking, Kept, Recorded
<1>4. LevelsInOrder'
  <2> SUFFICES ASSUME NEW i \in 1..Levels, NEW j \in 1..Levels, i < j
               PROVE  summary'[i].run >= summary'[j].run
    BY <1>1 DEF ResultsInv, LevelsInOrder
  <2>1. /\ summary[i].run >= summary[j].run /\ summary[j].run <= run
        /\ summary[i].run \in Nat /\ summary[j].run \in Nat
    BY SMTT(30), <1>1 DEF ResultsInv, LevelsInOrder, AnyFile
  <2>2. i < level => summary[i].run = run
    BY <1>1 DEF ResultsInv, Progress, Benchmarking, Kept
  <2>. QED  BY <1>1, <1>2, <2>1, <2>2
<1>5. RawBacksSummary'
  BY <1>1, <1>2 DEF ResultsInv, RawBacksSummary, Kept
<1>6. \A l \in 1..Levels : raw[l].run <= run /\ summary'[l].run <= run
  BY <1>1, <1>2 DEF ResultsInv
<1>7. CompletedBenchmarkIsUniform' /\ StaleRecordsMeanEarlyFailure'
  BY <1>1 DEF CompletedBenchmarkIsUniform, StaleRecordsMeanEarlyFailure
<1>. QED  BY <1>1, <1>2, <1>3, <1>4, <1>5, <1>6, <1>7 DEF ResultsInv, Benchmarking

(* The last summary completes the run; an earlier one opens the next       *)
(* level, whose files are still older.                                     *)
LEMMA CloseSummaryStep == ResultsInv /\ CloseSummary => ResultsInv'
<1> SUFFICES ASSUME ResultsInv, CloseSummary PROVE ResultsInv'
  OBVIOUS
<1> USE CorpusRunAssumption
<1>1. /\ level \in 1..Levels /\ pc = "summary" /\ run \in Nat
      /\ UNCHANGED <<engine, run, lines, jsonl, raw, script, passed>>
      /\ DOMAIN jsonl = {"run", "lines", "whole"} /\ Recorded
      /\ summary \in [1..Levels -> AnyFile] /\ summary[level].run = run
      /\ passed \cup lost \subseteq 0..run
  BY DEF ResultsInv, CloseSummary, Progress, Benchmarking
<1>2. CASE UNCHANGED <<summary, lost>> /\ Stop
  BY <1>1, <1>2, FailureStep DEF Stop
<1>3. CASE /\ IF level < Levels THEN pc' = "measure" /\ level' = level + 1 /\ UNCHANGED status
              ELSE pc' = "idle" /\ status' = "ok" /\ UNCHANGED level
           /\ \/ /\ summary' = [summary EXCEPT ![level] = [run |-> run, whole |-> TRUE]]
                 /\ UNCHANGED lost
              \/ UNCHANGED summary /\ lost' = lost \cup {run}
  <2>1. /\ summary' \in [1..Levels -> AnyFile] /\ summary'[level].run = run
        /\ \A l \in 1..Levels : l # level => summary'[l] = summary[l]
        /\ summary'[level].whole \/ run \in lost'
    <3>1. CASE summary' = [summary EXCEPT ![level] = [run |-> run, whole |-> TRUE]]
      BY <1>1, <3>1 DEF AnyFile
    <3>2. CASE UNCHANGED summary /\ lost' = lost \cup {run}
      BY <1>1, <3>2
    <3>. QED  BY <1>3, <3>1, <3>2
  <2>2. \A l \in 1..Levels : summary'[l].run = summary[l].run
    BY <1>1, <2>1
  <2>3. lost \subseteq lost' /\ (passed \cup lost)' \subseteq 0..run
    BY <1>1, <1>3
  <2>4. \A l \in 1..level : l \in 1..Levels /\ Kept(raw[l], run)' /\ Kept(summary[l], run)'
    <3> SUFFICES ASSUME NEW l \in 1..level
                 PROVE  l \in 1..Levels /\ Kept(raw[l], run)' /\ Kept(summary[l], run)'
      OBVIOUS
    <3>1. l \in 1..Levels /\ (l # level => l \in 1..(level - 1))
      BY <1>1
    <3>2. Kept(raw[l], run) /\ (l # level => Kept(summary[l], run))
      BY <1>1, <3>1 DEF ResultsInv, Progress, Benchmarking
    <3>. QED  BY <1>1, <2>1, <2>3, <3>1, <3>2 DEF Kept
  <2>5. \A l \in (level + 1)..Levels : /\ l \in 1..Levels
                                       /\ raw[l].run < run /\ summary'[l].run < run
    <3>1. \A l \in (level + 1)..Levels : l \in 1..Levels
      BY <1>1
    <3>. QED  BY ZenonT(30), <1>1, <2>2, <3>1 DEF ResultsInv, Progress, Benchmarking
  <2>6. Progress'
    <3>1. CASE level < Levels
      <4>1. pc' = "measure" /\ level' = level + 1
        BY <1>3, <3>1
      <4>2. 1..(level' - 1) = 1..level /\ level' \in (level + 1)..Levels
        BY <1>1, <3>1, <4>1
      <4>3. (level' + 1)..Levels \subseteq (level + 1)..Levels
        BY <1>1, <4>1
      <4>4. script = "benchmark" /\ run \in passed
        BY <1>1 DEF ResultsInv, Progress, Benchmarking
      <4>. QED  BY <1>1, <2>3, <2>4, <2>5, <4>1, <4>2, <4>3, <4>4
                DEF Progress, Benchmarking, Recorded
    <3>2. CASE ~(level < Levels)
      BY <1>3, <3>2 DEF Progress, Benchmarking
    <3>. QED  BY <3>1, <3>2
  <2>7. LevelsInOrder'
    BY <1>1, <2>2 DEF ResultsInv, LevelsInOrder
  <2>8. RawBacksSummary'
    BY <1>1, <2>2, <2>3 DEF ResultsInv, RawBacksSummary
  <2>9. CompletedBenchmarkIsUniform' /\ StaleRecordsMeanEarlyFailure'
    <3>1. CASE level < Levels
      BY <1>3, <3>1 DEF CompletedBenchmarkIsUniform, StaleRecordsMeanEarlyFailure
    <3>2. CASE ~(level < Levels)
      <4>1. 1..level = 1..Levels
        BY <1>1, <3>2
      <4>. QED  BY <1>1, <2>3, <2>4, <4>1
                DEF CompletedBenchmarkIsUniform, StaleRecordsMeanEarlyFailure, Kept, Recorded
    <3>. QED  BY <3>1, <3>2
  <2>10. level' \in 1..Levels /\ pc' \in {"idle", "measure"}
    BY <1>1, <1>3
  <2>. QED  BY <1>1, <2>1, <2>2, <2>3, <2>6, <2>7, <2>8, <2>9, <2>10 DEF ResultsInv, Benchmarking
<1>. QED  BY <1>2, <1>3 DEF CloseSummary, CloseOrLose

(* A killed script leaves a prefix of its records and no result file that  *)
(* was not there.                                                          *)
LEMMA KillStep == ResultsInv /\ Kill => ResultsInv'
<1> SUFFICES ASSUME ResultsInv, Kill PROVE ResultsInv'
  OBVIOUS
<1>1. level \in 1..Levels /\ DOMAIN jsonl = {"run", "lines", "whole"}
  BY DEF ResultsInv
<1>2. DOMAIN jsonl' = {"run", "lines", "whole"} /\ jsonl'.run = jsonl.run
  BY Zenon, <1>1 DEF Kill, Written
<1>. QED  BY <1>1, <1>2, FailureStep DEF Kill

(* However the runs end, in whatever step they are killed: the levels stay *)
(* in order, summaries are backed by samples, a completed benchmark is of  *)
(* one piece, and stale records mean a run that died before its first      *)
(* scenario or one of Casbin's that could not open its records.            *)
THEOREM ResultsInvariant == Spec => []ResultsInv
<1>1. ResultsInv /\ [Next]_vars => ResultsInv'
  <2> SUFFICES ASSUME ResultsInv, [Next]_vars PROVE ResultsInv'
    OBVIOUS
  <2>1. CASE \E s \in {"correctness", "benchmark"} : Start(s)
    BY <2>1, StartStep
  <2>2. CASE GenerateCorpus \/ LoadPolicy \/ EvaluateScenario \/ AbortRows \/ CloseJsonl
    BY <2>2, GateSteps
  <2>3. CASE LoseJsonl \/ Verdict
    BY <2>3, LoseJsonlStep, VerdictStep
  <2>4. CASE MeasureLevel \/ OpenRaw \/ CloseRaw
    BY <2>4, MeasureStep, OpenRawStep, CloseRawStep
  <2>5. CASE OpenSummary \/ CloseSummary
    BY <2>5, OpenSummaryStep, CloseSummaryStep
  <2>6. CASE Kill
    BY <2>6, KillStep
  <2>7. CASE UNCHANGED vars
    <3>1. Progress' /\ LevelsInOrder' /\ RawBacksSummary'
      BY <2>7 DEF vars, ResultsInv, Progress, Kept, Recorded, LevelsInOrder, RawBacksSummary
    <3>2. CompletedBenchmarkIsUniform' /\ StaleRecordsMeanEarlyFailure'
      BY <2>7 DEF vars, ResultsInv, CompletedBenchmarkIsUniform, StaleRecordsMeanEarlyFailure
    <3>. QED  BY <2>7, <3>1, <3>2 DEF vars, ResultsInv
  <2>. QED  BY <2>1, <2>2, <2>3, <2>4, <2>5, <2>6, <2>7 DEF Next, Step
<1>. QED  BY <1>1, ResultsInit, PTL DEF Spec

(* The files of the levels are in order in every reachable state.          *)
THEOREM LevelsStayInOrder == Spec => []LevelsInOrder
BY ResultsInvariant, PTL DEF ResultsInv

(* A summary always has its samples.                                       *)
THEOREM SummariesHaveSamples == Spec => []RawBacksSummary
BY ResultsInvariant, PTL DEF ResultsInv

(* A benchmark that ends well leaves files of one run only.                *)
THEOREM BenchmarksAreUniform == Spec => []CompletedBenchmarkIsUniform
BY ResultsInvariant, PTL DEF ResultsInv

(* Records that are not the last run's mean that it evaluated nothing, or  *)
(* that Casbin's runner could not open its file.                           *)
THEOREM StaleRecordsExplained == Spec => []StaleRecordsMeanEarlyFailure
BY ResultsInvariant, PTL DEF ResultsInv

(* Result files are only ever touched by a run that has passed its gate.   *)
THEOREM GateGuardsResults == Spec => ResultsNeedGate
<1>1. ResultsInv /\ [Next]_vars => [(raw' # raw \/ summary' # summary) => run \in passed]_vars
  <2> SUFFICES ASSUME ResultsInv, Next, raw' # raw \/ summary' # summary
               PROVE  run \in passed
    BY DEF vars
  <2>1. pc \in Benchmarking
    BY Zenon DEF Next, Step, Start, GenerateCorpus, LoadPolicy, EvaluateScenario, AbortRows,
           CloseJsonl, LoseJsonl, Verdict, MeasureLevel, OpenRaw, CloseRaw, OpenSummary,
           CloseSummary, Kill, Benchmarking
  <2>. QED  BY <2>1 DEF ResultsInv, Progress
<1>. QED  BY <1>1, ResultsInvariant, PTL DEF Spec, ResultsNeedGate

-----------------------------------------------------------------------------
(***************************************************************************)
(* The records.  The runner only compares two counters; that their being   *)
(* equal means that every record is right is itself an invariant of the    *)
(* loop.                                                                   *)
(***************************************************************************)

AnyRecord == [actual : {"Permit", "Deny", "NotApplicable", "Indeterminate", "null"},
              supported : BOOLEAN, correct : BOOLEAN]

(* What the counters say of the records.                                   *)
Counted ==
  /\ lines \in Seq(AnyRecord) /\ Len(lines) <= Total
  /\ correct \in Nat /\ supportedCount \in Nat
  /\ correct <= supportedCount /\ supportedCount <= Len(lines)
  /\ \A i \in 1..Len(lines) :
       lines[i].correct => lines[i].supported /\ lines[i].actual = Expected[i]
  /\ correct >= supportedCount =>
       \A i \in 1..Len(lines) : lines[i].supported => lines[i].correct
  /\ correct >= Len(lines) => \A i \in 1..Len(lines) : lines[i].correct

RecordsInv ==
  /\ Counted
  /\ pc \in {"corpus", "load", "rows", "verdict"} => run \notin passed
  /\ pc = "verdict" => Len(lines) = Total
  /\ pc = "verdict" /\ run \notin lost => jsonl.whole /\ jsonl.lines = lines
  /\ PassMeansAllCorrect

(* One more record keeps the counters in step with the records.            *)
LEMMA EvaluateCounts ==
  ASSUME Counted, EvaluateScenario PROVE Counted'
<1> USE CorpusRunAssumption DEF Total
<1>1. PICK actual \in Actuals :
        /\ lines' = Append(lines, Record(Expected[Len(lines) + 1], actual))
        /\ correct' = IF Record(Expected[Len(lines) + 1], actual).correct
                      THEN correct + 1 ELSE correct
        /\ supportedCount' = IF Record(Expected[Len(lines) + 1], actual).supported
                             THEN supportedCount + 1 ELSE supportedCount
  BY DEF EvaluateScenario
<1> DEFINE record == Record(Expected[Len(lines) + 1], actual)
<1>2. /\ record \in AnyRecord
      /\ record.correct => record.supported /\ record.actual = Expected[Len(lines) + 1]
  BY Zenon DEF Record, Actuals, AnyRecord
<1> HIDE DEF record
<1>3. /\ lines \in Seq(AnyRecord) /\ Len(lines) < Len(Expected) /\ Len(lines) \in Nat
      /\ correct \in Nat /\ supportedCount \in Nat
      /\ correct <= supportedCount /\ supportedCount <= Len(lines)
  BY DEF Counted, EvaluateScenario
<1>4. /\ lines' \in Seq(AnyRecord) /\ Len(lines') = Len(lines) + 1
      /\ lines'[Len(lines) + 1] = record
      /\ \A i \in 1..Len(lines) : lines'[i] = lines[i]
  BY <1>1, <1>2, <1>3 DEF record
<1>5. /\ correct' = IF record.correct THEN correct + 1 ELSE correct
      /\ supportedCount' = IF record.supported THEN supportedCount + 1 ELSE supportedCount
  BY <1>1 DEF record
<1>6. \A i \in 1..Len(lines') : i \in 1..Len(lines) \/ i = Len(lines) + 1
  BY <1>3, <1>4
<1>7. /\ correct' \in Nat /\ supportedCount' \in Nat
      /\ correct' <= supportedCount' /\ supportedCount' <= Len(lines')
  BY <1>2, <1>3, <1>4, <1>5
<1>8. \A i \in 1..Len(lines') :
        lines'[i].correct => lines'[i].supported /\ lines'[i].actual = Expected[i]
  BY <1>2, <1>4, <1>6 DEF Counted
<1>9. correct' >= supportedCount' =>
        \A i \in 1..Len(lines') : lines'[i].supported => lines'[i].correct
  <2> SUFFICES ASSUME correct' >= supportedCount', NEW i \in 1..Len(lines')
               PROVE  lines'[i].supported => lines'[i].correct
    OBVIOUS
  <2>1. CASE record.correct
    <3>1. correct' = correct + 1 /\ supportedCount' = supportedCount + 1
      BY <1>2, <1>5, <2>1
    <3>2. correct >= supportedCount
      BY <1>3, <3>1
    <3>3. CASE i \in 1..Len(lines)
      BY <1>4, <3>2, <3>3 DEF Counted
    <3>. QED  BY <1>4, <1>6, <2>1, <3>3
  <2>2. CASE ~record.correct /\ ~record.supported
    BY <1>2, <1>3, <1>4, <1>5, <1>6, <2>2 DEF Counted
  <2>3. CASE ~record.correct /\ record.supported
    <3>1. correct' = correct /\ supportedCount' = supportedCount + 1
      BY <1>5, <2>3
    <3>. QED  BY <1>3, <3>1
  <2>. QED  BY <2>1, <2>2, <2>3
<1>10. correct' >= Len(lines') => \A i \in 1..Len(lines') : lines'[i].correct
  <2> SUFFICES ASSUME correct' >= Len(lines'), NEW i \in 1..Len(lines')
               PROVE  lines'[i].correct
    OBVIOUS
  <2>1. correct >= Len(lines) /\ record.correct
    BY <1>3, <1>4, <1>5
  <2>2. CASE i \in 1..Len(lines)
    BY <1>4, <2>1, <2>2 DEF Counted
  <2>. QED  BY <1>4, <1>6, <2>1, <2>2
<1>11. Len(lines') <= Len(Expected)
  BY <1>3, <1>4
<1>. QED  BY Zenon, <1>4, <1>7, <1>8, <1>9, <1>10, <1>11 DEF Counted

(* An exit code of zero means that every supported scenario was answered   *)
(* as expected.                                                            *)
LEMMA ZeroExit ==
  ASSUME Counted, AllCorrect, Len(lines) = Total
  PROVE  \A i \in 1..Total : lines[i].supported => lines[i].actual = Expected[i]
BY DEF Counted, AllCorrect

(* A step that leaves the records, the counters and the histories alone.   *)
LEMMA RecordsUnchanged ==
  ASSUME RecordsInv, UNCHANGED <<run, lines, counters, jsonl, passed>>, lost \subseteq lost',
         pc' # "verdict",
         pc' \in {"corpus", "load", "rows"} => pc \in {"corpus", "load", "rows"}
  PROVE  RecordsInv'
BY DEF RecordsInv, Counted, counters, PassMeansAllCorrect

(* While the gate is open a step may rewrite this run's records only.      *)
LEMMA GateRecords ==
  ASSUME RecordsInv, pc = "rows", UNCHANGED <<run, lines, counters, passed>>,
         lost \subseteq lost', pc' \in {"idle", "rows", "verdict"}, jsonl'.run = jsonl.run,
         jsonl.run # run => jsonl' = jsonl,
         pc' = "verdict" =>
           Len(lines) = Total /\ (run \notin lost' => jsonl'.whole /\ jsonl'.lines = lines)
  PROVE  RecordsInv'
<1>1. PassMeansAllCorrect'
  BY DEF RecordsInv, PassMeansAllCorrect
<1>. QED  BY <1>1 DEF RecordsInv, Counted, counters

(* The records file of a run that passes is the records it counted.        *)
LEMMA RecordsStep ==
  ASSUME ResultsInv, RecordsInv, Next PROVE RecordsInv'
<1>0. DOMAIN jsonl = {"run", "lines", "whole"} /\ passed \subseteq 0..run /\ run \in Nat
  BY DEF ResultsInv
<1>1. ASSUME NEW s, Start(s) PROVE RecordsInv'
  <2>1. Counted'
    BY <1>1, CorpusRunAssumption DEF Start, Counted, Total
  <2>. QED  BY <1>0, <1>1, <2>1 DEF Start, RecordsInv, PassMeansAllCorrect
<1>2. CASE GenerateCorpus \/ MeasureLevel
  BY <1>2, RecordsUnchanged DEF GenerateCorpus, MeasureLevel, Stop
<1>3. CASE LoadPolicy
  <2>1. CASE UNCHANGED jsonl
    BY <1>3, <2>1, RecordsUnchanged DEF LoadPolicy, Stop
  <2>2. CASE jsonl' = [run |-> run, lines |-> <<>>, whole |-> FALSE] /\ pc' = "rows"
    <3>1. PassMeansAllCorrect'
      BY <1>3, <2>2 DEF LoadPolicy, RecordsInv, PassMeansAllCorrect
    <3>. QED  BY <1>3, <2>2, <3>1 DEF LoadPolicy, RecordsInv, Counted, counters
  <2>. QED  BY <1>3, <2>1, <2>2 DEF LoadPolicy
<1>4. CASE EvaluateScenario
  <2>1. Counted'
    BY <1>4, EvaluateCounts DEF RecordsInv
  <2>. QED  BY <1>4, <2>1 DEF EvaluateScenario, RecordsInv, PassMeansAllCorrect
<1>5. CASE AbortRows
  BY <1>0, <1>5, GateRecords DEF AbortRows, Stop, Written
<1>6. CASE CloseJsonl
  <2>1. run \notin lost => jsonl.run = run
    BY <1>6 DEF ResultsInv, Progress, Recorded, CloseJsonl
  <2>. QED  BY <1>0, <1>6, <2>1, GateRecords DEF CloseJsonl, Written
<1>7. CASE LoseJsonl
  BY <1>0, <1>7, GateRecords DEF LoseJsonl, Stop, Written
<1>8. CASE Verdict
  <2>1. CASE ~AllCorrect
    BY <1>8, <2>1, RecordsUnchanged DEF Verdict, Stop
  <2>2. CASE AllCorrect
    <3>1. /\ pc = "verdict" /\ passed' = passed \cup {run} /\ pc' \in {"idle", "measure"}
          /\ UNCHANGED <<engine, run, lines, counters, jsonl, lost>>
      BY <1>8, <2>2 DEF Verdict
    <3>2. \A i \in 1..Total : lines[i].supported => lines[i].actual = Expected[i]
      BY <2>2, <3>1, ZeroExit DEF RecordsInv
    <3>3. PassMeansAllCorrect'
      BY <3>1, <3>2 DEF RecordsInv, PassMeansAllCorrect
    <3>. QED  BY <3>1, <3>3 DEF RecordsInv, Counted, counters
  <2>. QED  BY <2>1, <2>2
<1>9. CASE OpenRaw \/ OpenSummary
  BY <1>9, RecordsUnchanged DEF OpenRaw, OpenSummary
<1>10. CASE CloseRaw \/ CloseSummary
  <2>1. /\ UNCHANGED <<run, lines, counters, jsonl, passed>> /\ lost \subseteq lost'
        /\ pc' \in {"statistics", "measure", "idle"}
    BY <1>10 DEF CloseRaw, CloseSummary, CloseOrLose, Stop
  <2>. QED  BY <2>1, RecordsUnchanged
<1>11. CASE Kill
  <2>1. CASE pc = "rows"
    BY ZenonT(30), <1>0, <1>11, <2>1, GateRecords DEF Kill, Written
  <2>2. CASE pc # "rows"
    BY <1>11, <2>2, RecordsUnchanged DEF Kill
  <2>. QED  BY <2>1, <2>2
<1>. QED  BY <1>1, <1>2, <1>3, <1>4, <1>5, <1>6, <1>7, <1>8, <1>9, <1>10, <1>11 DEF Next, Step

(* A gate that passes is no accident of the counters: unless a write was   *)
(* lost, the records it leaves are complete and every supported scenario   *)
(* has its expected decision, whatever the corpus and however many runs.   *)
THEOREM PassedGateIsCorrect == Spec => []PassMeansAllCorrect
<1>1. Init => RecordsInv
  BY CorpusRunAssumption DEF Init, RecordsInv, Counted, Total, PassMeansAllCorrect
<1>2. ResultsInv /\ RecordsInv /\ [Next]_vars => RecordsInv'
  <2>1. ASSUME RecordsInv, UNCHANGED vars PROVE RecordsInv'
    BY <2>1 DEF vars, RecordsInv, Counted, counters, PassMeansAllCorrect
  <2>. QED  BY <2>1, RecordsStep
<1>3. RecordsInv => PassMeansAllCorrect
  BY DEF RecordsInv
<1>. QED  BY <1>1, <1>2, <1>3, ResultsInvariant, PTL DEF Spec
=============================================================================
