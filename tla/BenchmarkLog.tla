---------------------------- MODULE BenchmarkLog ----------------------------
(***************************************************************************)
(* What a benchmark of one concurrency level promises of its samples: they *)
(* come in batches, one per worker and repetition, the batches in the      *)
(* order of the repetitions and, within one, of the workers; a batch goes  *)
(* round the scenarios from the first one.  A batch with fewer rows than   *)
(* were measured is the beginning of one.                                  *)
(***************************************************************************)
EXTENDS Naturals, Sequences

CONSTANTS Concurrency, Measured, Repetitions, ScenarioCount

VARIABLES
  rows,     \* the rows so far
  batches,  \* how many batches they came in
  short     \* whether one of these was short

\* The first k rows of worker w in repetition rep.
Batch(rep, w, k) ==
  [i \in 1..k |->
     [rep |-> rep, worker |-> w, iteration |-> i - 1,
      scenario |-> (i - 1) % ScenarioCount]]

Init == rows = <<>> /\ batches = 0 /\ short = FALSE

AppendBatch ==
  /\ batches < Repetitions * Concurrency
  /\ \E k \in 0..Measured :
       /\ rows' = rows \o Batch(batches \div Concurrency, batches % Concurrency, k)
       /\ short' = (short \/ k < Measured)
  /\ batches' = batches + 1

Spec == Init /\ [][AppendBatch]_<<rows, batches, short>>
=============================================================================
