------------------------ MODULE BenchmarkPoolProofs ------------------------
(***************************************************************************)
(* One concurrency level with any number of workers, calls, repetitions    *)
(* and scenarios: what the log and the summary hold, and that the pool     *)
(* implements BenchmarkLog.  The inductive invariant counts the batches    *)
(* collected so far, says whether their rows are all there, and which rows *)
(* a worker's batch consists of.                                           *)
(***************************************************************************)
EXTENDS BenchmarkPool, TLAPS, WellFoundedInduction

AnyRow == [rep : Nat, worker : Nat, iteration : Nat, scenario : Nat]

(* The numbers of samples of at most v, for some samples.                  *)
Cumulative ==
  {c \in [0..MaxLatency -> Nat] : \A u, v \in 0..MaxLatency : u <= v => c[u] <= c[v]}

(* The batches that have been collected: next counts those of the current  *)
(* repetition.                                                             *)
Collected == rep * Concurrency + next

TypeInv ==
  /\ mode \in {"threads", "futures", "files"}
  /\ pc \in {"warmup", "submit", "collect", "shutdown", "failed", "write", "summarise", "done"}
  /\ rep \in 0..Repetitions /\ next \in 0..Concurrency
  /\ worker \in [Workers -> {"idle", "running", "finished", "raised"}]
  /\ batch \in [Workers -> Seq(AnyRow)]
  /\ taken \in [Workers -> Cumulative]
  /\ rows \in Seq(AnyRow)
  /\ counts \in Cumulative

(* The batch of worker w: the rows of its calls so far, a latency for each *)
(* of them.                                                                *)
BatchInv(w) ==
  /\ taken[w][MaxLatency] = Len(batch[w])
  /\ Len(batch[w]) <= Measured
  /\ worker[w] = "finished" /\ mode # "files" => Len(batch[w]) = Measured
  /\ worker[w] = "running" => pc \in {"collect", "shutdown"}
  /\ pc \in {"collect", "shutdown"} =>
       \A k \in 1..Len(batch[w]) : batch[w][k] = Row(w, k - 1)
  /\ pc = "collect" /\ w < next => worker[w] = "idle"

(* Rows are missing exactly when a batch was short.                        *)
RowsInv ==
  /\ short \in BOOLEAN
  /\ ~short => Len(rows) = Collected * Measured
  /\ short => Len(rows) < Collected * Measured
  /\ mode # "files" => ~short

PoolInv ==
  /\ TypeInv
  /\ \A w \in Workers : BatchInv(w)
  /\ Len(rows) = Total /\ RowsInv
  /\ pc \in {"warmup", "submit", "write", "summarise", "done"} => next = 0
  /\ pc \in {"collect", "shutdown"} => rep < Repetitions
  /\ pc \in {"write", "summarise", "done"} => rep = Repetitions
  /\ pc \in {"summarise", "done"} => raw = rows
  /\ pc = "done" => summary = Summary /\ Total > 0

-----------------------------------------------------------------------------
(***************************************************************************)
(* Numbers and sequences                                                   *)
(***************************************************************************)

Less == {ss \in Nat \X Nat : ss[1] < ss[2]}

(* A set of natural numbers with a member has a least member.              *)
LEMMA LeastNumber ==
  ASSUME NEW T \in SUBSET Nat, NEW t \in T
  PROVE  \E x \in T : \A y \in T : x <= y
<1>1. IsWellFoundedOn(Less, Nat)
  <2>1. Less = OpToRel(<, Nat)
    BY Zenon DEF Less, OpToRel
  <2>. QED  BY <2>1, NatLessThanWellFounded, Zenon
<1>2. PICK x \in T : \A y \in T : ~(<<y, x>> \in Less)
  BY Zenon, <1>1, WFMin
<1>3. ASSUME NEW y \in T PROVE x <= y
  <2>1. x \in Nat /\ y \in Nat /\ ~(<<y, x>> \in Less)
    BY <1>2
  <2>2. y < x => <<y, x>> \in Less
    BY <2>1 DEF Less
  <2>. QED  BY <2>1, <2>2
<1>. QED  BY <1>3

(* Numbers of the form a m + r.                                            *)
LEMMA DivMod ==
  ASSUME NEW a \in Nat, NEW m \in Nat \ {0}, NEW r \in 0..(m - 1)
  PROVE  (a * m + r) \div m = a /\ (a * m + r) % m = r
OBVIOUS

(* A remainder is a natural number.                                        *)
LEMMA Remainder ==
  ASSUME NEW a \in Nat, NEW m \in Nat \ {0} PROVE a % m \in Nat
OBVIOUS

(* A sample more in a batch: one more of at most MaxLatency.               *)
LEMMA OneMoreSample ==
  ASSUME NEW c \in Cumulative, NEW l \in Latencies
  PROVE  /\ WithSample(c, l) \in Cumulative
         /\ WithSample(c, l)[MaxLatency] = c[MaxLatency] + 1
<1> DEFINE d == WithSample(c, l)
<1>1. l \in 0..MaxLatency /\ MaxLatency \in 0..MaxLatency
  BY PoolAssumption
<1>2. c \in [0..MaxLatency -> Nat]
  BY DEF Cumulative
<1>3. \A v \in 0..MaxLatency : d[v] = IF l <= v THEN c[v] + 1 ELSE c[v]
  BY DEF WithSample
<1>4. d \in [0..MaxLatency -> Nat]
  BY <1>2 DEF WithSample
<1> HIDE DEF d
<1>5. ASSUME NEW u \in 0..MaxLatency, NEW v \in 0..MaxLatency, u <= v PROVE d[u] <= d[v]
  <2>1. c[u] \in Nat /\ c[v] \in Nat /\ c[u] <= c[v]
    BY <1>2, <1>5 DEF Cumulative
  <2>. QED  BY <1>1, <1>3, <1>5, <2>1
<1>6. d[MaxLatency] = c[MaxLatency] + 1
  BY <1>1, <1>3, PoolAssumption
<1>7. d \in Cumulative
  BY <1>4, <1>5 DEF Cumulative
<1>. QED  BY <1>6, <1>7 DEF d

(* The samples of a batch are added to the others.                         *)
LEMMA SamplesAdded ==
  ASSUME NEW c \in Cumulative, NEW d \in Cumulative
  PROVE  [v \in 0..MaxLatency |-> c[v] + d[v]] \in Cumulative
BY SMTT(30) DEF Cumulative

(* Before anything ran, no sample is there.                                *)
LEMMA NoneIsCumulative == None \in Cumulative /\ None[MaxLatency] = 0
BY PoolAssumption DEF None, Cumulative

-----------------------------------------------------------------------------
(***************************************************************************)
(* The summary                                                             *)
(***************************************************************************)

(* sorted[idx] is the least latency that more than idx samples are within. *)
LEMMA SortedIsLeast ==
  ASSUME counts \in Cumulative, NEW idx \in Nat, idx < Total
  PROVE  /\ Sorted(idx) \in 0..MaxLatency
         /\ AtMost(Sorted(idx)) > idx
         /\ AtMost(Sorted(idx) - 1) <= idx
         /\ \A u \in 0..MaxLatency : AtMost(u) > idx => Sorted(idx) <= u
<1> USE PoolAssumption
<1>1. /\ counts \in [0..MaxLatency -> Nat] /\ MaxLatency \in 0..MaxLatency
      /\ \A v \in 0..MaxLatency : AtMost(v) = counts[v]
  BY DEF Cumulative, AtMost
<1> DEFINE T == {v \in 0..MaxLatency : AtMost(v) > idx}
<1>2. T \in SUBSET Nat /\ MaxLatency \in T
  BY <1>1 DEF Total
<1> HIDE DEF T
<1>3. PICK x \in T : \A y \in T : x <= y
  BY <1>2, LeastNumber
<1>4. /\ x \in 0..MaxLatency /\ AtMost(x) > idx
      /\ \A u \in 0..MaxLatency : AtMost(u) > idx => x <= u
  BY <1>3 DEF T
<1>5. /\ Sorted(idx) \in 0..MaxLatency /\ AtMost(Sorted(idx)) > idx
      /\ \A u \in 0..MaxLatency : AtMost(u) > idx => Sorted(idx) <= u
  BY <1>4 DEF Sorted
<1> DEFINE v == Sorted(idx)
<1> HIDE DEF v
<1>6. v \in 0..MaxLatency /\ \A u \in 0..MaxLatency : AtMost(u) > idx => v <= u
  BY <1>5 DEF v
<1>7. AtMost(v - 1) <= idx
  <2>1. CASE v = 0
    BY <2>1 DEF AtMost
  <2>2. CASE v # 0
    <3>1. v - 1 \in 0..MaxLatency /\ ~(v <= v - 1)
      BY <1>6, <2>2
    <3>. QED  BY <1>1, <1>6, <3>1
  <2>. QED  BY <2>1, <2>2
<1>. QED  BY <1>5, <1>7 DEF v

(* More samples are within a longer latency.                               *)
LEMMA AtMostGrows ==
  ASSUME counts \in Cumulative, NEW u \in Int, NEW v \in 0..MaxLatency, u <= v
  PROVE  AtMost(u) <= AtMost(v) /\ AtMost(u) \in Nat /\ AtMost(v) \in Nat
<1>1. CASE u < 0
  BY <1>1, PoolAssumption DEF AtMost, Cumulative
<1>2. CASE u \in 0..MaxLatency
  BY <1>2, PoolAssumption DEF AtMost, Cumulative
<1>. QED  BY <1>1, <1>2, PoolAssumption

(* A reported percentile is a nearest rank, for p of the three that the    *)
(* runners report.                                                         *)
LEMMA PercentileIsNearest ==
  ASSUME counts \in Cumulative, Total \in Nat \ {0}, NEW p \in {50, 95, 99}
  PROVE  /\ Rank(p) \in Nat /\ Rank(p) < Total
         /\ Percentile(p) = Sorted(Rank(p))
         /\ Percentile(p) \in 0..MaxLatency
         /\ 100 * AtMost(Percentile(p)) >= p * Total
         /\ 100 * AtMost(Percentile(p) - 1) < p * Total
<1> DEFINE n == Total
           k == Rank(p)
<1>1. /\ k \in Nat /\ k < n
      /\ 100 * (k + 1) >= p * n
      /\ 100 * k < p * n
  <2>1. CASE p = 50
    BY <2>1 DEF Rank
  <2>2. CASE p = 95
    BY <2>2 DEF Rank
  <2>3. CASE p = 99
    BY <2>3 DEF Rank
  <2>. QED  BY <2>1, <2>2, <2>3
<1>2. Percentile(p) = Sorted(k)
  BY <1>1 DEF Percentile
<1> HIDE DEF k
<1> DEFINE v == Sorted(k)
<1>3. /\ v \in 0..MaxLatency /\ AtMost(v) > k /\ AtMost(v - 1) <= k
  BY <1>1, SortedIsLeast
<1> HIDE DEF v
<1>4. AtMost(v) \in Nat /\ AtMost(v - 1) \in Nat
  BY <1>3, AtMostGrows, PoolAssumption
<1>5. 100 * AtMost(v) >= p * n /\ 100 * AtMost(v - 1) < p * n
  BY <1>1, <1>3, <1>4
<1>. QED  BY <1>1, <1>2, <1>3, <1>5 DEF v, k

(* An earlier index of the sorted list holds a smaller sample.             *)
LEMMA SortedIsSorted ==
  ASSUME counts \in Cumulative, NEW i \in Nat, NEW j \in Nat, i <= j, j < Total
  PROVE  Sorted(i) <= Sorted(j)
<1>0. Total \in Nat
  BY PoolAssumption DEF Total, Cumulative
<1>1. Sorted(j) \in 0..MaxLatency /\ AtMost(Sorted(j)) > j
  BY SortedIsLeast
<1>2. AtMost(Sorted(j)) \in Nat
  BY <1>1, AtMostGrows, PoolAssumption
<1>3. AtMost(Sorted(j)) > i
  BY <1>1, <1>2
<1>. QED  BY <1>0, <1>1, <1>3, SortedIsLeast

(* As many samples may lie below the median as above it, in both of the    *)
(* ways in which it is computed.                                           *)
LEMMA MedianIsCentral ==
  ASSUME counts \in Cumulative, Total \in Nat \ {0}
  PROVE  /\ 2 * AtMost(((TwiceMedian + 1) \div 2) - 1) <= Total
         /\ 2 * AtMost(TwiceMedian \div 2) >= Total
<1>1. CASE mode # "threads"
  <2> DEFINE i == (Total - 1) \div 2
             j == Total \div 2
             a == Sorted(i)
             b == Sorted(j)
  <2>1. /\ i \in Nat /\ j \in Nat /\ i <= j /\ j < Total
        /\ 2 * (i + 1) >= Total /\ 2 * j <= Total
    OBVIOUS
  <2>2. TwiceMedian = a + b
    BY <1>1 DEF TwiceMedian
  <2> HIDE DEF i, j
  <2>3. /\ a \in 0..MaxLatency /\ AtMost(a) > i
        /\ b \in 0..MaxLatency /\ AtMost(b - 1) <= j
    BY <2>1, SortedIsLeast
  <2>4. a <= b
    BY <2>1, SortedIsSorted
  <2> HIDE DEF a, b
  <2> DEFINE x == ((a + b + 1) \div 2) - 1
             y == (a + b) \div 2
  <2>5. x \in Int /\ y \in 0..MaxLatency /\ x <= b - 1 /\ a <= y
    BY <2>3, <2>4, PoolAssumption
  <2> HIDE DEF x, y
  <2>6. AtMost(x) <= AtMost(b - 1) /\ AtMost(x) \in Nat /\ AtMost(b - 1) \in Nat
    <3>1. CASE b = 0
      BY <2>5, <3>1 DEF AtMost
    <3>2. CASE b # 0
      <4>1. b - 1 \in 0..MaxLatency
        BY <2>3, <3>2, PoolAssumption
      <4>. QED  BY <2>5, <4>1, AtMostGrows
    <3>. QED  BY <3>1, <3>2
  <2>7. AtMost(a) <= AtMost(y) /\ AtMost(a) \in Nat /\ AtMost(y) \in Nat
    BY <2>3, <2>5, AtMostGrows, PoolAssumption
  <2>8. 2 * AtMost(x) <= Total /\ 2 * AtMost(y) >= Total
    BY <2>1, <2>3, <2>6, <2>7
  <2>. QED  BY <2>2, <2>8 DEF x, y
<1>2. CASE mode = "threads"
  <2> DEFINE v == Percentile(50)
  <2>1. TwiceMedian = 2 * v
    BY <1>2 DEF TwiceMedian
  <2>2. /\ v \in 0..MaxLatency
        /\ 100 * AtMost(v) >= 50 * Total /\ 100 * AtMost(v - 1) < 50 * Total
    BY PercentileIsNearest
  <2> HIDE DEF v
  <2>3. (2 * v + 1) \div 2 = v /\ (2 * v) \div 2 = v
    BY <2>2, PoolAssumption
  <2>4. AtMost(v) \in Nat /\ AtMost(v - 1) \in Nat
    BY <2>2, AtMostGrows, PoolAssumption
  <2>. QED  BY <2>1, <2>2, <2>3, <2>4
<1>. QED  BY <1>1, <1>2

(* What a summary says of the samples it is computed from.                 *)
LEMMA SummaryIsRight ==
  ASSUME counts \in Cumulative, Total \in Nat \ {0}, pc = "done", summary = Summary
  PROVE  PercentilesAreNearestRank
<1>1. /\ summary.min = Sorted(0) /\ summary.max = Sorted(Total - 1)
      /\ summary.p95 = Percentile(95) /\ summary.p99 = Percentile(99)
      /\ summary.twice_median = TwiceMedian
  BY DEF Summary
<1>2. /\ Rank(95) \in Nat /\ Rank(95) < Total /\ Percentile(95) = Sorted(Rank(95))
      /\ 100 * AtMost(Percentile(95)) >= 95 * Total
      /\ 100 * AtMost(Percentile(95) - 1) < 95 * Total
  BY PercentileIsNearest
<1>3. /\ Rank(99) \in Nat /\ Rank(99) < Total /\ Percentile(99) = Sorted(Rank(99))
      /\ 100 * AtMost(Percentile(99)) >= 99 * Total
      /\ 100 * AtMost(Percentile(99) - 1) < 99 * Total
  BY PercentileIsNearest
<1>4. Rank(95) <= Rank(99)
  BY DEF Rank
<1>5. Sorted(0) <= Sorted(Rank(95))
  BY <1>2, SortedIsSorted
<1>6. Sorted(Rank(95)) <= Sorted(Rank(99))
  BY <1>2, <1>3, <1>4, SortedIsSorted
<1>7. Sorted(Rank(99)) <= Sorted(Total - 1)
  BY <1>3, SortedIsSorted
<1>. QED  BY <1>1, <1>2, <1>3, <1>5, <1>6, <1>7, MedianIsCentral
          DEF PercentilesAreNearestRank

-----------------------------------------------------------------------------
(***************************************************************************)
(* The steps                                                               *)
(***************************************************************************)

(* A program that has just started satisfies the inductive invariant.        *)
LEMMA PoolInit == Init => PoolInv
<1> SUFFICES ASSUME Init PROVE PoolInv
  OBVIOUS
<1> USE PoolAssumption DEF Init
<1>1. TypeInv
  BY NoneIsCumulative DEF TypeInv
<1>2. \A w \in Workers : BatchInv(w)
  BY NoneIsCumulative DEF BatchInv
<1>3. Len(rows) = Total /\ Collected * Measured = 0
  BY NoneIsCumulative DEF Total, Collected
<1>4. RowsInv
  BY Zenon, <1>3 DEF RowsInv
<1>. QED  BY <1>1, <1>2, <1>3, <1>4 DEF PoolInv

(* The summary depends on nothing but the samples.                         *)
LEMMA SummaryUnchanged ==
  ASSUME UNCHANGED <<mode, counts>> PROVE UNCHANGED <<Summary, Total>>
BY DEF Summary, Total, Sorted, AtMost, TwiceMedian, Percentile, Rank

(* A step of a worker changes nothing that the main program has.           *)
LEMMA MainUnchanged ==
  ASSUME PoolInv, TypeInv', \A w \in Workers : BatchInv(w)',
         UNCHANGED <<mode, pc, rep, next, rows, counts, short, raw, summary>>
  PROVE  PoolInv'
<1>1. UNCHANGED <<Summary, Total, Collected>>
  BY SummaryUnchanged DEF Collected
<1>. QED  BY Zenon, <1>1 DEF PoolInv, RowsInv

(* A timed call: one more row in the worker's batch, one more sample.      *)
LEMMA MeasureStep ==
  ASSUME PoolInv, NEW w \in Workers, Measure(w) PROVE PoolInv'
<1> USE PoolAssumption
<1>1. PICK l \in Latencies : taken' = [taken EXCEPT ![w] = WithSample(taken[w], l)]
  BY Zenon DEF Measure
<1>2. /\ batch' = [batch EXCEPT ![w] = Append(batch[w], Row(w, Len(batch[w])))]
      /\ worker[w] = "running" /\ Len(batch[w]) < Measured
      /\ UNCHANGED <<mode, pc, rep, worker, next, rows, counts, short, raw, summary>>
  BY DEF Measure
<1>3. /\ taken \in [Workers -> Cumulative] /\ batch \in [Workers -> Seq(AnyRow)]
      /\ rep \in Nat /\ BatchInv(w)
  BY SMTT(30) DEF PoolInv, TypeInv
<1>4. taken'[w] \in Cumulative /\ taken'[w][MaxLatency] = taken[w][MaxLatency] + 1
  BY <1>1, <1>3, OneMoreSample
<1>5. /\ taken' \in [Workers -> Cumulative]
      /\ \A v \in Workers : v # w => taken'[v] = taken[v] /\ batch'[v] = batch[v]
  BY <1>1, <1>2, <1>3, <1>4
<1>6. batch[w] \in Seq(AnyRow) /\ Row(w, Len(batch[w])) \in AnyRow
  <2>1. batch[w] \in Seq(AnyRow)
    BY <1>3
  <2>2. Len(batch[w]) \in Nat /\ w \in Nat /\ ScenarioCount \in Nat \ {0}
    BY <2>1 DEF Workers
  <2>3. Scenario(Len(batch[w])) \in Nat
    BY Zenon, <2>2, Remainder DEF Scenario
  <2>. QED  BY <1>3, <2>1, <2>2, <2>3 DEF Row, AnyRow
<1>7. /\ batch'[w] \in Seq(AnyRow) /\ Len(batch'[w]) = Len(batch[w]) + 1
      /\ batch'[w][Len(batch[w]) + 1] = Row(w, Len(batch[w]))
      /\ \A k \in 1..Len(batch[w]) : batch'[w][k] = batch[w][k]
  BY <1>2, <1>3, <1>6
<1>8. batch' \in [Workers -> Seq(AnyRow)]
  BY <1>2, <1>3, <1>7
<1>9. BatchInv(w)'
  <2>1. /\ Len(batch[w]) \in Nat /\ taken[w][MaxLatency] = Len(batch[w])
        /\ pc \in {"collect", "shutdown"} /\ (pc = "collect" => ~(w < next))
        /\ \A k \in 1..Len(batch[w]) : batch[w][k] = Row(w, k - 1)
    BY <1>2, <1>3, <1>6 DEF BatchInv
  <2>2. ASSUME NEW k \in 1..Len(batch'[w]) PROVE batch'[w][k] = Row(w, k - 1)'
    <3>1. Row(w, k - 1)' = Row(w, k - 1)
      BY <1>2 DEF Row
    <3>2. CASE k = Len(batch[w]) + 1
      BY <1>7, <2>1, <3>1, <3>2
    <3>3. CASE k \in 1..Len(batch[w])
      BY SMTT(30), <1>7, <2>1, <3>1, <3>3
    <3>. QED  BY SMTT(30), <1>7, <2>1, <3>2, <3>3
  <2>. QED  BY SMTT(30), <1>2, <1>4, <1>7, <2>1, <2>2 DEF BatchInv
<1>10. \A v \in Workers : BatchInv(v)'
  <2> SUFFICES ASSUME NEW v \in Workers, v # w PROVE BatchInv(v)'
    BY <1>9
  <2>. QED  BY SMTT(30), <1>2, <1>5 DEF PoolInv, BatchInv, Row
<1>11. TypeInv'
  BY <1>2, <1>5, <1>8 DEF PoolInv, TypeInv
<1>. QED  BY <1>2, <1>10, <1>11, MainUnchanged

(* A worker returns or raises.                                             *)
LEMMA EndOfWorkStep ==
  ASSUME PoolInv, NEW w \in Workers, Finish(w) \/ FinishShort(w) \/ Raise(w) PROVE PoolInv'
<1>1. /\ worker[w] = "running" /\ worker' \in [Workers -> {"idle", "running", "finished", "raised"}]
      /\ UNCHANGED <<mode, pc, rep, batch, taken, next, rows, counts, short, raw, summary>>
      /\ worker'[w] \in {"finished", "raised"} /\ \A v \in Workers : v # w => worker'[v] = worker[v]
      /\ worker'[w] = "finished" /\ mode # "files" => Len(batch[w]) = Measured
  BY Zenon DEF Finish, FinishShort, Raise, PoolInv, TypeInv
<1>2. TypeInv'
  BY <1>1 DEF PoolInv, TypeInv
<1>3. \A v \in Workers : BatchInv(v)'
  <2> SUFFICES ASSUME NEW v \in Workers PROVE BatchInv(v)'
    OBVIOUS
  <2>1. BatchInv(v)
    BY DEF PoolInv
  <2>. QED  BY <1>1, <2>1 DEF BatchInv, Row
<1>. QED  BY <1>1, <1>2, <1>3, MainUnchanged

(* The steps of the main program that only change where it is.             *)
LEMMA MainMoves ==
  ASSUME PoolInv,
         \/ WarmUp \/ WarmUpRaises \/ CollectRaises \/ Shutdown
         \/ WriteRaw \/ WriteSummary \/ SummaryRaises
  PROVE  PoolInv'
<1> USE PoolAssumption
<1>1. /\ UNCHANGED <<mode, rep, worker, batch, taken, next, rows, counts, short>>
      /\ pc' \in {"submit", "failed", "shutdown", "summarise", "done"}
  BY DEF WarmUp, WarmUpRaises, CollectRaises, Shutdown, WriteRaw, WriteSummary,
         SummaryRaises
<1>2. TypeInv'
  BY <1>1 DEF PoolInv, TypeInv
<1>3. \A w \in Workers : BatchInv(w)'
  <2> SUFFICES ASSUME NEW w \in Workers PROVE BatchInv(w)'
    OBVIOUS
  <2>1. BatchInv(w)
    BY DEF PoolInv
  <2>2. pc' = "shutdown" => pc = "collect"
    BY DEF WarmUp, WarmUpRaises, CollectRaises, Shutdown, WriteRaw, WriteSummary,
         SummaryRaises
  <2>3. worker[w] = "running" => pc' = "shutdown"
    BY <2>1 DEF BatchInv, WarmUp, WarmUpRaises, CollectRaises, Shutdown, WriteRaw, WriteSummary,
         SummaryRaises
  <2>. QED  BY <1>1, <2>1, <2>2, <2>3 DEF BatchInv, Row
<1>4. Len(rows') = Total' /\ RowsInv' /\ Total' = Total
  <2>1. Total' = Total
    BY <1>1, SummaryUnchanged
  <2>2. Collected' = Collected
    BY <1>1 DEF Collected
  <2>. QED  BY Zenon, <1>1, <2>1, <2>2 DEF PoolInv, RowsInv
<1>5. pc' = "done" => summary' = Summary' /\ Total' > 0
  BY <1>1, <1>4, SummaryUnchanged DEF WarmUp, WarmUpRaises, CollectRaises, Shutdown, WriteRaw, WriteSummary,
         SummaryRaises
<1>6. /\ pc' \in {"summarise", "done"} => raw' = rows'
      /\ pc' \in {"write", "summarise", "done"} => rep' = Repetitions
      /\ pc' \in {"collect", "shutdown"} => rep' < Repetitions
      /\ pc' \in {"warmup", "submit", "write", "summarise", "done"} => next' = 0
  BY <1>1 DEF PoolInv, WarmUp, WarmUpRaises, CollectRaises, Shutdown, WriteRaw, WriteSummary,
         SummaryRaises
<1>. QED  BY <1>1, <1>2, <1>3, <1>4, <1>5, <1>6 DEF PoolInv

(* The workers of a repetition start with nothing.                         *)
LEMMA SubmitStep == PoolInv /\ Submit => PoolInv'
<1> SUFFICES ASSUME PoolInv, Submit PROVE PoolInv'
  OBVIOUS
<1> USE PoolAssumption
<1>1. /\ pc = "submit" /\ UNCHANGED <<mode, rep, next, rows, counts, short, raw, summary>>
      /\ Total' = Total /\ Collected' = Collected /\ TypeInv /\ next = 0
  BY SummaryUnchanged DEF Submit, PoolInv, Collected
<1>0. RowsInv'
  BY Zenon, <1>1 DEF PoolInv, RowsInv
<1>2. CASE rep < Repetitions
  <2>1. /\ worker' = [w \in Workers |-> "running"] /\ batch' = [w \in Workers |-> <<>>]
        /\ taken' = [w \in Workers |-> None] /\ pc' = "collect"
    BY <1>2 DEF Submit
  <2>2. TypeInv'
    BY <1>1, <2>1, NoneIsCumulative DEF TypeInv
  <2>3. \A w \in Workers : BatchInv(w)'
    BY <1>1, <2>1, NoneIsCumulative DEF BatchInv, Workers
  <2>. QED  BY Zenon, <1>0, <1>1, <1>2, <2>1, <2>2, <2>3 DEF PoolInv
<1>3. CASE ~(rep < Repetitions)
  <2>1. UNCHANGED <<worker, batch, taken>> /\ pc' = "write" /\ rep = Repetitions
    BY <1>1, <1>3 DEF Submit, TypeInv
  <2>2. TypeInv'
    BY SMTT(30), <1>1, <2>1 DEF TypeInv
  <2>3. \A w \in Workers : BatchInv(w)'
    BY <1>1, <2>1 DEF PoolInv, BatchInv
  <2>. QED  BY Zenon, <1>0, <1>1, <2>1, <2>2, <2>3 DEF PoolInv
<1>. QED  BY <1>2, <1>3

(* A repetition ends when all of its batches are in.                       *)
LEMMA EndRepetitionStep == PoolInv /\ EndRepetition => PoolInv'
<1> SUFFICES ASSUME PoolInv, EndRepetition PROVE PoolInv'
  OBVIOUS
<1> USE PoolAssumption
<1>1. /\ pc = "collect" /\ next = Concurrency /\ rep' = rep + 1 /\ next' = 0 /\ pc' = "submit"
      /\ UNCHANGED <<mode, worker, batch, taken, rows, counts, short, raw, summary>>
      /\ rep \in Nat /\ rep < Repetitions
  BY DEF EndRepetition, PoolInv, TypeInv
<1>2. TypeInv'
  BY <1>1 DEF PoolInv, TypeInv
<1>3. \A w \in Workers : BatchInv(w)'
  <2> SUFFICES ASSUME NEW w \in Workers PROVE BatchInv(w)'
    OBVIOUS
  <2>1. w < Concurrency /\ BatchInv(w)
    BY DEF PoolInv, Workers
  <2>. QED  BY <1>1, <2>1 DEF BatchInv
<1>4. Collected' = Collected /\ Total' = Total
  BY <1>1, SummaryUnchanged DEF Collected
<1>5. RowsInv'
  BY Zenon, <1>1, <1>4 DEF PoolInv, RowsInv
<1>. QED  BY ZenonT(30), <1>1, <1>2, <1>3, <1>4, <1>5 DEF PoolInv

(* What a collecting step appends is the batch that is due, or the         *)
(* beginning of it when a Casbin worker's file was cut.                    *)
LEMMA CollectAppends ==
  ASSUME PoolInv, Collect
  PROVE  /\ next \in Workers /\ rep \in Nat /\ rep < Repetitions
         /\ Len(batch[next]) \in 0..Measured
         /\ batch[next] = Log!Batch(rep, next, Len(batch[next]))
         /\ mode # "files" => Len(batch[next]) = Measured
<1> USE PoolAssumption
<1>1. pc = "collect" /\ next < Concurrency /\ worker[next] = "finished"
  BY DEF Collect
<1>2. next \in Workers /\ rep \in Nat /\ rep < Repetitions
  BY <1>1 DEF PoolInv, TypeInv, Workers
<1>3. BatchInv(next) /\ batch[next] \in Seq(AnyRow)
  BY <1>2 DEF PoolInv, TypeInv
<1> DEFINE n == Len(batch[next])
<1>4. /\ n \in 0..Measured
      /\ mode # "files" => n = Measured
      /\ \A k \in 1..n : batch[next][k] = Row(next, k - 1)
  BY <1>1, <1>3 DEF BatchInv
<1>5. \A k \in 1..n : Row(next, k - 1) = Log!Batch(rep, next, n)[k]
  BY DEF Row, Scenario, Log!Batch
<1>6. batch[next] = Log!Batch(rep, next, n)
  <2>1. batch[next] = [k \in 1..n |-> batch[next][k]]
    BY <1>3, <1>4
  <2>. QED  BY Zenon, <1>4, <1>5, <2>1 DEF Log!Batch
<1>. QED  BY <1>2, <1>4, <1>6

(* The rows and the samples of a batch are added together.                 *)
LEMMA CollectStep == PoolInv /\ Collect => PoolInv'
<1> SUFFICES ASSUME PoolInv, Collect PROVE PoolInv'
  OBVIOUS
<1> USE PoolAssumption
<1>1. /\ pc = "collect" /\ next < Concurrency /\ pc' = "collect" /\ next' = next + 1
      /\ UNCHANGED <<mode, rep, batch, taken, raw, summary>> /\ TypeInv
      /\ rows' = rows \o batch[next] /\ worker' = [worker EXCEPT ![next] = "idle"]
      /\ counts' = [v \in 0..MaxLatency |-> counts[v] + taken[next][v]]
      /\ short' = (short \/ Len(batch[next]) < Measured)
  BY Zenon DEF Collect, PoolInv
<1>2. /\ next \in Workers /\ rep \in Nat /\ rep < Repetitions
      /\ Len(batch[next]) \in 0..Measured
      /\ mode # "files" => Len(batch[next]) = Measured
  BY CollectAppends
<1>3. /\ counts \in Cumulative /\ taken[next] \in Cumulative
      /\ rows \in Seq(AnyRow) /\ batch[next] \in Seq(AnyRow) /\ next \in Nat
  <2>1. next \in Nat
    BY <1>1 DEF TypeInv
  <2>. QED  BY SMTT(30), <1>1, <1>2, <2>1 DEF TypeInv
<1>4. counts' \in Cumulative /\ rows' \in Seq(AnyRow) /\ Len(rows') = Len(rows) + Len(batch[next])
  <2>1. counts' \in Cumulative
    BY SMTT(30), <1>1, <1>3, SamplesAdded
  <2>2. rows' \in Seq(AnyRow) /\ Len(rows') = Len(rows) + Len(batch[next])
    BY <1>1, <1>3
  <2>. QED  BY <1>2, <2>1, <2>2
<1>5. worker' \in [Workers -> {"idle", "running", "finished", "raised"}]
  BY <1>1, <1>2 DEF TypeInv
<1>6. TypeInv'
  <2>1. next' \in 0..Concurrency
    BY SMTT(30), <1>1, <1>3
  <2>. QED  BY ZenonT(30), <1>1, <1>2, <1>4, <1>5, <2>1 DEF TypeInv
<1>7. \A w \in Workers : BatchInv(w)'
  <2> SUFFICES ASSUME NEW w \in Workers PROVE BatchInv(w)'
    OBVIOUS
  <2>1. BatchInv(w) /\ w \in Nat
    BY DEF PoolInv, Workers
  <2>2. worker'[w] = (IF w = next THEN "idle" ELSE worker[w])
    BY <1>1 DEF TypeInv
  <2>3. w < next + 1 => w < next \/ w = next
    BY <1>3, <2>1
  <2>. QED  BY <1>1, <2>1, <2>2, <2>3 DEF BatchInv, Row
<1>8. Total' = Len(rows')
  <2>1. taken[next][MaxLatency] = Len(batch[next]) /\ Len(rows) = counts[MaxLatency]
    BY <1>2 DEF PoolInv, BatchInv, Total
  <2>. QED  BY <1>1, <1>4, <2>1 DEF Total
<1>9. RowsInv'
  <2> DEFINE due == Collected * Measured
             n == Len(batch[next])
             l == Len(rows)
  <2>1. due \in Nat /\ Collected' * Measured = due + Measured
    <3> DEFINE b == rep * Concurrency + next
    <3>1. b \in Nat /\ Collected = b
      BY SMTT(30), <1>2, <1>3 DEF Collected
    <3>2. Collected' = b + 1
      BY <1>1, <1>2, <1>3 DEF Collected
    <3> HIDE DEF b
    <3>. QED  BY SMTT(30), <3>1, <3>2
  <2>2. l \in Nat /\ n \in 0..Measured /\ Len(rows') = l + n
    BY <1>2, <1>3, <1>4
  <2>3. /\ short \in BOOLEAN /\ (~short => l = due) /\ (short => l < due)
        /\ mode # "files" => ~short
    BY Zenon DEF PoolInv, RowsInv
  <2>4. short' = (short \/ n < Measured) /\ (mode # "files" => n = Measured)
    BY Zenon, <1>1, <1>2
  <2> HIDE DEF due, n, l
  <2>5. /\ l = due /\ ~(n < Measured) => l + n = due + Measured
        /\ l = due /\ n < Measured => l + n < due + Measured
        /\ l < due => l + n < due + Measured
        /\ n = Measured => ~(n < Measured)
    BY <2>1, <2>2
  <2>6. short' \in BOOLEAN /\ (mode' # "files" => ~short')
    BY Zenon, <1>1, <2>3, <2>4, <2>5
  <2>7. /\ ~short' => Len(rows') = Collected' * Measured
        /\ short' => Len(rows') < Collected' * Measured
    BY Zenon, <2>1, <2>2, <2>3, <2>4, <2>5
  <2>. QED  BY Zenon, <2>6, <2>7 DEF RowsInv
<1>. QED  BY SMTT(30), <1>1, <1>2, <1>6, <1>7, <1>8, <1>9 DEF PoolInv

-----------------------------------------------------------------------------
(***************************************************************************)
(* The theorems                                                            *)
(***************************************************************************)

(* The inductive invariant of the pool.                                    *)
THEOREM PoolInvariant == Spec => []PoolInv
<1>1. PoolInv /\ [Next]_vars => PoolInv'
  <2> SUFFICES ASSUME PoolInv, [Next]_vars PROVE PoolInv'
    OBVIOUS
  <2>1. CASE \E w \in Workers : Work(w)
    BY <2>1, MeasureStep, EndOfWorkStep DEF Work
  <2>2. CASE Main
    BY <2>2, MainMoves, SubmitStep, CollectStep, EndRepetitionStep DEF Main
  <2>3. CASE UNCHANGED vars
    <3>1. TypeInv' /\ \A w \in Workers : BatchInv(w)'
      BY <2>3 DEF vars, PoolInv, TypeInv, BatchInv, Row
    <3>. QED  BY SMTT(30), <2>3, <3>1, MainUnchanged DEF vars
  <2>. QED  BY <2>1, <2>2, <2>3 DEF Next
<1>. QED  BY <1>1, PoolInit, PTL DEF Spec

(* A summary counts the rows of the raw file, and its sample count is that *)
(* of every worker, call and repetition exactly when no batch was short,   *)
(* as none is outside of a Casbin worker's file.                           *)
THEOREM SummaryIsComplete == Spec => []SummaryCountsEverySample
<1>1. PoolInv => SummaryCountsEverySample
  <2> SUFFICES ASSUME PoolInv, pc = "done"
               PROVE  /\ summary.sample_count = Len(raw)
                      /\ summary.sample_count = Concurrency * Measured * Repetitions <=> ~short
                      /\ mode # "files" => ~short
    BY Zenon DEF SummaryCountsEverySample
  <2>1. summary.sample_count = Len(rows) /\ raw = rows
    BY DEF PoolInv, Summary
  <2>2. Collected * Measured = Concurrency * Measured * Repetitions
    <3>1. Collected = Repetitions * Concurrency
      BY PoolAssumption DEF PoolInv, Collected
    <3>. QED  BY <3>1, PoolAssumption
  <2> DEFINE all == Concurrency * Measured * Repetitions
             n == Len(rows)
  <2>3. n \in Nat /\ all \in Nat
    <3>1. n \in Nat
      BY DEF PoolInv, TypeInv
    <3>2. all \in Nat
      BY SMTT(30), PoolAssumption
    <3>. QED  BY <3>1, <3>2
  <2>4. short \in BOOLEAN /\ (~short => n = all) /\ (short => n < all)
        /\ (mode # "files" => ~short)
    BY Zenon, <2>2 DEF PoolInv, RowsInv
  <2> HIDE DEF all, n
  <2>5. n < all => n # all
    BY <2>3
  <2>6. n = all <=> ~short
    BY Zenon, <2>4, <2>5
  <2>. QED  BY Zenon, <2>1, <2>4, <2>6 DEF all, n
<1>. QED  BY <1>1, PoolInvariant, PTL

(* Whatever the latencies, the reported percentiles are nearest ranks and  *)
(* the median has half of the samples on either side.                      *)
THEOREM ReportedRanks == Spec => []PercentilesAreNearestRank
<1>1. PoolInv => PercentilesAreNearestRank
  <2> SUFFICES ASSUME PoolInv, pc = "done" PROVE PercentilesAreNearestRank
    BY DEF PercentilesAreNearestRank
  <2>1. Total > 0 /\ counts \in Cumulative
    BY DEF PoolInv, TypeInv
  <2>2. Total \in Nat \ {0}
    BY <2>1, PoolAssumption DEF Total, Cumulative
  <2>. QED  BY <2>2, SummaryIsRight DEF PoolInv, TypeInv
<1>. QED  BY <1>1, PoolInvariant, PTL

(* The pool implements the log: in whatever order workers run and return,  *)
(* the rows are appended batch by batch in the order of the repetitions    *)
(* and the workers.                                                        *)
THEOREM PoolImplementsLog == Spec => ImplementsLog
<1> DEFINE logvars == <<rows, rep * Concurrency + next, short>>
<1>1. Init => Log!Init
  BY PoolAssumption DEF Init, Log!Init
<1>2. PoolInv /\ [Next]_vars => [Log!AppendBatch]_logvars
  <2> USE PoolAssumption
  <2>1. ASSUME PoolInv, Collect PROVE Log!AppendBatch
    <3>1. /\ next \in Workers /\ rep \in Nat /\ rep < Repetitions
          /\ Len(batch[next]) \in 0..Measured
          /\ batch[next] = Log!Batch(rep, next, Len(batch[next]))
      BY <2>1, CollectAppends
    <3> DEFINE b == rep * Concurrency + next
    <3>2. b \in Nat /\ next \in 0..(Concurrency - 1)
      BY SMTT(30), <3>1 DEF Workers
    <3>3. b \div Concurrency = rep /\ b % Concurrency = next
      BY Zenon, <3>1, <3>2, DivMod
    <3>4. b < Repetitions * Concurrency
      <4> DEFINE before == rep * Concurrency
                 after == (rep + 1) * Concurrency
                 all == Repetitions * Concurrency
      <4>1. rep + 1 <= Repetitions /\ after = before + Concurrency
        BY <3>1
      <4>2. after <= all
        BY SMTT(30), <3>1, <4>1
      <4>3. before \in Nat /\ after \in Nat /\ all \in Nat
        BY SMTT(30), <3>1
      <4>4. before + next < after
        <5> HIDE DEF before, after
        <5>. QED  BY <3>2, <4>1, <4>3
      <4>5. b = before + next
        OBVIOUS
      <4> HIDE DEF before, after, all
      <4>6. b < all
        <5> HIDE DEF b
        <5>. QED  BY <3>2, <4>2, <4>3, <4>4, <4>5
      <4>. QED  BY Zenon, <4>6 DEF all
    <3>5. rep' * Concurrency + next' = b + 1
      <4>1. rep' = rep /\ next' = next + 1
        BY Zenon, <2>1 DEF Collect
      <4>. QED  BY SMTT(30), <3>1, <3>2, <4>1
    <3>6. /\ rows' = rows \o Log!Batch(b \div Concurrency, b % Concurrency, Len(batch[next]))
          /\ short' = (short \/ Len(batch[next]) < Measured)
      BY Zenon, <2>1, <3>1, <3>3 DEF Collect
    <3>. QED  BY Zenon, <3>1, <3>4, <3>5, <3>6 DEF Log!AppendBatch
  <2>2. ASSUME PoolInv, EndRepetition PROVE UNCHANGED logvars
    <3>1. rep \in Nat /\ next = Concurrency /\ rep' = rep + 1 /\ next' = 0
          /\ UNCHANGED <<rows, short>>
      BY <2>2 DEF EndRepetition, PoolInv, TypeInv
    <3>2. rep' * Concurrency + next' = rep * Concurrency + next
      BY <3>1
    <3>. QED  BY Zenon, <3>1, <3>2
  <2>3. ASSUME UNCHANGED <<rep, next, rows, short>> PROVE UNCHANGED logvars
    BY Zenon, <2>3
  <2> SUFFICES ASSUME PoolInv, [Next]_vars, ~Collect, ~EndRepetition
               PROVE  UNCHANGED <<rep, next, rows, short>>
    BY Zenon, <2>1, <2>2, <2>3
  <2>. QED  BY Zenon DEF Next, Main, Work, Measure, Finish, FinishShort, Raise, WarmUp,
                   WarmUpRaises, Submit, CollectRaises, Shutdown, WriteRaw, WriteSummary,
                   SummaryRaises, vars
<1>. QED  BY <1>1, <1>2, PoolInvariant, PTL DEF Spec, ImplementsLog, Log!Spec
=============================================================================
