# A TLA+ model of the ABAC middle layer

The repository is a PostgreSQL fork in which every simple query passes an
attribute-based access-control (ABAC) check, a Java policy decision point
(`abacml`, on top of Balana) that the backend calls through JNI, and a benchmark
that compares that engine with three others. This directory holds TLA+ modules
that model the backend's message loop and its check, the policy file and the
checks that read it, the evaluation of the benchmark's policies, and the scripts
and runners around them; TLC configurations that model-check them; and TLAPS proofs
of the main properties.

In the table and below, `PB` is `src/postgres/src/backend`.

## 1. Inventory

| part | source | state it owns | operations | modelled |
|---|---|---|---|---|
| message loop | `PB/tcop/postgres.c` `PostgresMain`, `SocketBackend`, `exec_*` | `send_ready_for_query`, `ignore_till_sync`, `doing_extended_query_message`, `xact_started`, `DoingCommandRead`, `QueryCancelPending`, unnamed statement and portal | one handler per message type, error recovery, cancel, termination | `MessageLoop` |
| ABAC check | `postgres.c` 4623-4789 | `decision` | create or attach, look up, call, report, deny or admit | `MessageLoop` (`Gate`) |
| transaction block | `PB/access/transam/xact.c`, `PB/tcop/utility.c` | `blockState` | start, commit, abort, BEGIN, COMMIT, ROLLBACK, implicit block | `TransactionBlock` |
| portals at transaction end | `PB/utils/mmgr/portalmem.c` | portal status | drop at commit, fail or drop at abort | `MessageLoop` |
| request derivation | `postgres.c` 4688-4730 | buffers, tokens | upper-case, split, action, resource URI | `RequestDerivation` |
| policy decision point | `src/abacml/.../ABACML.java` | a PDP per check | `Check_ABAC_Permission`, `Evaluate_ABAC_Decision` | `PolicyStore`, `CorpusEvaluation` |
| policy file and generators | `src/generate_rule.c`, `src/generate_policy.c` | the policy files | truncate and rewrite | `PolicyStore` (`generate_rule.c`) |
| reference policies, corpus | `src/benchmark/corpus`, `generate-corpus.py` | scenarios, decoy rules | three formulations of one policy | `CoursePolicy`, `CorpusEvaluation` |
| correctness runners and gate | `*CorpusRunner.*`, `run-correctness.sh` | mismatch counts, exit status | run, compare, gate | `CorpusRun` |
| benchmark runners | the same runners, `run-benchmark.sh` | worker pool, samples | warm up, measure, percentile | `BenchmarkPool`, `CorpusRun` |
| analysis tables, SQL fixtures | `src/analysis`, `src/*.sql` | none | formatting, data | no |
| rest of PostgreSQL | `src/postgres` | - | - | no (unmodified upstream) |

What makes the modelled parts hard: a cancel may arrive between any two steps, and each
NOTICE of the check, and each LOG of a duration, is a point where it takes effect; an
ERROR leaves a handler by `longjmp`, skipping what it had still to do; a client may
pipeline messages, so a failed one is followed by others that were sent before the failure
was known; a commit may fail after the statement ran; the check adds a way out of the
`'Q'` handler that upstream does not have. The policy file is rewritten in place, without
a lock, while every check reads it anew. Four engines evaluate three formulations of one
policy and treat a missing attribute differently. The scripts overwrite the results of
earlier runs file by file and may be stopped between any two, and some of their output
streams lose writes silently. `PROJECT.json` lists these hazards with their lines and the
properties aimed at each.

## 2. Modules

| module | contents |
|---|---|
| `TransactionBlock` | the switches of `xact.c` as operators on `blockState`; the statements and what they do to the block |
| `MessageLoop` | one backend process: state, one action per handler or step, the properties |
| `QueryCycle` | the abstract specification: request cycles as the protocol promises them |
| `MessageLoopInvariant` | the inductive invariant `IInv`, conjunct by conjunct |
| `MCMessageLoop` | the message sets the TLC runs use |
| `MessageLoopLemmas` | lemmas about operators, and that every step keeps the types and the cancel conjunct |
| `MessageLoopSteps` | steps keep the control flow, block, work, reply and idle-report conjuncts |
| `MessageLoopProofs` | the conjunct on refused messages and the theorems; for multi-statement queries, a second invariant |
| `RequestDerivation` | how `case 'Q'` turns a text into an action and a resource |
| `RequestDerivationProofs` | its inductive invariant and theorems |
| `PolicyStore` | the policy file, its generator, and the checks that load it and answer |
| `PolicyStoreProofs` | its inductive invariant and theorems |
| `CoursePolicy` | the XACML 3.0, XACML 2.0 and Casbin forms of the course-score policy, and the decoys, as functions of a request |
| `CorpusEvaluation` | a scenario through corpus generation and the four engines |
| `CorpusEvaluationProofs` | that its properties hold of every corpus and every set of decoys |
| `CorpusRun` | one machine's results directory under repeated runs of the scripts |
| `CorpusRunProofs` | its inductive invariant and theorems |
| `BenchmarkPool` | one concurrency level: pool, collection, output, statistics |
| `BenchmarkLog` | the abstract specification of the samples of a level |
| `BenchmarkPoolProofs` | its inductive invariant, the statistics, and that it implements `BenchmarkLog` |
| `MCRequestDerivation`, `MCPolicyStore`, `MCCorpusEvaluation`, `MCCorpusRun`, `MCBenchmarkPool` | the constants of the TLC runs |

The parts meet as follows. `MessageLoop` asks for a decision and takes what it gets:
`RequestDerivation` is the question, `PolicyStore` the answer of the shipped or a
generated policy. Both are separate because `MessageLoop`'s properties hold for every
answer, so a product would only multiply states. `CorpusEvaluation` uses the policies
of `CoursePolicy`; `CorpusRun` takes arbitrary answers from the engines, so that its
properties do not rest on those policies being right. `BenchmarkPool` is what
`CorpusRun` takes as the single step `MeasureLevel`, and implements `BenchmarkLog`.

### How `MessageLoop` corresponds to the code

`pc` is the point `PostgresMain` has reached:

| `pc` | in the code |
|---|---|
| `top` | the head of `for (;;)`: clears `doing_extended_query_message`, sends ReadyForQuery if asked |
| `read` | blocked in `ReadCommand`, `DoingCommandRead` true |
| `jvm`, `attach`, `noenv`, `novm`, `lookup`, `missing`, `call`, `timing`, `decide` | the check inside `case 'Q'`, between calls that can fail or be interrupted |
| `parse`, `stmt` | `exec_replication_command` / `exec_simple_query` before its loop, and at the top of that loop for statement `idx` |
| `run` | about to run the handler of any other message |
| `log` | a handler has answered and is about to log its duration; for a function call, also to finish its transaction command |
| `error` | an ERROR has been thrown and the `sigsetjmp` block has not run yet |
| `exited` | the process is gone |

Variables keep the names of the source (`ignore_till_sync`, `xact_started`,
`send_ready_for_query`, ...). `work` is the set of statements, as pairs of
message number and position, run in the open transaction; `durable` those whose
transaction committed. `refused`, `owed`, `reply` and `cancelMsg` are history that
only the properties read: the messages the decision point refused, the
ReadyForQuery messages owed, what the client was told about the current message,
and the message during which the last cancel arrived.

Each handler is one action that ends in `Done`, `DoneReady` (the handler sets
`send_ready_for_query`), `Throw` or `Exit`. A handler is split only where
something can come between its parts: the check, at its external calls and
notices, `exec_simple_query`, between statements, and the handlers that log their
duration after the answer was sent. `StatementCancelHandler`
(SIGINT) may fire between any two steps. `ProcessDie` is the FATAL that the next
`CHECK_FOR_INTERRUPTS` raises after SIGTERM.

### How the other modules correspond to the code

* `RequestDerivation` (`postgres.c` 4688-4739). `ReceiveQuery` is the copy and the
  upper-casing loop, `SplitToken` one round of the `strtok` loop, `SplitDone` its end,
  `Derive` the `switch`. `token_ptr` and `parse` keep their names. A text is a sequence of
  words, spaces, other white space and semicolons; a word carries only its case. A query
  comes with the tokens it lays out and where each begins (`IsQuery`); the actions read
  only the text.
* `PolicyStore`. `OpenRules`, `WritePiece`, `CloseRules` are `fopen`, one `fputs` reaching
  the disk, and `fclose` in `generate_rule.c`; `LoseRules` is its death or a full disk in
  between. `Check_ABAC_Permission` is `NewPDP` (`initBalana` and `getPDPNewInstance`: the
  constructor of `PDP` loads the policies, at every check), `ReadPiece` and `EndOfFile`
  (Balana's reading), and `Check` (evaluation and answer); `EndSession` is the end of the
  process in between. `WellFormed` and `Permits` stand for Balana (external).
* `CoursePolicy`. One operator per rule of the policy, plus the combining algorithm and
  the matcher; `must` is MustBePresent. `CorpusEvaluation`: `Generate` is
  `generate-corpus.py` with `field`, the request builders, and the runners' reading of
  `scenarios.tsv`; `Evaluate` the four runs.
* `CorpusRun`. `pc` follows `run-correctness.sh`, the runner it starts and, in
  `run-benchmark.sh`, the loop over the levels. `jsonl`, `raw` and `summary` are files:
  which run wrote them last and whether they are whole. `lines` are the records of
  the running process, `correct` and `supportedCount` its counters, from which alone
  `AllCorrect` computes the exit status. `passed` and `lost` are history.
* `BenchmarkPool`. `mode` tells the Java runners (`invokeAll`, then `get`) from the
  Python orchestrators (`submit`, then `result` one by one), and of these the one for
  Casbin, whose workers are processes that hand their rows over in temporary files.

### Abstractions

* A statement is `"query"`, `"begin"`, `"commit"` or `"rollback"`; it succeeds or
  raises an error. A message is its type and its statements.
* Only the unnamed statement and the unnamed portal are represented. Savepoints,
  AND CHAIN, PREPARE TRANSACTION, statements that force an immediate commit (such
  as VACUUM or CREATE DATABASE), the COPY sub-protocol and the idle and statement
  timeouts are not among the inputs.
* A copy message outside COPY is `"d"`; it is discarded as in the code. Protocol
  violations that end the connection (an unknown message type) are not sent.
* JNI, the JVM and the policy decision are external. `JNI_CreateJavaVM` or the
  attachment may fail, class and method may be missing, the call may answer true,
  false, or neither (when Java throws, the returned `jboolean` is unspecified).
  `decision` has no initializer in the code, so a read of it when nothing was
  assigned is a free choice (`DecisionRead`). Whether the thread is attached is state of
  the JVM that the code never reads; a cancel that skips `DetachCurrentThread` leaves it
  attached, and attaching it again does nothing, so it is left out.
* Whether a duration is logged depends on `log_duration` and its like; both are possible
  after every answer.
* In `MessageLoop`, deriving the request either completes or ends the process
  (`RequestOverrun`): the copy of the query, `parse[50]`, `uri[100]` and `temp[100]` are
  filled without length checks, and what follows an overrun is undefined.
* `RequestDerivation` has only texts that fit those buffers and hold a token.
* In `PolicyStore` a read or write moves a whole piece (the text of one `fputs`), although
  stdio moves blocks of bytes. All generated files agree up to their end piece, and a cut
  inside a tag or a name is ill-formed like one between two pieces. The exception is the
  shipped file, which begins with the same line as a generated one: a reader that has got
  into its Description when it is replaced may go on in the other's text without the
  parser noticing, and the model does not have that. Nor does it have two runs of
  `generate_rule` at once, which no lock prevents. A `rule_amount` below 1 is not an input.
* XACML's `and` may stop at an error or go on to a false operand; both are allowed
  (`stops`). Casbin on a request that lacks an attribute answers Deny or throws: which
  is up to the library. The four engines answer in one step, since each reads only its
  own files on its own machine.
* `BenchmarkPool` keeps, for every v, how many samples are at most v instead of the sorted
  list (`Sorted` recovers its elements), and computes ranks in integers where the code
  uses doubles. `ceil(p * n)` in doubles is the integer result for p = 0.50, 0.95 and 0.99
  and every n up to 200 000, which was computed separately. `Raise` is whatever makes a
  worker raise: a timeout of AuthzForce's CLI (a nonzero exit of it is timed like any
  call), a Casbin process that fails or whose file is missing or cannot be parsed, a Java
  `Error`. `FinishShort` is a Casbin worker whose stream failed and whose file was cut to
  one of the lengths in `Cuts`. Lost writes to the raw and summary files are in
  `CorpusRun`, not here.
* `CorpusRun` has one script at a time in a results directory, although the scripts take
  no lock, and `Kill` ends the script and its child together: a child that goes on writing
  after its script was killed is not represented.
* `MaxMsgs` bounds the number of messages a session processes. Skipped messages
  are not counted: skipping can go on for ever.

Operators whose comment begins with "Faulty" are variants of the definition that
follows them, each with one plausible mistake. They are not part of the
specification; replacing the definition by its variant makes a property fail,
which shows that the property depends on that piece of code.

## 3. Runs

State counts are approximate. The first seven runs use `MCMessageLoop`, the others the
MC module of their subject.

| run | instance | states | checks |
|---|---|---|---|
| `loop_simple` (`LoopSimple.cfg`) | 3 simple queries of 0-2 statements out of nine lists | 145 000 | `TypeOK`, `BlockAtRest`, `RefusedLeavesNoEffect`, `SimpleQueryAtomic`, `AnsweredOnce`, `AnswerTellsEffect`, `CancelHitsItsMessage`, `EveryCycleCloses` |
| `loop_types` (`LoopTypes.cfg`) | any 3 messages of all types | 66 000 | `ReadyForQueryBalanced`, `ImplementsFairQueryCycle` |
| `loop_pipeline` (`LoopPipeline.cfg`) | any 5 of Parse, Bind, Execute, Sync and a simple query | 232 000 | `WorkNeedsTransaction`, `IdleReportIsTrueUnlessDenied`, `SkippingIsInert`, `CommitsOnlyAtBoundaries` |
| `loop_walsender` (`LoopWalSender.cfg`) | as `loop_types`, in a WAL sender | 25 000 | `WalSenderLeavesNoCommandOpen`, `ImplementsQueryCycle` |
| `denial_answer` (`DenialAnswer.cfg`) | 3 simple queries | - | violates `NoticesAreNotTheAnswer` |
| `denial_status` (`DenialStatus.cfg`) | 3 pipeline messages | - | violates `IdleMeansNoTransaction` |
| `denial_statement` (`DenialStatement.cfg`) | 3 pipeline messages | - | violates `QueryDestroysUnnamedStatement` |
| `request_derived` (`RequestDerived.cfg`) | 32 statements, 192 layouts, 2 queries | 34 000 | `LayoutIndependent`, `SelectColumnFromTable` |
| `store_answers` (`StoreAnswers.cfg`) | checks of 1 backend, 3 rewrites of 1-3 rules | 220 000 | `PermitsComeFromCompleteFile`, `LoadedIsComplete`, `FreshCheckServesFile` |
| `corpus_answers` (`CorpusAnswers.cfg`) | the canonical scenarios and all those over small value sets with at most one attribute missing; no or three decoys | 74 000 | `GroundTruthHolds`, `DecoysAreNeutral`, `PermitAgreement`, `PermitSurvivesCompletion` |
| `run_results` (`RunResults.cfg`) | 2 runs of either script, 3 levels, 2 scenarios, 4 engines | 247 000 | `PassMeansAllCorrect`, `StaleRecordsMeanEarlyFailure`, `LevelsInOrder`, `RawBacksSummary`, `CompletedBenchmarkIsUniform`, `ResultsNeedGate`, `ScriptEnds` |
| `pool_samples` (`PoolSamples.cfg`) | 2 workers, 5 calls, 2 repetitions, 2 latencies, 3 modes, worker files cut to 0 or 3 rows | 465 000 | `SummaryCountsEverySample`, `PercentilesAreNearestRank`, `ImplementsLog`, `PoolEnds` |

**Bounds.** Three messages are one to set a state up (BEGIN, Parse), one in which
something goes wrong, and one that would suffer from it. Two statements give a
first and a last one, which are the cases `exec_simple_query` tells apart. A
pipeline needs five: Parse, Bind, Execute, a failing message and Sync. The safety
properties are also proved without any bound.

Statements of one to five tokens cover both sides of the test for a fourth token, with
and without a semicolon, and the layouts have leading, doubled and trailing spaces,
with gaps and capitals that differ from token to token, and other white space in place of
a gap. A file cut to nothing and one cut in the middle are the two ways a worker's rows
can be short.

Backends meet only in the policy file, which none of them writes, and each property
speaks of one of them, so one is enough; two rewrites give its reader the start of one
version and the end of another, and the third comes on top of that. The value sets of
`corpus_answers` hold both sides of every comparison of the policy (hours 7, 8, 20, 21;
clearance 1 and 2 against 2). Two runs of the scripts are an old one and one that is
interrupted in the middle of replacing its files; three levels give a first, a middle and
a last one. Two workers, five calls and two repetitions make twenty samples, the fewest at
which `0.95 n` is an integer and an off-by-one in the rank shows. Most of these bounds are
lifted by the proofs of section 4.

**Fairness.** `FairSpec` assumes weak fairness of `Backend`, the steps the process
takes by itself: it is scheduled, and each JNI call and statement returns. Nothing
is assumed of the client or of signals: the client may never send another message,
and cancels and termination may or may not come. A skipped message is a read, so
`EveryCycleCloses` does not promise that skipping ends.

`PolicyStore` has no fairness and no liveness property. `CorpusRun` assumes that a script
that was started takes its next step: its processes are scheduled and engine calls
return. For AuthzForce's subprocesses a timeout of 60 s sees to that; the Java engines and
Casbin's correctness run are calls in the runner's own process, and Casbin's benchmark
workers are subprocesses without a timeout, so that their return is an assumption.
Starting a script and `Kill` are not assumed. `BenchmarkPool` assumes it of the main
thread and of each worker separately, as they are threads of the operating system, with
the same proviso: a worker that hangs is outside of `PoolEnds`.

**What the properties say.**

* `TypeOK`, `BlockAtRest`: no sequence of messages, errors and cancels brings a
  switch of `xact.c` to its `unexpected state` branch, and between messages the
  block is stable and agrees with `xact_started`.
* `RefusedLeavesNoEffect`: a query the decision point answered with false leaves no
  effect. It says nothing of the checks that gave no answer; there `decision` is
  uninitialized and the query may or may not run.
* `AnsweredOnce`: a simple query or Execute gets its whole answer once, or the beginning
  of it and one ErrorResponse. An error on top of a whole answer is possible, but only
  through a cancel that arrived for that message: after the denial's NOTICE was sent, or
  at the LOG of the duration, after the last CommandComplete. The comment in
  `exec_simple_query` (around line 1295) that a client sees "either a command-complete
  message or an error, not one and then the other" is about failing commits, and of those
  it is true. `AnswerTellsEffect`: what the client may conclude from the answer all the
  same. With fewer completions than statements nothing took effect; with all of them
  everything did, unless ReadyForQuery reports a failed transaction.
* `ReadyForQueryBalanced`, `EveryCycleCloses`: each cycle gets one ReadyForQuery.
* `CancelHitsItsMessage`: a cancel never hits a message later than the one it
  arrived in.
* `SimpleQueryAtomic`, `CommitsOnlyAtBoundaries`, `WorkNeedsTransaction`,
  `SkippingIsInert`: what is committed, when, and what survives an error.
* `IdleReportIsTrueUnlessDenied`: status `I` is true, except after a denial.
* `ImplementsQueryCycle`, `ImplementsFairQueryCycle`: the loop implements
  `QueryCycle` under the mapping `Phase`, a function of `pc`, `owed` and
  `ignore_till_sync`.
* The types of the other modules' variables are conjuncts of their inductive invariants
  (section 4).
* `LayoutIndependent`, `SelectColumnFromTable`: in texts whose only white space is
  spaces, their number and the letter case never change the question, and the form the
  `switch` is written for asks for the right column. Other white space does change it:
  `strtok` leaves a tab or a line end inside of a token, so a statement laid out over
  several lines asks about another resource, or about none.
* `LoadedIsComplete`, `PermitsComeFromCompleteFile`: a torn or mixed read is either
  rejected or equal to a version that existed, because every version has the same users
  in the same places. `FreshCheckServesFile`: when a new policy takes effect, namely with
  the next check, in old sessions as in new ones.
* `GroundTruthHolds`, `DecoysAreNeutral`, `PermitAgreement`,
  `PermitSurvivesCompletion`: the formulations agree where it matters, at every tier,
  and a missing attribute never earns a permit.
* `PassMeansAllCorrect`, `StaleRecordsMeanEarlyFailure`, `LevelsInOrder`,
  `RawBacksSummary`, `CompletedBenchmarkIsUniform`, `ResultsNeedGate`: what a reader of
  the results directory may conclude, whatever was interrupted. The code cannot
  notice a lost write, so the properties make an exception for the runs that lost one
  (`lost`).
* `ImplementsLog`, `SummaryCountsEverySample`, `PercentilesAreNearestRank`: the samples do
  not depend on scheduling, and a summary is of those in the raw file. They are all that
  were measured, except when the file of a Casbin worker was cut, which nobody notices but
  a reader who compares `sample_count` with the manifest. `ScriptEnds`, `PoolEnds`:
  nothing waits for ever.

**Where code and documentation differ.** The first three come from the denial, which
leaves the `'Q'` handler before `exec_simple_query` (lines 4770-4775):

1. A denied query is answered by notices and ReadyForQuery only, while
   `protocol.sgml` says notices are in addition to other responses.
2. Denied in the middle of a pipeline, it makes the backend send ReadyForQuery with
   status `I`, "idle --- not in transaction", while the transaction command a
   preceding Parse or Execute opened is still open.
3. It does not destroy the unnamed statement, which `protocol.sgml` says every
   simple Query does.

Others were met while modelling the remaining parts. For each, a definition at the end of
the module states what the document says; listed as an INVARIANT in the cfg of that
module's run, TLC refutes it. They are not kept as runs.

| documented behaviour | definition | what the code does |
|---|---|---|
| `architecture.md:61`: the SQL verb is the action | `RequestDerivation!ActionIsVerb` | sends `Get` when the first token begins with S, else the empty string (`postgres.c:4722`) |
| `architecture.md:62`: the resource is the database | `RequestDerivation!ResourceIsDatabase` | appends table and column when there are four tokens (`postgres.c:4719`) |
| `architecture.md:62`: the verb is the first whitespace-delimited token | `RequestDerivation!FirstTokenIsWhitespaceDelimited` | takes the text up to the first space, tabs and line ends included (`postgres.c:4700`) |
| `generate_rule.c:23`, Description: a listed subject may do anything | `PolicyStore!ListedSubjectsPermitted` | all users are Matches of one `AllOf`, so a list of two permits nobody |
| `xacml2-course-score-policy.xml:7`: same semantics as XACML 3.0 | `CorpusEvaluation!SameSemantics` | lacks MustBePresent, so a missing attribute is answered differently |
| `semantic-mapping.md:77`: a missing attribute is omitted, not empty | `CorpusEvaluation!MissingIsOmitted` | subject id and action arrive as empty strings (`MiddleLayerCorpusRunner.java:198`) |
| `xacml3-course-score-policy.xml:5`, `:12`: admins may SELECT/UPDATE, all else in scope is denied | `CorpusEvaluation!AdminsSelectOrUpdate` | `admin-override` does not look at the action and permits DELETE; the Casbin form denies it |
| `run-correctness.sh:8`: decoys never match a canonical scenario | `CorpusEvaluation!DecoysNeverMatch` | they do, harmlessly (`DecoysAreNeutral`) |
| `semantic-mapping.md:129`, `run-correctness.sh:3`: only NotApplicable is unsupported, no fabricated pass | `CorpusRun!PassCoversApplicable` | an exception of `Enforce()` also counts as unsupported, and the gate passes (`CasbinCorpusRunner.cpp:209`) |

## 4. Proofs

The proofs hold for every set `Messages` of well-formed messages, every `MaxMsgs`
in `Nat` and both values of `am_walsender` (`LoopAssumption`); TLC evaluates that
assumption in every run.

None of the invariants is inductive by itself. `IInv` adds what each relies on:

* `FlowInv`: which messages are at which `pc`, and the values of the flags and of
  `owed` there. Without it a handler could set `send_ready_for_query` twice.
* `BlockInv`: the block states possible at each point, the implicit block only
  between the statements of a multi-statement query. It excludes the unexpected
  branches, so the type invariant rests on it.
* `RefusedInv`: message numbers; a message still being checked has no effect, one
  that runs is not refused, and a refusal is still in `decision` when it is read.
* `ReplyInv`: what was told so far at each point (`idx - 1` completions in front of
  statement `idx`).
* `WorkNeedsTransaction`, `CancelHitsItsMessage`, `IdleReportIsTrueUnlessDenied`, which
  need only the conjuncts above.

`MessageLoopLemmas` proves what the helpers (`finish_xact_command`, `CommitFails`,
`AfterStatement`, ...) return and that steps keep the types. For each other conjunct
one lemma (`FlowStep`, `BlockStep`, `WorkStep`, `ReplyStep`, `IdleStep`,
`RefusedStep`, `CancelStep`) goes through the actions.
`MessageLoopProofs` assembles them (`Invariance`, `Spec => []IInv`) and draws the
conclusions:

| theorem | statement |
|---|---|
| `TypeCorrect`, `BlockStable` | `TypeOK`, `BlockAtRest` |
| `ReadyForQueryOnce`, `AnswersComplete` | `ReadyForQueryBalanced`, `AnsweredOnce` |
| `RefusalHolds` | `RefusedLeavesNoEffect` |
| `WorkInTransaction`, `IdleReports`, `WalSenderCloses` | `WorkNeedsTransaction`, `IdleReportIsTrueUnlessDenied`, `WalSenderLeavesNoCommandOpen` |
| `CancelIsPrecise` | `CancelHitsItsMessage` |
| `SkippingInert`, `CommitsAtBoundaries` | the action properties `SkippingIsInert`, `CommitsOnlyAtBoundaries` |
| `Refinement` | `Spec => ImplementsQueryCycle` |

`Refinement` maps the initial state to `QueryCycle`'s and each step to one of its
steps or a stutter (`HandlerShape`, `PhaseStep`), with `FlowInv` supplying the value
of `owed` at each point.

`SimpleQueriesAtomic` proves `SimpleQueryAtomic`, and `AnswersTellEffect` proves
`AnswerTellsEffect`. `IInv` does not say which statements of
the current message are in `work` and which in `durable`; `AtomicInv` adds that, and how it
agrees with the completions sent, and is shown inductive together with `IInv`.

**`RequestDerivationProofs`**, for every set of queries in any layout
(`QueriesAssumption`) and every number of them. While the `strtok` loop runs on a text
that has no other white space than spaces, the invariant (`DerivationInvariant`) says that
the tokens cut so far are the first tokens of the statement in upper case, and that
`token_ptr` is past these and not past the others. `StrtokFindsToken` shows that the next
token found is then exactly the next one of the statement, whatever spaces are around it,
and `StrtokEnds` that the loop ends only after the last. So every request made for such a
text is the same function of the statement, which is `LayoutDoesNotMatter`
(`LayoutIndependent`); `SelectAsksForColumn` (`SelectColumnFromTable`) follows from what
`StripSemicolon` returns (`StrippedToken`).

**`PolicyStoreProofs`**, for every set of backends and every `MaxRules` and
`MaxRewrites` in `Nat` (`StoreAssumption`). The invariant (`StoreInvariant`) says of the
file that it is a prefix of what its last writer writes, and of each reader that every
piece it holds is at its own place: the i-th user's piece can only be at position i + 1.
Hence a text that starts and ends properly is a whole version, and one that was read to
its end piece saw that version complete. From it follow `NoMixedPolicy`,
`PermitsAreOfCompleteFiles` and `FreshChecks`.

**`CorpusEvaluationProofs`**, for every set of scenarios and every decoys
(`CorpusAssumption`). The invariant (`AnswersInvariant`) is that requests and answers are
the ones the scenario determines. What remains is about the operators: a decoy is never
a Permit nor a potential one, so permit-overrides ignores it next to the default Deny
(`DecoysNeutral`); MustBePresent changes refusals only (`EnginesAgreeOnPermit`); a rule
that permits has read no absent attribute (`PermitsSurvive`); and with all attributes
present each form is the Description (`AnswersAreGroundTruth`).

**`CorpusRunProofs`**, for every number of levels, runs and scenarios
(`CorpusRunAssumption`). The invariant (`ResultsInvariant`) says which levels the running
script has already replaced, which file it is about to write, and that `passed` and
`lost` belong to runs so far. It gives `LevelsStayInOrder`, `SummariesHaveSamples`,
`BenchmarksAreUniform`, `StaleRecordsExplained` and the action property
`GateGuardsResults`. `PassedGateIsCorrect` (`PassMeansAllCorrect`) has an invariant of its
own, `RecordsInv`: the gate sees two numbers and the property speaks of records, so it
keeps that `correct` never exceeds `supportedCount`, nor that the number of records, and
that equality means every supported (or every) record so far is correct. Stated as a
bound that survives each increment, this needs no count over the records.

**`BenchmarkPoolProofs`**, for every number of workers, calls, repetitions and scenarios
and every set of latencies and cuts (`PoolAssumption`). The invariant (`PoolInvariant`)
says that there are as many samples as rows; that the rows are `Measured` for each of the
`rep * Concurrency + next` batches collected when no batch was short, and fewer when one
was, which is only in mode `"files"`; that a worker's batch consists of the rows of its
own calls with a latency for each; and that the counts grow with v. `SummaryIsComplete`
(`SummaryCountsEverySample`) follows by arithmetic. For `ReportedRanks`
(`PercentilesAreNearestRank`), `SortedIsLeast` shows that `Sorted(i)` is the least v with
more than i samples at most v, from the fact that a non-empty set of numbers has a least
member (`LeastNumber`); the rest is the arithmetic of the rounded rank
(`PercentileIsNearest`) and of the two medians (`MedianIsCentral`). `PoolImplementsLog`
(`ImplementsLog`) maps `Collect` to `AppendBatch`: the number of the batch is
`rep * Concurrency + next`, so its quotient and remainder are the repetition and the
worker, and by the invariant the rows appended are the first ones of that batch
(`CollectAppends`). Every other step leaves the log alone: `EndRepetition` counts the
repetition and resets `next` at once.

`IInv` was also checked by TLC, on the instance of `loop_types`; `MCMessageLoop` extends
its module, so adding it to a cfg is enough.

Every invariant, every action property and both refinements without fairness are thus
proved for all values of the constants. Only model-checked are the liveness properties
(`EveryCycleCloses`, `ImplementsFairQueryCycle`, `ScriptEnds`, `PoolEnds`), which are out
of the prover's reach. Two models are written so that no induction over data is needed:
cumulative counts instead of a fold over the samples, and the places of the tokens instead
of a recursive concatenation; that the layouts TLC enumerates satisfy `IsQuery` is
evaluated in its run. No module that carries theorems uses RECURSIVE operators.

## 5. Not modelled

* Statement execution, storage, planning, replication and the rest of upstream
  PostgreSQL: a statement is one step that succeeds or fails. This is nearly all of the
  tree (about 1.5 million lines, of which the fork changes some two hundred in
  `postgres.c`), so the share of all source lines that the modules cover is necessarily
  tiny; of the code this repository adds, what is left out is in the next items.
* Named statements and portals, savepoints, COPY, timeouts: see the abstractions.
* Two policy generators or two benchmark scripts at once, a benchmark script killed
  without its child, and subprocesses that never return.
* What C does beyond its buffers, other than that the process may end there.
* XML parsing and the inside of Balana, SunXACML, AuthzForce and Casbin: external,
  modelled by the answers that their callers rely on.
* `generate_policy.c`: it writes a set of files outside of the directory the decision
  point reads by default, all with the same PolicyId, and what a library does with those
  is not in the source.
* Mean, standard deviation, throughput and memory figures (floating point), and the
  thread pool inside `CasbinCorpusRunner.cpp`, which `run-benchmark.sh` does not use.
* The analysis tables (`regenerate-tables.py`: formatting of recorded results, no state)
  and the SQL fixtures (data).
