---------------------------- MODULE MessageLoop ----------------------------
(***************************************************************************)
(* One PostgreSQL backend process: the frontend/backend message loop of    *)
(* PostgresMain (tcop/postgres.c) with the ABAC check that guards the      *)
(* simple-query message, the handlers of every message type, error         *)
(* recovery and the transaction block.  A query cancel may arrive between  *)
(* any two steps.                                                          *)
(*                                                                         *)
(* JNI, the JVM and the policy decision are external: each call may answer *)
(* anything the code distinguishes.  Whether the thread is attached to the *)
(* JVM is state of the JVM, which the code never reads, and is left out.   *)
(***************************************************************************)
EXTENDS TransactionBlock, Naturals, Sequences

CONSTANTS
  Messages,      \* the messages the client may send
  MaxMsgs,       \* bound: messages processed in one session
  am_walsender   \* is this backend a WAL sender

\* Messages whose type sets doing_extended_query_message; "CS"/"CP" and
\* "DS"/"DP" are Close and Describe of a statement and of a portal.
ExtendedTypes == {"P", "B", "E", "CS", "CP", "DS", "DP", "H"}

\* "d" stands for the three copy messages, "X" for Terminate.
MsgTypes == {"Q", "F", "S", "d", "X"} \cup ExtendedTypes

\* Messages forbidden_in_wal_sender is called for.
WalSenderForbidden == {"F", "P", "B", "E", "CS", "CP", "DS", "DP"}

\* Messages the protocol answers with ReadyForQuery.
CycleTypes == {"Q", "F", "S"}

\* stmts is the statement list of a Q and the one statement of a P
\* (<<>> is the empty query); the other messages do not use it.
MessageRecords == [type : MsgTypes, stmts : Seq(StmtKinds)]

ASSUME LoopAssumption ==
  /\ Messages \subseteq MessageRecords
  /\ MaxMsgs \in Nat
  /\ am_walsender \in BOOLEAN

VARIABLES
  \* --- the loop ---
  pc,                            \* the point PostgresMain has reached
  msg,                           \* the message being processed
  n,                             \* how many messages were processed
  ignore_till_sync, doing_extended_query_message, send_ready_for_query,
  QueryCancelPending,
  idx,                           \* exec_simple_query: statement about to run
  \* --- the transaction ---
  blockState, xact_started,
  work,                          \* statements run in the open transaction
  durable,                       \* statements whose transaction committed
  \* --- the session ---
  unnamed_stmt, portal,          \* the unnamed statement and portal
  \* --- the ABAC check ---
  decision,
  \* --- history, read only by the properties ---
  refused,                       \* messages the PDP did not permit
  owed,                          \* ReadyForQuery messages owed to the client
  reply,                         \* what the client was told about msg
  cancelMsg                      \* n when the last cancel arrived, 0 if idle

input == <<msg, n>>
flags == <<ignore_till_sync, doing_extended_query_message>>
xact == <<blockState, xact_started, work, durable>>
session == <<unnamed_stmt, portal>>
check == <<decision, refused>>
cancel == <<QueryCancelPending, cancelMsg>>

vars == <<pc, input, flags, send_ready_for_query, cancel, idx, xact, session,
          check, owed, reply>>

NoStmt == "none"
NoMsg == [type |-> "none", stmts |-> <<>>]
NoPortal == [stmt |-> NoStmt, status |-> "NONE"]
NoReply == [complete |-> 0, empty |-> 0, suspended |-> 0, error |-> 0,
            denied |-> 0]

\* The statement a P message carries.
ParsedStmt(m) == IF m.stmts = <<>> THEN "empty" ELSE m.stmts[1]

\* Points where PostgresMain handles a message.
GateSteps ==
  {"jvm", "attach", "noenv", "novm", "lookup", "missing", "call", "timing", "decide"}
BusySteps == GateSteps \cup {"run", "parse", "stmt", "log", "error"}

\* DoingCommandRead is set exactly while the backend waits in ReadCommand.
DoingCommandRead == pc = "read"

Init ==
  /\ pc = "top" /\ msg = NoMsg /\ n = 0 /\ idx = 1
  /\ ignore_till_sync = FALSE
  /\ doing_extended_query_message = FALSE
  /\ send_ready_for_query = TRUE
  /\ QueryCancelPending = FALSE
  /\ blockState = "DEFAULT" /\ xact_started = FALSE
  /\ work = {} /\ durable = {}
  /\ unnamed_stmt = NoStmt /\ portal = NoPortal
  /\ decision = "uninitialized"
  /\ refused = {} /\ owed = 1 /\ reply = NoReply /\ cancelMsg = 0

-----------------------------------------------------------------------------
(***************************************************************************)
(* How a handler ends: back to the top of the loop, with or without asking *)
(* for ReadyForQuery, or by the longjmp of ereport(ERROR).  Five handlers  *)
(* log their duration after the last message they send to the client.      *)
(***************************************************************************)
Tell(what) == reply' = [reply EXCEPT ![what] = @ + 1]

Done == pc' = "top" /\ UNCHANGED send_ready_for_query

DoneReady == pc' = "top" /\ send_ready_for_query' = TRUE

Logging == pc' = "log" /\ UNCHANGED send_ready_for_query

Throw == pc' = "error" /\ UNCHANGED <<send_ready_for_query, reply>>

\* CHECK_FOR_INTERRUPTS() raises ERROR (ProcessInterrupts): a cancel is
\* pending and the backend is not waiting for a command.
Interrupted == QueryCancelPending /\ ~DoingCommandRead

\* proc_exit, or a crash: the open transaction is lost with the process.
Exit ==
  /\ pc' = "exited"
  /\ blockState' = "DEFAULT" /\ xact_started' = FALSE /\ work' = {}
  /\ unnamed_stmt' = NoStmt /\ portal' = NoPortal
  /\ UNCHANGED <<input, flags, send_ready_for_query, cancel, idx, durable,
                 check, owed, reply>>

-----------------------------------------------------------------------------
(***************************************************************************)
(* Transaction commands.                                                   *)
(***************************************************************************)
\* The block state once start_xact_command has run.
StartedBlock ==
  IF xact_started THEN blockState ELSE StartTransactionCommand(blockState)

start_xact_command ==
  /\ blockState' = StartedBlock
  /\ xact_started' = TRUE

\* Faulty: the work of a transaction without a block is dropped at its end.
faulty_finish_xact_command(b, w, p) ==
  /\ xact_started' = FALSE
  /\ blockState' = CommitTransactionCommand(b)
  /\ durable' = IF b \in Committing \ {"STARTED"} THEN durable \cup w ELSE durable
  /\ work' = IF b \in Committing \cup RollingBack THEN {} ELSE w
  /\ portal' = IF b \in Committing \cup RollingBack THEN NoPortal ELSE p

\* finish_xact_command with a command open, in block state b, with w done
\* in the transaction and p the unnamed portal.  Ending the transaction
\* drops the portal.
finish_xact_command(b, w, p) ==
  /\ xact_started' = FALSE
  /\ blockState' = CommitTransactionCommand(b)
  /\ durable' = IF b \in Committing THEN durable \cup w ELSE durable
  /\ work' = IF b \in Committing \cup RollingBack THEN {} ELSE w
  /\ portal' = IF b \in Committing \cup RollingBack THEN NoPortal ELSE p

\* Faulty: the completion is reported before the commit is known to succeed.
FaultyCommitFails(b, w, p) ==
  /\ b \in Committing
  /\ blockState' = b /\ xact_started' = TRUE
  /\ work' = w /\ portal' = p
  /\ pc' = "error" /\ Tell("complete")
  /\ UNCHANGED <<durable, send_ready_for_query>>

\* CommitTransaction raises ERROR before it is durable.
CommitFails(b, w, p) ==
  /\ b \in Committing
  /\ blockState' = b /\ xact_started' = TRUE
  /\ work' = w /\ portal' = p
  /\ UNCHANGED durable
  /\ Throw

-----------------------------------------------------------------------------
(***************************************************************************)
(* The top of the loop, reading, and error recovery.                       *)
(***************************************************************************)
\* Faulty: sent without a look at send_ready_for_query.
FaultyReadyForQuery == owed' = owed - 1

ReadyForQuery ==
  IF send_ready_for_query THEN owed' = owed - 1 ELSE UNCHANGED owed

LoopTop ==
  /\ pc = "top"
  /\ doing_extended_query_message' = FALSE
  /\ ReadyForQuery
  /\ send_ready_for_query' = FALSE
  /\ pc' = "read"
  /\ UNCHANGED <<input, ignore_till_sync, cancel, idx, xact, session, check,
                 reply>>

\* What SocketBackend makes of ignore_till_sync for a message of type t.
IgnoreAfterRead(t) == ignore_till_sync /\ t \notin {"S", "X"}

\* Faulty: a cancel that found the session idle stays pending.
FaultyClearIdleCancel == UNCHANGED QueryCancelPending

\* A cancel that is pending when the message arrives is forgotten.
ClearIdleCancel == QueryCancelPending' = FALSE

ReadCommand(m) ==
  /\ pc = "read"
  /\ ignore_till_sync' = IgnoreAfterRead(m.type)
  /\ doing_extended_query_message' = (m.type \in ExtendedTypes)
  /\ ClearIdleCancel
  /\ \/ /\ IgnoreAfterRead(m.type)
        /\ pc' = "top"
        /\ UNCHANGED <<input, owed, reply, decision>>
     \/ /\ ~IgnoreAfterRead(m.type)
        /\ n < MaxMsgs
        /\ n' = n + 1 /\ msg' = m
        /\ pc' = IF m.type = "Q" THEN "jvm" ELSE "run"
        /\ owed' = IF m.type \in CycleTypes THEN owed + 1 ELSE owed
        /\ reply' = NoReply
        /\ decision' = "uninitialized"
  /\ UNCHANGED <<send_ready_for_query, cancelMsg, idx, xact, session, refused>>

\* The client disconnects.
ReadEOF == pc = "read" /\ Exit

\* Faulty: aborting the transaction leaves its portal alone.
FaultyPortalAfterAbort == portal

\* Unnamed portal after AbortCurrentTransaction: failed if the block stays to
\* be ended by the client, else dropped.  In a block that was aborted before,
\* nothing is done.
PortalAfterAbort ==
  IF AbortCurrentTransaction(blockState) = "DEFAULT" THEN NoPortal
  ELSE IF blockState # "ABORT" /\ portal.status = "READY"
  THEN [portal EXCEPT !.status = "FAILED"]
  ELSE portal

\* Faulty: recovery from an error does not ask for ReadyForQuery.
SilentRecover ==
  /\ pc = "error"
  /\ QueryCancelPending' = FALSE
  /\ Tell("error")
  /\ blockState' = AbortCurrentTransaction(blockState)
  /\ work' = {} /\ portal' = PortalAfterAbort
  /\ ignore_till_sync' = (ignore_till_sync \/ doing_extended_query_message)
  /\ xact_started' = FALSE
  /\ pc' = "top"
  /\ UNCHANGED <<input, doing_extended_query_message, send_ready_for_query,
                 cancelMsg, idx, durable, unnamed_stmt, check, owed>>

\* Faulty: recovery asks for ReadyForQuery even when it goes on to skip.
EagerRecover ==
  /\ pc = "error"
  /\ QueryCancelPending' = FALSE
  /\ Tell("error")
  /\ blockState' = AbortCurrentTransaction(blockState)
  /\ work' = {} /\ portal' = PortalAfterAbort
  /\ ignore_till_sync' = (ignore_till_sync \/ doing_extended_query_message)
  /\ xact_started' = FALSE
  /\ send_ready_for_query' = TRUE
  /\ pc' = "top"
  /\ UNCHANGED <<input, doing_extended_query_message, cancelMsg, idx, durable,
                 unnamed_stmt, check, owed>>

\* The sigsetjmp block of PostgresMain.
Recover ==
  /\ pc = "error"
  /\ QueryCancelPending' = FALSE
  /\ Tell("error")
  /\ blockState' = AbortCurrentTransaction(blockState)
  /\ work' = {} /\ portal' = PortalAfterAbort
  /\ ignore_till_sync' = (ignore_till_sync \/ doing_extended_query_message)
  /\ xact_started' = FALSE
  /\ send_ready_for_query' = (send_ready_for_query \/ ~ignore_till_sync')
  /\ pc' = "top"
  /\ UNCHANGED <<input, doing_extended_query_message, cancelMsg, idx, durable,
                 unnamed_stmt, check, owed>>

\* SIGINT.
StatementCancelHandler ==
  /\ pc # "exited"
  /\ ~QueryCancelPending
  /\ QueryCancelPending' = TRUE
  /\ cancelMsg' = IF pc \in BusySteps THEN n ELSE 0
  /\ UNCHANGED <<pc, input, flags, send_ready_for_query, idx, xact, session,
                 check, owed, reply>>

\* SIGTERM (die) seen by the next CHECK_FOR_INTERRUPTS: FATAL.
ProcessDie ==
  /\ \/ pc \in {"read", "noenv", "novm", "missing", "timing", "decide", "stmt", "log"}
     \/ pc = "run" /\ msg.type \in {"P", "E", "F"}
  /\ Exit

-----------------------------------------------------------------------------
(***************************************************************************)
(* The ABAC check of the simple-query message.                             *)
(***************************************************************************)
\* The variables no step of the check touches.
outside == <<input, flags, cancel, idx, xact, session, owed>>

\* JNI_CreateJavaVM: JNI_OK, JNI_EEXIST, or any other status.
CreateJVM ==
  /\ pc = "jvm"
  /\ pc' \in {"lookup", "attach", "novm"}
  /\ UNCHANGED <<outside, send_ready_for_query, check, reply>>

\* There is a JVM: JNI_GetCreatedJavaVMs and AttachCurrentThread, either of
\* which may fail; attaching a thread twice changes nothing.
AttachThread ==
  /\ pc = "attach"
  /\ pc' \in {"lookup", "noenv", "novm"}
  /\ UNCHANGED <<outside, send_ready_for_query, check, reply>>

\* A NOTICE ends in CHECK_FOR_INTERRUPTS: go on to next, or take the error.
Notice(next) ==
  IF Interrupted THEN pc' = "error" ELSE pc' = next

\* "Failed to get jvm env."
ReportNoEnv ==
  /\ pc = "noenv"
  /\ Notice("novm")
  /\ UNCHANGED <<outside, send_ready_for_query, check, reply>>

\* "JVM Created failed!"
ReportNoJVM ==
  /\ pc = "novm"
  /\ Notice("timing")
  /\ UNCHANGED <<outside, send_ready_for_query, check, reply>>

\* FindClass and GetStaticMethodID.
FindMethod ==
  /\ pc = "lookup"
  /\ pc' \in {"call", "missing"}
  /\ UNCHANGED <<outside, send_ready_for_query, check, reply>>

\* "Class not found!", "Method not found!", then DetachCurrentThread, which
\* an interrupt taken at the NOTICE skips.
ReportMissing ==
  /\ pc = "missing"
  /\ Notice("timing")
  /\ UNCHANGED <<outside, send_ready_for_query, check, reply>>

\* CallStaticBooleanMethod and DetachCurrentThread.  The answer is that of
\* Check_ABAC_Permission.  When Java throws instead, the jboolean is
\* unspecified: either answer, or neither JNI_TRUE nor JNI_FALSE.
CallCheck ==
  /\ pc = "call"
  /\ pc' = "timing"
  /\ \/ decision' = "true" /\ UNCHANGED refused
     \/ decision' = "false" /\ refused' = refused \cup {n}
     \/ decision' \in {"true", "false", "uninitialized"} /\ UNCHANGED refused
  /\ UNCHANGED <<outside, send_ready_for_query, reply>>

\* Building the request overruns new_query_string (allocated two bytes
\* short), parse[50], uri[100] or temp[100], or reads parse[0] of a query
\* without a token; a build may survive that or be killed by it.
RequestOverrun == pc = "call" /\ Exit

\* "ABAC execution time".
ReportTime ==
  /\ pc = "timing"
  /\ Notice("decide")
  /\ UNCHANGED <<outside, send_ready_for_query, check, reply>>

\* The value if(!decision) can read.
DecisionRead ==
  CASE decision = "true" -> {TRUE}
    [] decision = "false" -> {FALSE}
    [] OTHER -> BOOLEAN

\* Faulty: the denial is announced and the query runs all the same.
FaultyDenyQuery ==
  /\ pc = "decide"
  /\ FALSE \in DecisionRead
  /\ pc' = "parse"
  /\ UNCHANGED <<outside, send_ready_for_query, check, reply>>

\* "ABACML: Permission Denied."  The NOTICE is sent before its
\* CHECK_FOR_INTERRUPTS, which may raise an error on top of it.
DenyQuery ==
  /\ pc = "decide"
  /\ FALSE \in DecisionRead
  /\ Tell("denied")
  /\ IF Interrupted THEN pc' = "error" /\ UNCHANGED send_ready_for_query
                    ELSE DoneReady
  /\ UNCHANGED <<outside, check>>

AdmitQuery ==
  /\ pc = "decide"
  /\ TRUE \in DecisionRead
  /\ pc' = "parse"
  /\ UNCHANGED <<outside, send_ready_for_query, check, reply>>

-----------------------------------------------------------------------------
(***************************************************************************)
(* exec_replication_command and exec_simple_query.                         *)
(***************************************************************************)
\* A WAL sender runs a replication command outside the block machinery (SHOW
\* opens and closes a transaction command of its own).
exec_replication_command ==
  /\ pc = "parse"
  /\ am_walsender
  /\ \/ Throw
     \/ /\ ~Interrupted
        /\ ~IsAbortedTransactionBlockState(blockState)
        /\ DoneReady /\ Tell("complete")
  /\ UNCHANGED <<outside, check>>

\* exec_simple_query up to its loop over the parse trees.
SimpleStart ==
  /\ pc = "parse"
  /\ am_walsender => ~Interrupted
  /\ unnamed_stmt' = NoStmt
  /\ \/ /\ start_xact_command
        /\ Throw
        /\ UNCHANGED <<idx, work, durable, portal>>
     \/ /\ msg.stmts # <<>>
        /\ start_xact_command
        /\ pc' = "stmt" /\ idx' = 1
        /\ UNCHANGED <<work, durable, portal, send_ready_for_query, reply>>
     \/ /\ msg.stmts = <<>>
        /\ UNCHANGED idx
        /\ \/ /\ finish_xact_command(StartedBlock, work, portal)
              /\ Logging /\ Tell("empty")
           \/ CommitFails(StartedBlock, work, portal)
  /\ UNCHANGED <<input, flags, cancel, check, owed>>

use_implicit_block == Len(msg.stmts) > 1

\* The block state in which statement idx runs.
SimpleBlock ==
  IF use_implicit_block THEN BeginImplicitTransactionBlock(StartedBlock)
  ELSE StartedBlock

\* Faulty: every statement closes the implicit block and the transaction
\* command, as if it were the last one.
FaultyEndStatement(b, w) ==
  LET e == IF use_implicit_block THEN EndImplicitTransactionBlock(b) ELSE b
  IN  \/ /\ finish_xact_command(e, w, NoPortal)
         /\ Tell("complete")
         /\ IF idx = Len(msg.stmts)
            THEN Logging /\ UNCHANGED idx
            ELSE pc' = "stmt" /\ idx' = idx + 1 /\ UNCHANGED send_ready_for_query
      \/ CommitFails(e, w, NoPortal) /\ UNCHANGED idx

\* Statement idx has run in transaction block b, having done w.
EndStatement(b, w) ==
  IF idx = Len(msg.stmts)
  THEN LET e == IF use_implicit_block THEN EndImplicitTransactionBlock(b) ELSE b
       IN  \/ /\ finish_xact_command(e, w, NoPortal)
              /\ Logging /\ Tell("complete") /\ UNCHANGED idx
           \/ CommitFails(e, w, NoPortal) /\ UNCHANGED idx
  ELSE IF msg.stmts[idx] \in TransactionStmts
  THEN \/ /\ finish_xact_command(b, w, NoPortal)
          /\ pc' = "stmt" /\ idx' = idx + 1 /\ Tell("complete")
          /\ UNCHANGED send_ready_for_query
       \/ CommitFails(b, w, NoPortal) /\ UNCHANGED idx
  ELSE /\ blockState' = b /\ xact_started' = TRUE
       /\ work' = w /\ portal' = NoPortal /\ UNCHANGED durable
       /\ pc' = "stmt" /\ idx' = idx + 1 /\ Tell("complete")
       /\ UNCHANGED send_ready_for_query

\* What running statement s adds to the transaction, as the i-th of msg.
Effect(s, i) == IF s = "query" THEN {<<n, i>>} ELSE {}

\* One turn of the loop over the parse trees.
SimpleStatement ==
  /\ pc = "stmt"
  /\ LET s == msg.stmts[idx]
     IN  \/ /\ ~MayRun(s, blockState)
            /\ Throw /\ UNCHANGED <<idx, xact, portal>>
         \/ /\ MayRun(s, blockState)
            /\ blockState' = SimpleBlock /\ xact_started' = TRUE
            /\ portal' \in {portal, [stmt |-> s, status |-> "FAILED"]}
            /\ Throw /\ UNCHANGED <<idx, work, durable>>
         \/ /\ MayRun(s, blockState)
            /\ ~Interrupted
            /\ EndStatement(AfterStatement(s, SimpleBlock),
                            work \cup Effect(s, idx))
  /\ UNCHANGED <<input, flags, cancel, unnamed_stmt, check, owed>>

-----------------------------------------------------------------------------
(***************************************************************************)
(* The other messages.                                                     *)
(***************************************************************************)
\* Faulty: a WAL sender runs the handlers it should forbid.
FaultyHandling(t) == pc = "run" /\ msg.type = t

\* The backend runs the handler of a message of type t.
Handling(t) ==
  /\ pc = "run"
  /\ msg.type = t
  /\ am_walsender => t \notin WalSenderForbidden

\* A message that is malformed, or that a WAL sender forbids, is an error
\* before anything else is done with it.  Copy messages are not looked at.
RejectMessage ==
  /\ \/ pc = "run" /\ msg.type \notin {"d", "X"}
     \/ pc = "jvm"
  /\ Throw
  /\ UNCHANGED <<outside, check>>

\* P.  The unnamed statement is dropped before the new one is analysed.
exec_parse_message ==
  /\ Handling("P")
  /\ start_xact_command
  /\ \/ unnamed_stmt' = NoStmt /\ Throw
     \/ /\ Len(msg.stmts) <= 1
        /\ ParsedStmt(msg) # "empty" => MayRun(ParsedStmt(msg), StartedBlock)
        /\ ~Interrupted
        /\ unnamed_stmt' = ParsedStmt(msg)
        /\ Logging /\ UNCHANGED reply
  /\ UNCHANGED <<input, flags, cancel, idx, work, durable, portal, check, owed>>

\* B.  A missing statement is an error before the transaction is started.  An
\* error once the old portal is dropped leaves one that cannot be run, or,
\* before PortalDefineQuery, one that Execute takes for an empty query.
exec_bind_message ==
  /\ Handling("B")
  /\ \/ unnamed_stmt = NoStmt /\ Throw /\ UNCHANGED <<xact, portal>>
     \/ /\ unnamed_stmt # NoStmt
        /\ start_xact_command
        /\ UNCHANGED <<work, durable>>
        /\ \/ Throw /\ UNCHANGED portal
           \/ /\ MayRun(unnamed_stmt, StartedBlock)
              /\ portal' \in [stmt : {unnamed_stmt, "empty"}, status : {"FAILED"}]
              /\ Throw
           \/ /\ MayRun(unnamed_stmt, StartedBlock)
              /\ portal' = [stmt |-> unnamed_stmt, status |-> "READY"]
              /\ Logging /\ UNCHANGED reply
  /\ UNCHANGED <<input, flags, cancel, idx, unnamed_stmt, check, owed>>

\* Faulty: the transaction command is finished after every statement.
FaultyCompletePortal(s, b, w) ==
  LET p == [stmt |-> s, status |-> "DONE"]
  IN  \/ /\ finish_xact_command(AfterStatement(s, b), w, p)
         /\ Logging /\ Tell("complete")
      \/ CommitFails(AfterStatement(s, b), w, p)

\* The statement of the portal ran: a TransactionStmt finishes the command,
\* any other leaves it open until Sync.
CompletePortal(s, b, w) ==
  IF s \in TransactionStmts
  THEN LET p == [stmt |-> s, status |-> "DONE"]
       IN  \/ /\ finish_xact_command(AfterStatement(s, b), w, p)
              /\ Logging /\ Tell("complete")
           \/ CommitFails(AfterStatement(s, b), w, p)
  ELSE /\ blockState' = b /\ xact_started' = TRUE
       /\ work' = w /\ UNCHANGED durable
       /\ \/ portal' = [stmt |-> s, status |-> "DONE"] /\ Tell("complete")
          \/ portal' = portal /\ Tell("complete")
          \/ portal' = portal /\ Tell("suspended")
       /\ Logging

\* E.
exec_execute_message ==
  /\ Handling("E")
  /\ \/ portal = NoPortal /\ Throw /\ UNCHANGED <<xact, portal>>
     \/ portal.stmt = "empty" /\ Done /\ Tell("empty") /\ UNCHANGED <<xact, portal>>
     \/ /\ portal.stmt \in StmtKinds
        /\ start_xact_command
        /\ portal' \in {portal, [portal EXCEPT !.status = "FAILED"]}
        /\ Throw /\ UNCHANGED <<work, durable>>
     \/ /\ portal.stmt \in StmtKinds
        /\ portal.status = "READY"
        /\ MayRun(portal.stmt, StartedBlock)
        /\ ~Interrupted
        /\ CompletePortal(portal.stmt, StartedBlock,
                          work \cup Effect(portal.stmt, 1))
  /\ UNCHANGED <<input, flags, cancel, idx, unnamed_stmt, check, owed>>

\* D, of a statement or of a portal.
exec_describe_message ==
  /\ Handling("DS") \/ Handling("DP")
  /\ start_xact_command
  /\ \/ Throw
     \/ /\ IF msg.type = "DS" THEN unnamed_stmt # NoStmt ELSE portal # NoPortal
        /\ Done /\ UNCHANGED reply
  /\ UNCHANGED <<input, flags, cancel, idx, work, durable, session, check, owed>>

\* C, of a statement or of a portal.
CloseMessage ==
  /\ Handling("CS") \/ Handling("CP")
  /\ unnamed_stmt' = IF msg.type = "CS" THEN NoStmt ELSE unnamed_stmt
  /\ portal' = IF msg.type = "CP" THEN NoPortal ELSE portal
  /\ Done
  /\ UNCHANGED <<input, flags, cancel, idx, xact, check, owed, reply>>

\* H, and the copy messages left over from a failed COPY.
FlushMessage ==
  /\ Handling("H") \/ Handling("d")
  /\ Done
  /\ UNCHANGED <<outside, check, reply>>

\* Faulty: Sync leaves the transaction command open.
OpenSyncMessage ==
  /\ Handling("S")
  /\ DoneReady
  /\ UNCHANGED <<outside, check, reply>>

\* Faulty: Sync does not ask for ReadyForQuery.
SilentSyncMessage ==
  /\ Handling("S")
  /\ Done
  /\ \/ ~xact_started /\ UNCHANGED <<xact, portal>>
     \/ xact_started /\ finish_xact_command(blockState, work, portal)
  /\ UNCHANGED <<input, flags, cancel, idx, unnamed_stmt, check, owed, reply>>

\* S.
SyncMessage ==
  /\ Handling("S")
  /\ \/ ~xact_started /\ DoneReady /\ UNCHANGED <<xact, portal, reply>>
     \/ /\ xact_started
        /\ finish_xact_command(blockState, work, portal)
        /\ DoneReady /\ UNCHANGED reply
     \/ xact_started /\ CommitFails(blockState, work, portal)
  /\ UNCHANGED <<input, flags, cancel, idx, unnamed_stmt, check, owed>>

\* F.  The result is sent before the transaction command is finished.
HandleFunctionRequest ==
  /\ Handling("F")
  /\ start_xact_command
  /\ \/ Throw /\ UNCHANGED work
     \/ /\ ~IsAbortedTransactionBlockState(StartedBlock)
        /\ ~Interrupted
        /\ work' = work \cup {<<n, 1>>}
        /\ Logging /\ Tell("complete")
  /\ UNCHANGED <<input, flags, cancel, idx, durable, session, check, owed>>

\* The duration is logged, if log_duration and its like say so, and a LOG ends
\* in CHECK_FOR_INTERRUPTS like a NOTICE; then the handler returns.
LogDuration ==
  /\ pc = "log"
  /\ \/ Interrupted /\ Throw
     \/ msg.type = "Q" /\ DoneReady /\ UNCHANGED reply
     \/ msg.type \in {"P", "B", "E"} /\ Done /\ UNCHANGED reply
  /\ UNCHANGED <<outside, check>>

\* The transaction command of a function call is finished.
FinishFunctionCall ==
  /\ pc = "log"
  /\ msg.type = "F"
  /\ \/ /\ finish_xact_command(blockState, work, portal)
        /\ DoneReady /\ UNCHANGED reply
     \/ CommitFails(blockState, work, portal)
  /\ UNCHANGED <<input, flags, cancel, idx, unnamed_stmt, check, owed>>

\* X.
TerminateMessage == Handling("X") /\ Exit

-----------------------------------------------------------------------------
Gate ==
  \/ CreateJVM \/ AttachThread \/ ReportNoEnv \/ ReportNoJVM \/ FindMethod
  \/ ReportMissing \/ CallCheck \/ RequestOverrun \/ ReportTime \/ DenyQuery
  \/ AdmitQuery

SimpleQuery == exec_replication_command \/ SimpleStart \/ SimpleStatement

OtherMessage ==
  \/ RejectMessage \/ exec_parse_message \/ exec_bind_message
  \/ exec_execute_message \/ exec_describe_message \/ CloseMessage
  \/ FlushMessage \/ SyncMessage \/ HandleFunctionRequest \/ TerminateMessage

\* The steps the backend takes by itself.
Backend ==
  \/ LoopTop \/ Gate \/ SimpleQuery \/ OtherMessage
  \/ LogDuration \/ FinishFunctionCall \/ Recover

\* The process is gone.
Exited == pc = "exited" /\ UNCHANGED vars

Next ==
  \/ Backend
  \/ \E m \in Messages : ReadCommand(m)
  \/ ReadEOF
  \/ StatementCancelHandler
  \/ ProcessDie
  \/ Exited

Spec == Init /\ [][Next]_vars

\* The backend process is scheduled, and every JNI call returns.
FairSpec == Spec /\ WF_vars(Backend)

-----------------------------------------------------------------------------
(***************************************************************************)
(* Properties.                                                             *)
(***************************************************************************)
PcValues == {"top", "read", "exited"} \cup BusySteps

Replies ==
  [complete : Nat, empty : Nat, suspended : Nat, error : Nat, denied : Nat]

Portals ==
  [stmt : StmtKinds \cup {"empty", NoStmt},
   status : {"NONE", "READY", "DONE", "FAILED"}]

\* Every variable keeps its type; in particular blockState is never the
\* result of a switch of xact.c that met a state it does not expect, so no
\* sequence of messages, errors and cancels reaches elog("unexpected state").
TypeOK ==
  /\ pc \in PcValues
  /\ msg \in Messages \cup {NoMsg}
  /\ n \in 0 .. MaxMsgs
  /\ idx \in Nat
  /\ ignore_till_sync \in BOOLEAN
  /\ doing_extended_query_message \in BOOLEAN
  /\ send_ready_for_query \in BOOLEAN
  /\ QueryCancelPending \in BOOLEAN
  /\ blockState \in BlockStates
  /\ xact_started \in BOOLEAN
  /\ work \subseteq Nat \X Nat
  /\ durable \subseteq Nat \X Nat
  /\ unnamed_stmt \in StmtKinds \cup {"empty", NoStmt}
  /\ portal \in Portals
  /\ decision \in {"true", "false", "uninitialized"}
  /\ refused \subseteq Nat
  /\ owed \in {0, 1}
  /\ reply \in Replies
  /\ cancelMsg \in Nat

\* Between messages the block is in a state xact.c calls stable, and
\* xact_started agrees with it: a command is open only in a live
\* transaction, and an implicit block never outlives its message.
BlockAtRest ==
  pc \in {"top", "read"} =>
    IF xact_started THEN blockState \in {"STARTED", "INPROGRESS", "ABORT"}
                    ELSE blockState \in {"DEFAULT", "INPROGRESS", "ABORT"}

\* The ReadyForQuery account: while the backend waits for a command it owes
\* nothing, and send_ready_for_query is set only when exactly one
\* ReadyForQuery is owed, so none is lost and none is sent twice, whatever
\* errors, denials and skipped messages came before.
ReadyForQueryBalanced ==
  /\ pc = "read" => owed = 0
  /\ pc = "top" => (send_ready_for_query <=> owed = 1)

\* A query the policy decision point did not permit leaves no effect, in the
\* open transaction or in a committed one.
RefusedLeavesNoEffect ==
  \A e \in work \cup durable : e[1] \notin refused

\* Work and portals live in a live transaction only: an idle session and an
\* aborted block hold neither work that a later commit could keep nor a
\* portal that could still be run.
WorkNeedsTransaction ==
  /\ blockState \in {"DEFAULT", "ABORT", "ABORT_END"} => work = {}
  /\ blockState = "DEFAULT" => portal = NoPortal
  /\ blockState = "ABORT" /\ portal.status = "READY" =>
        portal.stmt \in {"commit", "rollback"}

\* The statements of msg, by number, that are in set s.
StatementsIn(s) == {i \in 1 .. Len(msg.stmts) : <<n, i>> \in s}

\* The message is a simple query, every statement of it a plain one.
PlainQuery ==
  /\ msg.type = "Q"
  /\ \A i \in 1 .. Len(msg.stmts) : msg.stmts[i] = "query"

\* A simple query of several plain statements is atomic: once it is over,
\* all of its statements are committed, or all of them are in the open
\* explicit block, or none has any effect.
SimpleQueryAtomic ==
  pc = "top" /\ PlainQuery
    => /\ StatementsIn(durable) \in {{}, 1 .. Len(msg.stmts)}
       /\ StatementsIn(work) \in {{}, 1 .. Len(msg.stmts)}
       /\ StatementsIn(work) = {} \/ blockState = "INPROGRESS"

\* What the client was told about msg is the whole answer of a simple query
\* (one CommandComplete per statement, or EmptyQueryResponse, or the denial),
\* or of an Execute (one of its terminators).
WholeAnswer ==
  \/ /\ msg.type = "Q" /\ reply.denied = 0 /\ reply.complete = Len(msg.stmts)
     /\ reply.empty = IF msg.stmts = <<>> THEN 1 ELSE 0
  \/ /\ msg.type = "Q" /\ reply.denied = 1 /\ reply.complete = 0 /\ reply.empty = 0
  \/ msg.type = "E" /\ reply.complete + reply.empty + reply.suspended = 1

\* It is an answer that stops before its end.
CutAnswer ==
  \/ /\ msg.type = "Q" /\ reply.denied = 0 /\ reply.empty = 0
     /\ reply.complete < Len(msg.stmts) \/ reply.complete = 0
  \/ msg.type = "E" /\ reply.complete + reply.empty + reply.suspended = 0

\* The messages whose answers are counted.
Counted == msg.type = "E" \/ (msg.type = "Q" /\ ~am_walsender)

\* A client learns the fate of every simple query and every Execute: without
\* an ErrorResponse it got the whole answer, once; with one, which is then the
\* only one, the whole answer or the beginning of it.
Answered ==
  Counted =>
    \/ reply.error = 0 /\ WholeAnswer
    \/ reply.error = 1 /\ (WholeAnswer \/ CutAnswer)

\* ... and an ErrorResponse follows a whole answer only if a cancel arrived
\* while the backend worked on that message, at the NOTICE of the denial or at
\* the LOG of the duration; no failing statement and no failing commit does it.
AnsweredOnce ==
  /\ pc = "top" => Answered
  /\ pc = "error" /\ Counted /\ WholeAnswer => QueryCancelPending /\ cancelMsg = n

\* What a client can conclude from the answer to a simple query of plain
\* statements.  Fewer completions than statements: it has no effect.  All
\* completions: all of it is there, also when an ErrorResponse followed, unless
\* ReadyForQuery then reports a failed transaction.
AnswerTellsEffect ==
  pc = "top" /\ PlainQuery /\ ~am_walsender =>
    LET all == 1 .. Len(msg.stmts)
    IN  IF reply.complete < Len(msg.stmts)
        THEN StatementsIn(work \cup durable) = {}
        ELSE \/ StatementsIn(work \cup durable) = all
             \/ reply.error = 1 /\ TransactionBlockStatusCode(blockState) = "E"

\* A pending cancel that a message can observe arrived while that very
\* message was being processed: a cancel sent to an idle session, or to an
\* earlier message, never hits a later one.
CancelHitsItsMessage ==
  QueryCancelPending /\ pc \in BusySteps => cancelMsg = n

\* A WAL sender, which has no extended protocol, leaves no transaction
\* command open between two messages: each replication or SQL command it runs
\* is over when the next message is read.
WalSenderLeavesNoCommandOpen ==
  am_walsender /\ pc \in {"top", "read"} => ~xact_started

\* ReadyForQuery reports 'I' only if no transaction is open, except after a
\* denied query that no error cut short.
IdleReportIsTrueUnlessDenied ==
  pc = "top" /\ send_ready_for_query /\ (reply.denied = 0 \/ reply.error = 1)
    /\ TransactionBlockStatusCode(blockState) = "I"
    => blockState = "DEFAULT"

\* While messages are skipped nothing happens to the session: no statement
\* runs, no transaction starts or ends, nothing is answered.
SkippingIsInert ==
  [][ignore_till_sync /\ ignore_till_sync' /\ pc' # "exited" =>
       UNCHANGED <<blockState, xact_started, work, durable, session, owed, reply>>]_vars

\* Effects become durable only where the protocol ends a transaction: at a
\* simple query, a function call, a Sync, or the execution of a transaction
\* statement.  Nothing durable is ever taken back.
CommitsOnlyAtBoundaries ==
  [][/\ durable \subseteq durable'
     /\ durable' # durable =>
          /\ pc' # "exited" /\ pc \in {"run", "parse", "stmt", "log"}
          /\ blockState' = "DEFAULT" /\ work' = {} /\ work \subseteq durable'
          /\ pc = "log" => msg.type = "F"
          /\ msg.type = "E" => portal.stmt = "commit"]_vars

\* Every request cycle is closed: a Query, function call or Sync that was
\* accepted is followed by ReadyForQuery or the end of the session.
EveryCycleCloses == (owed = 1) ~> (owed = 0 \/ pc = "exited")

\* The protocol's view of the loop.
Phase ==
  CASE pc = "exited" -> "closed"
    [] pc # "exited" /\ owed = 1 -> "busy"
    [] pc \in BusySteps /\ owed = 0 -> "step"
    [] OTHER -> IF ignore_till_sync THEN "skip" ELSE "ready"

Protocol == INSTANCE QueryCycle WITH phase <- Phase

\* The loop implements the request cycles of the protocol.
ImplementsQueryCycle == Protocol!Spec

\* ... and its progress.
ImplementsFairQueryCycle == Protocol!FairSpec

-----------------------------------------------------------------------------
(***************************************************************************)
(* What the documentation and comments say, where the code differs.        *)
(***************************************************************************)
\* protocol.sgml: "Notices are in addition to other responses, i.e., the
\* backend will continue processing the command": before ReadyForQuery, a
\* simple query got a response that is not a notice.
NoticesAreNotTheAnswer ==
  pc = "top" /\ send_ready_for_query /\ msg.type = "Q" =>
    reply.complete + reply.empty + reply.error > 0

\* TransactionBlockStatusCode: 'I' is "idle --- not in transaction".
IdleMeansNoTransaction ==
  pc = "top" /\ send_ready_for_query
    /\ TransactionBlockStatusCode(blockState) = "I"
    => blockState = "DEFAULT"

\* protocol.sgml: "a simple Query message also destroys the unnamed
\* statement": it is gone once a simple query was answered without an error.
QueryDestroysUnnamedStatement ==
  pc = "top" /\ msg.type = "Q" /\ reply.error = 0 => unnamed_stmt = NoStmt
=============================================================================
