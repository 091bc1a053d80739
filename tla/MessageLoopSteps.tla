-------------------------- MODULE MessageLoopSteps --------------------------
(***************************************************************************)
(* Every step of MessageLoop keeps the inductive invariant.  One lemma per *)
(* conjunct, one step per action: the control flow, the transaction block, *)
(* the work, what the client was told and what it is told of the           *)
(* transaction.  The conjuncts that need no other are in MessageLoopLemmas, *)
(* and the one about refused messages opens MessageLoopProofs.             *)
(***************************************************************************)
EXTENDS MessageLoopLemmas

(* The control flow is preserved: every point of the loop keeps its message, *)
(* its flags and the ReadyForQuery account.                                  *)
LEMMA FlowStep ==
  ASSUME TypeOK, FlowInv, [Next]_vars
  PROVE  FlowInv'
<1>. USE DEF input, flags, xact, session, check, cancel, outside, FlowInv,
     SimpleSteps, GateSteps, BusySteps, MsgTypes, ExtendedTypes, CycleTypes
<1>0. owed \in {0, 1} /\ idx \in Nat /\ Len(msg.stmts) \in Nat
      /\ (msg.stmts # <<>> => Len(msg.stmts) > 0)
  BY MessageShape DEF TypeOK
<1>1. CASE LoopTop
  BY <1>1, <1>0 DEF LoopTop, ReadyForQuery
<1>2. CASE CreateJVM
  BY <1>2, <1>0 DEF CreateJVM
<1>2a. CASE AttachThread
  BY <1>2a, <1>0 DEF AttachThread
<1>2b. CASE ReportNoEnv
  BY <1>2b, <1>0 DEF ReportNoEnv, Notice
<1>3. CASE ReportNoJVM
  BY <1>3, <1>0 DEF ReportNoJVM, Notice
<1>4. CASE FindMethod
  BY <1>4, <1>0 DEF FindMethod
<1>5. CASE ReportMissing
  BY <1>5, <1>0 DEF ReportMissing, Notice, Interrupted
<1>6. CASE CallCheck
  BY <1>6, <1>0 DEF CallCheck
<1>7. CASE RequestOverrun
  BY <1>7, <1>0 DEF RequestOverrun, Exit
<1>8. CASE ReportTime
  BY <1>8, <1>0 DEF ReportTime, Notice
<1>9. CASE DenyQuery
  BY <1>9, <1>0 DEF DenyQuery, DoneReady, Tell
<1>10. CASE AdmitQuery
  BY <1>10, <1>0 DEF AdmitQuery, DecisionRead
<1>11. CASE exec_replication_command
  BY <1>11, <1>0 DEF exec_replication_command, Throw, DoneReady, Tell
<1>12. CASE SimpleStart
  BY <1>12, <1>0 DEF SimpleStart, start_xact_command, finish_xact_command,
       CommitFails, Throw, Logging, Tell
<1>13. CASE SimpleStatement
  BY <1>13, <1>0 DEF SimpleStatement, EndStatement, finish_xact_command,
       CommitFails, Throw, Logging, Tell
<1>14. CASE RejectMessage
  BY <1>14, <1>0 DEF RejectMessage, Throw
<1>15. CASE exec_parse_message
  BY <1>15, <1>0 DEF exec_parse_message, Handling, start_xact_command, Throw,
       Logging
<1>16. CASE exec_bind_message
  BY <1>16, <1>0 DEF exec_bind_message, Handling, start_xact_command, Throw,
       Logging
<1>17. CASE exec_execute_message
  BY <1>17, <1>0 DEF exec_execute_message, Handling, start_xact_command,
       CompletePortal, finish_xact_command, CommitFails, Throw, Done, Logging, Tell
<1>18. CASE exec_describe_message
  BY <1>18, <1>0 DEF exec_describe_message, Handling, start_xact_command,
       Throw, Done
<1>19. CASE CloseMessage
  BY <1>19, <1>0 DEF CloseMessage, Handling, Done
<1>20. CASE FlushMessage
  BY <1>20, <1>0 DEF FlushMessage, Handling, Done
<1>21. CASE SyncMessage
  BY <1>21, <1>0 DEF SyncMessage, Handling, finish_xact_command, CommitFails,
       Throw, DoneReady
<1>22. CASE HandleFunctionRequest
  BY <1>22, <1>0 DEF HandleFunctionRequest, Handling, Throw, Logging
<1>22a. CASE LogDuration
  BY <1>22a, <1>0 DEF LogDuration, Throw, Done, DoneReady
<1>22b. CASE FinishFunctionCall
  BY <1>22b, <1>0 DEF FinishFunctionCall, CommitFails, Throw, DoneReady
<1>23. CASE TerminateMessage
  BY <1>23, <1>0 DEF TerminateMessage, Handling, Exit
<1>24. CASE Recover
  <2>1. /\ msg.type \in MsgTypes \ {"d", "X"}
        /\ ~send_ready_for_query /\ ~ignore_till_sync
        /\ doing_extended_query_message <=> msg.type \in ExtendedTypes
        /\ owed = IF msg.type \in CycleTypes THEN 1 ELSE 0
    BY <1>24 DEF Recover, FlowInv, BusySteps
  <2>2. /\ pc' = "top" /\ owed' = owed
        /\ ignore_till_sync' <=> doing_extended_query_message
        /\ send_ready_for_query' <=> ~doing_extended_query_message
    BY Zenon, <1>24, <2>1 DEF Recover
  <2>3. msg.type \in CycleTypes <=> msg.type \notin ExtendedTypes
    BY <2>1 DEF MsgTypes, CycleTypes, ExtendedTypes
  <2>. QED
    BY <2>1, <2>2, <2>3 DEF FlowInv, BusySteps, SimpleSteps, GateSteps
<1>25. ASSUME NEW m \in Messages, ReadCommand(m)
       PROVE  FlowInv'
  <2>1. m.type \in MsgTypes
    BY LoopAssumption DEF MessageRecords
  <2>2. pc = "read" /\ owed = 0 /\ ~send_ready_for_query /\ ~send_ready_for_query'
    BY <1>25 DEF ReadCommand, FlowInv
  <2>3. CASE IgnoreAfterRead(m.type)
    BY <1>25, <2>2, <2>3 DEF ReadCommand, FlowInv, SimpleSteps, GateSteps, BusySteps
  <2>4. CASE ~IgnoreAfterRead(m.type)
    <3>1. /\ msg' = m /\ pc' = (IF m.type = "Q" THEN "jvm" ELSE "run")
          /\ owed' = (IF m.type \in CycleTypes THEN 1 ELSE 0)
      BY <1>25, <2>2, <2>4 DEF ReadCommand
    <3>2. doing_extended_query_message' = (m.type \in ExtendedTypes)
      BY <1>25 DEF ReadCommand
    <3>3. ignore_till_sync' = IgnoreAfterRead(m.type)
      BY <1>25 DEF ReadCommand
    <3>. QED
      BY Zenon, <2>1, <2>2, <2>4, <3>1, <3>2, <3>3 DEF FlowInv, SimpleSteps, GateSteps, BusySteps, MsgTypes
  <2>. QED
    BY <2>3, <2>4
<1>26. CASE ReadEOF
  BY <1>26, <1>0 DEF ReadEOF, Exit
<1>27. CASE StatementCancelHandler
  BY <1>27, <1>0 DEF StatementCancelHandler
<1>28. CASE ProcessDie
  BY <1>28, <1>0 DEF ProcessDie, Exit
<1>. HIDE DEF SimpleSteps, GateSteps, BusySteps, MsgTypes, ExtendedTypes, CycleTypes
<1>29. CASE UNCHANGED vars
  BY <1>29 DEF vars
<1>. HIDE DEF FlowInv
<1>. QED
  BY ZenonT(30), <1>1, <1>2, <1>3, <1>4, <1>5, <1>6, <1>7, <1>8, <1>9, <1>10, <1>11,
       <1>12, <1>13, <1>14, <1>15, <1>16, <1>17, <1>18, <1>19, <1>20, <1>21,
       <1>22, <1>23, <1>24, <1>25, <1>26, <1>27, <1>28, <1>29, <1>2a, <1>2b,
       <1>22a, <1>22b DEF Next,
       Backend, Gate, SimpleQuery, OtherMessage, Exited

(* The block state is preserved at rest: every handler that does not fail    *)
(* leaves the block in a stable state that agrees with xact_started.         *)
LEMMA BlockStep ==
  ASSUME TypeOK, FlowInv, BlockInv, [Next]_vars
  PROVE  BlockInv'
<1>. USE DEF input, flags, xact, session, check, cancel, outside, BlockInv,
     GateSteps, use_implicit_block
<1>1. CASE LoopTop
  BY <1>1 DEF LoopTop, ReadyForQuery
<1>2. CASE CreateJVM
  BY <1>2 DEF CreateJVM
<1>2a. CASE AttachThread
  BY <1>2a DEF AttachThread
<1>2b. CASE ReportNoEnv
  BY <1>2b DEF ReportNoEnv, Notice
<1>3. CASE ReportNoJVM
  BY <1>3 DEF ReportNoJVM, Notice
<1>4. CASE FindMethod
  BY <1>4 DEF FindMethod
<1>5. CASE ReportMissing
  BY <1>5 DEF ReportMissing, Notice, Interrupted
<1>6. CASE CallCheck
  BY <1>6 DEF CallCheck
<1>7. CASE RequestOverrun
  BY <1>7 DEF RequestOverrun, Exit
<1>8. CASE ReportTime
  BY <1>8 DEF ReportTime, Notice
<1>9. CASE DenyQuery
  BY <1>9 DEF DenyQuery, DoneReady, Tell
<1>10. CASE AdmitQuery
  BY <1>10 DEF AdmitQuery, DecisionRead
<1>11. CASE exec_replication_command
  BY <1>11 DEF exec_replication_command, Throw, DoneReady, Tell
<1>12. CASE SimpleStart
  <2>1. msg.type = "Q"
    BY <1>12 DEF SimpleStart, FlowInv, SimpleSteps
  <2>. QED
    BY <1>12, <2>1 DEF SimpleStart, start_xact_command, finish_xact_command,
       CommitFails, Throw, Logging, Tell, StartedBlock,
       StartTransactionCommand, CommitTransactionCommand, Committing,
       RollingBack
<1>13. CASE SimpleStatement
  <2>. DEFINE s == msg.stmts[idx]
              b == AfterStatement(s, SimpleBlock)
  <2>1. pc = "stmt" /\ s \in StmtKinds /\ msg.type = "Q"
    BY <1>13, StatementShape DEF SimpleStatement, FlowInv, SimpleSteps
  <2>2. MayRun(s, blockState) =>
          /\ s \notin TransactionStmts => b = SimpleBlock /\ b # "ABORT"
          /\ s \in TransactionStmts =>
               b \in {"STARTED", "BEGIN", "INPROGRESS", "END", "ABORT_END",
                      "ABORT_PENDING"}
          /\ b = "STARTED" => SimpleBlock = "STARTED"
    BY <2>1, AfterStatementBlock, SimpleStatementBlock
  <2>. HIDE DEF b
  <2>. QED
    BY <1>13, <2>1, <2>2, SimpleStatementBlock, MessageShape DEF SimpleStatement,
         EndStatement, finish_xact_command, CommitFails, Throw, Logging,
         CommitTransactionCommand, Committing, RollingBack,
         EndImplicitTransactionBlock, b
<1>14. CASE RejectMessage
  BY <1>14 DEF RejectMessage, Throw
<1>15. CASE exec_parse_message
  BY <1>15 DEF exec_parse_message, Handling, start_xact_command, Throw, Logging,
       StartedBlock, StartTransactionCommand, WalSenderForbidden
<1>16. CASE exec_bind_message
  BY <1>16 DEF exec_bind_message, Handling, start_xact_command, Throw, Logging,
       StartedBlock, StartTransactionCommand, WalSenderForbidden
<1>17. CASE exec_execute_message
  <2>. DEFINE s == portal.stmt
              b == AfterStatement(s, StartedBlock)
  <2>1. ~am_walsender /\ pc' \in {"top", "log", "error"} /\ msg'.type = "E"
    BY <1>17 DEF exec_execute_message, Handling, WalSenderForbidden, CompletePortal,
             CommitFails, Throw, Done, Logging
  <2>2. StartedBlock \in {"STARTED", "INPROGRESS", "ABORT"}
    BY <1>17 DEF exec_execute_message, Handling, StartedBlock,
             StartTransactionCommand
  <2>3. CASE pc' = "error"
    BY <2>1, <2>3
  <2>4. CASE pc' # "error" /\ UNCHANGED <<blockState, xact_started>>
    BY <1>17, <2>1, <2>4 DEF exec_execute_message, Handling
  <2>5. CASE /\ pc' # "error" /\ s \in StmtKinds /\ MayRun(s, StartedBlock)
             /\ CompletePortal(s, StartedBlock, work \cup Effect(s, 1))
    <3>1. s \in TransactionStmts =>
            b \in {"STARTED", "BEGIN", "INPROGRESS", "END", "ABORT_END",
                   "ABORT_PENDING"}
      BY <2>2, <2>5, AfterStatementBlock
    <3>. HIDE DEF b
    <3>. QED
      BY <2>1, <2>2, <2>5, <3>1
         DEF CompletePortal, finish_xact_command, CommitFails, Throw, Logging,
             CommitTransactionCommand, Committing, RollingBack, b
  <2>. QED
    BY <1>17, <2>1, <2>3, <2>4, <2>5 DEF exec_execute_message, Throw
<1>18. CASE exec_describe_message
  BY <1>18 DEF exec_describe_message, Handling, start_xact_command, Throw,
       Done, StartedBlock, StartTransactionCommand, WalSenderForbidden
<1>19. CASE CloseMessage
  BY <1>19 DEF CloseMessage, Handling, Done
<1>20. CASE FlushMessage
  BY <1>20 DEF FlushMessage, Handling, Done
<1>21. CASE SyncMessage
  BY <1>21 DEF SyncMessage, Handling, finish_xact_command, CommitFails, Throw,
       DoneReady, StartedBlock, StartTransactionCommand,
       CommitTransactionCommand, Committing, RollingBack
<1>22. CASE HandleFunctionRequest
  <2>1. StartedBlock \in {"STARTED", "INPROGRESS", "ABORT"}
    BY <1>22, StartedBlockType DEF HandleFunctionRequest, Handling
  <2>2. ~am_walsender /\ msg'.type = "F" /\ pc' \in {"error", "log"}
    BY Zenon, <1>22 DEF HandleFunctionRequest, Handling, WalSenderForbidden, Throw, Logging
  <2>3. /\ blockState' = StartedBlock /\ xact_started'
        /\ pc' = "log" => StartedBlock # "ABORT"
    BY Zenon, <1>22 DEF HandleFunctionRequest, start_xact_command, Throw,
       IsAbortedTransactionBlockState
  <2>. QED
    BY <2>1, <2>2, <2>3
<1>22a. CASE LogDuration
  BY <1>22a DEF LogDuration, Throw, Done, DoneReady
<1>22b. CASE FinishFunctionCall
  BY <1>22b DEF FinishFunctionCall, finish_xact_command, CommitFails, Throw,
     DoneReady, CommitTransactionCommand, Committing, RollingBack
<1>23. CASE TerminateMessage
  BY <1>23 DEF TerminateMessage, Handling, Exit
<1>24. CASE Recover
  BY <1>24 DEF Recover, Tell, AbortCurrentTransaction
<1>25. ASSUME NEW m \in Messages, ReadCommand(m)
       PROVE  BlockInv'
  BY <1>25 DEF ReadCommand, IgnoreAfterRead, ClearIdleCancel
<1>26. CASE ReadEOF
  BY <1>26 DEF ReadEOF, Exit
<1>27. CASE StatementCancelHandler
  BY <1>27 DEF StatementCancelHandler
<1>28. CASE ProcessDie
  BY <1>28 DEF ProcessDie, Exit
<1>. HIDE DEF GateSteps
<1>29. CASE UNCHANGED vars
  BY <1>29 DEF vars
<1>. HIDE DEF BlockInv
<1>. QED
  BY ZenonT(30), <1>1, <1>2, <1>3, <1>4, <1>5, <1>6, <1>7, <1>8, <1>9, <1>10, <1>11,
       <1>12, <1>13, <1>14, <1>15, <1>16, <1>17, <1>18, <1>19, <1>20, <1>21,
       <1>22, <1>23, <1>24, <1>25, <1>26, <1>27, <1>28, <1>29, <1>2a, <1>2b,
       <1>22a, <1>22b DEF Next,
       Backend, Gate, SimpleQuery, OtherMessage, Exited

(* Work and portals stay inside a live transaction.                          *)
LEMMA WorkStep ==
  ASSUME TypeOK, FlowInv, BlockInv, WorkNeedsTransaction, [Next]_vars
  PROVE  WorkNeedsTransaction'
<1>. USE DEF input, flags, xact, session, check, cancel, outside, BlockInv,
     WorkNeedsTransaction, GateSteps, NoPortal, NoStmt
<1>1. CASE LoopTop
  BY <1>1 DEF LoopTop, ReadyForQuery
<1>2. CASE CreateJVM
  BY <1>2 DEF CreateJVM
<1>2a. CASE AttachThread
  BY <1>2a DEF AttachThread
<1>2b. CASE ReportNoEnv
  BY <1>2b DEF ReportNoEnv, Notice
<1>3. CASE ReportNoJVM
  BY <1>3 DEF ReportNoJVM, Notice
<1>4. CASE FindMethod
  BY <1>4 DEF FindMethod
<1>5. CASE ReportMissing
  BY <1>5 DEF ReportMissing, Notice, Interrupted
<1>6. CASE CallCheck
  BY <1>6 DEF CallCheck
<1>7. CASE RequestOverrun
  BY <1>7 DEF RequestOverrun, Exit
<1>8. CASE ReportTime
  BY <1>8 DEF ReportTime, Notice
<1>9. CASE DenyQuery
  BY <1>9 DEF DenyQuery, DoneReady, Tell
<1>10. CASE AdmitQuery
  BY <1>10 DEF AdmitQuery, DecisionRead
<1>11. CASE exec_replication_command
  BY <1>11 DEF exec_replication_command, Throw, DoneReady, Tell
<1>12. CASE SimpleStart
  BY <1>12 DEF SimpleStart, start_xact_command, finish_xact_command,
       CommitFails, Throw, Logging, Tell, StartedBlock,
       StartTransactionCommand, CommitTransactionCommand, Committing,
       RollingBack
<1>13. CASE SimpleStatement
  <2>. DEFINE s == msg.stmts[idx]
              b == AfterStatement(s, SimpleBlock)
  <2>1. pc = "stmt" /\ s \in StmtKinds
    BY <1>13, StatementShape DEF SimpleStatement
  <2>2. MayRun(s, blockState) =>
          /\ s \notin TransactionStmts => b = SimpleBlock /\ b # "ABORT"
          /\ s \in TransactionStmts =>
               b \in {"STARTED", "BEGIN", "INPROGRESS", "END", "ABORT_END",
                      "ABORT_PENDING"}
          /\ b = "STARTED" => SimpleBlock = "STARTED"
    BY <2>1, AfterStatementBlock, SimpleStatementBlock
  <2>3. SimpleBlock = "ABORT" => blockState = "ABORT"
    BY <2>1 DEF SimpleBlock, StartedBlock, StartTransactionCommand,
                BeginImplicitTransactionBlock, Unexpected
  <2>. DEFINE w == work \cup Effect(s, idx)
              e == IF use_implicit_block THEN EndImplicitTransactionBlock(b) ELSE b
  <2>4. MayRun(s, blockState) =>
          /\ b \in BlockStates \ {"DEFAULT", "ABORT"}
          /\ e \in BlockStates \ {"DEFAULT", "ABORT", "IMPLICIT_INPROGRESS"}
          /\ s \in TransactionStmts => b # "IMPLICIT_INPROGRESS"
    BY <2>1, <2>2, SimpleStatementBlock DEF EndImplicitTransactionBlock, BlockStates
  <2>. HIDE DEF b, e, w
  <2>5. CASE UNCHANGED <<blockState, work, portal>>
    BY <2>5
  <2>6. CASE /\ blockState' = SimpleBlock /\ work' = work
             /\ portal' \in {portal, [stmt |-> s, status |-> "FAILED"]}
    BY <2>1, <2>3, <2>6, SimpleStatementBlock
  <2>7. CASE MayRun(s, blockState) /\ EndStatement(b, w)
    <3>1. CASE finish_xact_command(e, w, NoPortal)
      BY <2>4, <2>7, <3>1, FinishKeepsWork
    <3>2. CASE s \in TransactionStmts /\ finish_xact_command(b, w, NoPortal)
      BY <2>4, <2>7, <3>2, FinishKeepsWork
    <3>3. CASE CommitFails(e, w, NoPortal) \/ CommitFails(b, w, NoPortal)
      BY <3>3, FailKeepsWork
    <3>4. CASE s \notin TransactionStmts /\ blockState' = b /\ portal' = NoPortal
      BY <2>1, <2>2, <2>4, <2>7, <3>4, SimpleStatementBlock
    <3>. QED
      BY <2>7, <3>1, <3>2, <3>3, <3>4 DEF EndStatement, e
  <2>. QED
    BY ZenonT(30), <1>13, <2>5, <2>6, <2>7 DEF SimpleStatement, b, w
<1>14. CASE RejectMessage
  BY <1>14 DEF RejectMessage, Throw
<1>15. CASE exec_parse_message
  BY <1>15 DEF exec_parse_message, Handling, start_xact_command, Throw, Logging,
       StartedBlock, StartTransactionCommand, WalSenderForbidden
<1>16. CASE exec_bind_message
  BY <1>16 DEF exec_bind_message, Handling, start_xact_command, Throw, Logging,
       StartedBlock, StartTransactionCommand, MayRun,
       IsAbortedTransactionBlockState, IsTransactionExitStmt, StmtKinds,
       TransactionStmts
<1>17. CASE exec_execute_message
  <2>1. /\ StartedBlock \in {"STARTED", "INPROGRESS", "ABORT"}
        /\ StartedBlock = "ABORT" => blockState = "ABORT"
    BY <1>17 DEF exec_execute_message, Handling, StartedBlock,
             StartTransactionCommand
  <2>. DEFINE s == portal.stmt
              b == AfterStatement(s, StartedBlock)
              w == work \cup Effect(s, 1)
              p == [stmt |-> s, status |-> "DONE"]
  <2>0. portal \in Portals
    BY DEF TypeOK
  <2>2. CASE UNCHANGED <<blockState, work, portal>>
    BY <2>2
  <2>3. CASE /\ start_xact_command /\ UNCHANGED work
             /\ portal' \in {portal, [portal EXCEPT !.status = "FAILED"]}
    BY <2>0, <2>1, <2>3 DEF start_xact_command, Portals
  <2>4. CASE /\ s \in StmtKinds /\ MayRun(s, StartedBlock)
             /\ CompletePortal(s, StartedBlock, w)
    <3>1. /\ s \notin TransactionStmts => StartedBlock # "ABORT"
          /\ s \in TransactionStmts =>
               b \in {"STARTED", "BEGIN", "INPROGRESS", "END", "ABORT_END",
                      "ABORT_PENDING"}
      BY <2>1, <2>4, AfterStatementBlock
    <3>. HIDE DEF b, w
    <3>2. CASE s \in TransactionStmts /\ finish_xact_command(b, w, p)
      BY <3>1, <3>2, FinishKeepsWork DEF BlockStates
    <3>3. CASE CommitFails(b, w, p)
      BY <3>3, FailKeepsWork
    <3>4. CASE s \notin TransactionStmts /\ blockState' = StartedBlock
      BY <2>1, <3>1, <3>4
    <3>. QED
      BY <2>4, <3>2, <3>3, <3>4 DEF CompletePortal, b
  <2>. QED
    BY <1>17, <2>2, <2>3, <2>4 DEF exec_execute_message
<1>18. CASE exec_describe_message
  BY <1>18 DEF exec_describe_message, Handling, start_xact_command, Throw,
       Done, StartedBlock, StartTransactionCommand, WalSenderForbidden
<1>19. CASE CloseMessage
  BY <1>19 DEF CloseMessage, Handling, Done
<1>20. CASE FlushMessage
  BY <1>20 DEF FlushMessage, Handling, Done
<1>21. CASE SyncMessage
  BY <1>21 DEF SyncMessage, Handling, finish_xact_command, CommitFails, Throw,
       DoneReady, StartedBlock, StartTransactionCommand,
       CommitTransactionCommand, Committing, RollingBack
<1>22. CASE HandleFunctionRequest
  <2>1. StartedBlock \in {"STARTED", "INPROGRESS", "ABORT"}
    BY <1>22 DEF HandleFunctionRequest, Handling, StartedBlock,
             StartTransactionCommand
  <2>2. StartedBlock = "ABORT" => blockState = "ABORT"
    BY <1>22 DEF HandleFunctionRequest, Handling, StartedBlock,
             StartTransactionCommand
  <2>3. CASE UNCHANGED work
    BY <1>22, <2>1, <2>2, <2>3 DEF HandleFunctionRequest, start_xact_command
  <2>4. CASE StartedBlock # "ABORT"
    BY <1>22, <2>1, <2>4 DEF HandleFunctionRequest, start_xact_command
  <2>. QED
    BY <1>22, <2>3, <2>4
       DEF HandleFunctionRequest, IsAbortedTransactionBlockState
<1>22a. CASE LogDuration
  BY <1>22a DEF LogDuration, Throw, Done, DoneReady
<1>22b. CASE FinishFunctionCall
  <2>1. blockState \in BlockStates \ {"DEFAULT", "ABORT", "IMPLICIT_INPROGRESS"}
    BY <1>22b DEF FinishFunctionCall, BlockStates
  <2>. QED
    BY <1>22b, <2>1, FinishKeepsWork, FailKeepsWork DEF FinishFunctionCall
<1>23. CASE TerminateMessage
  BY <1>23 DEF TerminateMessage, Handling, Exit
<1>24. CASE Recover
  <2>1. work' = {} /\ blockState' = AbortCurrentTransaction(blockState)
    BY <1>24 DEF Recover
  <2>2. CASE blockState' = "DEFAULT"
    <3>1. portal' = NoPortal
      BY <1>24, <2>1, <2>2 DEF Recover, PortalAfterAbort
    <3>. QED
      BY <2>1, <2>2, <3>1 DEF WorkNeedsTransaction
  <2>3. CASE blockState' = "ABORT"
    <3>1. portal'.status = "READY" => blockState = "ABORT" /\ portal' = portal
      BY <1>24, <2>1, <2>3 DEF Recover, PortalAfterAbort, TypeOK
    <3>. QED
      BY <2>1, <2>3, <3>1 DEF WorkNeedsTransaction
  <2>. QED
    BY <2>1, <2>2, <2>3 DEF AbortCurrentTransaction
<1>25. ASSUME NEW m \in Messages, ReadCommand(m)
       PROVE  WorkNeedsTransaction'
  BY <1>25 DEF ReadCommand, IgnoreAfterRead, ClearIdleCancel
<1>26. CASE ReadEOF
  BY <1>26 DEF ReadEOF, Exit
<1>27. CASE StatementCancelHandler
  BY <1>27 DEF StatementCancelHandler
<1>28. CASE ProcessDie
  BY <1>28 DEF ProcessDie, Exit
<1>. HIDE DEF GateSteps, NoPortal, NoStmt
<1>29. CASE UNCHANGED vars
  BY <1>29 DEF vars
<1>. HIDE DEF BlockInv, WorkNeedsTransaction
<1>. QED
  BY ZenonT(30), <1>1, <1>2, <1>3, <1>4, <1>5, <1>6, <1>7, <1>8, <1>9, <1>10, <1>11,
       <1>12, <1>13, <1>14, <1>15, <1>16, <1>17, <1>18, <1>19, <1>20, <1>21,
       <1>22, <1>23, <1>24, <1>25, <1>26, <1>27, <1>28, <1>29, <1>2a, <1>2b,
       <1>22a, <1>22b DEF Next,
       Backend, Gate, SimpleQuery, OtherMessage, Exited

(* The answers told so far always match the point reached.                   *)
LEMMA ReplyStep ==
  ASSUME TypeOK, FlowInv, ReplyInv, [Next]_vars
  PROVE  ReplyInv'
<1>. USE DEF input, flags, xact, session, check, cancel, outside
<1>0. /\ reply \in Replies /\ Len(msg.stmts) \in Nat
      /\ (msg.stmts = <<>> => Len(msg.stmts) = 0)
      /\ (pc \in SimpleSteps => msg.type = "Q")
  BY MessageShape DEF TypeOK, FlowInv
<1>quiet. ASSUME pc \in GateSteps \cup {"parse", "run"},
                 pc' \in GateSteps \cup {"parse", "error"}, UNCHANGED <<msg, reply>>
          PROVE  ReplyInv'
  <2>1. reply = NoReply /\ reply' = NoReply
    BY <1>quiet DEF ReplyInv
  <2>2. Counted' => CutAnswer'
    BY <2>1 DEF Counted, CutAnswer, NoReply
  <2>. QED
    BY <1>quiet, <2>1, <2>2 DEF ReplyInv, NoReply, GateSteps
<1>unanswered. ASSUME pc' = "top", UNCHANGED msg, ~Counted
               PROVE  ReplyInv'
  BY <1>unanswered DEF ReplyInv, Answered, Counted, GateSteps
<1>silent. ASSUME pc' \in {"log", "error"}, UNCHANGED msg, ~Counted,
                  reply'.error = 0, reply'.denied = 0
           PROVE  ReplyInv'
  BY <1>silent DEF ReplyInv, Counted, GateSteps
<1>whole. ASSUME pc' \in {"log", "top"}, WholeAnswer', reply'.error = 0,
                 pc' = "log" => reply'.denied = 0
          PROVE  ReplyInv'
  BY <1>whole DEF ReplyInv, Answered, GateSteps
<1>gone. ASSUME pc' = "exited" PROVE ReplyInv'
  BY Zenon, <1>gone DEF ReplyInv, GateSteps
<1>idle. ASSUME pc \in {"top", "read"}, pc' \in {"top", "read"}, UNCHANGED <<msg, reply>>
         PROVE  ReplyInv'
  BY ZenonT(30), <1>idle DEF ReplyInv, Answered, Counted, WholeAnswer, CutAnswer, GateSteps
<1>same. ASSUME UNCHANGED <<pc, idx, msg, reply>>,
                QueryCancelPending => QueryCancelPending'
         PROVE  ReplyInv'
  BY ZenonT(30), <1>same DEF ReplyInv, Answered, Counted, WholeAnswer, CutAnswer
<1>1. CASE LoopTop
  BY <1>1, <1>idle DEF LoopTop, ReadyForQuery
<1>2. CASE CreateJVM
  BY <1>2, <1>quiet DEF CreateJVM, GateSteps
<1>2a. CASE AttachThread
  BY <1>2a, <1>quiet DEF AttachThread, GateSteps
<1>2b. CASE ReportNoEnv
  BY <1>2b, <1>quiet DEF ReportNoEnv, Notice, GateSteps
<1>3. CASE ReportNoJVM
  BY <1>3, <1>quiet DEF ReportNoJVM, Notice, GateSteps
<1>4. CASE FindMethod
  BY <1>4, <1>quiet DEF FindMethod, GateSteps
<1>5. CASE ReportMissing
  BY <1>5, <1>quiet DEF ReportMissing, Notice, GateSteps
<1>6. CASE CallCheck
  BY <1>6, <1>quiet DEF CallCheck, GateSteps
<1>7. CASE RequestOverrun
  BY <1>7, <1>gone DEF RequestOverrun, Exit
<1>8. CASE ReportTime
  BY <1>8, <1>quiet DEF ReportTime, Notice, GateSteps
<1>9. CASE DenyQuery
  <2>1. pc = "decide" /\ Tell("denied") /\ UNCHANGED <<msg, QueryCancelPending>>
    BY <1>9 DEF DenyQuery
  <2>2. msg.type = "Q" /\ reply = NoReply
    BY <1>0, <2>1 DEF SimpleSteps, GateSteps, ReplyInv
  <2>3. WholeAnswer' /\ reply'.error = 0
    BY <2>1, <2>2 DEF Tell, WholeAnswer, NoReply
  <2>4. CASE pc' = "error" /\ QueryCancelPending
    BY <2>1, <2>3, <2>4 DEF ReplyInv, GateSteps
  <2>5. CASE pc' = "top"
    BY <2>3, <2>5, <1>whole
  <2>. QED
    BY <1>9, <2>4, <2>5 DEF DenyQuery, DoneReady, Interrupted
<1>10. CASE AdmitQuery
  BY <1>10, <1>quiet DEF AdmitQuery, GateSteps
<1>11. CASE exec_replication_command
  <2>1. pc = "parse" /\ am_walsender /\ msg.type = "Q" /\ UNCHANGED msg
    BY <1>11, <1>0 DEF exec_replication_command, SimpleSteps
  <2>. QED
    BY <1>11, <2>1, <1>quiet, <1>unanswered
       DEF exec_replication_command, Throw, DoneReady, Counted
<1>12. CASE SimpleStart
  <2>1. pc = "parse" /\ reply = NoReply /\ msg.type = "Q" /\ UNCHANGED msg
    BY <1>12, <1>0 DEF SimpleStart, SimpleSteps, ReplyInv
  <2>2. CASE Throw
    BY ZenonT(30), <2>1, <2>2, <1>quiet DEF Throw
  <2>3. CASE msg.stmts # <<>> /\ pc' = "stmt" /\ idx' = 1 /\ UNCHANGED reply
    BY <2>1, <2>3 DEF ReplyInv, NoReply, GateSteps
  <2>4. CASE msg.stmts = <<>> /\ pc' = "log" /\ Tell("empty")
    <3>1. WholeAnswer' /\ reply'.error = 0 /\ reply'.denied = 0
      BY <1>0, <2>1, <2>4 DEF Tell, WholeAnswer, NoReply
    <3>. QED
      BY <2>4, <3>1, <1>whole
  <2>. QED
    BY ZenonT(30), <1>12, <2>2, <2>3, <2>4 DEF SimpleStart, CommitFails, Logging
<1>13. CASE SimpleStatement
  <2>1. /\ pc = "stmt" /\ msg.type = "Q" /\ idx \in 1 .. Len(msg.stmts)
        /\ msg.stmts # <<>> /\ UNCHANGED msg
    <3>1. pc = "stmt" /\ UNCHANGED msg
      BY ZenonT(30), <1>13 DEF SimpleStatement
    <3>. QED
      BY <3>1, <1>0, MessageShape DEF FlowInv, SimpleSteps
  <2>2. CASE pc' = "error" /\ UNCHANGED reply
    BY <1>0, <2>1, <2>2 DEF ReplyInv, CutAnswer, GateSteps
  <2>3. CASE pc' = "stmt" /\ idx' = idx + 1 /\ Tell("complete")
    BY <1>0, <2>1, <2>3 DEF ReplyInv, GateSteps, Tell, Replies
  <2>4. CASE pc' = "log" /\ idx = Len(msg.stmts) /\ Tell("complete")
    <3>1. WholeAnswer' /\ reply'.error = 0 /\ reply'.denied = 0
      BY <1>0, <2>1, <2>4 DEF ReplyInv, Tell, WholeAnswer, Replies
    <3>. QED
      BY <2>4, <3>1, <1>whole
  <2>. QED
    BY ZenonT(30), <1>13, <2>2, <2>3, <2>4
       DEF SimpleStatement, EndStatement, CommitFails, Throw, Logging
<1>14. CASE RejectMessage
  BY <1>14, <1>quiet DEF RejectMessage, Throw, GateSteps
<1>15. CASE exec_parse_message
  <2>1. pc = "run" /\ msg.type = "P" /\ UNCHANGED <<msg, reply>> /\ pc' \in {"log", "error"}
    BY Zenon, <1>15 DEF exec_parse_message, Handling, Throw, Logging
  <2>. QED
    BY <2>1, <1>silent DEF ReplyInv, NoReply, Counted
<1>16. CASE exec_bind_message
  <2>1. pc = "run" /\ msg.type = "B" /\ UNCHANGED <<msg, reply>> /\ pc' \in {"log", "error"}
    BY Zenon, <1>16 DEF exec_bind_message, Handling, Throw, Logging
  <2>. QED
    BY <2>1, <1>silent DEF ReplyInv, NoReply, Counted
<1>17. CASE exec_execute_message
  <2>1. pc = "run" /\ reply = NoReply /\ msg.type = "E" /\ UNCHANGED msg
    BY <1>17 DEF exec_execute_message, Handling, ReplyInv
  <2>2. CASE Throw
    BY ZenonT(30), <2>1, <2>2, <1>quiet DEF Throw
  <2>3. CASE /\ pc' \in {"top", "log"}
             /\ \E what \in {"complete", "empty", "suspended"} : Tell(what)
    <3>1. WholeAnswer' /\ reply'.error = 0 /\ reply'.denied = 0
      BY <2>1, <2>3 DEF Tell, WholeAnswer, NoReply
    <3>. QED
      BY <2>3, <3>1, <1>whole
  <2>. QED
    BY ZenonT(30), <1>17, <2>2, <2>3 DEF exec_execute_message, CompletePortal, CommitFails, Done, Logging
<1>18. CASE exec_describe_message
  BY <1>18, <1>quiet, <1>unanswered DEF exec_describe_message, Handling, Throw, Done, Counted
<1>19. CASE CloseMessage
  BY <1>19, <1>unanswered DEF CloseMessage, Handling, Done, Counted
<1>20. CASE FlushMessage
  BY <1>20, <1>unanswered DEF FlushMessage, Handling, Done, Counted
<1>21. CASE SyncMessage
  BY <1>21, <1>quiet, <1>unanswered DEF SyncMessage, Handling, CommitFails, Throw, DoneReady, Counted
<1>22. CASE HandleFunctionRequest
  <2>1. /\ pc = "run" /\ msg.type = "F" /\ pc' \in {"log", "error"}
        /\ UNCHANGED msg /\ (reply' = reply \/ Tell("complete"))
    BY Zenon, <1>22 DEF HandleFunctionRequest, Handling, Throw, Logging
  <2>. QED
    BY <2>1, <1>silent DEF Tell, ReplyInv, NoReply, Counted
<1>22a. CASE LogDuration
  <2>1. pc = "log" /\ UNCHANGED <<msg, reply, QueryCancelPending>>
    BY <1>22a DEF LogDuration, Throw
  <2>2. CASE pc' = "error" /\ QueryCancelPending
    BY ZenonT(30), <2>1, <2>2 DEF ReplyInv, Counted, WholeAnswer, GateSteps
  <2>3. CASE pc' = "top"
    BY ZenonT(30), <2>1, <2>3 DEF ReplyInv, Answered, Counted, WholeAnswer, GateSteps
  <2>. QED
    BY <1>22a, <2>2, <2>3 DEF LogDuration, Throw, Done, DoneReady, Interrupted
<1>22b. CASE FinishFunctionCall
  <2>1. /\ pc = "log" /\ msg.type = "F" /\ pc' \in {"top", "error"}
        /\ UNCHANGED <<msg, reply>>
    BY Zenon, <1>22b DEF FinishFunctionCall, CommitFails, Throw, DoneReady
  <2>. QED
    BY <2>1, <1>silent, <1>unanswered DEF ReplyInv, Counted
<1>23. CASE TerminateMessage
  BY ZenonT(30), <1>23, <1>gone DEF TerminateMessage, Exit
<1>24. CASE Recover
  <2>0. pc = "error" /\ pc' = "top" /\ Tell("error") /\ UNCHANGED msg
    BY Zenon, <1>24 DEF Recover
  <2>3. reply.error = 0
    BY Zenon, <2>0 DEF ReplyInv
  <2>1. /\ reply'.complete = reply.complete /\ reply'.empty = reply.empty
        /\ reply'.suspended = reply.suspended /\ reply'.denied = reply.denied
        /\ reply'.error = 1
    BY <2>0, <2>3, <1>0 DEF Tell, Replies
  <2>2. Counted' => (WholeAnswer \/ CutAnswer)'
    BY <1>0, <2>0, <2>1 DEF ReplyInv, Counted, WholeAnswer, CutAnswer, Replies
  <2>. QED
    BY <2>0, <2>1, <2>2 DEF ReplyInv, Answered, GateSteps
<1>25. ASSUME NEW m \in Messages, ReadCommand(m)
       PROVE  ReplyInv'
  <2>1. CASE pc' = "top" /\ UNCHANGED <<msg, reply>>
    BY <1>25, <2>1, <1>idle DEF ReadCommand
  <2>2. CASE pc' \in {"jvm", "run"} /\ reply' = NoReply
    BY <2>2 DEF ReplyInv, GateSteps
  <2>. QED
    BY <1>25, <2>1, <2>2 DEF ReadCommand
<1>26. CASE ReadEOF
  BY <1>26, <1>gone DEF ReadEOF, Exit
<1>27. CASE StatementCancelHandler
  BY <1>27, <1>same DEF StatementCancelHandler
<1>28. CASE ProcessDie
  BY <1>28, <1>gone DEF ProcessDie, Exit
<1>29. CASE UNCHANGED vars
  BY <1>29, <1>same DEF vars
<1>. QED
  BY ZenonT(30), <1>1, <1>2, <1>3, <1>4, <1>5, <1>6, <1>7, <1>8, <1>9, <1>10, <1>11,
       <1>12, <1>13, <1>14, <1>15, <1>16, <1>17, <1>18, <1>19, <1>20, <1>21,
       <1>22, <1>23, <1>24, <1>25, <1>26, <1>27, <1>28, <1>29, <1>2a, <1>2b,
       <1>22a, <1>22b DEF Next,
       Backend, Gate, SimpleQuery, OtherMessage, Exited

(* A handler that asks for ReadyForQuery has finished the transaction        *)
(* command, unless it denied the query.                                      *)
LEMMA IdleStep ==
  ASSUME TypeOK, FlowInv, BlockInv, ReplyInv, IdleReportIsTrueUnlessDenied,
         [Next]_vars
  PROVE  IdleReportIsTrueUnlessDenied'
<1>. USE DEF input, flags, xact, session, check, cancel, outside, BlockInv,
     IdleReportIsTrueUnlessDenied, GateSteps, BusySteps,
     TransactionBlockStatusCode
<1>0. reply \in Replies /\ (pc \in BusySteps => ~send_ready_for_query)
  BY DEF TypeOK, FlowInv
<1>1. CASE LoopTop
  BY <1>1, <1>0 DEF LoopTop, ReadyForQuery
<1>2. CASE CreateJVM
  BY <1>2, <1>0 DEF CreateJVM
<1>2a. CASE AttachThread
  BY <1>2a, <1>0 DEF AttachThread
<1>2b. CASE ReportNoEnv
  BY <1>2b, <1>0 DEF ReportNoEnv, Notice
<1>3. CASE ReportNoJVM
  BY <1>3, <1>0 DEF ReportNoJVM, Notice
<1>4. CASE FindMethod
  BY <1>4, <1>0 DEF FindMethod
<1>5. CASE ReportMissing
  BY <1>5, <1>0 DEF ReportMissing, Notice, Interrupted
<1>6. CASE CallCheck
  BY <1>6, <1>0 DEF CallCheck
<1>7. CASE RequestOverrun
  BY <1>7, <1>0 DEF RequestOverrun, Exit
<1>8. CASE ReportTime
  BY <1>8, <1>0 DEF ReportTime, Notice
<1>9. CASE DenyQuery
  <2>1. reply = NoReply
    BY <1>9 DEF DenyQuery, ReplyInv
  <2>2. reply'.denied = 1 /\ reply'.error = 0
    BY <1>9, <2>1 DEF DenyQuery, Tell, NoReply
  <2>. QED
    BY <2>2
<1>10. CASE AdmitQuery
  BY <1>10, <1>0 DEF AdmitQuery, DecisionRead
<1>11. CASE exec_replication_command
  BY <1>11, <1>0 DEF exec_replication_command, Throw, DoneReady, Tell
<1>12. CASE SimpleStart
  BY <1>12, <1>0 DEF SimpleStart, start_xact_command, finish_xact_command,
       CommitFails, Throw, Logging, Tell, StartedBlock,
       StartTransactionCommand, CommitTransactionCommand, Committing,
       RollingBack
<1>13. CASE SimpleStatement
  <2>. DEFINE s == msg.stmts[idx]
              b == AfterStatement(s, SimpleBlock)
  <2>1. pc = "stmt" /\ s \in StmtKinds
    BY <1>13, StatementShape DEF SimpleStatement
  <2>2. MayRun(s, blockState) =>
          /\ s \notin TransactionStmts => b = SimpleBlock /\ b # "ABORT"
          /\ s \in TransactionStmts =>
               b \in {"STARTED", "BEGIN", "INPROGRESS", "END", "ABORT_END",
                      "ABORT_PENDING"}
          /\ b = "STARTED" => SimpleBlock = "STARTED"
    BY <2>1, AfterStatementBlock, SimpleStatementBlock
  <2>. HIDE DEF b
  <2>. QED
    BY <1>13, <2>1, <2>2, SimpleStatementBlock, MessageShape DEF SimpleStatement,
         EndStatement, finish_xact_command, CommitFails, Throw, Logging,
         CommitTransactionCommand, Committing, RollingBack,
         EndImplicitTransactionBlock, b
<1>14. CASE RejectMessage
  BY <1>14, <1>0 DEF RejectMessage, Throw
<1>15. CASE exec_parse_message
  BY Zenon, <1>15, <1>0 DEF exec_parse_message, Handling, start_xact_command, Throw,
       Logging
<1>16. CASE exec_bind_message
  BY Zenon, <1>16, <1>0 DEF exec_bind_message, Handling, start_xact_command, Throw,
       Logging
<1>17. CASE exec_execute_message
  BY Zenon, <1>17, <1>0 DEF exec_execute_message, Handling, start_xact_command,
       CompletePortal, finish_xact_command, CommitFails, Throw, Done, Logging, Tell
<1>18. CASE exec_describe_message
  BY Zenon, <1>18, <1>0 DEF exec_describe_message, Handling, start_xact_command,
       Throw, Done
<1>19. CASE CloseMessage
  BY <1>19, <1>0 DEF CloseMessage, Handling, Done
<1>20. CASE FlushMessage
  BY <1>20, <1>0 DEF FlushMessage, Handling, Done
<1>21. CASE SyncMessage
  BY <1>21, <1>0 DEF SyncMessage, Handling, finish_xact_command, CommitFails,
       Throw, DoneReady, CommitTransactionCommand, Committing, RollingBack
<1>22. CASE HandleFunctionRequest
  BY Zenon, <1>22, <1>0 DEF HandleFunctionRequest, Throw, Logging
<1>22a. CASE LogDuration
  BY Zenon, <1>22a, <1>0 DEF LogDuration, Throw, Done, DoneReady
<1>22b. CASE FinishFunctionCall
  BY <1>22b, <1>0 DEF FinishFunctionCall, finish_xact_command, CommitFails,
       Throw, DoneReady, CommitTransactionCommand, Committing, RollingBack
<1>23. CASE TerminateMessage
  BY <1>23, <1>0 DEF TerminateMessage, Handling, Exit
<1>24. CASE Recover
  BY <1>24, <1>0 DEF Recover, Tell, AbortCurrentTransaction
<1>25. ASSUME NEW m \in Messages, ReadCommand(m)
       PROVE  IdleReportIsTrueUnlessDenied'
  <2>1. ~send_ready_for_query'
    BY <1>25 DEF ReadCommand, FlowInv
  <2>. QED
    BY <2>1
<1>26. CASE ReadEOF
  BY <1>26, <1>0 DEF ReadEOF, Exit
<1>27. CASE StatementCancelHandler
  BY <1>27, <1>0 DEF StatementCancelHandler
<1>28. CASE ProcessDie
  BY <1>28, <1>0 DEF ProcessDie, Exit
<1>. HIDE DEF GateSteps, BusySteps, TransactionBlockStatusCode
<1>29. CASE UNCHANGED vars
  BY <1>29 DEF vars
<1>. HIDE DEF BlockInv, IdleReportIsTrueUnlessDenied
<1>. QED
  BY ZenonT(30), <1>1, <1>2, <1>3, <1>4, <1>5, <1>6, <1>7, <1>8, <1>9, <1>10, <1>11,
       <1>12, <1>13, <1>14, <1>15, <1>16, <1>17, <1>18, <1>19, <1>20, <1>21,
       <1>22, <1>23, <1>24, <1>25, <1>26, <1>27, <1>28, <1>29, <1>2a, <1>2b,
       <1>22a, <1>22b DEF Next,
       Backend, Gate, SimpleQuery, OtherMessage, Exited
=============================================================================
