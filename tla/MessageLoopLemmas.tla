------------------------- MODULE MessageLoopLemmas --------------------------
(***************************************************************************)
(* Lemmas about the message, the transaction block and the transaction     *)
(* commands of MessageLoop, and the proof that every step keeps the types  *)
(* and the message a cancel hits.                                          *)
(***************************************************************************)
EXTENDS MessageLoopInvariant, TLAPS

(* The message being processed is one the client may send, or none yet.      *)
LEMMA MessageShape ==
  ASSUME TypeOK
  PROVE  /\ msg.type \in MsgTypes \cup {"none"}
         /\ msg.stmts \in Seq(StmtKinds)
         /\ Len(msg.stmts) \in Nat
<1>1. msg \in MessageRecords \cup {NoMsg}
  BY LoopAssumption DEF TypeOK
<1>2. <<>> \in Seq(StmtKinds)
  OBVIOUS
<1>3. CASE msg = NoMsg
  <2>1. msg.type = "none" /\ msg.stmts = <<>>
    BY <1>3 DEF NoMsg
  <2>. QED
    BY <1>2, <2>1
<1>4. CASE msg \in MessageRecords
  BY <1>4 DEF MessageRecords
<1>. QED
  BY <1>1, <1>3, <1>4

(* The loop of exec_simple_query indexes a statement of the message.         *)
LEMMA StatementShape ==
  ASSUME TypeOK, FlowInv, pc = "stmt"
  PROVE  msg.stmts[idx] \in StmtKinds
  BY MessageShape DEF FlowInv

(* Running a statement that may run takes the block to a state that          *)
(* CommitTransactionCommand accepts; only a lone statement stays STARTED.    *)
LEMMA AfterStatementBlock ==
  ASSUME NEW b \in {"STARTED", "IMPLICIT_INPROGRESS", "INPROGRESS", "ABORT"},
         NEW s \in StmtKinds, MayRun(s, b)
  PROVE  /\ s \notin TransactionStmts =>
              AfterStatement(s, b) = b /\ b # "ABORT"
         /\ s \in TransactionStmts =>
              AfterStatement(s, b) \in
                {"STARTED", "BEGIN", "INPROGRESS", "END", "ABORT_END", "ABORT_PENDING"}
         /\ AfterStatement(s, b) = "STARTED" => b = "STARTED"
  BY DEF StmtKinds, TransactionStmts, MayRun, IsTransactionExitStmt,
         IsAbortedTransactionBlockState, AfterStatement, BeginTransactionBlock,
         EndTransactionBlock, UserAbortTransactionBlock

(* The block in which exec_simple_query runs a statement.                    *)
LEMMA SimpleStatementBlock ==
  ASSUME TypeOK, FlowInv, BlockInv, pc = "stmt"
  PROVE  /\ SimpleBlock \in
              IF use_implicit_block
              THEN {"IMPLICIT_INPROGRESS", "INPROGRESS", "ABORT"}
              ELSE {"STARTED", "INPROGRESS", "ABORT"}
         /\ \A s : MayRun(s, blockState) => MayRun(s, SimpleBlock)
  BY Zenon, MessageShape DEF TypeOK, BlockInv, SimpleBlock, StartedBlock, MayRun,
     IsAbortedTransactionBlockState, StartTransactionCommand,
     BeginImplicitTransactionBlock, Unexpected, BlockStates


(* Effects carry the number of the current message.                          *)
LEMMA EffectNumber == \A s, i : \A e \in Effect(s, i) : e[1] = n
  BY DEF Effect

(* Finishing a command of a live transaction keeps work inside one.          *)
LEMMA FinishKeepsWork ==
  ASSUME NEW b \in BlockStates \ {"DEFAULT", "ABORT", "IMPLICIT_INPROGRESS"},
         NEW w, NEW p, finish_xact_command(b, w, p)
  PROVE  WorkNeedsTransaction'
  BY DEF finish_xact_command, CommitTransactionCommand, Committing,
         RollingBack, BlockStates, WorkNeedsTransaction

(* So does failing to commit.                                                *)
LEMMA FailKeepsWork ==
  ASSUME NEW b, NEW w, NEW p, CommitFails(b, w, p)
  PROVE  WorkNeedsTransaction'
  BY DEF CommitFails, Committing, WorkNeedsTransaction

(* The part of the type invariant that the transaction commands touch.       *)
XactTypes ==
  /\ blockState \in BlockStates
  /\ xact_started \in BOOLEAN
  /\ work \subseteq Nat \X Nat
  /\ durable \subseteq Nat \X Nat
  /\ portal \in Portals

(* Telling the client something keeps the type of the answers.               *)
LEMMA TellType ==
  ASSUME reply \in Replies, Tell("complete") \/ Tell("empty") \/ Tell("suspended")
                              \/ Tell("error") \/ Tell("denied")
  PROVE  reply' \in Replies
  BY DEF Replies, Tell

(* Finishing a transaction command keeps the types.                          *)
LEMMA FinishType ==
  ASSUME XactTypes, NEW b \in BlockStates \ {"DEFAULT"},
         NEW w \in SUBSET (Nat \X Nat), NEW p \in Portals,
         finish_xact_command(b, w, p)
  PROVE  XactTypes'
<1>1. blockState' \in BlockStates
  BY DEF finish_xact_command, CommitTransactionCommand, Committing,
         RollingBack, BlockStates
<1>2. xact_started' \in BOOLEAN
  BY Zenon DEF finish_xact_command
<1>3. work' \subseteq Nat \X Nat /\ durable' \subseteq Nat \X Nat
  BY DEF finish_xact_command, XactTypes
<1>4. NoPortal \in Portals
  BY DEF NoPortal, NoStmt, Portals
<1>5. portal' \in Portals
  BY <1>4 DEF finish_xact_command
<1>. QED
  BY <1>1, <1>2, <1>3, <1>5 DEF XactTypes

(* A failed commit keeps the types.                                          *)
LEMMA FailType ==
  ASSUME XactTypes, NEW b, NEW w \in SUBSET (Nat \X Nat), NEW p \in Portals,
         CommitFails(b, w, p)
  PROVE  XactTypes'
<1>1. blockState' \in BlockStates
  BY DEF CommitFails, Committing, BlockStates
<1>2. xact_started' \in BOOLEAN
  BY DEF CommitFails
<1>. QED
  BY <1>1, <1>2 DEF CommitFails, XactTypes

(* At the points where a handler may open a transaction command, the block   *)
(* state it then finds is one that allows it.                                *)
LEMMA StartedBlockType ==
  ASSUME TypeOK, BlockInv, pc \in {"run", "parse"}
  PROVE  /\ StartedBlock \in {"STARTED", "INPROGRESS", "ABORT"}
         /\ StartedBlock \in BlockStates \ {"DEFAULT"}
  BY DEF TypeOK, BlockInv, StartedBlock, StartTransactionCommand, BlockStates

(* Opening a transaction command keeps the types.                            *)
LEMMA StartType ==
  ASSUME TypeOK, BlockInv, pc \in {"run", "parse"}, start_xact_command
  PROVE  blockState' \in BlockStates /\ xact_started' \in BOOLEAN
<1>1. blockState' \in BlockStates
  BY StartedBlockType DEF start_xact_command
<1>2. xact_started' \in BOOLEAN
  BY DEF start_xact_command
<1>. QED
  BY <1>1, <1>2

(* The effects of the current message are numbered.                          *)
LEMMA EffectType ==
  ASSUME TypeOK, NEW s, NEW i \in Nat
  PROVE  work \cup Effect(s, i) \in SUBSET (Nat \X Nat)
<1>1. n \in Nat
  BY LoopAssumption DEF TypeOK
<1>2. Effect(s, i) \subseteq Nat \X Nat
  BY <1>1 DEF Effect
<1>. QED
  BY <1>2 DEF TypeOK


(* Every step keeps the types, given the control flow and the block state.   *)
LEMMA TypeStep ==
  ASSUME TypeOK, FlowInv, BlockInv, [Next]_vars
  PROVE  TypeOK'
<1>. USE DEF input, flags, xact, session, check, cancel, outside
<1>1. CASE LoopTop
  <2>1. owed' \in {0, 1}
    BY <1>1 DEF LoopTop, ReadyForQuery, FlowInv, TypeOK
  <2>2. /\ send_ready_for_query' \in BOOLEAN
        /\ doing_extended_query_message' \in BOOLEAN
    BY Zenon, <1>1 DEF LoopTop
  <2>3. pc' \in PcValues
    BY <1>1 DEF LoopTop, PcValues
  <2>. QED
    BY <1>1, <2>1, <2>2, <2>3 DEF LoopTop, TypeOK
<1>2. CASE CreateJVM
  BY <1>2 DEF CreateJVM, TypeOK, PcValues, BusySteps, GateSteps
<1>2a. CASE AttachThread
  BY <1>2a DEF AttachThread, TypeOK, PcValues, BusySteps, GateSteps
<1>2b. CASE ReportNoEnv
  BY <1>2b DEF ReportNoEnv, Notice, TypeOK, PcValues, BusySteps, GateSteps
<1>3. CASE ReportNoJVM
  BY <1>3 DEF ReportNoJVM, Notice, TypeOK, PcValues, BusySteps, GateSteps
<1>4. CASE FindMethod
  BY <1>4 DEF FindMethod, TypeOK, PcValues, BusySteps, GateSteps
<1>5. CASE ReportMissing
  BY <1>5 DEF ReportMissing, Notice, TypeOK, PcValues, BusySteps, GateSteps
<1>6. CASE CallCheck
  <2>1. pc' \in PcValues
    BY <1>6 DEF CallCheck, PcValues, BusySteps, GateSteps
  <2>2. decision' \in {"true", "false", "uninitialized"}
    BY Zenon, <1>6 DEF CallCheck
  <2>3. n \in Nat
    BY DEF TypeOK
  <2>4. refused' \subseteq Nat
    BY Zenon, <1>6, <2>3 DEF CallCheck, TypeOK
  <2>. QED
    BY <1>6, <2>1, <2>2, <2>4 DEF CallCheck, TypeOK
<1>7. CASE RequestOverrun
  <2>1. pc' \in PcValues
    BY <1>7 DEF RequestOverrun, Exit, PcValues
  <2>2. blockState' \in BlockStates /\ portal' \in Portals
    BY <1>7 DEF RequestOverrun, Exit, BlockStates, Portals, NoPortal, NoStmt
  <2>3. /\ xact_started' \in BOOLEAN
        /\ unnamed_stmt' \in StmtKinds \cup {"empty", NoStmt}
    BY Zenon, <1>7 DEF RequestOverrun, Exit
  <2>. QED
    BY <1>7, <2>1, <2>2, <2>3 DEF RequestOverrun, Exit, TypeOK
<1>8. CASE ReportTime
  BY <1>8 DEF ReportTime, Notice, TypeOK, PcValues, BusySteps, GateSteps
<1>9. CASE DenyQuery
  <2>1. pc' \in PcValues
    BY <1>9 DEF DenyQuery, DoneReady, PcValues, BusySteps
  <2>2. send_ready_for_query' \in BOOLEAN
    BY Zenon, <1>9 DEF DenyQuery, DoneReady, TypeOK
  <2>3. reply' \in Replies
    BY <1>9, TellType DEF DenyQuery, TypeOK
  <2>. QED
    BY <1>9, <2>1, <2>2, <2>3 DEF DenyQuery, TypeOK
<1>10. CASE AdmitQuery
  BY <1>10 DEF AdmitQuery, DecisionRead, TypeOK, PcValues, BusySteps,
       GateSteps
<1>11. CASE exec_replication_command
  <2>1. pc' \in PcValues
    BY <1>11 DEF exec_replication_command, Throw, DoneReady, PcValues, BusySteps
  <2>2. send_ready_for_query' \in BOOLEAN
    BY Zenon, <1>11 DEF exec_replication_command, Throw, DoneReady, TypeOK
  <2>3. reply' \in Replies
    BY <1>11, TellType DEF exec_replication_command, Throw, TypeOK
  <2>. QED
    BY <1>11, <2>1, <2>2, <2>3 DEF exec_replication_command, TypeOK
<1>12. CASE SimpleStart
  <2>0. XactTypes /\ StartedBlock \in BlockStates \ {"DEFAULT"} /\ pc = "parse"
    BY <1>12, StartedBlockType DEF SimpleStart, XactTypes, TypeOK
  <2>1. pc' \in PcValues /\ idx' \in Nat
    BY <1>12 DEF SimpleStart, CommitFails, Throw, Logging, PcValues, BusySteps, TypeOK
  <2>2. send_ready_for_query' \in BOOLEAN
    BY Zenon, <1>12 DEF SimpleStart, CommitFails, Throw, Logging, TypeOK
  <2>3. reply' \in Replies
    BY <1>12, TellType DEF SimpleStart, CommitFails, Throw, TypeOK
  <2>4. XactTypes'
    <3>1. CASE start_xact_command /\ UNCHANGED <<work, durable, portal>>
      BY <2>0, <3>1, StartType DEF XactTypes
    <3>2. CASE finish_xact_command(StartedBlock, work, portal)
      BY <2>0, <3>2, FinishType DEF XactTypes
    <3>3. CASE CommitFails(StartedBlock, work, portal)
      BY <2>0, <3>3, FailType DEF XactTypes
    <3>. QED
      BY <1>12, <3>1, <3>2, <3>3 DEF SimpleStart
  <2>5. unnamed_stmt' \in StmtKinds \cup {"empty", NoStmt}
    BY <1>12 DEF SimpleStart
  <2>. QED
    BY <1>12, <2>1, <2>2, <2>3, <2>4, <2>5 DEF SimpleStart, TypeOK, XactTypes
<1>13. CASE SimpleStatement
  <2>. DEFINE s == msg.stmts[idx]
              b == AfterStatement(s, SimpleBlock)
              w == work \cup Effect(s, idx)
              e == IF use_implicit_block THEN EndImplicitTransactionBlock(b) ELSE b
  <2>1. pc = "stmt" /\ s \in StmtKinds /\ XactTypes
    BY <1>13, StatementShape DEF SimpleStatement, TypeOK, XactTypes
  <2>2. SimpleBlock \in BlockStates \ {"DEFAULT"}
    BY <2>1, SimpleStatementBlock DEF BlockStates
  <2>3. MayRun(s, blockState) => b \in BlockStates \ {"DEFAULT"}
    BY <2>1, AfterStatementBlock, SimpleStatementBlock DEF BlockStates
  <2>4. MayRun(s, blockState) => e \in BlockStates \ {"DEFAULT"}
    BY <2>3 DEF EndImplicitTransactionBlock, BlockStates
  <2>5. w \in SUBSET (Nat \X Nat)
    BY EffectType DEF TypeOK
  <2>6. NoPortal \in Portals /\ [stmt |-> s, status |-> "FAILED"] \in Portals
    BY <2>1 DEF NoPortal, NoStmt, Portals
  <2>. HIDE DEF b, e, w, s
  <2>7. pc' \in PcValues /\ idx' \in Nat
    BY <1>13 DEF SimpleStatement, EndStatement, CommitFails, Throw, Logging,
             PcValues, BusySteps, TypeOK
  <2>8. send_ready_for_query' \in BOOLEAN
    BY Zenon, <1>13 DEF SimpleStatement, EndStatement, CommitFails, Throw, Logging, TypeOK
  <2>9. reply' \in Replies
    BY <1>13, TellType DEF SimpleStatement, EndStatement, CommitFails, Throw, TypeOK
  <2>10. XactTypes'
    <3>1. CASE UNCHANGED <<xact, portal>>
      BY <2>1, <3>1 DEF XactTypes
    <3>2. CASE /\ blockState' = SimpleBlock /\ xact_started' = TRUE
               /\ portal' \in {portal, [stmt |-> s, status |-> "FAILED"]}
               /\ UNCHANGED <<work, durable>>
      <4>1. xact_started' \in BOOLEAN
        BY <3>2
      <4>. QED
        BY <2>1, <2>2, <2>6, <3>2, <4>1 DEF XactTypes
    <3>3. CASE MayRun(s, blockState) /\ EndStatement(b, w)
      <4>1. CASE finish_xact_command(e, w, NoPortal) \/ finish_xact_command(b, w, NoPortal)
        BY <2>1, <2>3, <2>4, <2>5, <2>6, <3>3, <4>1, FinishType
      <4>2. CASE CommitFails(e, w, NoPortal) \/ CommitFails(b, w, NoPortal)
        BY <2>1, <2>5, <2>6, <4>2, FailType
      <4>3. CASE /\ blockState' = b /\ xact_started' = TRUE
                 /\ work' = w /\ portal' = NoPortal /\ UNCHANGED durable
        <5>1. xact_started' \in BOOLEAN
          BY <4>3
        <5>. QED
          BY <2>1, <2>3, <2>5, <2>6, <3>3, <4>3, <5>1 DEF XactTypes
      <4>. QED
        BY Zenon, <3>3, <4>1, <4>2, <4>3 DEF EndStatement, e
    <3>. QED
      BY Zenon, <1>13, <3>1, <3>2, <3>3 DEF SimpleStatement, b, w, s
  <2>. QED
    BY <1>13, <2>7, <2>8, <2>9, <2>10 DEF SimpleStatement, TypeOK, XactTypes
<1>14. CASE RejectMessage
  <2>1. pc' \in PcValues
    BY <1>14 DEF RejectMessage, Throw, PcValues, BusySteps
  <2>. QED
    BY <1>14, <2>1 DEF RejectMessage, Throw, TypeOK
<1>15. CASE exec_parse_message
  <2>1. pc' \in PcValues
    BY <1>15 DEF exec_parse_message, Throw, Logging, PcValues, BusySteps
  <2>2. blockState' \in BlockStates /\ xact_started' \in BOOLEAN
    BY <1>15, StartType DEF exec_parse_message, Handling
  <2>3. Len(msg.stmts) <= 1 => ParsedStmt(msg) \in StmtKinds \cup {"empty"}
    BY MessageShape DEF ParsedStmt
  <2>4. unnamed_stmt' \in StmtKinds \cup {"empty", NoStmt}
    BY <1>15, <2>3 DEF exec_parse_message
  <2>5. UNCHANGED <<send_ready_for_query, reply>>
    BY <1>15 DEF exec_parse_message, Throw, Logging
  <2>. QED
    BY <1>15, <2>1, <2>2, <2>4, <2>5 DEF exec_parse_message, TypeOK
<1>16. CASE exec_bind_message
  <2>1. pc' \in PcValues
    BY <1>16 DEF exec_bind_message, Throw, Logging, PcValues, BusySteps
  <2>2. blockState' \in BlockStates /\ xact_started' \in BOOLEAN
    BY <1>16, StartType DEF exec_bind_message, Handling, TypeOK
  <2>3. portal' \in Portals
    BY <1>16 DEF exec_bind_message, TypeOK, Portals
  <2>4. UNCHANGED <<send_ready_for_query, reply, work, durable>>
    BY <1>16 DEF exec_bind_message, Throw, Logging
  <2>. QED
    BY <1>16, <2>1, <2>2, <2>3, <2>4 DEF exec_bind_message, TypeOK
<1>17. CASE exec_execute_message
  <2>. DEFINE s == portal.stmt
              b == AfterStatement(s, StartedBlock)
              w == work \cup Effect(s, 1)
              p == [stmt |-> s, status |-> "DONE"]
  <2>1. /\ XactTypes /\ pc = "run"
        /\ StartedBlock \in {"STARTED", "INPROGRESS", "ABORT"}
        /\ StartedBlock \in BlockStates
    BY <1>17, StartedBlockType DEF exec_execute_message, Handling, TypeOK, XactTypes
  <2>2. w \in SUBSET (Nat \X Nat)
    BY EffectType
  <2>3. p \in Portals /\ [portal EXCEPT !.status = "FAILED"] \in Portals
    BY <2>1 DEF XactTypes, Portals
  <2>4. pc' \in PcValues
    BY <1>17 DEF exec_execute_message, CompletePortal, CommitFails, Throw, Done, Logging,
             PcValues, BusySteps
  <2>5. UNCHANGED send_ready_for_query
    BY <1>17 DEF exec_execute_message, CompletePortal, CommitFails, Throw, Done, Logging
  <2>6. reply' \in Replies
    BY <1>17, TellType DEF exec_execute_message, CompletePortal, CommitFails, Throw, TypeOK
  <2>7. XactTypes'
    <3>1. CASE UNCHANGED <<xact, portal>>
      BY <2>1, <3>1 DEF XactTypes
    <3>2. CASE /\ start_xact_command /\ UNCHANGED <<work, durable>>
               /\ portal' \in {portal, [portal EXCEPT !.status = "FAILED"]}
      BY <2>1, <2>3, <3>2, StartType DEF XactTypes
    <3>3. CASE /\ s \in StmtKinds /\ MayRun(s, StartedBlock)
               /\ CompletePortal(s, StartedBlock, w)
      <4>1. b \in BlockStates \ {"DEFAULT"}
        BY <2>1, <3>3, AfterStatementBlock DEF BlockStates
      <4>. HIDE DEF b, w, p
      <4>2. CASE finish_xact_command(b, w, p)
        BY <2>1, <2>2, <2>3, <4>1, <4>2, FinishType
      <4>3. CASE CommitFails(b, w, p)
        BY <2>1, <2>2, <2>3, <4>3, FailType
      <4>4. CASE /\ blockState' = StartedBlock /\ xact_started' = TRUE
                 /\ work' = w /\ UNCHANGED durable /\ portal' \in {p, portal}
        <5>1. xact_started' \in BOOLEAN
          BY <4>4
        <5>. QED
          BY <2>1, <2>2, <2>3, <4>4, <5>1 DEF XactTypes
      <4>. QED
        BY Zenon, <3>3, <4>2, <4>3, <4>4 DEF CompletePortal, b, p
    <3>. QED
      BY <1>17, <3>1, <3>2, <3>3 DEF exec_execute_message
  <2>. QED
    BY <1>17, <2>4, <2>5, <2>6, <2>7 DEF exec_execute_message, TypeOK, XactTypes
<1>18. CASE exec_describe_message
  <2>1. pc' \in PcValues
    BY <1>18 DEF exec_describe_message, Throw, Done, PcValues, BusySteps
  <2>2. blockState' \in BlockStates /\ xact_started' \in BOOLEAN
    BY <1>18, StartType DEF exec_describe_message, Handling
  <2>3. UNCHANGED <<send_ready_for_query, reply>>
    BY <1>18 DEF exec_describe_message, Throw, Done
  <2>. QED
    BY <1>18, <2>1, <2>2, <2>3 DEF exec_describe_message, TypeOK
<1>19. CASE CloseMessage
  <2>1. pc' \in PcValues
    BY <1>19 DEF CloseMessage, Done, PcValues
  <2>2. unnamed_stmt' \in StmtKinds \cup {"empty", NoStmt} /\ portal' \in Portals
    BY <1>19 DEF CloseMessage, TypeOK, Portals, NoPortal, NoStmt
  <2>. QED
    BY <1>19, <2>1, <2>2 DEF CloseMessage, Done, TypeOK
<1>20. CASE FlushMessage
  BY <1>20 DEF FlushMessage, Handling, Done, TypeOK, PcValues, BusySteps,
       GateSteps
<1>21. CASE SyncMessage
  <2>1. pc' \in PcValues
    BY <1>21 DEF SyncMessage, CommitFails, Throw, DoneReady, PcValues, BusySteps
  <2>2. send_ready_for_query' \in BOOLEAN
    BY Zenon, <1>21 DEF SyncMessage, CommitFails, Throw, DoneReady, TypeOK
  <2>3. UNCHANGED reply
    BY <1>21 DEF SyncMessage, CommitFails, Throw
  <2>4. XactTypes'
    <3>1. XactTypes /\ (xact_started => blockState \in BlockStates \ {"DEFAULT"})
      BY <1>21 DEF SyncMessage, Handling, BlockInv, BlockStates, TypeOK, XactTypes
    <3>2. CASE UNCHANGED <<xact, portal>>
      BY <3>1, <3>2 DEF XactTypes
    <3>3. CASE xact_started /\ finish_xact_command(blockState, work, portal)
      BY <3>1, <3>3, FinishType DEF XactTypes
    <3>4. CASE CommitFails(blockState, work, portal)
      BY <3>1, <3>4, FailType DEF XactTypes
    <3>. QED
      BY <1>21, <3>2, <3>3, <3>4 DEF SyncMessage
  <2>. QED
    BY <1>21, <2>1, <2>2, <2>3, <2>4 DEF SyncMessage, TypeOK, XactTypes
<1>22. CASE HandleFunctionRequest
  <2>1. work \cup {<<n, 1>>} \in SUBSET (Nat \X Nat)
    BY EffectType DEF Effect
  <2>2. pc' \in PcValues /\ UNCHANGED send_ready_for_query
    BY <1>22 DEF HandleFunctionRequest, Throw, Logging, PcValues, BusySteps
  <2>3. reply' \in Replies
    BY <1>22, TellType DEF HandleFunctionRequest, Throw, TypeOK
  <2>4. blockState' \in BlockStates /\ xact_started' \in BOOLEAN
    BY <1>22, StartType DEF HandleFunctionRequest, Handling
  <2>5. work' \subseteq Nat \X Nat
    BY <1>22, <2>1 DEF HandleFunctionRequest, TypeOK
  <2>. QED
    BY <1>22, <2>2, <2>3, <2>4, <2>5 DEF HandleFunctionRequest, TypeOK
<1>22a. CASE LogDuration
  <2>1. pc' \in PcValues
    BY <1>22a DEF LogDuration, Throw, Done, DoneReady, PcValues, BusySteps
  <2>2. send_ready_for_query' \in BOOLEAN /\ UNCHANGED reply
    BY Zenon, <1>22a DEF LogDuration, Throw, Done, DoneReady, TypeOK
  <2>. QED
    BY <1>22a, <2>1, <2>2 DEF LogDuration, TypeOK
<1>22b. CASE FinishFunctionCall
  <2>1. pc' \in PcValues
    BY <1>22b DEF FinishFunctionCall, CommitFails, Throw, DoneReady, PcValues, BusySteps
  <2>2. send_ready_for_query' \in BOOLEAN /\ UNCHANGED reply
    BY Zenon, <1>22b DEF FinishFunctionCall, CommitFails, Throw, DoneReady, TypeOK
  <2>3. XactTypes /\ blockState \in BlockStates \ {"DEFAULT"}
    BY <1>22b DEF FinishFunctionCall, BlockInv, BlockStates, TypeOK, XactTypes
  <2>4. XactTypes'
    <3>1. CASE finish_xact_command(blockState, work, portal)
      BY <2>3, <3>1, FinishType DEF XactTypes
    <3>2. CASE CommitFails(blockState, work, portal)
      BY <2>3, <3>2, FailType DEF XactTypes
    <3>. QED
      BY <1>22b, <3>1, <3>2 DEF FinishFunctionCall
  <2>. QED
    BY <1>22b, <2>1, <2>2, <2>4 DEF FinishFunctionCall, TypeOK, XactTypes
<1>23. CASE TerminateMessage
  <2>1. pc' \in PcValues
    BY <1>23 DEF TerminateMessage, Exit, PcValues
  <2>2. blockState' \in BlockStates /\ portal' \in Portals
    BY <1>23 DEF TerminateMessage, Exit, BlockStates, Portals, NoPortal, NoStmt
  <2>3. /\ xact_started' \in BOOLEAN
        /\ unnamed_stmt' \in StmtKinds \cup {"empty", NoStmt}
    BY Zenon, <1>23 DEF TerminateMessage, Exit
  <2>. QED
    BY <1>23, <2>1, <2>2, <2>3 DEF TerminateMessage, Exit, TypeOK
<1>24. CASE Recover
  <2>1. pc' \in PcValues
    BY <1>24 DEF Recover, PcValues
  <2>2. /\ QueryCancelPending' \in BOOLEAN /\ xact_started' \in BOOLEAN
        /\ ignore_till_sync' \in BOOLEAN /\ send_ready_for_query' \in BOOLEAN
    BY Zenon, <1>24 DEF Recover
  <2>3. reply' \in Replies
    BY <1>24, TellType DEF Recover, TypeOK
  <2>4. blockState' \in BlockStates /\ work' \subseteq Nat \X Nat
    BY <1>24 DEF Recover, AbortCurrentTransaction, BlockStates
  <2>5. portal' \in Portals
    BY <1>24 DEF Recover, PortalAfterAbort, TypeOK, Portals, NoPortal, NoStmt
  <2>. QED
    BY <1>24, <2>1, <2>2, <2>3, <2>4, <2>5 DEF Recover, TypeOK
<1>25. ASSUME NEW m \in Messages, ReadCommand(m)
       PROVE  TypeOK'
  <2>1. pc' \in PcValues
    BY <1>25 DEF ReadCommand, PcValues, BusySteps, GateSteps
  <2>2. /\ ignore_till_sync' \in BOOLEAN
        /\ QueryCancelPending' \in BOOLEAN
    BY Zenon, <1>25 DEF ReadCommand, IgnoreAfterRead, ClearIdleCancel
  <2>6. doing_extended_query_message' \in BOOLEAN
    BY <1>25 DEF ReadCommand
  <2>3. msg' \in Messages \cup {NoMsg} /\ n' \in 0 .. MaxMsgs
    BY <1>25, LoopAssumption DEF ReadCommand, TypeOK
  <2>4. owed' \in {0, 1}
    BY <1>25 DEF ReadCommand, FlowInv
  <2>5. reply' \in Replies /\ decision' \in {"true", "false", "uninitialized"}
    BY <1>25 DEF ReadCommand, TypeOK, NoReply, Replies
  <2>. QED
    BY <1>25, <2>1, <2>2, <2>3, <2>4, <2>5, <2>6 DEF ReadCommand, TypeOK
<1>26. CASE ReadEOF
  <2>1. pc' \in PcValues
    BY <1>26 DEF ReadEOF, Exit, PcValues
  <2>2. blockState' \in BlockStates /\ portal' \in Portals
    BY <1>26 DEF ReadEOF, Exit, BlockStates, Portals, NoPortal, NoStmt
  <2>3. /\ xact_started' \in BOOLEAN
        /\ unnamed_stmt' \in StmtKinds \cup {"empty", NoStmt}
    BY Zenon, <1>26 DEF ReadEOF, Exit
  <2>. QED
    BY <1>26, <2>1, <2>2, <2>3 DEF ReadEOF, Exit, TypeOK
<1>27. CASE StatementCancelHandler
  <2>1. QueryCancelPending' \in BOOLEAN
    BY <1>27 DEF StatementCancelHandler
  <2>2. cancelMsg' \in Nat
    BY <1>27, LoopAssumption DEF StatementCancelHandler, TypeOK
  <2>. QED
    BY <1>27, <2>1, <2>2 DEF StatementCancelHandler, TypeOK
<1>28. CASE ProcessDie
  <2>1. pc' \in PcValues
    BY <1>28 DEF ProcessDie, Exit, PcValues
  <2>2. blockState' \in BlockStates /\ portal' \in Portals
    BY <1>28 DEF ProcessDie, Exit, BlockStates, Portals, NoPortal, NoStmt
  <2>3. /\ xact_started' \in BOOLEAN
        /\ unnamed_stmt' \in StmtKinds \cup {"empty", NoStmt}
    BY Zenon, <1>28 DEF ProcessDie, Exit
  <2>. QED
    BY <1>28, <2>1, <2>2, <2>3 DEF ProcessDie, Exit, TypeOK
<1>29. CASE UNCHANGED vars
  BY <1>29 DEF vars, TypeOK
<1>. QED
  BY <1>1, <1>2, <1>3, <1>4, <1>5, <1>6, <1>7, <1>8, <1>9, <1>10, <1>11,
       <1>12, <1>13, <1>14, <1>15, <1>16, <1>17, <1>18, <1>19, <1>20, <1>21,
       <1>22, <1>23, <1>24, <1>25, <1>26, <1>27, <1>28, <1>29, <1>2a, <1>2b,
       <1>22a, <1>22b DEF Next,
       Backend, Gate, SimpleQuery, OtherMessage, Exited

(* A cancel that a message can observe arrived during that message.          *)
LEMMA CancelStep ==
  ASSUME CancelHitsItsMessage, [Next]_vars
  PROVE  CancelHitsItsMessage'
<1>. USE DEF input, flags, xact, session, check, cancel, outside,
     CancelHitsItsMessage, GateSteps, BusySteps
<1>1. CASE LoopTop
  BY <1>1 DEF LoopTop, ReadyForQuery
<1>2. CASE CreateJVM
  BY <1>2 DEF CreateJVM
<1>2a. CASE AttachThread
  BY <1>2a DEF AttachThread
<1>2b. CASE ReportNoEnv
  BY <1>2b DEF ReportNoEnv, Notice
<1>3. CASE ReportNoJVM
  BY <1>3 DEF ReportNoJVM, Notice
<1>4. CASE FindMethod
  BY <1>4 DEF FindMethod
<1>5. CASE ReportMissing
  BY <1>5 DEF ReportMissing, Notice, Interrupted
<1>6. CASE CallCheck
  BY <1>6 DEF CallCheck
<1>7. CASE RequestOverrun
  BY <1>7 DEF RequestOverrun, Exit
<1>8. CASE ReportTime
  BY <1>8 DEF ReportTime, Notice
<1>9. CASE DenyQuery
  BY <1>9 DEF DenyQuery, DoneReady
<1>10. CASE AdmitQuery
  BY <1>10 DEF AdmitQuery, DecisionRead
<1>11. CASE exec_replication_command
  BY <1>11 DEF exec_replication_command, Throw, DoneReady
<1>12. CASE SimpleStart
  BY <1>12 DEF SimpleStart,
       CommitFails, Throw, Logging
<1>13. CASE SimpleStatement
  BY ZenonT(30), <1>13 DEF SimpleStatement, EndStatement,
       CommitFails, Throw, Logging
<1>14. CASE RejectMessage
  BY <1>14 DEF RejectMessage, Throw
<1>15. CASE exec_parse_message
  BY <1>15 DEF exec_parse_message, Handling, Throw, Logging
<1>16. CASE exec_bind_message
  BY <1>16 DEF exec_bind_message, Handling, Throw, Logging
<1>17. CASE exec_execute_message
  BY <1>17 DEF exec_execute_message, Handling,
       CompletePortal, CommitFails, Throw, Done, Logging
<1>18. CASE exec_describe_message
  BY <1>18 DEF exec_describe_message, Handling, Throw,
       Done
<1>19. CASE CloseMessage
  BY <1>19 DEF CloseMessage, Handling, Done
<1>20. CASE FlushMessage
  BY <1>20 DEF FlushMessage, Handling, Done
<1>21. CASE SyncMessage
  BY <1>21 DEF SyncMessage, Handling, CommitFails, Throw,
       DoneReady
<1>22. CASE HandleFunctionRequest
  BY <1>22 DEF HandleFunctionRequest, Handling, Throw, Logging
<1>22a. CASE LogDuration
  BY <1>22a DEF LogDuration, Throw, Done, DoneReady
<1>22b. CASE FinishFunctionCall
  BY <1>22b DEF FinishFunctionCall, CommitFails, Throw, DoneReady
<1>23. CASE TerminateMessage
  BY <1>23 DEF TerminateMessage, Handling, Exit
<1>24. CASE Recover
  BY <1>24 DEF Recover
<1>25. ASSUME NEW m \in Messages, ReadCommand(m)
       PROVE  CancelHitsItsMessage'
  BY <1>25 DEF ReadCommand, IgnoreAfterRead, ClearIdleCancel
<1>26. CASE ReadEOF
  BY <1>26 DEF ReadEOF, Exit
<1>27. CASE StatementCancelHandler
  BY <1>27 DEF StatementCancelHandler
<1>28. CASE ProcessDie
  BY <1>28 DEF ProcessDie, Exit
<1>. HIDE DEF GateSteps, BusySteps
<1>29. CASE UNCHANGED vars
  BY <1>29 DEF vars
<1>. HIDE DEF CancelHitsItsMessage
<1>. QED
  BY <1>1, <1>2, <1>3, <1>4, <1>5, <1>6, <1>7, <1>8, <1>9, <1>10, <1>11,
       <1>12, <1>13, <1>14, <1>15, <1>16, <1>17, <1>18, <1>19, <1>20, <1>21,
       <1>22, <1>23, <1>24, <1>25, <1>26, <1>27, <1>28, <1>29, <1>2a, <1>2b,
       <1>22a, <1>22b DEF Next,
       Backend, Gate, SimpleQuery, OtherMessage, Exited
=============================================================================
