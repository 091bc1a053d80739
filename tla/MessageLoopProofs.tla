------------------------- MODULE MessageLoopProofs --------------------------
(***************************************************************************)
(* What holds of MessageLoop for every set of messages, every bound and both *)
(* kinds of backend.                                                       *)
(***************************************************************************)
EXTENDS MessageLoopSteps

(***************************************************************************)
(* The last conjunct of the inductive invariant, the initial state, and    *)
(* the invariant of every reachable state.                                 *)
(***************************************************************************)

(* Refusals and effects stay apart.  A message is refused before it has any  *)
(* effect, and a message that was refused is never run.                      *)
LEMMA RefusedStep ==
  ASSUME TypeOK, FlowInv, RefusedInv, [Next]_vars
  PROVE  RefusedInv'
<1>. USE DEF input, flags, xact, session, check, cancel, outside
<1>0. n \in Nat
  BY LoopAssumption DEF TypeOK
<1>quiet. ASSUME UNCHANGED <<n, refused, decision>>,
                 work' \subseteq work, durable' \subseteq work \cup durable,
                 pc' \in BusySteps => pc \in BusySteps,
                 pc' \in GateSteps => pc \in GateSteps,
                 pc' \in UnrefusedSteps => pc \in UnrefusedSteps
          PROVE  RefusedInv'
  BY <1>quiet, <1>0 DEF RefusedInv, RefusedLeavesNoEffect, GateSteps, BusySteps,
     UnrefusedSteps
<1>runs. ASSUME pc \in {"stmt", "run"}, pc' \in {"error", "top", "stmt", "log"},
                UNCHANGED <<n, refused, decision>>,
                \A e \in work' \cup durable' : e \in work \cup durable \/ e[1] = n
         PROVE  RefusedInv'
  BY <1>runs, <1>0 DEF RefusedInv, RefusedLeavesNoEffect, GateSteps, BusySteps,
     UnrefusedSteps
<1>gone. ASSUME Exit PROVE RefusedInv'
  BY <1>gone, <1>quiet DEF Exit, GateSteps, BusySteps,
     UnrefusedSteps
<1>1. CASE LoopTop
  BY <1>1, <1>quiet DEF LoopTop, ReadyForQuery, GateSteps, BusySteps,
     UnrefusedSteps
<1>2. CASE CreateJVM
  BY <1>2, <1>quiet DEF CreateJVM, GateSteps, BusySteps,
     UnrefusedSteps
<1>2a. CASE AttachThread
  BY <1>2a, <1>quiet DEF AttachThread, GateSteps, BusySteps,
     UnrefusedSteps
<1>2b. CASE ReportNoEnv
  BY <1>2b, <1>quiet DEF ReportNoEnv, Notice, GateSteps, BusySteps,
     UnrefusedSteps
<1>3. CASE ReportNoJVM
  BY <1>3, <1>quiet DEF ReportNoJVM, Notice, GateSteps, BusySteps,
     UnrefusedSteps
<1>4. CASE FindMethod
  BY <1>4, <1>quiet DEF FindMethod, GateSteps, BusySteps,
     UnrefusedSteps
<1>5. CASE ReportMissing
  BY <1>5, <1>quiet DEF ReportMissing, Notice, GateSteps, BusySteps,
     UnrefusedSteps
<1>6. CASE CallCheck
  <2>1. pc = "call" /\ pc' = "timing" /\ n \in 1 .. n /\ UNCHANGED <<n, work, durable>>
    BY <1>6, <1>0 DEF CallCheck, RefusedInv, BusySteps, GateSteps
  <2>. USE DEF RefusedInv, RefusedLeavesNoEffect, GateSteps, BusySteps,
     UnrefusedSteps
  <2>2. CASE refused' = refused
    BY <2>1, <2>2
  <2>3. CASE refused' = refused \cup {n} /\ decision' = "false"
    BY ZenonT(30), <2>1, <2>3
  <2>. HIDE DEF RefusedInv
  <2>. QED
    BY <1>6, <2>2, <2>3 DEF CallCheck
<1>7. CASE RequestOverrun
  BY <1>7, <1>gone DEF RequestOverrun
<1>8. CASE ReportTime
  BY <1>8, <1>quiet DEF ReportTime, Notice, GateSteps, BusySteps,
     UnrefusedSteps
<1>9. CASE DenyQuery
  BY <1>9, <1>quiet DEF DenyQuery, DoneReady, GateSteps, BusySteps,
     UnrefusedSteps
<1>10. CASE AdmitQuery
  <2>1. /\ pc = "decide" /\ pc' = "parse"
        /\ UNCHANGED <<n, refused, decision, work, durable>>
    BY <1>10 DEF AdmitQuery
  <2>2. decision # "false"
    BY Zenon, <1>10 DEF AdmitQuery, DecisionRead
  <2>. QED
    BY <1>0, <2>1, <2>2 DEF RefusedInv, RefusedLeavesNoEffect, GateSteps, BusySteps,
     UnrefusedSteps
<1>11. CASE exec_replication_command
  BY <1>11, <1>quiet DEF exec_replication_command, Throw, DoneReady, GateSteps, BusySteps,
     UnrefusedSteps
<1>12. CASE SimpleStart
  <2>1. pc = "parse" /\ pc' \in {"error", "stmt", "log"} /\ UNCHANGED <<n, refused, decision>>
    BY ZenonT(30), <1>12 DEF SimpleStart, CommitFails, Throw, Logging
  <2>2. work' \subseteq work /\ durable' \subseteq work \cup durable
    BY ZenonT(30), <1>12 DEF SimpleStart, CommitFails, finish_xact_command
  <2>. QED
    BY <2>1, <2>2, <1>quiet DEF GateSteps, BusySteps,
     UnrefusedSteps
<1>13. CASE SimpleStatement
  <2>1. /\ pc = "stmt" /\ UNCHANGED <<n, refused, decision>>
        /\ pc' \in {"error", "log", "stmt"}
    BY ZenonT(30), <1>13 DEF SimpleStatement, EndStatement, CommitFails, Throw, Logging
  <2>2. work' \cup durable' \subseteq work \cup durable \cup Effect(msg.stmts[idx], idx)
    BY ZenonT(30), <1>13 DEF SimpleStatement, EndStatement, CommitFails, finish_xact_command
  <2>. QED
    BY <2>1, <2>2, <1>runs, EffectNumber
<1>14. CASE RejectMessage
  BY <1>14, <1>quiet DEF RejectMessage, Throw, GateSteps, BusySteps,
     UnrefusedSteps
<1>15. CASE exec_parse_message
  BY <1>15, <1>runs DEF exec_parse_message, Handling, Throw, Logging
<1>16. CASE exec_bind_message
  BY <1>16, <1>runs DEF exec_bind_message, Handling, Throw, Logging
<1>17. CASE exec_execute_message
  <2>1. /\ pc = "run" /\ UNCHANGED <<n, refused, decision>>
        /\ pc' \in {"error", "log", "top"}
    BY ZenonT(30), <1>17 DEF exec_execute_message, Handling, CompletePortal, CommitFails,
       Throw, Done, Logging
  <2>2. work' \cup durable' \subseteq work \cup durable \cup Effect(portal.stmt, 1)
    BY ZenonT(30), <1>17 DEF exec_execute_message, CompletePortal, CommitFails, finish_xact_command
  <2>. QED
    BY <2>1, <2>2, <1>runs, EffectNumber
<1>18. CASE exec_describe_message
  BY <1>18, <1>runs DEF exec_describe_message, Handling, Throw, Done
<1>19. CASE CloseMessage
  BY <1>19, <1>runs DEF CloseMessage, Handling, Done
<1>20. CASE FlushMessage
  BY <1>20, <1>runs DEF FlushMessage, Handling, Done
<1>21. CASE SyncMessage
  <2>1. pc = "run" /\ pc' \in {"error", "top"} /\ UNCHANGED <<n, refused, decision>>
    BY <1>21 DEF SyncMessage, Handling, CommitFails, Throw, DoneReady
  <2>2. work' \cup durable' \subseteq work \cup durable
    BY ZenonT(30), <1>21 DEF SyncMessage, CommitFails, finish_xact_command
  <2>. QED
    BY <2>1, <2>2, <1>runs
<1>22. CASE HandleFunctionRequest
  <2>1. pc = "run" /\ pc' \in {"error", "log"} /\ UNCHANGED <<n, refused, decision>>
    BY <1>22 DEF HandleFunctionRequest, Handling, Throw, Logging
  <2>2. work' \cup durable' \subseteq work \cup durable \cup {<<n, 1>>}
    BY ZenonT(30), <1>22 DEF HandleFunctionRequest
  <2>. QED
    BY <2>1, <2>2, <1>runs
<1>22a. CASE LogDuration
  BY <1>22a, <1>quiet DEF LogDuration, Throw, Done, DoneReady, GateSteps, BusySteps,
     UnrefusedSteps
<1>22b. CASE FinishFunctionCall
  <2>1. pc = "log" /\ pc' \in {"error", "top"} /\ UNCHANGED <<n, refused, decision>>
    BY <1>22b DEF FinishFunctionCall, CommitFails, Throw, DoneReady
  <2>2. work' \subseteq work /\ durable' \subseteq work \cup durable
    BY ZenonT(30), <1>22b DEF FinishFunctionCall, CommitFails, finish_xact_command
  <2>. QED
    BY <2>1, <2>2, <1>quiet DEF GateSteps, BusySteps, UnrefusedSteps
<1>23. CASE TerminateMessage
  BY <1>23, <1>gone DEF TerminateMessage
<1>24. CASE Recover
  BY <1>24, <1>quiet DEF Recover, GateSteps, BusySteps,
     UnrefusedSteps
<1>25. ASSUME NEW m \in Messages, ReadCommand(m)
       PROVE  RefusedInv'
  <2>1. CASE pc' = "top" /\ UNCHANGED <<n, decision>>
    BY <1>25, <2>1, <1>quiet DEF ReadCommand, GateSteps, BusySteps,
     UnrefusedSteps
  <2>2. CASE pc' \in {"jvm", "run"} /\ n' = n + 1
    <3>1. UNCHANGED <<refused, work, durable>>
      BY <1>25 DEF ReadCommand
    <3>. QED
      BY <1>0, <2>2, <3>1 DEF RefusedInv, RefusedLeavesNoEffect, GateSteps, BusySteps,
     UnrefusedSteps
  <2>. QED
    BY <1>25, <2>1, <2>2 DEF ReadCommand
<1>26. CASE ReadEOF
  BY <1>26, <1>gone DEF ReadEOF
<1>27. CASE StatementCancelHandler
  BY <1>27, <1>quiet DEF StatementCancelHandler
<1>28. CASE ProcessDie
  BY <1>28, <1>gone DEF ProcessDie
<1>29. CASE UNCHANGED vars
  BY <1>29, <1>quiet DEF vars
<1>. QED
  BY ZenonT(30), <1>1, <1>2, <1>3, <1>4, <1>5, <1>6, <1>7, <1>8, <1>9, <1>10, <1>11,
       <1>12, <1>13, <1>14, <1>15, <1>16, <1>17, <1>18, <1>19, <1>20, <1>21,
       <1>22, <1>23, <1>24, <1>25, <1>26, <1>27, <1>28, <1>29, <1>2a, <1>2b,
       <1>22a, <1>22b DEF Next,
       Backend, Gate, SimpleQuery, OtherMessage, Exited

(* A backend that has just started satisfies the inductive invariant.        *)
LEMMA InitInv ==
  ASSUME Init
  PROVE  IInv
<1>. USE DEF Init
<1>1. TypeOK
  <2>1. pc \in PcValues /\ n \in 0 .. MaxMsgs
    BY LoopAssumption DEF PcValues
  <2>2. portal \in Portals /\ reply \in Replies
    BY DEF Portals, NoPortal, NoStmt, Replies, NoReply
  <2>3. blockState \in BlockStates
    BY DEF BlockStates
  <2>. QED
    BY Zenon, <2>1, <2>2, <2>3 DEF TypeOK
<1>2. FlowInv /\ BlockInv
  BY DEF FlowInv, BlockInv, SimpleSteps, GateSteps, BusySteps
<1>3. WorkNeedsTransaction
  BY DEF WorkNeedsTransaction
<1>4. RefusedInv
  BY DEF RefusedInv, RefusedLeavesNoEffect, GateSteps, BusySteps, UnrefusedSteps
<1>5. CancelHitsItsMessage
  BY DEF CancelHitsItsMessage
<1>6. ReplyInv
  BY DEF ReplyInv, Answered, Counted, NoMsg, GateSteps
<1>7. IdleReportIsTrueUnlessDenied
  BY DEF IdleReportIsTrueUnlessDenied
<1>. QED
  BY <1>1, <1>2, <1>3, <1>4, <1>5, <1>6, <1>7 DEF IInv

(* The inductive invariant holds in every reachable state, for every set of  *)
(* messages the client may send and any number of them.                      *)
THEOREM Invariance == Spec => []IInv
<1>1. Init => IInv
  BY InitInv
<1>2. IInv /\ [Next]_vars => IInv'
  BY TypeStep, FlowStep, BlockStep, WorkStep, RefusedStep, CancelStep,
     ReplyStep, IdleStep DEF IInv
<1>. QED
  BY <1>1, <1>2, PTL DEF Spec

(* PostgresMain keeps its types; xact.c never meets a block state it does    *)
(* not expect.                                                               *)
THEOREM TypeCorrect == Spec => []TypeOK
  BY Invariance, PTL DEF IInv

(* Between messages the transaction block is stable and agrees with          *)
(* xact_started.                                                             *)
THEOREM BlockStable == Spec => []BlockAtRest
<1>1. IInv => BlockAtRest
  BY DEF IInv, BlockInv, BlockAtRest
<1>. QED
  BY <1>1, Invariance, PTL

(* A WAL sender leaves no transaction command open between messages.         *)
THEOREM WalSenderCloses == Spec => []WalSenderLeavesNoCommandOpen
<1>1. IInv => WalSenderLeavesNoCommandOpen
  BY DEF IInv, BlockInv, WalSenderLeavesNoCommandOpen
<1>. QED
  BY <1>1, Invariance, PTL

(* ReadyForQuery is sent exactly once for each accepted Query, function call *)
(* and Sync.                                                                 *)
THEOREM ReadyForQueryOnce == Spec => []ReadyForQueryBalanced
<1>1. IInv => ReadyForQueryBalanced
  BY DEF IInv, FlowInv, ReadyForQueryBalanced
<1>. QED
  BY <1>1, Invariance, PTL

(* What the policy decision point refuses has no effect.                     *)
THEOREM RefusalHolds == Spec => []RefusedLeavesNoEffect
<1>1. IInv => RefusedLeavesNoEffect
  BY DEF IInv, RefusedInv
<1>. QED
  BY <1>1, Invariance, PTL

(* Uncommitted work and runnable portals exist only in a live transaction.   *)
THEOREM WorkInTransaction == Spec => []WorkNeedsTransaction
  BY Invariance, PTL DEF IInv

(* A cancel never hits a message it was not sent during.                     *)
THEOREM CancelIsPrecise == Spec => []CancelHitsItsMessage
  BY Invariance, PTL DEF IInv

(* Every simple query and every Execute is answered: in full, or up to where *)
(* its one ErrorResponse stops it; an ErrorResponse after a full answer is a *)
(* cancel of that very message.                                              *)
THEOREM AnswersComplete == Spec => []AnsweredOnce
<1>1. IInv => AnsweredOnce
  <2>. SUFFICES ASSUME IInv PROVE AnsweredOnce
    OBVIOUS
  <2>1. reply \in Replies /\ Len(msg.stmts) \in Nat
        /\ (msg.stmts = <<>> <=> Len(msg.stmts) = 0)
    BY MessageShape DEF IInv, TypeOK
  <2>2. WholeAnswer => ~CutAnswer
    BY <2>1 DEF WholeAnswer, CutAnswer, Replies
  <2>3. pc = "error" /\ QueryCancelPending => cancelMsg = n
    BY DEF IInv, CancelHitsItsMessage, BusySteps
  <2>. QED
    BY Zenon, <2>2, <2>3 DEF IInv, ReplyInv, AnsweredOnce
<1>. QED
  BY <1>1, Invariance, PTL

(* Status 'I' means that no transaction is open, unless a query was denied   *)
(* and no error followed.                                                    *)
THEOREM IdleReports == Spec => []IdleReportIsTrueUnlessDenied
  BY Invariance, PTL DEF IInv

-----------------------------------------------------------------------------
(***************************************************************************)
(* The loop implements the request cycles of the protocol.                 *)
(***************************************************************************)

(* A step of a handler ends the process, or moves on within the message or   *)
(* to the top of the loop, and leaves the account and the skipping alone.    *)
LEMMA HandlerShape ==
  ASSUME Gate \/ SimpleQuery \/ OtherMessage \/ LogDuration \/ FinishFunctionCall
  PROVE  \/ Exit
         \/ /\ pc \in BusySteps /\ pc' \in BusySteps \cup {"top"}
            /\ UNCHANGED <<owed, ignore_till_sync>>
<1>. USE DEF outside, flags, BusySteps, GateSteps
<1>1. CASE CreateJVM
  BY <1>1 DEF CreateJVM
<1>1a. CASE AttachThread
  BY <1>1a DEF AttachThread
<1>1b. CASE ReportNoEnv
  BY <1>1b DEF ReportNoEnv, Notice
<1>2. CASE ReportNoJVM
  BY <1>2 DEF ReportNoJVM, Notice
<1>3. CASE FindMethod
  BY <1>3 DEF FindMethod
<1>4. CASE ReportMissing
  BY <1>4 DEF ReportMissing, Notice
<1>5. CASE CallCheck
  BY <1>5 DEF CallCheck
<1>6. CASE RequestOverrun
  BY <1>6 DEF RequestOverrun
<1>7. CASE ReportTime
  BY <1>7 DEF ReportTime, Notice
<1>8. CASE DenyQuery
  BY <1>8 DEF DenyQuery, DoneReady
<1>9. CASE AdmitQuery
  BY <1>9 DEF AdmitQuery
<1>10. CASE exec_replication_command
  BY <1>10 DEF exec_replication_command, Throw, DoneReady
<1>11. CASE SimpleStart
  BY <1>11 DEF SimpleStart, CommitFails, Throw, Logging
<1>12. CASE SimpleStatement
  BY <1>12 DEF SimpleStatement, EndStatement, CommitFails, Throw, Logging
<1>13. CASE RejectMessage
  BY <1>13 DEF RejectMessage, Throw
<1>14. CASE exec_parse_message
  BY <1>14 DEF exec_parse_message, Handling, Throw, Logging
<1>15. CASE exec_bind_message
  BY <1>15 DEF exec_bind_message, Handling, Throw, Logging
<1>16. CASE exec_execute_message
  BY <1>16 DEF exec_execute_message, Handling, CompletePortal, CommitFails,
       Throw, Done, Logging
<1>17. CASE exec_describe_message
  BY <1>17 DEF exec_describe_message, Handling, Throw, Done
<1>18. CASE CloseMessage
  BY <1>18 DEF CloseMessage, Handling, Done
<1>19. CASE FlushMessage
  BY <1>19 DEF FlushMessage, Handling, Done
<1>20. CASE SyncMessage
  BY <1>20 DEF SyncMessage, Handling, CommitFails, Throw, DoneReady
<1>21. CASE HandleFunctionRequest
  BY <1>21 DEF HandleFunctionRequest, Handling, Throw, Logging
<1>21a. CASE LogDuration
  BY <1>21a DEF LogDuration, Throw, Done, DoneReady
<1>21b. CASE FinishFunctionCall
  BY <1>21b DEF FinishFunctionCall, CommitFails, Throw, DoneReady
<1>22. CASE TerminateMessage
  BY <1>22 DEF TerminateMessage, Handling
<1>. QED
  BY <1>1, <1>2, <1>3, <1>4, <1>5, <1>6, <1>7, <1>8, <1>9, <1>10, <1>11,
       <1>12, <1>13, <1>14, <1>15, <1>16, <1>17, <1>18, <1>19, <1>20, <1>21,
       <1>22, <1>1a, <1>1b, <1>21a, <1>21b DEF Gate, SimpleQuery, OtherMessage

(* Every step of the loop is a step of the abstract protocol, or invisible   *)
(* to it.                                                                    *)
LEMMA PhaseStep ==
  ASSUME IInv, [Next]_vars
  PROVE  [Protocol!Next]_Phase
<1>0. FlowInv /\ owed \in {0, 1} /\ pc \in PcValues
  BY DEF IInv, TypeOK
<1>. USE DEF Phase, BusySteps, GateSteps
<1>1. CASE Exit
  BY <1>1 DEF Exit, Protocol!Next, Protocol!Close
<1>2. CASE LoopTop
  BY <1>0, <1>2 DEF LoopTop, ReadyForQuery, FlowInv, Protocol!Next,
                    Protocol!CloseCycle
<1>3. CASE /\ pc \in BusySteps /\ pc' \in BusySteps \cup {"top"}
           /\ UNCHANGED <<owed, ignore_till_sync>>
  <2>1. ~ignore_till_sync
    BY <1>0, <1>3 DEF FlowInv
  <2>2. CASE owed = 1
    BY <1>3, <2>2
  <2>3. CASE owed = 0
    BY <1>3, <2>1, <2>3 DEF Protocol!Next, Protocol!EndStep
  <2>. QED
    BY <1>0, <2>2, <2>3
<1>4. CASE Recover
  <2>1. /\ pc = "error" /\ pc' = "top" /\ owed' = owed
        /\ msg.type \in MsgTypes \ {"d", "X"}
        /\ owed = IF msg.type \in CycleTypes THEN 1 ELSE 0
        /\ doing_extended_query_message <=> msg.type \in ExtendedTypes
    BY <1>0, <1>4 DEF Recover, FlowInv
  <2>2. CASE owed = 1
    BY <2>1, <2>2
  <2>3. CASE owed = 0
    <3>1. doing_extended_query_message
      BY <2>1, <2>3 DEF MsgTypes, ExtendedTypes, CycleTypes
    <3>2. ignore_till_sync' = TRUE
      BY Zenon, <1>4, <3>1 DEF Recover
    <3>. QED
      BY <2>1, <2>3, <3>2 DEF Protocol!Next, Protocol!FailStep
  <2>. QED
    BY <1>0, <2>2, <2>3
<1>5. ASSUME NEW m \in Messages, ReadCommand(m)
      PROVE  [Protocol!Next]_Phase
  <2>1. pc = "read" /\ owed = 0
    BY <1>0, <1>5 DEF ReadCommand, FlowInv
  <2>2. CASE IgnoreAfterRead(m.type)
    <3>1. pc' = "top" /\ owed' = owed /\ ignore_till_sync /\ ignore_till_sync'
      BY Zenon, <1>5, <2>2 DEF ReadCommand, IgnoreAfterRead
    <3>. QED
      BY <2>1, <3>1
  <2>3. CASE ~IgnoreAfterRead(m.type)
    <3>1. /\ pc' \in {"jvm", "run"}
          /\ owed' = IF m.type \in CycleTypes THEN 1 ELSE 0
          /\ ignore_till_sync => m.type \in {"S", "X"}
      BY <1>5, <2>1, <2>3 DEF ReadCommand, IgnoreAfterRead
    <3>2. Phase \in {"ready", "skip"} /\ Phase' \in {"busy", "step"}
      BY <2>1, <3>1
    <3>. QED
      BY <3>2 DEF Protocol!Next, Protocol!OpenCycle, Protocol!BeginStep,
                  Protocol!SyncAfterSkip, Protocol!TerminateAfterSkip
  <2>. QED
    BY <2>2, <2>3
<1>6. CASE StatementCancelHandler
  BY <1>6 DEF StatementCancelHandler, flags
<1>7. CASE UNCHANGED vars
  BY <1>7 DEF vars, flags
<1>. QED
  BY <1>1, <1>2, <1>3, <1>4, <1>5, <1>6, <1>7, HandlerShape
     DEF Next, Backend, ReadEOF, ProcessDie, Exited

(* The message loop, with its check, errors, cancels and skipping, presents  *)
(* to the client the request cycles of the protocol.                         *)
THEOREM Refinement == Spec => ImplementsQueryCycle
<1>1. Init => Protocol!Init
  BY DEF Init, Phase, Protocol!Init
<1>2. IInv /\ [Next]_vars => [Protocol!Next]_Phase
  BY PhaseStep
<1>. QED
  BY <1>1, <1>2, Invariance, PTL DEF Spec, ImplementsQueryCycle, Protocol!Spec

-----------------------------------------------------------------------------
(***************************************************************************)
(* What no step may do.                                                    *)
(***************************************************************************)

(* While messages are skipped until Sync, nothing happens to the session.    *)
THEOREM SkippingInert == Spec => SkippingIsInert
<1>. DEFINE A == ignore_till_sync /\ ignore_till_sync' /\ pc' # "exited" =>
                   UNCHANGED <<blockState, xact_started, work, durable,
                               session, owed, reply>>
<1>1. IInv /\ [Next]_vars => [A]_vars
  <2>. SUFFICES ASSUME IInv, [Next]_vars, ignore_till_sync, pc' # "exited"
                PROVE  \/ UNCHANGED <<blockState, xact_started, work, durable,
                                      session, owed, reply>>
                       \/ ~ignore_till_sync'
    OBVIOUS
  <2>1. pc \notin BusySteps /\ (pc = "top" => ~send_ready_for_query)
    BY DEF IInv, FlowInv
  <2>2. CASE LoopTop
    BY <2>1, <2>2 DEF LoopTop, ReadyForQuery, xact
  <2>3. ASSUME NEW m \in Messages, ReadCommand(m)
        PROVE  \/ UNCHANGED <<blockState, xact_started, work, durable,
                              session, owed, reply>>
               \/ ~ignore_till_sync'
    BY <2>3 DEF ReadCommand, xact
  <2>4. CASE StatementCancelHandler \/ UNCHANGED vars
    BY <2>4 DEF StatementCancelHandler, xact, vars
  <2>5. ~(Gate \/ SimpleQuery \/ OtherMessage \/ LogDuration \/ FinishFunctionCall)
          \/ Exit
    BY Zenon, <2>1, HandlerShape
  <2>6. ~Recover
    BY <2>1 DEF Recover, BusySteps
  <2>7. ~Exit
    BY DEF Exit
  <2>. QED
    BY <2>2, <2>3, <2>4, <2>5, <2>6, <2>7
       DEF Next, Backend, ReadEOF, ProcessDie, Exited
<1>. QED
  BY <1>1, Invariance, PTL DEF Spec, SkippingIsInert

(* Finishing a transaction command makes durable all the work done in it, or *)
(* nothing.                                                                  *)
LEMMA FinishCommits ==
  ASSUME NEW b, NEW w, NEW p, work \subseteq w, finish_xact_command(b, w, p)
  PROVE  /\ durable \subseteq durable'
         /\ durable' # durable =>
              /\ b \in Committing /\ blockState' = "DEFAULT"
              /\ work' = {} /\ work \subseteq durable'
  BY DEF finish_xact_command, CommitTransactionCommand, Committing, RollingBack

(* Executing a portal commits only if its statement is COMMIT.               *)
LEMMA PortalCommits ==
  ASSUME TypeOK, BlockInv, pc = "run", NEW s,
         AfterStatement(s, StartedBlock) \in Committing, s \in TransactionStmts
  PROVE  s = "commit"
<1>1. StartedBlock \in {"STARTED", "INPROGRESS", "ABORT"}
  BY StartedBlockType
<1>. QED
  BY <1>1 DEF AfterStatement, BeginTransactionBlock, UserAbortTransactionBlock,
     Committing, TransactionStmts, Unexpected

(* Effects become durable only where the protocol ends a transaction.        *)
THEOREM CommitsAtBoundaries == Spec => CommitsOnlyAtBoundaries
<1>. DEFINE A ==
       /\ durable \subseteq durable'
       /\ durable' # durable =>
            /\ pc' # "exited" /\ pc \in {"run", "parse", "stmt", "log"}
            /\ blockState' = "DEFAULT" /\ work' = {} /\ work \subseteq durable'
            /\ pc = "log" => msg.type = "F"
            /\ msg.type = "E" => portal.stmt = "commit"
<1>1. IInv /\ [Next]_vars => [A]_vars
  <2>. SUFFICES ASSUME IInv, [Next]_vars
                PROVE  A
    OBVIOUS
  <2>0. TypeOK /\ BlockInv /\ FlowInv
    BY DEF IInv
  <2>1. CASE UNCHANGED durable
    BY <2>1
  <2>2. ASSUME NEW b, NEW w, NEW p, work \subseteq w,
               finish_xact_command(b, w, p), pc \in {"run", "parse", "stmt", "log"},
               pc' # "exited", pc = "log" => msg.type = "F",
               b \in Committing /\ msg.type = "E" => portal.stmt = "commit"
        PROVE  A
    BY <2>2, FinishCommits
  <2>. HIDE DEF A
  <2>3. CASE SimpleStart
    <3>1. pc = "parse" /\ msg.type = "Q"
      BY <2>0, <2>3 DEF SimpleStart, FlowInv, SimpleSteps
    <3>2. CASE Logging /\ finish_xact_command(StartedBlock, work, portal)
      BY <2>2, <3>1, <3>2 DEF Logging
    <3>. QED
      BY <2>1, <2>3, <3>2 DEF SimpleStart, CommitFails
  <2>4. CASE SimpleStatement
    <3>. DEFINE s == msg.stmts[idx]
                b == AfterStatement(s, SimpleBlock)
                w == work \cup Effect(s, idx)
                e == IF use_implicit_block THEN EndImplicitTransactionBlock(b)
                     ELSE b
    <3>1. pc = "stmt" /\ msg.type = "Q"
      BY <2>0, <2>4 DEF SimpleStatement, FlowInv, SimpleSteps
    <3>. HIDE DEF b, w, e, s
    <3>2. CASE pc' \in {"log", "stmt"} /\ (finish_xact_command(e, w, NoPortal)
                 \/ finish_xact_command(b, w, NoPortal))
      <4>1. work \subseteq w
        BY DEF w
      <4>. QED
        BY <2>2, <3>1, <3>2, <4>1
    <3>3. \/ UNCHANGED durable
          \/ EndStatement(b, w)
      BY Zenon, <2>4 DEF SimpleStatement, xact, s, b, w
    <3>4. CASE EndStatement(b, w)
      BY <2>1, <3>2, <3>4 DEF EndStatement, CommitFails, Logging, e
    <3>. QED
      BY <2>1, <3>3, <3>4
  <2>5. CASE exec_execute_message
    <3>. DEFINE s == portal.stmt
                w == work \cup Effect(s, 1)
    <3>1. pc = "run" /\ msg.type = "E"
      BY <2>5 DEF exec_execute_message, Handling
    <3>2. UNCHANGED durable \/ CompletePortal(s, StartedBlock, w)
      BY <2>5 DEF exec_execute_message, xact
    <3>3. CASE CompletePortal(s, StartedBlock, w)
      <4>. DEFINE p == [stmt |-> s, status |-> "DONE"]
      <4>1. CASE /\ s \in TransactionStmts /\ Logging
                 /\ finish_xact_command(AfterStatement(s, StartedBlock), w, p)
        <5>1. AfterStatement(s, StartedBlock) \in Committing => s = "commit"
          BY <2>0, <3>1, <4>1, PortalCommits
        <5>2. work \subseteq w /\ pc' # "exited"
          BY <4>1 DEF Logging
        <5>. HIDE DEF w, p
        <5>. QED
          BY <2>2, <3>1, <4>1, <5>1, <5>2
      <4>. HIDE DEF w
      <4>. QED
        BY <2>1, <3>3, <4>1 DEF CompletePortal, CommitFails
    <3>. HIDE DEF w
    <3>. QED
      BY <2>1, <3>2, <3>3
  <2>6. CASE SyncMessage
    <3>1. pc = "run" /\ msg.type = "S"
      BY <2>6 DEF SyncMessage, Handling
    <3>2. CASE DoneReady /\ finish_xact_command(blockState, work, portal)
      BY <2>2, <3>1, <3>2 DEF DoneReady
    <3>. QED
      BY <2>1, <2>6, <3>2 DEF SyncMessage, CommitFails, xact
  <2>7. CASE FinishFunctionCall
    <3>1. pc = "log" /\ msg.type = "F"
      BY <2>7 DEF FinishFunctionCall
    <3>2. CASE DoneReady /\ finish_xact_command(blockState, work, portal)
      BY <2>2, <3>1, <3>2 DEF DoneReady
    <3>. QED
      BY <2>1, <2>7, <3>2 DEF FinishFunctionCall, CommitFails
  <2>8. Gate \/ exec_replication_command \/ LoopTop => UNCHANGED durable
    BY ZenonT(30) DEF Gate, CreateJVM, AttachThread, ReportNoEnv, ReportNoJVM, FindMethod, ReportMissing, CallCheck,
       RequestOverrun, ReportTime, DenyQuery, AdmitQuery, Exit, outside, xact,
       exec_replication_command, LoopTop
  <2>9. \/ RejectMessage \/ exec_parse_message \/ exec_bind_message
        \/ exec_describe_message \/ CloseMessage \/ FlushMessage
        \/ TerminateMessage \/ HandleFunctionRequest \/ LogDuration
        => UNCHANGED durable
    BY Zenon DEF HandleFunctionRequest, LogDuration, RejectMessage, exec_parse_message, exec_bind_message,
       exec_describe_message, CloseMessage, FlushMessage, TerminateMessage,
       Exit, outside, xact
  <2>10. ReadEOF \/ ProcessDie \/ Recover \/ StatementCancelHandler
           \/ (\E m \in Messages : ReadCommand(m)) \/ UNCHANGED vars
         => UNCHANGED durable
    BY DEF ReadEOF, ProcessDie, Recover, StatementCancelHandler, ReadCommand,
       Exit, xact, vars
  <2>. QED
    BY <2>1, <2>3, <2>4, <2>5, <2>6, <2>7, <2>8, <2>9, <2>10
       DEF Next, Backend, SimpleQuery, OtherMessage, Exited
<1>. QED
  BY <1>1, Invariance, PTL DEF Spec, CommitsOnlyAtBoundaries

(***************************************************************************)
(* A simple query of plain statements is atomic, for every statement list, *)
(* and its answer tells the client its effect.                             *)
(*                                                                         *)
(* SimpleQueryAtomic and AnswerTellsEffect speak of the top of the loop    *)
(* only.  AtomicInv says what leads there: nothing of the message is       *)
(* durable until its last statement ran, before statement idx exactly the  *)
(* statements in front of it are in the open transaction, and an error     *)
(* that finds the query finished finds its last completion sent.           *)
(***************************************************************************)

\* The first k statements of the message, and no other, are in s.
FirstIn(k, s) == \A i \in 1 .. Len(msg.stmts) : <<n, i>> \in s <=> i <= k

\* All of the message is committed, or all of it is in the client's block.
WholeEffect ==
  \/ FirstIn(Len(msg.stmts), durable) /\ FirstIn(0, work)
  \/ /\ FirstIn(0, durable) /\ FirstIn(Len(msg.stmts), work)
     /\ blockState = "INPROGRESS"

\* The message completed only in part.
CutCompletion == reply.complete < Len(msg.stmts)

AtomicInv ==
  PlainQuery =>
    /\ pc \in GateSteps \cup {"parse"} => FirstIn(0, work) /\ FirstIn(0, durable)
    /\ pc = "stmt" => FirstIn(idx - 1, work) /\ FirstIn(0, durable)
    /\ pc = "log" => WholeEffect
    /\ pc = "error" =>
         /\ FirstIn(0, durable) \/ FirstIn(Len(msg.stmts), durable)
         /\ ~am_walsender =>
              IF CutCompletion THEN FirstIn(0, durable)
              ELSE FirstIn(Len(msg.stmts), durable) \/ blockState = "INPROGRESS"
    /\ pc \in {"top", "read"} =>
         /\ FirstIn(0, durable) \/ FirstIn(Len(msg.stmts), durable)
         /\ \/ FirstIn(0, work)
            \/ FirstIn(Len(msg.stmts), work) /\ blockState = "INPROGRESS"
         /\ ~am_walsender =>
              IF CutCompletion THEN FirstIn(0, work) /\ FirstIn(0, durable)
              ELSE \/ FirstIn(Len(msg.stmts), durable)
                   \/ FirstIn(Len(msg.stmts), work)
                   \/ reply.error = 1 /\ blockState = "ABORT"

-----------------------------------------------------------------------------
(* A step that leaves the message and its effects alone keeps AtomicInv when *)
(* it stays within the check, or leaves it for the parser, an error or the   *)
(* top of the loop without a completion.                                     *)
LEMMA CheckKeepsAtomic ==
  ASSUME TypeOK, AtomicInv, pc \in GateSteps \cup {"parse"},
         pc' \in GateSteps \cup {"parse", "error", "top"},
         am_walsender \/ reply'.complete = 0,
         UNCHANGED <<msg, n, work, durable>>
  PROVE  AtomicInv'
<1>. SUFFICES ASSUME PlainQuery' PROVE AtomicInv'
  BY DEF AtomicInv
<1>1. FirstIn(0, work) /\ FirstIn(0, durable)
  BY Zenon DEF AtomicInv, PlainQuery
<1>2. FirstIn(0, work)' /\ FirstIn(0, durable)'
  BY Zenon, <1>1 DEF FirstIn
<1>3. ~am_walsender /\ ~CutCompletion' => Len(msg.stmts)' = 0
  BY MessageShape DEF CutCompletion
<1>4. ~am_walsender /\ ~CutCompletion' => FirstIn(Len(msg.stmts), durable)'
  BY Zenon, <1>2, <1>3
<1>. QED
  BY Zenon, <1>2, <1>4 DEF AtomicInv, GateSteps

(* Every other message than a simple query keeps AtomicInv.                  *)
LEMMA OtherKeepsAtomic ==
  ASSUME msg.type # "Q", UNCHANGED msg
  PROVE  AtomicInv'
  BY DEF AtomicInv, PlainQuery

(* An exit keeps AtomicInv.                                                  *)
LEMMA ExitKeepsAtomic ==
  ASSUME Exit
  PROVE  AtomicInv'
  BY DEF AtomicInv, Exit, GateSteps

(* exec_simple_query up to its loop.                                         *)
LEMMA StartKeepsAtomic ==
  ASSUME TypeOK, ReplyInv, AtomicInv, SimpleStart
  PROVE  AtomicInv'
<1>1. pc = "parse" /\ UNCHANGED <<msg, n>>
  BY Zenon DEF SimpleStart, input
<1>2. CASE pc' = "error" /\ durable' = durable /\ reply' = reply
  <2>. SUFFICES ASSUME PlainQuery' PROVE AtomicInv'
    BY DEF AtomicInv
  <2>1. FirstIn(0, durable)'
    BY Zenon, <1>1, <1>2 DEF AtomicInv, PlainQuery, FirstIn
  <2>2. reply'.complete = 0
    BY <1>1, <1>2 DEF ReplyInv, NoReply
  <2>3. ~CutCompletion' => Len(msg.stmts)' = 0
    BY <1>1, <2>2, MessageShape DEF CutCompletion
  <2>4. ~CutCompletion' => FirstIn(Len(msg.stmts), durable)'
    BY Zenon, <2>1, <2>3
  <2>. QED
    BY Zenon, <1>2, <2>1, <2>4 DEF AtomicInv, GateSteps
<1>3. CASE pc' = "stmt" /\ idx' = 1 /\ UNCHANGED <<work, durable>>
  BY <1>1, <1>3 DEF AtomicInv, PlainQuery, FirstIn, GateSteps
<1>4. CASE pc' = "log" /\ msg.stmts = <<>>
  <2>1. Len(msg.stmts) = 0
    BY <1>4
  <2>2. 1 .. Len(msg'.stmts) = {}
    BY <2>1, <1>1
  <2>. QED
    BY <2>2, <1>4 DEF AtomicInv, WholeEffect, FirstIn, GateSteps
<1>. QED
  BY Zenon, <1>2, <1>3, <1>4 DEF SimpleStart, CommitFails, Throw, Logging

(* One turn of the loop over the parse trees.                                *)
LEMMA StatementKeepsAtomic ==
  ASSUME TypeOK, FlowInv, BlockInv, ReplyInv, AtomicInv, SimpleStatement
  PROVE  AtomicInv'
<1>1. pc = "stmt" /\ UNCHANGED <<msg, n>>
  BY Zenon DEF SimpleStatement, input
<1>. SUFFICES ASSUME PlainQuery PROVE AtomicInv'
  BY Zenon, <1>1 DEF AtomicInv, PlainQuery
<1>2. idx \in 1 .. Len(msg.stmts) /\ Len(msg.stmts) \in Nat
  BY <1>1, MessageShape DEF FlowInv
<1>3. FirstIn(idx - 1, work) /\ FirstIn(0, durable)
  BY Zenon, <1>1 DEF AtomicInv
<1>. DEFINE s == msg.stmts[idx]
            b == AfterStatement(s, SimpleBlock)
            w == work \cup Effect(s, idx)
            e == IF use_implicit_block THEN EndImplicitTransactionBlock(b) ELSE b
<1>4. s = "query"
  BY <1>2 DEF PlainQuery
<1>5. b = SimpleBlock /\ w = work \cup {<<n, idx>>}
  BY <1>4 DEF AfterStatement, Effect
<1>. HIDE DEF s, b, w, e
<1>6. FirstIn(idx, w)
  <2>1. \A i : <<n, i>> = <<n, idx>> <=> i = idx
    OBVIOUS
  <2>. SUFFICES ASSUME NEW i \in 1 .. Len(msg.stmts)
                PROVE  <<n, i>> \in w <=> i <= idx
    BY DEF FirstIn
  <2>2. <<n, i>> \in w <=> <<n, i>> \in work \/ i = idx
    BY Zenon, <1>5, <2>1
  <2>3. <<n, i>> \in work <=> i <= idx - 1
    BY Zenon, <1>3 DEF FirstIn
  <2>. QED
    BY <2>2, <2>3, <1>2
<1>7. durable' = durable => FirstIn(0, durable)'
  BY Zenon, <1>1, <1>3 DEF FirstIn
<1>8. CASE pc' = "error" /\ durable' = durable /\ reply' = reply
  <2>1. CutCompletion'
    BY <1>1, <1>2, <1>8 DEF CutCompletion, ReplyInv
  <2>. QED
    BY Zenon, <1>7, <1>8, <2>1 DEF AtomicInv, GateSteps
<1>9. CASE pc' = "stmt" /\ idx' = idx + 1 /\ work' = w /\ durable' = durable
  <2>1. FirstIn(idx - 1, work)'
    BY <1>1, <1>2, <1>6, <1>9 DEF FirstIn
  <2>. QED
    BY Zenon, <1>7, <1>9, <2>1 DEF AtomicInv, GateSteps
<1>10. CASE /\ MayRun(s, blockState) /\ idx = Len(msg.stmts)
            /\ finish_xact_command(e, w, NoPortal) /\ pc' = "log"
  <2>1. SimpleBlock # "ABORT"
    BY ZenonT(30), <1>1, <1>4, <1>10, SimpleStatementBlock
       DEF MayRun, IsAbortedTransactionBlockState, IsTransactionExitStmt
  <2>2. e \in {"STARTED", "INPROGRESS"}
    BY <1>1, <1>5, <2>1, SimpleStatementBlock DEF e, EndImplicitTransactionBlock
  <2>3. CASE e = "STARTED"
    <3>1. durable' = durable \cup w /\ work' = {}
      BY <1>10, <2>3 DEF finish_xact_command, Committing
    <3>2. FirstIn(Len(msg.stmts), durable)' /\ FirstIn(0, work)'
      BY <3>1, <1>1, <1>2, <1>6, <1>10 DEF FirstIn
    <3>. QED
      BY Zenon, <3>2, <1>10 DEF AtomicInv, WholeEffect, GateSteps
  <2>4. CASE e = "INPROGRESS"
    <3>1. durable' = durable /\ work' = w /\ blockState' = "INPROGRESS"
      BY <1>10, <2>4 DEF finish_xact_command, Committing, RollingBack,
         CommitTransactionCommand
    <3>2. FirstIn(Len(msg.stmts), work)'
      BY Zenon, <3>1, <1>1, <1>6, <1>10 DEF FirstIn
    <3>. QED
      BY Zenon, <3>1, <3>2, <1>7, <1>10 DEF AtomicInv, WholeEffect, GateSteps
  <2>. QED
    BY Zenon, <2>2, <2>3, <2>4
<1>11. \/ pc' = "error" /\ durable' = durable /\ reply' = reply
       \/ MayRun(s, blockState) /\ EndStatement(b, w)
  BY Zenon DEF SimpleStatement, Throw, xact, s, b, w
<1>12. CASE MayRun(s, blockState) /\ EndStatement(b, w)
  <2>1. msg.stmts[idx] \notin TransactionStmts
    BY <1>4 DEF TransactionStmts, s
  <2>. QED
    BY Zenon, <1>8, <1>9, <1>10, <1>12, <2>1
       DEF EndStatement, CommitFails, Throw, Logging, e
<1>. QED
  BY Zenon, <1>8, <1>11, <1>12

(* The duration of a simple query is logged after its last completion.       *)
LEMMA LogKeepsAtomic ==
  ASSUME TypeOK, ReplyInv, AtomicInv, LogDuration, msg.type = "Q"
  PROVE  AtomicInv'
<1>1. /\ pc = "log" /\ pc' \in {"error", "top"}
      /\ UNCHANGED <<msg, n, work, durable, blockState, reply>>
  BY Zenon DEF LogDuration, Throw, Done, DoneReady, outside, input, xact
<1>. SUFFICES ASSUME PlainQuery PROVE AtomicInv'
  BY Zenon, <1>1 DEF AtomicInv, PlainQuery
<1>2. WholeEffect
  BY Zenon, <1>1 DEF AtomicInv
<1>3. WholeEffect'
  BY Zenon, <1>1, <1>2 DEF WholeEffect, FirstIn
<1>4. ~am_walsender => ~CutCompletion'
  BY <1>1, MessageShape DEF ReplyInv, Counted, WholeAnswer, CutCompletion
<1>. QED
  BY Zenon, <1>1, <1>3, <1>4 DEF AtomicInv, WholeEffect, GateSteps

(* Recovery from an error.                                                   *)
LEMMA RecoverKeepsAtomic ==
  ASSUME TypeOK, ReplyInv, AtomicInv, Recover
  PROVE  AtomicInv'
<1>1. /\ pc = "error" /\ pc' = "top" /\ work' = {} /\ UNCHANGED <<msg, n, durable>>
      /\ Tell("error") /\ blockState' = AbortCurrentTransaction(blockState)
  BY Zenon DEF Recover, input
<1>. SUFFICES ASSUME PlainQuery PROVE AtomicInv'
  BY Zenon, <1>1 DEF AtomicInv, PlainQuery
<1>2. \A i \in 1 .. Len(msg.stmts) : ~ (i <= 0)
  OBVIOUS
<1>3. FirstIn(0, work)' /\ (FirstIn(0, durable) => FirstIn(0, durable)')
      /\ (FirstIn(Len(msg.stmts), durable) => FirstIn(Len(msg.stmts), durable)')
  BY Zenon, <1>1, <1>2 DEF FirstIn
<1>4. reply.error = 0 /\ reply \in Replies
  BY Zenon, <1>1 DEF ReplyInv, TypeOK
<1>5. reply'.error = 1 /\ reply'.complete = reply.complete
  BY <1>1, <1>4 DEF Tell, Replies
<1>6. CutCompletion' <=> CutCompletion
  BY Zenon, <1>1, <1>5 DEF CutCompletion
<1>7. blockState = "INPROGRESS" => blockState' = "ABORT"
  BY <1>1 DEF AbortCurrentTransaction
<1>8. /\ FirstIn(0, durable) \/ FirstIn(Len(msg.stmts), durable)
      /\ ~am_walsender =>
           IF CutCompletion THEN FirstIn(0, durable)
           ELSE FirstIn(Len(msg.stmts), durable) \/ blockState = "INPROGRESS"
  BY Zenon, <1>1 DEF AtomicInv
<1>. QED
  BY Zenon, <1>1, <1>3, <1>5, <1>6, <1>7, <1>8 DEF AtomicInv, GateSteps

(* Reading a message, or skipping one.                                       *)
LEMMA ReadKeepsAtomic ==
  ASSUME TypeOK, RefusedInv, AtomicInv, NEW m \in Messages, ReadCommand(m)
  PROVE  AtomicInv'
<1>. USE DEF input, xact
<1>1. CASE pc' = "top" /\ UNCHANGED <<msg, n, reply>>
  <2>1. pc = "read" /\ UNCHANGED <<work, durable, blockState>>
    BY Zenon DEF ReadCommand
  <2>. QED
    BY ZenonT(30), <1>1, <2>1 DEF AtomicInv, PlainQuery, FirstIn, CutCompletion, GateSteps
<1>2. CASE n' = n + 1
  <2>0. n \in Nat
    BY LoopAssumption DEF TypeOK
  <2>1. /\ \A e \in work \cup durable : e[1] \in 1 .. n
        /\ pc' \in {"jvm", "run"} /\ UNCHANGED <<work, durable>>
        /\ pc' = "run" => msg'.type # "Q"
    BY <1>2, <2>0 DEF RefusedInv, ReadCommand
  <2>2. \A i : <<n + 1, i>> \notin work \cup durable
    <3>. SUFFICES ASSUME NEW i, <<n + 1, i>> \in work \cup durable PROVE FALSE
      OBVIOUS
    <3>1. <<n + 1, i>>[1] \in 1 .. n
      BY <2>1
    <3>. QED
      BY <3>1, <2>0
  <2>3. \A i \in 1 .. Len(msg'.stmts) : ~ (i <= 0)
    OBVIOUS
  <2>4. FirstIn(0, work)' /\ FirstIn(0, durable)'
    BY Zenon, <1>2, <2>1, <2>2, <2>3 DEF FirstIn
  <2>5. pc' = "run" => ~ PlainQuery'
    BY Zenon, <2>1 DEF PlainQuery
  <2>. QED
    BY Zenon, <2>1, <2>4, <2>5 DEF AtomicInv, GateSteps
<1>. QED
  BY Zenon, <1>1, <1>2 DEF ReadCommand

(* Every step keeps AtomicInv.                                               *)
LEMMA AtomicStep ==
  ASSUME IInv, AtomicInv, [Next]_vars
  PROVE  AtomicInv'
<1>. USE DEF outside, input, xact
<1>0. TypeOK /\ FlowInv /\ BlockInv /\ RefusedInv /\ ReplyInv
  BY DEF IInv
<1>same. ASSUME UNCHANGED <<msg, n, idx, work, durable, blockState, reply>>,
                pc' = pc \/ (pc = "top" /\ pc' = "read")
         PROVE  AtomicInv'
  BY ZenonT(30), <1>same DEF AtomicInv, PlainQuery, FirstIn, WholeEffect, CutCompletion,
     GateSteps
<1>1. CASE LoopTop
  BY <1>1, <1>same DEF LoopTop
<1>2. CASE Gate
  <2>1. CASE Exit
    BY <2>1, ExitKeepsAtomic
  <2>2. CASE ~ RequestOverrun
    <3>1. /\ pc \in GateSteps
          /\ pc' \in GateSteps \cup {"parse", "error", "top"}
          /\ UNCHANGED <<msg, n, work, durable>>
          /\ reply' = reply \/ Tell("denied")
      BY ZenonT(30), <1>2, <2>2 DEF Gate, CreateJVM, AttachThread, ReportNoEnv,
         ReportNoJVM, FindMethod, ReportMissing, CallCheck, ReportTime, DenyQuery,
         AdmitQuery, Notice, DoneReady, GateSteps
    <3>2. reply = NoReply
      BY Zenon, <1>0, <3>1 DEF ReplyInv
    <3>3. reply'.complete = 0
      BY <3>1, <3>2 DEF Tell, NoReply
    <3>. QED
      BY <1>0, <3>1, <3>3, CheckKeepsAtomic
  <2>. QED
    BY <2>1, <2>2 DEF RequestOverrun
<1>3. CASE exec_replication_command
  BY <1>0, <1>3, CheckKeepsAtomic DEF exec_replication_command, Throw, DoneReady
<1>4. CASE SimpleStart
  BY <1>0, <1>4, StartKeepsAtomic
<1>5. CASE SimpleStatement
  BY <1>0, <1>5, StatementKeepsAtomic
<1>6. CASE RejectMessage
  <2>1. pc' = "error" /\ UNCHANGED <<msg, n, work, durable, reply>>
    BY <1>6 DEF RejectMessage, Throw
  <2>2. CASE pc = "jvm"
    <3>1. reply'.complete = 0
      BY <1>0, <2>1, <2>2 DEF ReplyInv, NoReply, GateSteps
    <3>. QED
      BY <1>0, <2>1, <2>2, <3>1, CheckKeepsAtomic DEF GateSteps
  <2>3. CASE pc = "run"
    BY <2>1, <2>3, <1>0, OtherKeepsAtomic DEF FlowInv
  <2>. QED
    BY <1>6, <2>2, <2>3 DEF RejectMessage
<1>7. CASE OtherMessage /\ ~ RejectMessage
  <2>1. CASE Exit
    BY <2>1, ExitKeepsAtomic
  <2>2. CASE ~ Exit
    <3>1. pc = "run" /\ UNCHANGED msg
      BY Zenon, <1>7, <2>2 DEF OtherMessage, exec_parse_message, exec_bind_message,
         exec_execute_message, exec_describe_message, CloseMessage, FlushMessage,
         SyncMessage, HandleFunctionRequest, TerminateMessage, Handling
    <3>. QED
      BY <3>1, <1>0, OtherKeepsAtomic DEF FlowInv
  <2>. QED
    BY <2>1, <2>2
<1>7a. CASE LogDuration
  BY <1>0, <1>7a, LogKeepsAtomic, OtherKeepsAtomic DEF LogDuration
<1>7b. CASE FinishFunctionCall
  BY <1>7b, OtherKeepsAtomic DEF FinishFunctionCall
<1>8. CASE Recover
  BY <1>0, <1>8, RecoverKeepsAtomic
<1>9. ASSUME NEW m \in Messages, ReadCommand(m)
      PROVE  AtomicInv'
  BY <1>0, <1>9, ReadKeepsAtomic
<1>10. CASE ReadEOF \/ ProcessDie
  BY Zenon, <1>10, ExitKeepsAtomic DEF ReadEOF, ProcessDie
<1>11. CASE StatementCancelHandler
  BY Zenon, <1>11, <1>same DEF StatementCancelHandler
<1>12. CASE UNCHANGED vars
  BY <1>12, <1>same DEF vars
<1>. QED
  BY Zenon, <1>1, <1>2, <1>3, <1>4, <1>5, <1>6, <1>7, <1>7a, <1>7b, <1>8, <1>9, <1>10,
     <1>11, <1>12 DEF Next, Backend, SimpleQuery, Exited

(* AtomicInv holds in every reachable state.                                 *)
LEMMA AtomicInvariance == Spec => [](IInv /\ AtomicInv)
<1>1. Init => AtomicInv
  BY DEF Init, AtomicInv, PlainQuery, NoMsg
<1>2. IInv /\ AtomicInv /\ [Next]_vars => AtomicInv'
  BY AtomicStep
<1>. QED
  BY <1>1, <1>2, Invariance, PTL DEF Spec

(* What AtomicInv counts with FirstIn is what the properties collect.        *)
LEMMA FirstStatements ==
  ASSUME TypeOK
  PROVE  /\ \A s : FirstIn(0, s) => StatementsIn(s) = {}
         /\ \A s : FirstIn(Len(msg.stmts), s) => StatementsIn(s) = 1 .. Len(msg.stmts)
<1>1. Len(msg.stmts) \in Nat
  BY MessageShape
<1>2. \A s : FirstIn(0, s) => StatementsIn(s) = {}
  BY <1>1 DEF FirstIn, StatementsIn
<1>3. \A s : FirstIn(Len(msg.stmts), s) => StatementsIn(s) = 1 .. Len(msg.stmts)
  BY <1>1 DEF FirstIn, StatementsIn
<1>. QED
  BY <1>2, <1>3

(* exec_simple_query runs a list of plain statements as one: whatever fails, *)
(* is cancelled or is refused, all of them are committed, all are in the     *)
(* client's open block, or none left an effect.                              *)
THEOREM SimpleQueriesAtomic == Spec => []SimpleQueryAtomic
<1>1. IInv /\ AtomicInv => SimpleQueryAtomic
  <2>. SUFFICES ASSUME IInv, AtomicInv, pc = "top", PlainQuery
                PROVE  /\ StatementsIn(durable) \in {{}, 1 .. Len(msg.stmts)}
                       /\ StatementsIn(work) \in {{}, 1 .. Len(msg.stmts)}
                       /\ StatementsIn(work) = {} \/ blockState = "INPROGRESS"
    BY DEF SimpleQueryAtomic
  <2>1. /\ FirstIn(0, durable) \/ FirstIn(Len(msg.stmts), durable)
        /\ \/ FirstIn(0, work)
           \/ FirstIn(Len(msg.stmts), work) /\ blockState = "INPROGRESS"
    BY Zenon DEF AtomicInv
  <2>2. TypeOK
    BY DEF IInv
  <2>. QED
    BY <2>1, <2>2, FirstStatements
<1>. QED
  BY <1>1, AtomicInvariance, PTL

(* The completions a client gets for a simple query of plain statements tell *)
(* it what became of the query, however it was cancelled, refused or failed. *)
THEOREM AnswersTellEffect == Spec => []AnswerTellsEffect
<1>1. IInv /\ AtomicInv => AnswerTellsEffect
  <2>. SUFFICES ASSUME IInv, AtomicInv, pc = "top", PlainQuery, ~am_walsender
                PROVE  AnswerTellsEffect
    BY Zenon DEF AnswerTellsEffect
  <2>0. /\ \A s : FirstIn(0, s) => StatementsIn(s) = {}
        /\ \A s : FirstIn(Len(msg.stmts), s) => StatementsIn(s) = 1 .. Len(msg.stmts)
    BY FirstStatements DEF IInv
  <2>1. StatementsIn(work \cup durable) = StatementsIn(work) \cup StatementsIn(durable)
    BY DEF StatementsIn
  <2>2. /\ StatementsIn(work) \subseteq 1 .. Len(msg.stmts)
        /\ StatementsIn(durable) \subseteq 1 .. Len(msg.stmts)
    BY DEF StatementsIn
  <2>3. CASE CutCompletion
    <3>1. StatementsIn(work) = {} /\ StatementsIn(durable) = {}
      BY Zenon, <2>0, <2>3 DEF AtomicInv
    <3>. QED
      BY Zenon, <2>1, <2>3, <3>1 DEF AnswerTellsEffect, CutCompletion
  <2>4. CASE ~CutCompletion
    <3>1. \/ StatementsIn(durable) = 1 .. Len(msg.stmts)
          \/ StatementsIn(work) = 1 .. Len(msg.stmts)
          \/ reply.error = 1 /\ blockState = "ABORT"
      BY Zenon, <2>0, <2>4 DEF AtomicInv
    <3>2. \/ StatementsIn(work \cup durable) = 1 .. Len(msg.stmts)
          \/ reply.error = 1 /\ blockState = "ABORT"
      BY Zenon, <2>1, <2>2, <3>1
    <3>3. TransactionBlockStatusCode("ABORT") = "E"
      BY DEF TransactionBlockStatusCode
    <3>. QED
      BY Zenon, <2>4, <3>2, <3>3 DEF AnswerTellsEffect, CutCompletion
  <2>. QED
    BY <2>3, <2>4
<1>. QED
  BY <1>1, AtomicInvariance, PTL
=============================================================================
