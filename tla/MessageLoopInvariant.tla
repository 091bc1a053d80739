------------------------ MODULE MessageLoopInvariant ------------------------
(***************************************************************************)
(* The inductive invariant of MessageLoop, conjunct by conjunct.  TLC      *)
(* checks it on small instances; MessageLoopProofs proves it.              *)
(***************************************************************************)
EXTENDS MessageLoop

\* The points of a simple query.
SimpleSteps == GateSteps \cup {"parse", "stmt"}

\* Control flow: which messages are at which point, and what the loop's
\* flags and the ReadyForQuery account are there.
FlowInv ==
  /\ pc \in SimpleSteps => msg.type = "Q"
  /\ pc = "run" => msg.type \in MsgTypes \ {"Q"}
  /\ pc = "error" => msg.type \in MsgTypes \ {"d", "X"}
  /\ pc = "stmt" => idx \in 1 .. Len(msg.stmts)
  /\ pc = "log" => msg.type \in {"Q", "P", "B", "E", "F"}
  /\ pc \in BusySteps =>
       /\ ~send_ready_for_query /\ ~ignore_till_sync
       /\ doing_extended_query_message <=> msg.type \in ExtendedTypes
       /\ owed = IF msg.type \in CycleTypes THEN 1 ELSE 0
  /\ pc = "read" => ~send_ready_for_query /\ owed = 0
  /\ pc = "top" => (send_ready_for_query <=> owed = 1)
  /\ pc = "top" /\ send_ready_for_query => ~ignore_till_sync

\* The block state at every point of the loop where a statement may start.
\* Inside a simple query of several statements it may also be implicit.  A
\* WAL sender leaves no command open, since it has no extended protocol.
BlockInv ==
  /\ pc \notin {"error", "exited"} =>
       IF xact_started
       THEN \/ blockState \in {"STARTED", "INPROGRESS", "ABORT"}
            \/ blockState = "IMPLICIT_INPROGRESS" /\ pc = "stmt" /\ use_implicit_block
       ELSE blockState \in {"DEFAULT", "INPROGRESS", "ABORT"}
  /\ am_walsender /\ pc \notin {"stmt", "error"} => ~xact_started
  /\ pc = "log" /\ msg.type = "F" =>
       xact_started /\ blockState \in {"STARTED", "INPROGRESS"}
  /\ pc = "log" /\ msg.type = "Q" => ~xact_started

\* The points a message reaches only if it was not refused.
UnrefusedSteps ==
  {"jvm", "attach", "noenv", "novm", "lookup", "missing", "call", "run", "parse",
   "stmt", "log"}

\* Message numbers: effects and refusals belong to messages read so far, a
\* message being checked has no effect yet, and one that runs is not refused.
RefusedInv ==
  /\ refused \subseteq 1 .. n
  /\ \A e \in work \cup durable : e[1] \in 1 .. n
  /\ pc \in GateSteps => \A e \in work \cup durable : e[1] # n
  /\ pc \in UnrefusedSteps => n \notin refused
  /\ pc \in {"timing", "decide"} /\ n \in refused => decision = "false"
  /\ RefusedLeavesNoEffect
  /\ pc \in BusySteps => n > 0

\* What the client has been told so far about the message at each point.
ReplyInv ==
  /\ pc \in GateSteps \cup {"parse", "run"} => reply = NoReply
  /\ pc = "stmt" =>
       /\ reply.complete = idx - 1 /\ reply.empty = 0 /\ reply.denied = 0
       /\ reply.error = 0
  /\ pc = "log" =>
       reply.error = 0 /\ reply.denied = 0 /\ (Counted => WholeAnswer)
  /\ pc = "error" =>
       /\ reply.error = 0
       /\ Counted => CutAnswer \/ (WholeAnswer /\ QueryCancelPending)
  /\ pc \in {"top", "read"} => Answered

IInv ==
  /\ TypeOK /\ FlowInv /\ BlockInv /\ WorkNeedsTransaction /\ RefusedInv
  /\ CancelHitsItsMessage /\ ReplyInv /\ IdleReportIsTrueUnlessDenied
=============================================================================
