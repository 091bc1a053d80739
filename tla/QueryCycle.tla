---------------------------- MODULE QueryCycle ----------------------------
(***************************************************************************)
(* What the frontend/backend protocol promises a client about request      *)
(* cycles, as an abstract specification.  A simple Query, a function call  *)
(* and a Sync each open a cycle that ReadyForQuery closes; an extended     *)
(* message is a step that does not; after a failed step the backend skips  *)
(* messages until Sync.  MessageLoop is shown to implement it.             *)
(***************************************************************************)
VARIABLE phase

\* "ready"  nothing is owed and the next message will be processed
\* "busy"   ReadyForQuery is owed
\* "step"   an extended-protocol message is being processed
\* "skip"   messages are discarded until Sync
\* "closed" the session is over
Phases == {"ready", "busy", "step", "skip", "closed"}

Init == phase = "busy"

OpenCycle == phase = "ready" /\ phase' = "busy"
CloseCycle == phase = "busy" /\ phase' = "ready"
BeginStep == phase = "ready" /\ phase' = "step"
EndStep == phase = "step" /\ phase' = "ready"
FailStep == phase = "step" /\ phase' = "skip"
SyncAfterSkip == phase = "skip" /\ phase' = "busy"
\* Terminate is the one message besides Sync that ends the skipping.
TerminateAfterSkip == phase = "skip" /\ phase' = "step"
Close == phase' = "closed"

Progress == CloseCycle \/ EndStep \/ FailStep \/ (phase \in {"busy", "step"} /\ Close)

Next ==
  \/ OpenCycle \/ CloseCycle \/ BeginStep \/ EndStep \/ FailStep
  \/ SyncAfterSkip \/ TerminateAfterSkip \/ Close

Spec == Init /\ [][Next]_phase

\* Work that was begun ends.
FairSpec == Spec /\ WF_phase(Progress)
=============================================================================
