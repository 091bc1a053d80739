------------------------- MODULE TransactionBlock -------------------------
(***************************************************************************)
(* The transaction-block state machine of a PostgreSQL backend             *)
(* (access/transam/xact.c), as operators on the value of                   *)
(* CurrentTransactionState->blockState.  Subtransactions, AND CHAIN,       *)
(* PREPARE TRANSACTION and parallel workers are not represented.           *)
(***************************************************************************)

BlockStates ==
  {"DEFAULT", "STARTED", "BEGIN", "INPROGRESS", "IMPLICIT_INPROGRESS",
   "END", "ABORT", "ABORT_END", "ABORT_PENDING"}

\* What a switch of xact.c that ends in elog("unexpected state") returns.
Unexpected == "unexpected state"

IsAbortedTransactionBlockState(b) == b = "ABORT"

StartTransactionCommand(b) ==
  CASE b = "DEFAULT" -> "STARTED"
    [] b \in {"INPROGRESS", "IMPLICIT_INPROGRESS", "ABORT"} -> b
    [] OTHER -> Unexpected

\* The states from which CommitTransactionCommand commits, and those from
\* which it ends a transaction that is to be rolled back.
Committing == {"STARTED", "END"}
RollingBack == {"ABORT_END", "ABORT_PENDING"}

CommitTransactionCommand(b) ==
  CASE b \in Committing \cup RollingBack -> "DEFAULT"
    [] b = "BEGIN" -> "INPROGRESS"
    [] b \in {"INPROGRESS", "IMPLICIT_INPROGRESS", "ABORT"} -> b
    [] OTHER -> Unexpected

AbortCurrentTransaction(b) ==
  IF b \in {"INPROGRESS", "ABORT"} THEN "ABORT" ELSE "DEFAULT"

\* Faulty: BEGIN does not expect to be run in an implicit block.
FaultyBeginTransactionBlock(b) ==
  CASE b = "STARTED" -> "BEGIN"
    [] b \in {"INPROGRESS", "ABORT"} -> b
    [] OTHER -> Unexpected

BeginTransactionBlock(b) ==
  CASE b \in {"STARTED", "IMPLICIT_INPROGRESS"} -> "BEGIN"
    [] b \in {"INPROGRESS", "ABORT"} -> b
    [] OTHER -> Unexpected

EndTransactionBlock(b) ==
  CASE b \in {"INPROGRESS", "IMPLICIT_INPROGRESS"} -> "END"
    [] b = "ABORT" -> "ABORT_END"
    [] b = "STARTED" -> b
    [] OTHER -> Unexpected

UserAbortTransactionBlock(b) ==
  CASE b \in {"INPROGRESS", "STARTED", "IMPLICIT_INPROGRESS"} -> "ABORT_PENDING"
    [] b = "ABORT" -> "ABORT_END"
    [] OTHER -> Unexpected

BeginImplicitTransactionBlock(b) ==
  IF b = "STARTED" THEN "IMPLICIT_INPROGRESS" ELSE b

\* Faulty: the implicit block is never ended.
FaultyEndImplicitTransactionBlock(b) == b

EndImplicitTransactionBlock(b) ==
  IF b = "IMPLICIT_INPROGRESS" THEN "STARTED" ELSE b

TransactionBlockStatusCode(b) ==
  CASE b \in {"DEFAULT", "STARTED"} -> "I"
    [] b \in {"BEGIN", "INPROGRESS", "IMPLICIT_INPROGRESS", "END"} -> "T"
    [] OTHER -> "E"

-----------------------------------------------------------------------------
(***************************************************************************)
(* Statements.  "query" is any statement that is not a TransactionStmt.    *)
(***************************************************************************)
TransactionStmts == {"begin", "commit", "rollback"}

StmtKinds == {"query"} \cup TransactionStmts

IsTransactionExitStmt(s) == s \in {"commit", "rollback"}

\* standard_ProcessUtility's dispatch of a TransactionStmt.
AfterStatement(s, b) ==
  CASE s = "begin" -> BeginTransactionBlock(b)
    [] s = "commit" -> EndTransactionBlock(b)
    [] s = "rollback" -> UserAbortTransactionBlock(b)
    [] OTHER -> b

\* The test every executor of a statement makes before it runs it.
MayRun(s, b) == IsAbortedTransactionBlockState(b) => IsTransactionExitStmt(s)
=============================================================================
