--------------------------- MODULE MCPolicyStore ---------------------------
(***************************************************************************)
(* A small instance of PolicyStore for TLC.  Backends meet only in the     *)
(* file, which none of them writes, and every property speaks of one of    *)
(* them: one backend and more rewrites reach more than several backends.   *)
(***************************************************************************)
EXTENDS PolicyStore

CONSTANT b1

OneBackend == {b1}
=============================================================================
