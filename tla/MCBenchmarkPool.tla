-------------------------- MODULE MCBenchmarkPool --------------------------
(***************************************************************************)
(* Small instances of BenchmarkPool for TLC.                               *)
(***************************************************************************)
EXTENDS BenchmarkPool

\* A fast and a slow call, with a gap between them.
TwoLatencies == {1, 3}

\* A file that holds its header only, and one that lost its last rows.
TwoCuts == {0, 3}
=============================================================================
