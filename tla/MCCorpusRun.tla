---------------------------- MODULE MCCorpusRun -----------------------------
(***************************************************************************)
(* Instances of CorpusRun: two scenarios, one of them outside the policy's *)
(* scope, and a few concurrency levels.                                    *)
(***************************************************************************)
EXTENDS CorpusRun

TwoScenarios == <<"Permit", "NotApplicable">>
=============================================================================
