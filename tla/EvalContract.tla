----------------------------- MODULE EvalContract -----------------------------
(***************************************************************************)
(* What a caller of RunEvaluation may rely on: one call, one verdict.  The *)
(* pipeline reads nothing of the repair loop but this record, so the       *)
(* module PipelineRun is written against it and the module Evaluation is   *)
(* shown to implement it.                                                  *)
(***************************************************************************)
EXTENDS EvalVerdicts

CONSTANTS
    Artifacts,      \* EvalOptions.ArtifactPaths: the test files of this run
    Extended,       \* EvalOptions.ExtendedArtifactPaths: repository files it appended to
    DiscardEnabled  \* effective RepeatedTestFailureThreshold > 0

VARIABLE verdict

Init == verdict = Running

Return ==
    /\ verdict = Running
    /\ verdict' \in AllowedVerdicts(Artifacts, Extended, DiscardEnabled)

Spec == Init /\ [][Return]_verdict
=============================================================================
