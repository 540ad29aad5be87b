----------------------------- MODULE EvalVerdicts -----------------------------
(***************************************************************************)
(* EvalWorkflowResult, reduced to the fields the pipeline acts on, and the *)
(* error result of RunEvaluation.  err: RunEvaluation returned ctx.Err().  *)
(***************************************************************************)
VerdictsOn(artifacts) ==
    [returned : {TRUE}, err : BOOLEAN, stable : BOOLEAN,
     discard : SUBSET artifacts, stableAfterDiscard : BOOLEAN]

Running == [returned |-> FALSE, err |-> FALSE, stable |-> FALSE,
            discard |-> {}, stableAfterDiscard |-> FALSE]

(***************************************************************************)
(* The verdicts a caller can receive on these artifacts, of which the      *)
(* extended ones are files the repository already had: an error carries no *)
(* verdict, a discard names only files this run created and is proposed    *)
(* only when discarding is enabled, and a discard that claims stability    *)
(* leaves some artifact behind.                                            *)
(***************************************************************************)
Allowed(v, artifacts, extended, discardEnabled) ==
    /\ v.err => ~v.stable /\ v.discard = {}
    /\ v.discard \cap extended = {}
    /\ v.discard # {} => discardEnabled /\ v.stable = v.stableAfterDiscard
    /\ v.stableAfterDiscard => v.discard # {} /\ v.discard # artifacts

AllowedVerdicts(artifacts, extended, discardEnabled) ==
    {v \in VerdictsOn(artifacts) : Allowed(v, artifacts, extended, discardEnabled)}
=============================================================================
