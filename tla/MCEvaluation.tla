----------------------------- MODULE MCEvaluation -----------------------------
(***************************************************************************)
(* EvaluationHistory with the options of its runs.                         *)
(***************************************************************************)
EXTENDS EvaluationHistory

MCMaxFix == [compile |-> 1, test |-> 2]

Flags(fixer, compileOnce, e2e, mutation, skipInfra, abortEnv) ==
    [fixer |-> fixer, compileOnce |-> compileOnce, e2e |-> e2e,
     mutation |-> mutation, skipInfra |-> skipInfra, abortEnv |-> abortEnv]

(***************************************************************************)
(* What the pipeline passes (compileOnce, with and without an e2e pass),   *)
(* the plain defaults, and the fixerless re-verification.                  *)
(***************************************************************************)
MCOptions ==
    {Flags(TRUE, TRUE, FALSE, FALSE, FALSE, FALSE),
     Flags(TRUE, TRUE, TRUE, FALSE, TRUE, FALSE),
     Flags(TRUE, FALSE, FALSE, TRUE, FALSE, TRUE),
     Flags(FALSE, TRUE, TRUE, FALSE, FALSE, FALSE)}
=============================================================================
