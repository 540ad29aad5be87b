----------------------------- MODULE MCFixRound -----------------------------
(***************************************************************************)
(* FixRound on two generated files, one broken before the run and one of   *)
(* the developers' that has the base name of a generated one.              *)
(***************************************************************************)
EXTENDS FixRound

CONSTANTS g1, g2, b, o, stray

MCAlias == [n \in Names |-> IF n = stray THEN {g1} ELSE IF n = o THEN {g2} ELSE {}]
=============================================================================
