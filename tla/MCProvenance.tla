----------------------------- MODULE MCProvenance -----------------------------
(***************************************************************************)
(* Provenance on a group of three members: a canonical file and two to     *)
(* fold into it.                                                           *)
(***************************************************************************)
EXTENDS Provenance, TLC

CONSTANTS p1, p2, p3, t1, t2, t3

MCPaths == {p1, p2, p3}
MCTests == {t1, t2, t3}
MCSymmetry == Permutations(MCPaths) \cup Permutations(MCTests)
=============================================================================
