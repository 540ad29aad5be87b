------------------------------ MODULE MCIndexer ------------------------------
(***************************************************************************)
(* Indexer on two files that call each other: a call that one version      *)
(* makes and the next does not, and a version that is a stub.              *)
(***************************************************************************)
EXTENDS Indexer, TLC

CONSTANTS f1, f2, old, new, stub

MCFiles == {f1, f2}
MCVersions == {old, new, stub}
MCStubs == {stub}
MCCalls == [f \in MCFiles |-> [v \in MCVersions |-> IF v = old THEN MCFiles \ {f} ELSE {}]]
MCSymmetry == Permutations(MCFiles)
=============================================================================
