---------------------------- MODULE MCPipelineRun ----------------------------
(***************************************************************************)
(* PipelineRun on a repository with one test file of its own, three more   *)
(* paths to create, and four plan items: enough for two items to share a   *)
(* created file, for one to extend the repository's file, and for a first  *)
(* discard, a second discard and a survivor in one run.                    *)
(***************************************************************************)
EXTENDS PipelineRun, TLC

CONSTANTS own, new1, new2, new3

MCPaths == {own, new1, new2, new3}
MCRepoFiles == {own}
MCSymmetry == Permutations({new1, new2, new3})
=============================================================================
