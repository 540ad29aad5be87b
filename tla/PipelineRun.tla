----------------------------- MODULE PipelineRun -----------------------------
(***************************************************************************)
(* One run of the pipeline (internal/pipeline/pipeline.go, Run) from the   *)
(* first generated test to the ship gate of cmd/asqs-core: write a test    *)
(* file per plan item, evaluate the whole project once, delete what the    *)
(* evaluation gave up on, verify what is left, report, and ship if the     *)
(* report is stable.  RunEvaluation appears only as the verdict EvalVerdicts *)
(* allows; the module Evaluation shows that it returns nothing else.       *)
(* What the model keeps of the working tree is which test files exist.     *)
(***************************************************************************)
EXTENDS Integers, FiniteSets, EvalVerdicts

CONSTANTS
    Paths,      \* the test paths a plan item can resolve to
    RepoFiles,  \* those the repository already owns when the run starts
    NumItems,   \* len(plan.Items)
    NoPath      \* GapOutcome.Path of an item that wrote nothing

ASSUME PipelineAssumption ==
    /\ IsFiniteSet(Paths)
    /\ RepoFiles \subseteq Paths
    /\ NumItems \in Nat
    /\ NoPath \notin Paths

VARIABLES
    pc,        \* the phase of Run about to execute
    item,      \* index of the plan item about to be generated
    disk,      \* the test files in the working tree
    outcomes,  \* Summary.Outcomes
    extended,  \* extendedArtifactPaths
    eval,      \* evalRes and eerr
    verified,  \* postDiscardVerified
    extra,     \* survivorsDiscarded
    sum,       \* the counters and flags of Summary
    row,       \* the run's row in index_runs
    treeGreen, \* the last evaluation passed on the tree as it now is
    shipped    \* the ship branch was committed and pushed

vars == <<pc, item, disk, outcomes, extended, eval, verified, extra, sum, row,
          treeGreen, shipped>>

Items == 1 .. NumItems
Outcomes == [path : Paths \cup {NoPath}, discarded : BOOLEAN, stable : BOOLEAN]
Summaries == [generated : Nat, discarded : Nat, projectStable : BOOLEAN, gapsStable : Int]
Flags == {"null", "true", "false"}
Rows == [status : {"running", "completed"}, stable : Flags, metrics : Flags]
Flag(b) == IF b THEN "true" ELSE "false"

ArtifactPaths == {outcomes[i].path : i \in Items} \ {NoPath}

\* withoutDiscarded(opts.ArtifactPaths, discarded)
Survivors == ArtifactPaths \ eval.discard

(***************************************************************************)
(* outcomeIdxByPath names the item that first wrote a path, and only that  *)
(* item's outcome is marked when the path is discarded.                    *)
(***************************************************************************)
FirstWriter(i) == \A j \in 1 .. i - 1 : outcomes[j].path # outcomes[i].path

\* mutant: the marks of the first discard are forgotten when the second is marked
MutantMarkDiscarded(gone) ==
    [i \in Items |-> [outcomes[i] EXCEPT
        !.discarded = outcomes[i].path \in gone /\ FirstWriter(i)]]

MarkDiscarded(gone) ==
    [i \in Items |-> [outcomes[i] EXCEPT
        !.discarded = @ \/ (outcomes[i].path \in gone /\ FirstWriter(i))]]

Init ==
    /\ pc = "generate"
    /\ item = 1
    /\ disk = RepoFiles
    /\ outcomes = [i \in Items |-> [path |-> NoPath, discarded |-> FALSE, stable |-> FALSE]]
    /\ extended = {}
    /\ eval = Running
    /\ verified = TRUE
    /\ extra = {}
    /\ sum = [generated |-> 0, discarded |-> 0, projectStable |-> FALSE, gapsStable |-> 0]
    /\ row = [status |-> "running", stable |-> "null", metrics |-> "null"]
    /\ treeGreen = FALSE
    /\ shipped = FALSE

(***************************************************************************)
(* completeRun: two statements, each best-effort.  The metrics column is   *)
(* written whether or not the status was.                                  *)
(***************************************************************************)
CompleteRun(stable, metrics) ==
    \E statusWritten, metricsWritten \in BOOLEAN :
        row' = [status  |-> IF statusWritten THEN "completed" ELSE row.status,
                stable  |-> IF statusWritten THEN stable ELSE row.stable,
                metrics |-> IF metricsWritten THEN metrics ELSE row.metrics]

(***************************************************************************)
(* Phase 1.  An item whose generation failed or was empty, or whose write  *)
(* the writer refused, leaves nothing behind.                              *)
(***************************************************************************)
\* mutant: the loop does not stop at the end of the plan
MutantSkipItem ==
    /\ pc = "generate"
    /\ item' = item + 1
    /\ UNCHANGED <<pc, disk, outcomes, extended, eval, verified, extra, sum, row,
                   treeGreen, shipped>>

SkipItem ==
    /\ pc = "generate" /\ item \in Items
    /\ item' = item + 1
    /\ UNCHANGED <<pc, disk, outcomes, extended, eval, verified, extra, sum, row,
                   treeGreen, shipped>>

(***************************************************************************)
(* resolveExtendTarget decides to extend only a file that it could read,   *)
(* and the writer refuses to create a file that exists.  A path is an      *)
(* artifact from its first write on, and is remembered as extended by what *)
(* that first write did.                                                   *)
(***************************************************************************)
\* mutant: an extended path is not recorded as the repository's own
MutantWrite(path, doExtend) ==
    /\ doExtend => path \in disk
    /\ path \in disk => doExtend
    /\ disk' = disk \cup {path}
    /\ extended' = extended

Write(path, doExtend) ==
    /\ doExtend => path \in disk
    /\ path \in disk => doExtend
    /\ disk' = disk \cup {path}
    /\ extended' = IF doExtend /\ path \notin ArtifactPaths
                   THEN extended \cup {path} ELSE extended

GenerateItem ==
    /\ pc = "generate" /\ item \in Items
    /\ \E path \in Paths, doExtend \in BOOLEAN :
           /\ Write(path, doExtend)
           /\ outcomes' = [outcomes EXCEPT ![item].path = path]
    /\ sum' = [sum EXCEPT !.generated = @ + 1]
    /\ item' = item + 1
    /\ UNCHANGED <<pc, eval, verified, extra, row, treeGreen, shipped>>

NothingGenerated ==
    /\ pc = "generate" /\ item \notin Items
    /\ ArtifactPaths = {}
    /\ CompleteRun("null", "null")
    /\ pc' = "ship"
    /\ UNCHANGED <<item, disk, outcomes, extended, eval, verified, extra, sum,
                   treeGreen, shipped>>

(***************************************************************************)
(* Phase 2.  Discarding is enabled by default.  A stable verdict that asks *)
(* for no deletion passed every step on the tree as it is; a verdict that  *)
(* proposes deletions only infers what the rest would do.                  *)
(***************************************************************************)
Evaluate ==
    /\ pc = "generate" /\ item \notin Items
    /\ ArtifactPaths # {}
    /\ eval' \in AllowedVerdicts(ArtifactPaths, extended, TRUE)
    /\ treeGreen' = (eval'.stable /\ eval'.discard = {})
    /\ pc' = IF eval'.stableAfterDiscard THEN "discard" ELSE "report"
    /\ UNCHANGED <<item, disk, outcomes, extended, verified, extra, sum, row, shipped>>

(***************************************************************************)
(* Phase 3.  A file that could not be removed is reported and counted as   *)
(* discarded like the others.  Having discarded something is what sends    *)
(* the run into phase 3b.                                                  *)
(***************************************************************************)
\* mutant: the discard goes straight to the report
MutantAfterDiscard == "report"

AfterDiscard == "verify"

Discard ==
    /\ pc = "discard"
    /\ \E removed \in SUBSET eval.discard : disk' = disk \ removed
    /\ treeGreen' = FALSE
    /\ outcomes' = MarkDiscarded(eval.discard)
    /\ sum' = [sum EXCEPT !.discarded = @ + Cardinality(eval.discard)]
    /\ pc' = AfterDiscard
    /\ UNCHANGED <<item, extended, eval, verified, extra, row, shipped>>

(***************************************************************************)
(* Phase 3b, verifyAfterDiscard: a second evaluation that may repair but   *)
(* not discard.                                                            *)
(***************************************************************************)
Verdict(artifacts, v) ==
    /\ v \in AllowedVerdicts(artifacts, extended, FALSE)
    /\ verified' = (~v.err /\ v.stable)
    /\ treeGreen' = v.stable

Verify ==
    /\ pc = "verify"
    /\ \E v \in VerdictsOn(Survivors) :
           /\ Verdict(Survivors, v)
           /\ pc' = IF v.stable THEN "report" ELSE "survivors"
    /\ UNCHANGED <<item, disk, outcomes, extended, eval, extra, sum, row, shipped>>

(***************************************************************************)
(* discardFailingSurvivors.  attributed is empty when the last failing     *)
(* step is one whose output names no file, or names none of these.  It     *)
(* runs after a cancelled verification as well.  A removal that fails is   *)
(* not counted here.                                                       *)
(***************************************************************************)
\* mutant: removes every survivor when every survivor fails
MutantRemovable(attributed) == attributed \ extended

Removable(attributed) ==
    IF attributed = Survivors THEN {} ELSE attributed \ extended

DiscardFailingSurvivors ==
    /\ pc = "survivors"
    /\ \E attributed \in SUBSET Survivors :
         \E removed \in SUBSET Removable(attributed) :
           /\ disk' = disk \ removed
           /\ extra' = removed
           /\ treeGreen' = (treeGreen /\ removed = {})
           /\ pc' = IF removed = {} THEN "report" ELSE "reverify"
    /\ UNCHANGED <<item, outcomes, extended, eval, verified, sum, row, shipped>>

\* The remainder is evaluated once more, for one iteration and without a fixer.
Reverify ==
    /\ pc = "reverify"
    /\ \E v \in VerdictsOn(Survivors \ extra) : Verdict(Survivors \ extra, v)
    /\ pc' = "report"
    /\ UNCHANGED <<item, disk, outcomes, extended, eval, extra, sum, row, shipped>>

(***************************************************************************)
(* The end of Run: mark what the verification removed, decide              *)
(* ProjectStable, count the stable gaps and record the run.  RunEvaluation *)
(* returns no error but the context's, so an error is always one of the    *)
(* two the gate names.  The metrics read the first evaluation alone.       *)
(***************************************************************************)
EvalStable == eval.stable \/ eval.stableAfterDiscard

Metrics == IF eval.err THEN "null" ELSE Flag(EvalStable)

Report ==
    /\ pc = "report"
    /\ LET stable    == EvalStable /\ verified /\ ~eval.err
           discarded == sum.discarded + Cardinality(extra)
           marked    == MarkDiscarded(extra)
       IN  /\ sum' = [sum EXCEPT
                        !.discarded = discarded,
                        !.projectStable = stable,
                        !.gapsStable = IF stable THEN sum.generated - discarded ELSE @]
           /\ outcomes' = [i \in Items |-> [marked[i] EXCEPT
                             !.stable = stable /\ marked[i].path # NoPath /\ ~marked[i].discarded]]
           /\ CompleteRun(Flag(stable), Metrics)
    /\ pc' = "ship"
    /\ UNCHANGED <<item, disk, extended, eval, verified, extra, treeGreen, shipped>>

(***************************************************************************)
(* Summary.Stable is the gate of main; a run that passes it ships unless   *)
(* shipping is off or git or the provider refuses.                         *)
(***************************************************************************)
SummaryStable == sum.projectStable /\ sum.generated > sum.discarded

Ship ==
    /\ pc = "ship"
    /\ shipped' \in {FALSE, SummaryStable}
    /\ pc' = "done"
    /\ UNCHANGED <<item, disk, outcomes, extended, eval, verified, extra, sum, row,
                   treeGreen>>

Next ==
    \/ SkipItem \/ GenerateItem \/ NothingGenerated
    \/ Evaluate \/ Discard \/ Verify \/ DiscardFailingSurvivors \/ Reverify
    \/ Report \/ Ship

Spec == Init /\ [][Next]_vars

-----------------------------------------------------------------------------
TypeOK ==
    /\ pc \in {"generate", "discard", "verify", "survivors", "reverify", "report",
               "ship", "done"}
    /\ item \in 1 .. NumItems + 1
    /\ disk \subseteq Paths
    /\ outcomes \in [Items -> Outcomes]
    /\ extended \subseteq Paths
    /\ eval \in VerdictsOn(Paths) \cup {Running}
    /\ verified \in BOOLEAN
    /\ extra \subseteq Paths
    /\ sum \in Summaries
    /\ row \in Rows
    /\ treeGreen \in BOOLEAN
    /\ shipped \in BOOLEAN

(***************************************************************************)
(* Discarding is os.Remove, so a test file the repository owned before the *)
(* run must never be among what is discarded, however many items wrote to  *)
(* it and in whatever order.                                               *)
(***************************************************************************)
RepoFilesSurvive == RepoFiles \subseteq disk

(***************************************************************************)
(* What is pushed is a tree the last evaluation passed on, with no file    *)
(* removed since: "the rest are green" is a measurement.                   *)
(***************************************************************************)
ShippedTreeIsGreen == shipped => treeGreen

(***************************************************************************)
(* A stable summary, the gate for shipping, has at least one artifact of   *)
(* this run still in the tree, after both discards.                        *)
(***************************************************************************)
SurvivorExists ==
    pc \in {"ship", "done"} /\ SummaryStable => ArtifactPaths \cap disk # {}

(***************************************************************************)
(* pipeline.go says that a stable outcome is one whose test is in the      *)
(* (post-discard) green build.  Two passes discard files and mark outcomes *)
(* by path: the outcome of the item that first wrote a file is never left  *)
(* stable when the file is gone.  Of a later item on the same path the code *)
(* keeps no index, and its outcome may be.                                 *)
(***************************************************************************)
StableOutcomesStand ==
    \A i \in Items : outcomes[i].stable /\ FirstWriter(i) => outcomes[i].path \in disk
=============================================================================
