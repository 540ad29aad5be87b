----------------------------- MODULE Preparation -----------------------------
(***************************************************************************)
(* What a run does to a repository before it generates anything            *)
(* (internal/pipeline, Run): scan, TestBootstrap, TestIdPass, index.       *)
(* Several runs on one working tree and one index, with the process killed *)
(* in any step and, between runs, commits and checkouts of its owner.      *)
(*                                                                         *)
(* Indexing is one step here, and succeeds or changes nothing; Indexer has *)
(* its statements.  What matters to it here is that the scan, with the     *)
(* SHAs that decide what is indexed, comes first, and the read comes last. *)
(***************************************************************************)
EXTENDS TestBootstrap, TestIdPass, Naturals

CONSTANTS
    Own,       \* instrument paths at which the repository may have a file of its own
    None,      \* no row
    MaxRuns,   \* bound of the model
    MaxEdits   \* bound of the model

ASSUME PreparationAssumption ==
    /\ Own \subseteq Instruments
    /\ Templates \cap Sources = {}
    /\ None \notin Contents
    /\ MaxRuns \in Nat /\ MaxEdits \in Nat

VARIABLES
    stage,    \* what the run is at
    scanned,  \* files: the content each UI file had when it was scanned
    recorded, \* table files: the content whose SHA is recorded
    derived,  \* table symbols: the content a file's selectors were read from
    runs, edits

database == <<recorded, derived>>
runVars  == <<stage, scanned, database, runs, edits>>
prepVars == <<bootVars, passVars, runVars>>

PrepInit ==
    /\ present \in SUBSET Own
    /\ BootInit /\ PassInit
    /\ stage = "idle"
    /\ scanned = <<>>
    /\ recorded = [f \in UIFiles |-> None] /\ derived = [f \in UIFiles |-> None]
    /\ runs = 0 /\ edits = 0

-----------------------------------------------------------------------------
StartRun ==
    /\ stage = "idle" /\ runs < MaxRuns
    /\ runs' = runs + 1
    /\ scanned' = ui
    /\ stage' = "bootstrap"
    /\ StartBootstrap
    /\ UNCHANGED <<passVars, database, edits>>

Bootstrap ==
    /\ stage = "bootstrap"
    /\ BootStep
    /\ UNCHANGED <<passVars, runVars>>

\* An error of the bootstrap is logged, and the run goes on.
StartHooks ==
    /\ stage = "bootstrap" /\ bootPc = "returned"
    /\ stage' = "hooks"
    /\ LeaveBootstrap
    /\ StartPass
    /\ UNCHANGED <<lang, declared, present, contract, scanned, database, runs, edits>>

Hooks ==
    /\ stage = "hooks"
    /\ PassStep
    /\ UNCHANGED <<bootVars, runVars>>

(***************************************************************************)
(* DetectChanges compares the rows with the scan; what differs is read     *)
(* now.  With nothing to do, a failed count makes it index every file.     *)
(***************************************************************************)
Differing == {f \in UIFiles : recorded[f] # scanned[f]}

Index ==
    /\ stage = "hooks" /\ passPc = "passed"
    /\ \E countFails \in BOOLEAN :
           LET batch == IF Differing = {} /\ countFails THEN UIFiles ELSE Differing
           IN  /\ recorded' = [f \in UIFiles |-> IF f \in batch THEN scanned[f] ELSE recorded[f]]
               /\ derived' = [f \in UIFiles |-> IF f \in batch THEN ui[f] ELSE derived[f]]
    /\ stage' = "indexed"
    /\ UNCHANGED <<bootVars, passVars, scanned, runs, edits>>

\* The run ends, wherever it is: an error, a kill, or all of its work done.
End ==
    /\ stage # "idle"
    /\ stage' = "idle"
    /\ scanned' = <<>>
    /\ LeaveBootstrap /\ LeavePass
    /\ UNCHANGED <<lang, declared, present, contract, ui, database, runs, edits>>

(***************************************************************************)
(* Between runs: a commit, a checkout, a fresh clone.  What bootstrap and  *)
(* pass did to the tree may be kept or gone, and .asqs, which is removed   *)
(* before a run is shipped, too.                                           *)
(***************************************************************************)
Rework ==
    /\ stage = "idle" /\ edits < MaxEdits
    /\ edits' = edits + 1
    /\ ui' \in [UIFiles -> {"plain", "hooked"}]
    /\ \E own \in SUBSET Own : present' \in {present \cup own, own}
    /\ declared' \in BOOLEAN
    /\ contract' \in {contract, "none"}
    /\ UNCHANGED <<lang, bootLocals, passLocals, stage, scanned, database, runs>>

PrepNext == StartRun \/ Bootstrap \/ StartHooks \/ Hooks \/ Index \/ End \/ Rework

PrepSpec == PrepInit /\ [][PrepNext]_prepVars

-----------------------------------------------------------------------------
PrepTypeOK ==
    /\ BootTypeOK /\ PassTypeOK
    /\ stage \in {"idle", "bootstrap", "hooks", "indexed"}
    /\ stage # "idle" => scanned \in [UIFiles -> Contents]
    /\ recorded \in [UIFiles -> Contents \cup {None}]
    /\ derived \in [UIFiles -> Contents \cup {None}]
    /\ runs \in 0 .. MaxRuns /\ edits \in 0 .. MaxEdits

(***************************************************************************)
(* pipeline.go on the place of the pass: "Before the index, so the         *)
(* JSX/HTML hook enrichers see the new attributes and the E2E generator's  *)
(* selector inventory reflects them."  The inventory is read from the      *)
(* index: after it, the selectors of every file the pass reports are those *)
(* of the file as the pass left it.                                        *)
(***************************************************************************)
InventoryReflectsThePass ==
    stage = "indexed" => \A f \in reported : derived[f] = ui[f]
=============================================================================
