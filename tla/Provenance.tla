------------------------------ MODULE Provenance ------------------------------
(***************************************************************************)
(* Who wrote a test file, over several runs on one working tree: the       *)
(* manifest .asqs/generated-artifacts.json (internal/genmanifest), the     *)
(* writes and discards of a run that feed it (internal/pipeline), and the  *)
(* reconciliation that deletes duplicates on the strength of it            *)
(* (internal/generator/duplicate_artifacts.go).  Between runs developers   *)
(* edit the tree; a run may be killed, and any file operation may fail.    *)
(*                                                                         *)
(* Paths is one group of duplicates: test files of one source file in one  *)
(* directory that differ by naming convention only (FooTest, FooTests).    *)
(***************************************************************************)
EXTENDS Naturals, FiniteSets, Functions

CONSTANTS
    Paths,   \* the members of one duplicate group
    Tests,   \* test methods; each is written into the tree at most once
    MaxRuns  \* bound of the model: runs of the pipeline

ASSUME ProvenanceAssumption == IsFiniteSet(Paths) /\ IsFiniteSet(Tests) /\ MaxRuns \in Nat

VARIABLES
    pc,        \* "idle" between runs, then "reconcile", "generate"
    runs,      \* runs started
    tree,      \* the files on disk: who created each and the tests it declares
    manifest,  \* the paths genmanifest has an entry for
    recon,     \* ReconcileDuplicateTestArtifacts in progress
    created,   \* what the current (or last) run may discard: ArtifactPaths minus extended ones
    written,   \* every path a run ever wrote to
    owed,      \* the tests nobody decided to remove
    clean      \* no file operation failed and no run was killed so far

vars == <<pc, runs, tree, manifest, recon, created, written, owed, clean>>

File == [human : BOOLEAN, tests : SUBSET Tests]
Disk == DOMAIN tree
Present == UNION {tree[p].tests : p \in Disk}
Unused == {t \in Tests : t \notin Present \cup owed}

NoRecon == [canonical |-> {}, todo |-> {}, merged |-> {}, any |-> FALSE]

Put(p, file) == [q \in Disk \cup {p} |-> IF q = p THEN file ELSE tree[q]]
Delete(S) == Restrict(tree, Disk \ S)

Init ==
    /\ pc = "idle"
    /\ runs = 0
    /\ tree = <<>>
    /\ manifest = {}
    /\ recon = NoRecon
    /\ created = {}
    /\ written = {}
    /\ owed = {}
    /\ clean = TRUE

-----------------------------------------------------------------------------
(***************************************************************************)
(* Developers, between runs: a new file or a new test in an existing one,  *)
(* or a file deleted.  The manifest does not follow them.                  *)
(***************************************************************************)
DeveloperWrites ==
    /\ pc = "idle"
    /\ \E p \in Paths, t \in Unused :
           /\ tree' = Put(p, IF p \in Disk
                             THEN [tree[p] EXCEPT !.tests = @ \cup {t}]
                             ELSE [human |-> TRUE, tests |-> {t}])
           /\ owed' = owed \cup {t}
    /\ UNCHANGED <<pc, runs, manifest, recon, created, written, clean>>

DeveloperDeletes ==
    /\ pc = "idle"
    /\ \E p \in Disk :
           /\ tree' = Delete({p})
           /\ owed' = owed \ tree[p].tests
    /\ UNCHANGED <<pc, runs, manifest, recon, created, written, clean>>

-----------------------------------------------------------------------------
(***************************************************************************)
(* RankExistingTestPaths: the detected convention first, then a file with  *)
(* no manifest entry, then the one with more tests; the last tie-break,    *)
(* the path itself, is left open.  matching are the members the            *)
(* repository's convention names, which the rest of the tree decides.      *)
(***************************************************************************)
Prefer(S, good) == IF S \cap good # {} THEN S \cap good ELSE S

MostTests(S) ==
    {p \in S : \A q \in S : Cardinality(tree[q].tests) <= Cardinality(tree[p].tests)}

Canonicals(matching) == MostTests(Prefer(Prefer(Disk, matching), Disk \ manifest))

Redundant(canonical) == Disk \ {canonical}

\* mutant: one generated member is enough to delete the others
MutantReconcilable(redundant) == redundant \cap manifest # {}

Reconcilable(redundant) == redundant # {} /\ redundant \subseteq manifest

(***************************************************************************)
(* A run begins.  It reconciles if configured to, if the group has at      *)
(* least two members on disk, and if all redundant ones have an entry.     *)
(* The canonical file must be readable.                                    *)
(***************************************************************************)
\* mutant: the artifacts of the previous run are still the run's own
MutantFreshArtifacts == created' = created

FreshArtifacts == created' = {}

StartRun ==
    /\ pc = "idle" /\ runs < MaxRuns
    /\ runs' = runs + 1
    /\ FreshArtifacts
    /\ \/ /\ pc' = "generate"
          /\ UNCHANGED recon
       \/ /\ Cardinality(Disk) >= 2
          /\ \E matching \in SUBSET Disk : \E canonical \in Canonicals(matching) :
                 /\ Reconcilable(Redundant(canonical))
                 /\ recon' = [canonical |-> {canonical},
                              todo      |-> Redundant(canonical),
                              merged    |-> tree[canonical].tests,
                              any       |-> FALSE]
          /\ pc' = "reconcile"
    /\ UNCHANGED <<tree, manifest, written, owed, clean>>

(***************************************************************************)
(* One redundant member.  A member that cannot be read or merged is left   *)
(* in place.  Otherwise its tests join the merged text in memory and the   *)
(* file is removed at once, before the canonical file is written.          *)
(***************************************************************************)
LeaveMember ==
    /\ pc = "reconcile"
    /\ \E p \in recon.todo : recon' = [recon EXCEPT !.todo = @ \ {p}]
    /\ UNCHANGED <<pc, runs, tree, manifest, created, written, owed, clean>>

\* mutant: each member is merged into the canonical file as it was read, not as merged so far
MutantMerged(p) ==
    UNION {tree[c].tests : c \in recon.canonical} \cup tree[p].tests

Merged(p) == recon.merged \cup tree[p].tests

MergeMember ==
    /\ pc = "reconcile"
    /\ \E p \in recon.todo, removed \in BOOLEAN :
           /\ recon' = [recon EXCEPT !.todo = @ \ {p}, !.any = TRUE,
                                     !.merged = Merged(p)]
           /\ tree' = Delete(IF removed THEN {p} ELSE {})
           /\ clean' = (clean /\ removed)
    /\ UNCHANGED <<pc, runs, manifest, created, written, owed>>

(***************************************************************************)
(* The canonical file is written once, after all members, if anything was  *)
(* merged.  The pipeline passes no backup, and a failed write, which may    *)
(* have truncated the file first, is reported as a skip.                   *)
(***************************************************************************)
WriteCanonical ==
    /\ pc = "reconcile" /\ recon.todo = {}
    /\ \E ok \in BOOLEAN, c \in recon.canonical :
           /\ IF recon.any
              THEN tree' \in IF ok THEN {Put(c, [tree[c] EXCEPT !.tests = recon.merged])}
                             ELSE {tree, Put(c, [tree[c] EXCEPT !.tests = {}])}
              ELSE tree' = tree
           /\ clean' = (clean /\ (recon.any => ok))
    /\ recon' = NoRecon
    /\ pc' = "generate"
    /\ UNCHANGED <<runs, manifest, created, written, owed>>

-----------------------------------------------------------------------------
(***************************************************************************)
(* Generation writes a test: into the file that is there, or into a new    *)
(* one.  genmanifest.Record then adds the path, whichever it was, unless   *)
(* it fails; the write to the manifest is a rename, so it is never half    *)
(* done.  A new file is this run's to discard.                             *)
(***************************************************************************)
Record(p) == manifest' \in {manifest, manifest \cup {p}}

GenerateTest ==
    /\ pc = "generate"
    /\ \E p \in Paths, t \in Unused :
           /\ tree' = Put(p, IF p \in Disk
                             THEN [tree[p] EXCEPT !.tests = @ \cup {t}]
                             ELSE [human |-> FALSE, tests |-> {t}])
           /\ created' = IF p \in Disk THEN created ELSE created \cup {p}
           /\ written' = written \cup {p}
           /\ owed' = owed \cup {t}
           /\ Record(p)
    /\ UNCHANGED <<pc, runs, recon, clean>>

(***************************************************************************)
(* The end of a run: some of the files it created are discarded, and a     *)
(* run that ships first empties .asqs, of which the manifest is not among  *)
(* the preserved files.  The manifest keeps the entries of what was        *)
(* discarded.                                                              *)
(***************************************************************************)
EndRun ==
    /\ pc = "generate"
    /\ \E gone \in SUBSET created, ships \in BOOLEAN :
           /\ tree' = Delete(gone)
           /\ owed' = owed \ UNION {tree[p].tests : p \in gone}
           /\ manifest' = IF ships THEN {} ELSE manifest
    /\ pc' = "idle"
    /\ UNCHANGED <<runs, recon, created, written, clean>>

\* The process is killed; what it held in memory is gone.
Killed ==
    /\ pc # "idle"
    /\ pc' = "idle"
    /\ recon' = NoRecon
    /\ clean' = FALSE
    /\ UNCHANGED <<runs, tree, manifest, created, written, owed>>

Reconcile == LeaveMember \/ MergeMember \/ WriteCanonical

Next ==
    \/ DeveloperWrites \/ DeveloperDeletes
    \/ StartRun \/ LeaveMember \/ MergeMember \/ WriteCanonical
    \/ GenerateTest \/ EndRun \/ Killed

Spec == Init /\ [][Next]_vars

-----------------------------------------------------------------------------
TypeOK ==
    /\ pc \in {"idle", "reconcile", "generate"}
    /\ runs \in 0 .. MaxRuns
    /\ Disk \subseteq Paths
    /\ \A p \in Disk : tree[p] \in File
    /\ manifest \subseteq Paths
    /\ recon \in [canonical : SUBSET Paths, todo : SUBSET Paths,
                  merged : SUBSET Tests, any : BOOLEAN]
    /\ created \subseteq Paths /\ (pc = "generate" => created \subseteq Disk)
    /\ written \subseteq Paths
    /\ owed \subseteq Tests
    /\ clean \in BOOLEAN

(***************************************************************************)
(* Reconciliation deletes only files at paths some run wrote to: a test    *)
(* file the tool never wrote is out of its reach, whatever convention the  *)
(* repository follows and however many runs went before.                   *)
(***************************************************************************)
DeletesOnlyWhatItWrote == [][Reconcile => Disk \ DOMAIN tree' \subseteq written]_vars

(***************************************************************************)
(* The file the others are merged into is still there when it is written.  *)
(***************************************************************************)
CanonicalStays == recon.canonical \subseteq Disk

(***************************************************************************)
(* As long as no file operation fails and no run is killed, every test     *)
(* that neither a developer nor a discard removed is in the tree again     *)
(* once reconciliation is over, however many members were folded together. *)
(***************************************************************************)
NothingLostWithoutFailure == clean /\ pc # "reconcile" => owed \subseteq Present

(***************************************************************************)
(* duplicate_artifacts.go: "Only a file recorded as ASQS-authored in the   *)
(* provenance manifest may be deleted.  [...] Deleting a developer's test  *)
(* because it lost a naming vote is the one outcome worse than the         *)
(* duplicate."  No file a developer created is removed by a run.           *)
(***************************************************************************)
DeveloperFilesSurvive ==
    [][pc # "idle" => {p \in Disk : tree[p].human} \subseteq DOMAIN tree']_vars
=============================================================================
