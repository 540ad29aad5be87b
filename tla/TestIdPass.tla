----------------------------- MODULE TestIdPass -----------------------------
(***************************************************************************)
(* The test-id pass (internal/uitesthooks, Apply and Journal; called by    *)
(* applyUITestHooks in internal/pipeline): data-testid attributes are      *)
(* added to UI sources, templates first and one by one, then the JSX       *)
(* sources as node returned them.  Each file is journalled before it is    *)
(* written, the tree is compiled, and a tree that does not compile is      *)
(* restored from the journal.                                              *)
(*                                                                         *)
(* A file is plain (the pass would add to it), hooked or, after a write    *)
(* that failed, torn.  The pass is a function of a file's text, so a file  *)
(* that is hooked already is not changed again.                            *)
(***************************************************************************)
CONSTANTS
    Templates,  \* targets of kind html and razor, edited in the process
    Sources     \* targets of kind jsx, edited by one node batch

VARIABLES
    ui,        \* the content of each UI file
    passPc,    \* the step of applyUITestHooks
    todo,      \* plan.Targets not dealt with yet
    journal,   \* Journal: [file -> content], for the files snapshotted
    applied,   \* res.Applied
    reported,  \* out.Files: the files the pass says it changed
    uiFound,   \* history: ui when the pass began
    damaged,   \* history: files of which a snapshot, write or restore failed
    batchFailed \* history: the pass ended with the error of the batch

passLocals == <<passPc, todo, journal, applied, reported, uiFound, damaged, batchFailed>>
passVars   == <<ui, passLocals>>

UIFiles == Templates \cup Sources
Contents == {"plain", "hooked", "torn"}

PassInit ==
    /\ ui \in [UIFiles -> {"plain", "hooked"}]
    /\ passPc = "idle"
    /\ todo = {}
    /\ journal = <<>>
    /\ applied = {} /\ reported = {}
    /\ uiFound = <<>>
    /\ damaged = {} /\ batchFailed = FALSE

-----------------------------------------------------------------------------
\* The caps and the snapshot rule leave some files out; with none left, the pass is over.
StartPass ==
    /\ todo' \in SUBSET UIFiles
    /\ passPc' = IF todo' = {} THEN "passed" ELSE "templates"
    /\ journal' = <<>>
    /\ applied' = {} /\ reported' = {}
    /\ uiFound' = ui
    /\ damaged' = {} /\ batchFailed' = FALSE
    /\ UNCHANGED ui

\* applyUITestHooks has returned and its result was used, or the process is gone.
LeavePass ==
    /\ passPc' = "idle"
    /\ todo' = {}
    /\ journal' = <<>> /\ uiFound' = <<>>
    /\ applied' = {} /\ reported' = {}
    /\ damaged' = {} /\ batchFailed' = FALSE

\* mutant: the journal is written after the file
MutantRecord(f, content) == [g \in DOMAIN journal \cup {f} |-> IF g = f THEN content ELSE journal[g]]

Record(f, content) == [g \in DOMAIN journal \cup {f} |-> IF g = f THEN ui[f] ELSE journal[g]]

(***************************************************************************)
(* A file is read, changed and written.  A snapshot that cannot be taken   *)
(* does not keep it from being written; a write that fails may have        *)
(* truncated it, and the file counts as refused.                           *)
(***************************************************************************)
WriteHooks(f) ==
    /\ ui[f] = "plain"
    /\ todo' = todo \ {f}
    /\ \E snapshot \in BOOLEAN, content \in Contents :
           /\ journal' = IF snapshot THEN Record(f, content) ELSE journal
           /\ ui' = [ui EXCEPT ![f] = content]
           /\ applied' = IF content = "hooked" THEN applied \cup {f} ELSE applied
           /\ damaged' = IF snapshot /\ content = "hooked" THEN damaged ELSE damaged \cup {f}
    /\ UNCHANGED <<passPc, reported, uiFound, batchFailed>>

\* Unreadable, refused by the inserter, or nothing to add.
LeaveFile(f) ==
    /\ todo' = todo \ {f}
    /\ UNCHANGED <<ui, passPc, journal, applied, reported, uiFound, damaged, batchFailed>>

Template ==
    /\ passPc = "templates"
    /\ \E f \in todo \cap Templates : WriteHooks(f) \/ LeaveFile(f)

\* One process for all sources; its error ends the pass with the templates written.
Batch ==
    /\ passPc = "templates" /\ todo \cap Templates = {}
    /\ \/ passPc' = "sources" /\ UNCHANGED batchFailed
       \/ todo # {} /\ passPc' = "passed" /\ batchFailed' = TRUE
    /\ UNCHANGED <<ui, todo, journal, applied, reported, uiFound, damaged>>

Source ==
    /\ passPc = "sources"
    /\ \E f \in todo : WriteHooks(f) \/ LeaveFile(f)

\* Compiled, or there is nothing to compile, or no sandbox to compile it in.
ReportApplied ==
    /\ passPc = "sources" /\ todo = {}
    /\ reported' = applied
    /\ passPc' = "passed"
    /\ UNCHANGED <<ui, todo, journal, applied, uiFound, damaged, batchFailed>>

\* A restore may fail as any write does; nobody asks.
Restored(f) == IF f \in DOMAIN journal THEN {journal[f], ui[f], "torn"} ELSE {ui[f]}

RollBack ==
    /\ passPc = "sources" /\ todo = {} /\ applied # {}
    /\ \E new \in [UIFiles -> Contents] :
           /\ \A f \in UIFiles : new[f] \in Restored(f)
           /\ ui' = new
           /\ damaged' = damaged \cup {f \in DOMAIN journal : new[f] # journal[f]}
    /\ passPc' = "passed"
    /\ UNCHANGED <<todo, journal, applied, reported, uiFound, batchFailed>>

PassStep == Template \/ Batch \/ Source \/ ReportApplied \/ RollBack

-----------------------------------------------------------------------------
PassTypeOK ==
    /\ ui \in [UIFiles -> Contents]
    /\ passPc # "idle" => uiFound \in [UIFiles -> Contents]
    /\ passPc \in {"idle", "templates", "sources", "passed"}
    /\ todo \subseteq UIFiles
    /\ DOMAIN journal \subseteq UIFiles /\ \A f \in DOMAIN journal : journal[f] \in Contents
    /\ applied \subseteq UIFiles \ todo /\ reported \subseteq applied
    /\ damaged \subseteq UIFiles
    /\ batchFailed \in BOOLEAN

(***************************************************************************)
(* "A tree that stops compiling is restored byte-for-byte"                 *)
(* (ui_test_hooks.go).  When the pass is over, exactly the files it        *)
(* reports differ from what it found: after a rollback none does, and no   *)
(* file was changed in silence.  Excepted are files that could not be      *)
(* journalled, written or restored, and the pass whose batch failed, which *)
(* leaves its templates changed, uncompiled and unreported.                *)
(***************************************************************************)
ChangedIsReported ==
    passPc = "passed" /\ ~batchFailed =>
        \A f \in UIFiles \ damaged : ui[f] # uiFound[f] <=> f \in reported
=============================================================================
