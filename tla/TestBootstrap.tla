---------------------------- MODULE TestBootstrap ----------------------------
(***************************************************************************)
(* Unit test bootstrap (internal/testbootstrap, Run): a repository that    *)
(* lacks a test stack gets one, and either way a throwaway test is run to  *)
(* prove that tests run here.  That test, and the files it needs, are      *)
(* instruments: staged where no file of the repository is, and removed.    *)
(* What was proved is left to generation in .asqs/test-stack.json.         *)
(*                                                                         *)
(* Every instrument has one path, so the paths are named after them.  Left *)
(* out: what is in the manifests and configurations, other than whether    *)
(* the stack is declared in them; the C# tests moved out of production     *)
(* projects; and the E2E bootstrap, whose files are deliverables.          *)
(***************************************************************************)
EXTENDS FiniteSets

VARIABLES
    lang,      \* "js", "java" or "csharp"
    declared,  \* the manifests declare a complete stack (Report.HasFramework)
    present,   \* instrument paths at which there is a file
    contract,  \* the test stack contract: "none", "unverified" or "verified"
    bootPc,    \* the step of Run
    verdict,   \* existingStackVerification; `verified` of the Java gate
    wrote,     \* instruments whose Wrote is set: files this run created
    outcome,   \* what Run returned
    found,     \* history: present when Run was called
    ranUnit,   \* history: this Run has seen the unit smoke test pass
    stamped,   \* history: this Run has written the contract
    littered   \* history: a file of this Run could not be removed or staged whole

bootLocals == <<bootPc, verdict, wrote, outcome, found, ranUnit, stamped, littered>>
bootVars   == <<lang, declared, present, contract, bootLocals>>

\* Unit smoke test; framework smoke test and its component; type-check probe and its companion.
Instruments == {"unit", "framework", "component", "probe", "companion"}

BootInit ==
    /\ lang \in {"js", "java", "csharp"}
    /\ declared \in BOOLEAN
    /\ contract = "none"
    /\ bootPc = "idle"
    /\ verdict = "none"
    /\ wrote = {} /\ found = {}
    /\ outcome = "none"
    /\ ranUnit = FALSE /\ stamped = FALSE /\ littered = FALSE

-----------------------------------------------------------------------------
\* mutant: a file that is there is taken for one this run wrote
MutantStage(S) ==
    /\ present' = present \cup S
    /\ wrote' = wrote \cup S

\* A file that is there is left alone, and is not this run's to remove.
Stage(S) ==
    /\ present' = present \cup S
    /\ wrote' = wrote \cup (S \ present)

\* mutant: removes what was staged, written by this run or not
MutantStrike(S, kept) == present' = present \ (S \ kept)

Strike(S, kept) == present' = present \ ((S \cap wrote) \ kept)

\* os.Remove, one file after another; an error is not looked at.
Remove(S) ==
    \E kept \in SUBSET (S \cap wrote) :
        /\ Strike(S, kept)
        /\ littered' = (littered \/ kept # {})

Goto(step) == bootPc' = step

Return(result) == bootPc' = "returned" /\ outcome' = result

StartBootstrap ==
    /\ Goto("start")
    /\ verdict' = "none"
    /\ wrote' = {}
    /\ outcome' = "none"
    /\ found' = present
    /\ ranUnit' = FALSE /\ stamped' = FALSE /\ littered' = FALSE
    /\ UNCHANGED <<lang, declared, present, contract>>

\* Run has returned, or the process is gone: nothing but the tree is left.
LeaveBootstrap ==
    /\ bootPc' = "idle"
    /\ verdict' = "none"
    /\ wrote' = {} /\ found' = {}
    /\ outcome' = "none"
    /\ ranUnit' = FALSE /\ stamped' = FALSE /\ littered' = FALSE

(***************************************************************************)
(* Off, not for this language, or a framework that is declined: nil.  No   *)
(* Docker where it is required, no readable manifest: an error.            *)
(***************************************************************************)
NotApplied ==
    /\ bootPc = "start"
    /\ \E result \in {"ok", "error"} : Return(result)
    /\ UNCHANGED <<lang, declared, present, contract, verdict, wrote, found, ranUnit, stamped, littered>>

-----------------------------------------------------------------------------
(***************************************************************************)
(* verifyExistingStack: nothing is configured, one smoke test is staged,   *)
(* run with the repository's own runner and removed by a deferred call.    *)
(* Without a profile, a project or a runner there is no attempt; a failed  *)
(* install of JavaScript dependencies is an attempt that failed.           *)
(***************************************************************************)
StageExisting ==
    /\ bootPc = "start" /\ declared
    /\ Stage({"unit"})
    /\ Goto("runExisting")
    /\ UNCHANGED <<lang, declared, contract, verdict, outcome, found, ranUnit, stamped, littered>>

NoAttempt ==
    /\ bootPc = "start" /\ declared
    /\ verdict' \in IF lang = "js" THEN {"none", "failed"} ELSE {"none"}
    /\ Goto("skipContract")
    /\ UNCHANGED <<lang, declared, present, contract, wrote, outcome, found, ranUnit, stamped, littered>>

RunExisting ==
    /\ bootPc = "runExisting"
    /\ verdict' \in {"ok", "failed"}
    /\ ranUnit' = (verdict' = "ok")
    /\ Remove({"unit"})
    /\ Goto("skipContract")
    /\ UNCHANGED <<lang, declared, contract, wrote, outcome, found, stamped>>

\* writeTestStackContract: a contract that cannot be written is an audit entry.
Stamp(verified) ==
    \/ /\ contract' = IF verified THEN "verified" ELSE "unverified"
       /\ stamped' = TRUE
    \/ UNCHANGED <<contract, stamped>>

\* mutant: an attempt is taken for a success
MutantSkipVerified == verdict # "none"

SkipVerified == verdict = "ok"

\* Only now, with the contract written, does a failed attempt become an error.
WriteSkipContract ==
    /\ bootPc = "skipContract"
    /\ \/ Stamp(SkipVerified)
       \/ UNCHANGED <<contract, stamped>> \* contractForCompleteStack: no profile
    /\ Return(IF verdict = "failed" THEN "error" ELSE "ok")
    /\ UNCHANGED <<lang, declared, present, verdict, wrote, found, ranUnit, littered>>

-----------------------------------------------------------------------------
(***************************************************************************)
(* No stack is declared: manifests and configurations are patched, one     *)
(* file after another, and the smoke test is staged.                       *)
(***************************************************************************)
Patch ==
    /\ bootPc = "start" /\ ~declared
    /\ \/ declared' = TRUE /\ Goto("stage") /\ UNCHANGED outcome
       \/ declared' \in BOOLEAN /\ Return("error")
    /\ UNCHANGED <<lang, present, contract, verdict, wrote, found, ranUnit, stamped, littered>>

StageUnit ==
    /\ bootPc = "stage"
    /\ \/ Stage({"unit"}) /\ Goto("gate") /\ UNCHANGED outcome
       \/ Return("error") /\ UNCHANGED <<present, wrote>>
    /\ UNCHANGED <<lang, declared, contract, verdict, found, ranUnit, stamped, littered>>

(***************************************************************************)
(* The mandatory gate: install, compile and run the smoke test.  When it   *)
(* fails, Java removes the test, JavaScript and C# return at once.         *)
(***************************************************************************)
GatePasses ==
    /\ bootPc = "gate"
    /\ ranUnit' = TRUE
    /\ verdict' = "ok"
    /\ Goto("framework")
    /\ UNCHANGED <<lang, declared, present, contract, wrote, outcome, found, stamped, littered>>

GateFails ==
    /\ bootPc = "gate"
    /\ IF lang = "java" THEN Remove({"unit"}) ELSE UNCHANGED <<present, littered>>
    /\ Return("error")
    /\ UNCHANGED <<lang, declared, contract, verdict, wrote, found, ranUnit, stamped>>

\* A formatter of the Java build objects to the smoke test: nothing proved, nothing wrong.
GateObjects ==
    /\ bootPc = "gate" /\ lang = "java"
    /\ Goto("cleanup")
    /\ UNCHANGED <<lang, declared, present, contract, verdict, wrote, outcome, found, ranUnit,
                   stamped, littered>>

-----------------------------------------------------------------------------
(***************************************************************************)
(* The framework smoke test is advisory: passed or failed, it is removed   *)
(* and the run goes on.  Its component is written first; when the test     *)
(* itself then cannot be, the component stays.                             *)
(***************************************************************************)
FrameworkFiles == IF lang = "js" THEN {"framework", "component"} ELSE {"framework"}

StageFramework ==
    /\ bootPc = "framework"
    /\ \E S \in {{"framework"}, FrameworkFiles} : Stage(S)
    /\ Goto("runFramework")
    /\ UNCHANGED <<lang, declared, contract, verdict, outcome, found, ranUnit, stamped, littered>>

NoFramework ==
    /\ bootPc = "framework"
    /\ Goto(IF lang = "js" THEN "typecheck" ELSE "cleanup")
    /\ \/ UNCHANGED <<present, wrote, littered>>
       \/ /\ lang = "js"
          /\ Stage({"component"})
          /\ littered' = TRUE
    /\ UNCHANGED <<lang, declared, contract, verdict, outcome, found, ranUnit, stamped>>

RunFramework ==
    /\ bootPc = "runFramework"
    /\ Remove({"framework", "component"})
    /\ Goto(IF lang = "js" THEN "typecheck" ELSE "cleanup")
    /\ UNCHANGED <<lang, declared, contract, verdict, wrote, outcome, found, ranUnit, stamped>>

(***************************************************************************)
(* The type-check gate of TypeScript compiles a probe where generated      *)
(* tests will land.  Probe and companion are removed by a deferred call on *)
(* every way out, a companion whose probe cannot be written included.      *)
(***************************************************************************)
StageProbe ==
    /\ bootPc = "typecheck"
    /\ \E S \in {{"probe"}, {"companion"}, {"probe", "companion"}} : Stage(S)
    /\ Goto("runTypecheck")
    /\ UNCHANGED <<lang, declared, contract, verdict, outcome, found, ranUnit, stamped, littered>>

NoTypecheck ==
    /\ bootPc = "typecheck"
    /\ Goto("cleanup")
    /\ UNCHANGED <<lang, declared, present, contract, verdict, wrote, outcome, found, ranUnit,
                   stamped, littered>>

TypecheckDone ==
    /\ bootPc = "runTypecheck"
    /\ Remove({"probe", "companion"})
    /\ Goto("cleanup")
    /\ UNCHANGED <<lang, declared, contract, verdict, wrote, outcome, found, ranUnit, stamped>>

\* The output names the probe: the stack cannot host a generated test.
TypecheckFails ==
    /\ bootPc = "runTypecheck"
    /\ Remove({"probe", "companion", "unit"})
    /\ Return("error")
    /\ UNCHANGED <<lang, declared, contract, verdict, wrote, found, ranUnit, stamped>>

CleanUp ==
    /\ bootPc = "cleanup"
    /\ Remove({"unit"})
    /\ Goto("contract")
    /\ UNCHANGED <<lang, declared, contract, verdict, wrote, outcome, found, ranUnit, stamped>>

\* Java records what its gate said; JavaScript and C# come here only with the gate passed.
WriteContract ==
    /\ bootPc = "contract"
    /\ Stamp(lang # "java" \/ verdict = "ok")
    /\ Return("ok")
    /\ UNCHANGED <<lang, declared, present, verdict, wrote, found, ranUnit, littered>>

BootStep ==
    \/ NotApplied
    \/ StageExisting \/ NoAttempt \/ RunExisting \/ WriteSkipContract
    \/ Patch \/ StageUnit \/ GatePasses \/ GateFails \/ GateObjects
    \/ StageFramework \/ NoFramework \/ RunFramework
    \/ StageProbe \/ NoTypecheck \/ TypecheckDone \/ TypecheckFails
    \/ CleanUp \/ WriteContract

-----------------------------------------------------------------------------
BootTypeOK ==
    /\ lang \in {"js", "java", "csharp"}
    /\ declared \in BOOLEAN
    /\ present \subseteq Instruments /\ found \subseteq Instruments
    /\ wrote \subseteq Instruments \ found
    /\ contract \in {"none", "unverified", "verified"}
    /\ bootPc \in {"idle", "start", "runExisting", "skipContract", "stage", "gate", "framework",
                   "runFramework", "typecheck", "runTypecheck", "cleanup", "contract", "returned"}
    /\ verdict \in {"none", "ok", "failed"}
    /\ outcome \in {"none", "ok", "error"}
    /\ {ranUnit, stamped, littered} \subseteq BOOLEAN

(***************************************************************************)
(* "Instruments, not deliverables" (run_java.go): they are foreign files   *)
(* in someone else's build.  At no moment of Run is a file of the          *)
(* repository missing, and Run returns to the tree it found.  Excepted are *)
(* a removal that fails and, because two of the three languages return     *)
(* from a failed gate at once, the unit smoke test of a JavaScript or C#   *)
(* run that returned an error.                                             *)
(***************************************************************************)
Leftover == IF outcome = "error" /\ lang # "java" THEN {"unit"} ELSE {}

TreeAsFound ==
    bootPc # "idle" =>
        /\ found \subseteq present
        /\ bootPc = "returned" /\ ~littered => present \ found \subseteq Leftover

(***************************************************************************)
(* teststack.Contract: Verified "reports whether a smoke test actually     *)
(* compiled AND ran against this stack during this run".  Three languages, *)
(* two paths and the style exception of Java each decide it on their own:  *)
(* none writes a verified contract in a run that saw no test pass.         *)
(***************************************************************************)
VerifiedMeansRan == stamped /\ contract = "verified" => ranUnit
=============================================================================
