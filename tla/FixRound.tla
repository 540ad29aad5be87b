------------------------------ MODULE FixRound ------------------------------
(***************************************************************************)
(* The rounds of the repair of one step: what a call of applyLLMFix        *)
(* (internal/evaluator/workflow.go) offers the model, and what it lets the *)
(* reply write.  A round assembles a request from the failure it was       *)
(* handed: the files that may be written, narrowed to those the failure    *)
(* names, and the copies shown in the prompt, cut down from the third      *)
(* attempt on.  The reply then passes the write gates, which compare it    *)
(* with the copy the prompt showed and not with the disk.                  *)
(*                                                                         *)
(* Every file here is a test file that exists, and its content is the      *)
(* number of tests it declares.  FixLoop models the breakers that end the  *)
(* rounds; RepairLoop is what the two have in common.                      *)
(***************************************************************************)
EXTENDS Integers, FiniteSets

CONSTANTS
    Generated,       \* ArtifactPaths: what this run wrote
    Baseline,        \* BaselineFailingPaths: broken before the run began
    Others,          \* the other test files of the repository
    Strays,          \* names a reply may use that no file has
    Alias,           \* [name -> the generated files with its base name]
    MaxTests,        \* tests a file may declare
    AllowReduction,  \* AllowFixCoverageReduction
    SignatureOnly,   \* FixerDependencySignatureOnly
    MaxAttempts,     \* rounds that wrote, at most
    MaxRounds,       \* bound: rounds explored
    ReplyFiles       \* bound: files one reply lands in

EscalateAt == 3      \* FixAttemptAutoEscalationThreshold

Files == Generated \cup Baseline \cup Others
Names == Files \cup Strays
Steps == {"compile", "test"}

ASSUME FixRoundAssumption ==
    /\ Generated \cap Baseline = {} /\ Generated \cap Others = {} /\ Baseline \cap Others = {}
    /\ Strays \cap Files = {}
    /\ Alias \in [Names -> SUBSET Generated]
    /\ {MaxTests, MaxAttempts, MaxRounds, ReplyFiles} \subseteq Nat
    /\ {AllowReduction, SignatureOnly} \subseteq BOOLEAN

VARIABLES
    pc,          \* "idle" between rounds, "asked" while the model answers
    round, attempts,   \* rounds begun; those that wrote (attemptCounter)
    disk,        \* [Files -> tests on disk]
    cited,       \* files the round's failure cites by location
    failing,     \* files the runner's report attributes a failure to
    unrun,       \* files the runner found no runnable test in
    toRead,      \* pathsToRead
    writable,    \* writableArtifacts: what the request offers for writing
    shown,       \* [files in the prompt -> tests of the copy shown]
    narrowed,    \* scopeNarrowed, kept as lastRoundNarrowed
    widened,     \* narrowing is suspended this round
    forced,      \* primary-site enforcement left one file writable
    rewritten    \* files the newest attempt record says were changed, of those its failure
                 \* had diagnostics for (lastFileDiagnostics)

failureVars == <<cited, failing, unrun>>
scopeVars == <<toRead, writable, shown, narrowed, widened, forced>>
vars == <<pc, round, attempts, disk, failureVars, scopeVars, rewritten>>

NoCopies == [f \in {} |-> 0]

Init ==
    /\ pc = "idle" /\ round = 0 /\ attempts = 0
    /\ disk \in [Files -> 1 .. MaxTests]
    /\ cited = {} /\ failing = {} /\ unrun = {}
    /\ toRead = {} /\ writable = {} /\ shown = NoCopies
    /\ narrowed = FALSE /\ widened = FALSE /\ forced = FALSE
    /\ rewritten = {}

-----------------------------------------------------------------------------
(***************************************************************************)
(* The failure.  A compiler cites files by location; a runner also names   *)
(* files without one.  ParseFailingTestPaths looks for base names, so it   *)
(* finds every candidate the output cites.                                 *)
(***************************************************************************)
\* a file broken before the run is adopted when the output names it
Adopted(named) == Baseline \cap named

\* mutant: only what the output cites by location, as before the union with the runner's report
MutantNamed(step) == cited'

\* what narrowing keeps: citations, and for a test step what the runner reports
Named(step) == IF step = "test" THEN cited' \cup failing' ELSE cited'

Escalated == attempts + 1 >= EscalateAt

\* a test step's first attempt ships the full page
Deferred(step) == step = "test" /\ attempts = 0

\* mutant: the previous round need not have been narrowed
MutantWidens(stalled) == stalled # {}

\* shouldWidenScope: the previous round was narrowed, and something it wrote stalled
Widens(stalled) == narrowed /\ stalled # {}

\* the named part of the page, when it is a proper part of it
Scope(step, page) ==
    LET part == page \cap Named(step)
    IN  IF part # {} /\ part # page /\ ~Deferred(step) /\ ~widened' THEN part ELSE page

(***************************************************************************)
(* The prompt's copies.  Signature slicing spares the run's own files and  *)
(* cited ones; what a slice of a test file still declares depends on the   *)
(* language ("cut": nothing).  From the third attempt on only writable     *)
(* files are read; the context budget sheds files that are not writable.   *)
(***************************************************************************)
Sliced(f) == (SignatureOnly \/ Escalated) /\ f \notin Generated \cup cited'

\* mutant: the context budget sheds files the round may write
MutantSheddable == toRead' \cup cited'

Sheddable == (toRead' \cup cited') \ writable'

\* readOne, slicing, read-scope narrowing, and the two context budgets (for cited files, and
\* clampFixContextRunes for all that are not writable)
Show ==
    \E shed \in IF Escalated THEN {Sheddable} ELSE SUBSET Sheddable, cut \in BOOLEAN :
        shown' = [f \in (toRead' \cup cited') \ shed |-> IF cut /\ Sliced(f) THEN 0 ELSE disk[f]]

-----------------------------------------------------------------------------
\* primary-site enforcement: after two rounds that edited around a cited site (FixLoop),
\* its file alone stays writable
Enforce(scope) ==
    \/ /\ forced' = FALSE /\ writable' = scope
       /\ narrowed' = (scope # toRead')
    \/ /\ round >= 2 /\ forced' = TRUE
       /\ \E f \in scope \cap cited' : writable' = {f}
       /\ narrowed' = (writable' # toRead')

\* mutant: one write more than the budget
MutantCanAttempt == pc = "idle" /\ round < MaxRounds /\ attempts <= MaxAttempts

\* fixerCanAttempt
CanAttempt == pc = "idle" /\ round < MaxRounds /\ attempts < MaxAttempts

(***************************************************************************)
(* applyLLMFix up to the call of the model.  A test failure that names no  *)
(* file and no location ends the loop instead; one that names nothing here *)
(* has a location elsewhere.                                               *)
(***************************************************************************)
Asks(step) ==
    /\ CanAttempt
    /\ cited' \in SUBSET Files
    /\ IF step = "test"
       THEN failing' \in {fs \in SUBSET Files : cited' \subseteq fs} /\ unrun' \in SUBSET failing'
       ELSE failing' = {} /\ unrun' = {}
    /\ toRead' = Generated \cup Adopted(cited' \cup failing')
    /\ \E stalled \in SUBSET (rewritten \cap cited') : widened' = Widens(stalled)
    /\ Enforce(Scope(step, toRead'))
    /\ Show
    /\ pc' = "asked" /\ round' = round + 1
    /\ UNCHANGED <<attempts, disk, rewritten>>

-----------------------------------------------------------------------------
(***************************************************************************)
(* The reply: whole files, or edits resolved to whole files, under names   *)
(* of the model's choosing.                                                *)
(***************************************************************************)
\* a name outside pathsToRead is taken for an artifact with its base name
Targets(name) ==
    LET basis == Alias[name] \cap (IF narrowed THEN writable ELSE Generated)
    IN  IF name \in toRead \/ basis = {} THEN {name} ELSE basis

\* fixOutputPathAllowed: an artifact in scope, a test file of pathsToRead, or a test file on disk
PathAllowed(f) ==
    \/ f \in IF narrowed THEN writable ELSE Generated
    \/ f \in toRead
    \/ f \in Files

\* fixEmptyTestGateApplies and EmptyTestFileReason
EmptyRefused(f, tests) ==
    tests = 0 /\ (f \in Generated \/ f \notin DOMAIN shown \/ shown[f] > 0)

\* mutant: a file reported without runnable tests waives the gate for the whole round
MutantFewerRefused(f, tests) ==
    f \in DOMAIN shown /\ tests < shown[f] /\ unrun = {} /\ ~AllowReduction

\* coverageRegressionReason, against the copy in the prompt
FewerRefused(f, tests) ==
    f \in DOMAIN shown /\ tests < shown[f] /\ f \notin unrun /\ ~AllowReduction

Accepted(f, tests) == PathAllowed(f) /\ ~EmptyRefused(f, tests) /\ ~FewerRefused(f, tests)

\* the request is dropped; lastRoundNarrowed is remembered
EndsRound ==
    /\ pc = "asked" /\ pc' = "idle"
    /\ cited' = {} /\ failing' = {} /\ unrun' = {}
    /\ toRead' = {} /\ writable' = {} /\ shown' = NoCopies
    /\ UNCHANGED <<round, narrowed, widened, forced>>

\* an unusable reply, edits none of which matched, or nothing that passed the gates
WritesNothing ==
    /\ EndsRound
    /\ rewritten' = {}
    /\ UNCHANGED <<attempts, disk>>

(***************************************************************************)
(* The entries that land.  Each is judged alone against the prompt's copy, *)
(* so of two that mean one file either may be what stays; one that a gate  *)
(* on its text refuses, or whose write fails, is as if it were not there.  *)
(***************************************************************************)
Writes ==
    /\ EndsRound
    /\ \E files \in SUBSET (UNION {Targets(n) : n \in Names} \cap Files) \ {{}} :
       \E tests \in [files -> 0 .. MaxTests] :
          /\ Cardinality(files) <= ReplyFiles
          /\ \A f \in files : Accepted(f, tests[f])
          /\ disk' = [f \in Files |-> IF f \in files THEN tests[f] ELSE disk[f]]
          /\ rewritten' = files \cap cited
    /\ attempts' = attempts + 1

Next == (\E step \in Steps : Asks(step)) \/ WritesNothing \/ Writes

Spec == Init /\ [][Next]_vars

-----------------------------------------------------------------------------
\* What is offered is in scope, what is shown exists, and the counters are within bounds.
TypeOK ==
    /\ pc \in {"idle", "asked"}
    /\ round \in 0 .. MaxRounds /\ attempts \in 0 .. MaxAttempts
    /\ disk \in [Files -> 0 .. MaxTests]
    /\ cited \subseteq Files /\ failing \subseteq Files /\ unrun \subseteq failing
    /\ writable \subseteq toRead /\ toRead \subseteq Generated \cup Baseline
    /\ DOMAIN shown \subseteq Files /\ \A f \in DOMAIN shown : shown[f] \in 0 .. MaxTests
    /\ {narrowed, widened, forced} \subseteq BOOLEAN
    /\ rewritten \subseteq Files
    /\ pc = "asked" => attempts < MaxAttempts

(***************************************************************************)
(* A file of this run that may be written is in the prompt as it is on     *)
(* disk: neither slicing, nor read-scope narrowing, nor the context budget *)
(* leaves the model to return in full a file it was not shown in full.     *)
(***************************************************************************)
OfferedInFull ==
    pc = "asked" => \A f \in writable \cap Generated : f \in DOMAIN shown /\ shown[f] = disk[f]

(***************************************************************************)
(* Whatever the failure names and the round may repair stays writable,     *)
(* except in a round forced onto one file: no rule that narrows drops a    *)
(* file that keeps failing.                                                *)
(***************************************************************************)
NamedStaysWritable ==
    pc = "asked" /\ ~forced => (cited \cup failing) \cap toRead \subseteq writable

(***************************************************************************)
(* No reply takes tests away from a file of this run it was offered,       *)
(* unless the runner found no runnable test in it or the escape hatch is   *)
(* set; neither do two entries of one reply that mean the same file.       *)
(***************************************************************************)
OfferedTestsKept ==
    [][\A f \in writable \cap Generated :
          pc = "asked" /\ ~AllowReduction /\ f \notin unrun => disk'[f] >= disk[f]]_vars

(***************************************************************************)
(* "Widening lasts exactly one round; the next round narrows again": a     *)
(* second widened round in a row needs a first one that enforcement        *)
(* narrowed after all, and the first needs a narrowed round before it.     *)
(***************************************************************************)
WideningIsOneRound ==
    [][pc = "idle" /\ pc' = "asked" /\ widened' => narrowed /\ (widened => forced)]_vars

(***************************************************************************)
(* The promise of the coverage gate, "the check that makes the instruction *)
(* binding": no reply removes tests from any test file.  It compares with  *)
(* the prompt's copy and passes a file the prompt does not hold, or holds  *)
(* sliced, while the path gate lets a reply write every test on disk.      *)
(***************************************************************************)
TestsKept ==
    [][\A f \in Files : ~AllowReduction /\ f \notin unrun => disk'[f] >= disk[f]]_vars
=============================================================================
