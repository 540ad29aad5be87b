------------------------------ MODULE Evaluation ------------------------------
(***************************************************************************)
(* One call of RunEvaluation (internal/evaluator/workflow.go): the repair  *)
(* loop that runs compile, test, e2e test, lint, coverage and mutation in  *)
(* a sandbox, asks the LLM fixer to rewrite tests between iterations, and  *)
(* ends with one verdict.  The loop is one goroutine; what interleaves     *)
(* with it is the cancellation of its context, and what it cannot control  *)
(* is the outcome of every sandbox step and of every fixer round.  A call  *)
(* of applyLLMFix is one step here; its circuit breakers are the module    *)
(* FixLoop, and here a breaker may trip at any call; RepairLoop is what    *)
(* both of them implement.                                                 *)
(***************************************************************************)
EXTENDS Naturals, FiniteSets

CONSTANTS
    Artifacts,         \* EvalOptions.ArtifactPaths
    Extended,          \* EvalOptions.ExtendedArtifactPaths
    MaxFixIterations,  \* the iteration budget (a bound of the code, not of the model)
    MaxFix,            \* [compile, test]: the two repair budgets
    RepeatThreshold,   \* effectiveRepeatedTestFailureThreshold; 0 = discarding disabled
    OptionSpace        \* the EvalOptions flags a call may be given

ASSUME EvaluationAssumption ==
    /\ Extended \subseteq Artifacts
    /\ MaxFixIterations \in Nat \ {0}
    /\ MaxFix \in [{"compile", "test"} -> Nat \ {0}]
    /\ RepeatThreshold \in Nat
    /\ OptionSpace \subseteq [fixer : BOOLEAN, compileOnce : BOOLEAN, e2e : BOOLEAN,
                              mutation : BOOLEAN, skipInfra : BOOLEAN, abortEnv : BOOLEAN]

VARIABLES
    opts,         \* the flags of this call, constant
    pc,           \* the step of the iteration about to run
    ctxDone,      \* ctx.Err() # nil
    iter,         \* out.Iterations
    fixes,        \* compileFixAttempts, testFixAttempts
    tripped,      \* FixLoopState.tripped of the compile and of the test loop
    compiled,     \* compileSucceededThisEval
    scopedTried,  \* scopedCompileTried
    failedStep,   \* the step whose failure is being handled
    skip,         \* what the last repair of a failed step came to
    failing,      \* artifacts ParseFailingTestPaths reads off that failure
    cited,        \* those, and the ones a compile-shaped output cites
    streak, fp,   \* the repeated-failure streak and fingerprint of each test step
    green,        \* the steps that passed on the tree as it now is
    out           \* EvalWorkflowResult

vars == <<opts, pc, ctxDone, iter, fixes, tripped, compiled, scopedTried,
          failedStep, skip, failing, cited, streak, fp, green, out>>
history == <<failing, cited, streak, fp>>
counters == <<iter, fixes, tripped, compiled, scopedTried>>

Contract == INSTANCE EvalContract
              WITH verdict <- out, DiscardEnabled <- RepeatThreshold > 0

Loops == {"compile", "test"}
TestSteps == {"test", "test_e2e"}
Refusals == {"breaker", "no_writable", "outside_scope", "retryable"}

(***************************************************************************)
(* Verdicts.                                                               *)
(***************************************************************************)
Verdict(stable, discard) ==
    [returned |-> TRUE, err |-> FALSE, stable |-> stable, discard |-> discard,
     stableAfterDiscard |-> stable /\ discard # {}]

Finish(verdict) == out' = verdict /\ pc' = "done"

(***************************************************************************)
(* maybeExitOnRepeatedTestFailure and exitByDiscardingStuckArtifacts end   *)
(* in the same way: delete what failed and was created by this run, and    *)
(* call the rest stable when some artifact is not among the failing ones.  *)
(***************************************************************************)
\* mutant: forgets that extended files are the repository's
MutantDiscardable(failed) == failed

Discardable(failed) == failed \ Extended

DiscardVerdict(failed) == Verdict(Artifacts \ failed # {}, Discardable(failed))

(***************************************************************************)
(* The fixer: fixerCanAttempt, and what a call of applyLLMFix that wrote   *)
(* nothing may report.  Nothing but a test failure is ever out of scope.   *)
(***************************************************************************)
Loop == IF failedStep = "compile" THEN "compile" ELSE "test"

\* mutant: one round more than the budget
MutantFixerCanAttempt == opts.fixer /\ ~tripped[Loop] /\ fixes[Loop] <= MaxFix[Loop]

FixerCanAttempt == opts.fixer /\ ~tripped[Loop] /\ fixes[Loop] < MaxFix[Loop]

\* IsTerminalFixSkip
IsTerminal(why) == why \in {"breaker", "no_writable"}

\* mutant: the test steps take any terminal skip for a spent loop
MutantSpent(why) == tripped[Loop] \/ IsTerminal(why) \/ fixes[Loop] >= MaxFix[Loop]

Spent(why) == tripped[Loop] \/ why = "breaker" \/ fixes[Loop] >= MaxFix[Loop]

\* mutant: the spent budget does not end a failing compile
MutantFixerExhausted(why) == ~opts.fixer \/ IsTerminal(why)

FixerExhausted(why) == ~opts.fixer \/ Spent(why) \/ IsTerminal(why)

Refused(why) ==
    /\ pc = "fix"
    /\ why \in IF ~FixerCanAttempt THEN {"none"}
               ELSE IF Loop = "compile" THEN Refusals \ {"outside_scope"} ELSE Refusals
    /\ skip' = why
    /\ tripped' = [tripped EXCEPT ![Loop] = @ \/ why = "breaker"]

-----------------------------------------------------------------------------
Init ==
    /\ opts \in OptionSpace
    /\ pc = "top" /\ ctxDone = FALSE /\ iter = 0
    /\ fixes = [l \in Loops |-> 0] /\ tripped = [l \in Loops |-> FALSE]
    /\ compiled = FALSE /\ scopedTried = FALSE
    /\ failedStep = "none" /\ skip = "none" /\ failing = {} /\ cited = {}
    /\ streak = [s \in TestSteps |-> 0] /\ fp = [s \in TestSteps |-> {}]
    /\ green = {}
    /\ out = Contract!Running

(***************************************************************************)
(* The caller's context: a timeout, or an interrupt.                       *)
(***************************************************************************)
Cancel ==
    /\ pc # "done" /\ ~ctxDone
    /\ ctxDone' = TRUE
    /\ UNCHANGED <<opts, pc, counters, failedStep, skip, history, green, out>>

(***************************************************************************)
(* The head of the loop.                                                   *)
(***************************************************************************)
StopCancelled ==
    /\ pc = "top" /\ iter < MaxFixIterations /\ ctxDone
    /\ Finish([Verdict(FALSE, {}) EXCEPT !.err = TRUE])
    /\ UNCHANGED <<opts, ctxDone, counters, failedStep, skip, history, green>>

\* mutant: an iteration whose repair was unusable is not charged
MutantBeginIteration ==
    /\ pc = "top" /\ iter < MaxFixIterations /\ ~ctxDone
    /\ iter' = IF skip = "retryable" THEN iter ELSE iter + 1
    /\ pc' = "compile"
    /\ UNCHANGED <<opts, ctxDone, fixes, tripped, compiled, scopedTried,
                   failedStep, skip, history, green, out>>

BeginIteration ==
    /\ pc = "top" /\ iter < MaxFixIterations /\ ~ctxDone
    /\ iter' = iter + 1
    /\ pc' = "compile"
    /\ UNCHANGED <<opts, ctxDone, fixes, tripped, compiled, scopedTried,
                   failedStep, skip, history, green, out>>

LeaveLoop ==
    /\ pc = "exit" \/ (pc = "top" /\ iter = MaxFixIterations)
    /\ Finish(Verdict(FALSE, {}))
    /\ UNCHANGED <<opts, ctxDone, counters, failedStep, skip, history, green>>

(***************************************************************************)
(* Compile.  With compileOnce a compile that passed is never run again,    *)
(* whatever the fixer has written since.                                   *)
(***************************************************************************)
\* mutant: one green compile is enough whatever the option says
MutantCompileSkipped == compiled

CompileSkipped == opts.compileOnce /\ compiled

CompilePasses ==
    /\ pc = "compile"
    /\ CompileSkipped \/ ~ctxDone
    /\ compiled' = TRUE
    /\ green' = IF CompileSkipped THEN green ELSE green \cup {"compile"}
    /\ pc' = "test"
    /\ UNCHANGED <<opts, ctxDone, iter, fixes, tripped, scopedTried,
                   failedStep, skip, history, out>>

\* tryAutoFixCSharpMissingProjectReferences added a ProjectReference
CompileAutoFixed ==
    /\ pc = "compile" /\ ~CompileSkipped
    /\ failedStep' = "compile" /\ skip' = "autofix"
    /\ green' = {}
    /\ pc' = "top"
    /\ UNCHANGED <<opts, ctxDone, counters, history, out>>

\* tryScopedCompileForNuGetFailure built the artifact's own project instead
CompileScoped ==
    /\ pc = "compile" /\ ~CompileSkipped /\ ~scopedTried /\ ~ctxDone
    /\ scopedTried' = TRUE /\ compiled' = TRUE
    /\ green' = green \cup {"compile"}
    /\ pc' = "test"
    /\ UNCHANGED <<opts, ctxDone, iter, fixes, tripped, failedStep, skip, history, out>>

\* the failure is outside the artifacts, or a NuGet restore failure: not for the fixer
CompileFailsOutOfScope ==
    /\ pc = "compile" /\ ~CompileSkipped
    /\ \E nuget, attempted \in BOOLEAN :
        /\ scopedTried' = (scopedTried \/ (nuget /\ attempted))
        /\ pc' = IF opts.abortEnv /\ scopedTried' /\ nuget THEN "exit" ELSE "top"
    /\ failedStep' = "compile" /\ skip' = "environment"
    /\ green' = green \ {"compile"}
    /\ UNCHANGED <<opts, ctxDone, iter, fixes, tripped, compiled, history, out>>

\* the streaks of the test steps are deliberately left alone
CompileFailsInScope ==
    /\ pc = "compile" /\ ~CompileSkipped
    /\ cited' \in SUBSET Artifacts /\ failing' = cited'
    /\ failedStep' = "compile"
    /\ green' = green \ {"compile"}
    /\ pc' = "fix"
    /\ UNCHANGED <<opts, ctxDone, counters, skip, streak, fp, out>>

(***************************************************************************)
(* Unit and e2e test.  A unit failure clears the e2e streak, a pass its    *)
(* own.  An infrastructure failure may be kept from the fixer.             *)
(***************************************************************************)
ClearStreaks(steps) ==
    /\ streak' = [s \in TestSteps |-> IF s \in steps THEN 0 ELSE streak[s]]
    /\ fp' = [s \in TestSteps |-> IF s \in steps THEN {} ELSE fp[s]]

TestPasses(s) ==
    /\ pc = s /\ ~ctxDone
    /\ ClearStreaks({s})
    /\ green' = green \cup {s}
    /\ pc' = IF s = "test" /\ opts.e2e THEN "test_e2e" ELSE "lint"
    /\ UNCHANGED <<opts, ctxDone, counters, failedStep, skip, failing, cited, out>>

TestFails(s) ==
    /\ pc = s
    /\ cited' \in SUBSET Artifacts /\ failing' \in SUBSET cited'
    /\ failedStep' = s
    /\ ClearStreaks(IF s = "test" THEN {"test_e2e"} ELSE {})
    /\ green' = green \ {s}
    /\ \E infra \in BOOLEAN : pc' = IF infra /\ opts.skipInfra THEN "repeat" ELSE "fix"
    /\ UNCHANGED <<opts, ctxDone, counters, skip, out>>

(***************************************************************************)
(* The repair of a failed compile or test step.  A cancelled context makes *)
(* the LLM call fail, so no round writes on it.                            *)
(***************************************************************************)
FixApplied ==
    /\ pc = "fix" /\ FixerCanAttempt /\ ~ctxDone
    /\ fixes' = [fixes EXCEPT ![Loop] = @ + 1]
    /\ skip' = "applied"
    /\ green' = {}
    /\ pc' = "top"
    /\ UNCHANGED <<opts, ctxDone, iter, tripped, compiled, scopedTried,
                   failedStep, history, out>>

CompileRetried(why) ==
    /\ failedStep = "compile" /\ Refused(why) /\ ~FixerExhausted(why)
    /\ pc' = "top"
    /\ UNCHANGED <<opts, ctxDone, iter, fixes, compiled, scopedTried,
                   failedStep, history, green, out>>

CompileAbandoned(why) ==
    /\ failedStep = "compile" /\ Refused(why) /\ FixerExhausted(why)
    /\ Finish(IF RepeatThreshold > 0 /\ Discardable(cited) # {}
              THEN DiscardVerdict(cited) ELSE Verdict(FALSE, {}))
    /\ UNCHANGED <<opts, ctxDone, iter, fixes, compiled, scopedTried,
                   failedStep, history, green>>

\* FixSkipTestOutsideWritableScope breaks out of the loop
TestOutsideScope ==
    /\ failedStep \in TestSteps /\ Refused("outside_scope")
    /\ pc' = "exit"
    /\ UNCHANGED <<opts, ctxDone, iter, fixes, compiled, scopedTried,
                   failedStep, history, green, out>>

TestStuckDiscards(why) ==
    /\ failedStep \in TestSteps /\ why # "outside_scope" /\ Refused(why)
    /\ Spent(why) /\ RepeatThreshold > 0 /\ Discardable(cited) # {}
    /\ Finish(DiscardVerdict(cited))
    /\ UNCHANGED <<opts, ctxDone, iter, fixes, compiled, scopedTried,
                   failedStep, history, green>>

TestNotFixed(why) ==
    /\ failedStep \in TestSteps /\ why # "outside_scope" /\ Refused(why)
    /\ ~(Spent(why) /\ RepeatThreshold > 0 /\ Discardable(cited) # {})
    /\ pc' = "repeat"
    /\ UNCHANGED <<opts, ctxDone, iter, fixes, compiled, scopedTried,
                   failedStep, history, green, out>>

(***************************************************************************)
(* maybeExitOnRepeatedTestFailure.                                         *)
(***************************************************************************)
\* mutant: counts failures, not repetitions of one failure
MutantRepeats == streak[failedStep] + 1

Repeats == IF failing = fp[failedStep] THEN streak[failedStep] + 1 ELSE 1

Counts == RepeatThreshold > 0 /\ Artifacts # {} /\ failing # {}

RepeatNotCounted ==
    /\ pc = "repeat" /\ ~Counts
    /\ ClearStreaks(IF RepeatThreshold > 0 /\ Artifacts # {} THEN {failedStep} ELSE {})
    /\ pc' = "top"
    /\ UNCHANGED <<opts, ctxDone, counters, failedStep, skip, failing, cited, green, out>>

RepeatCounted ==
    /\ pc = "repeat" /\ Counts /\ Repeats < RepeatThreshold
    /\ streak' = [streak EXCEPT ![failedStep] = Repeats]
    /\ fp' = [fp EXCEPT ![failedStep] = failing]
    /\ pc' = "top"
    /\ UNCHANGED <<opts, ctxDone, counters, failedStep, skip, failing, cited, green, out>>

RepeatOnlyExtended ==
    /\ pc = "repeat" /\ Counts /\ Repeats >= RepeatThreshold /\ Discardable(failing) = {}
    /\ ClearStreaks({failedStep})
    /\ pc' = "top"
    /\ UNCHANGED <<opts, ctxDone, counters, failedStep, skip, failing, cited, green, out>>

RepeatDiscards ==
    /\ pc = "repeat" /\ Counts /\ Repeats >= RepeatThreshold /\ Discardable(failing) # {}
    /\ streak' = [streak EXCEPT ![failedStep] = Repeats]
    /\ fp' = [fp EXCEPT ![failedStep] = failing]
    /\ Finish(DiscardVerdict(failing))
    /\ UNCHANGED <<opts, ctxDone, counters, failedStep, skip, failing, cited, green>>

(***************************************************************************)
(* Lint, coverage, mutation.  A failed coverage run does not fail the      *)
(* iteration, and neither does a skipped mutation run.                     *)
(***************************************************************************)
LintPasses ==
    /\ pc = "lint"
    /\ green' = green \cup {"lint"}
    /\ pc' = "coverage"
    /\ UNCHANGED <<opts, ctxDone, counters, failedStep, skip, history, out>>

StepFails(s) ==
    /\ s \in {"lint", "mutation"} /\ pc = s
    /\ ClearStreaks(TestSteps)
    /\ failedStep' = s
    /\ green' = green \ {s}
    /\ pc' = "top"
    /\ UNCHANGED <<opts, ctxDone, counters, skip, failing, cited, out>>

Coverage ==
    /\ pc = "coverage"
    /\ \/ ~ctxDone /\ UNCHANGED <<streak, fp>>
       \/ ClearStreaks(TestSteps)
    /\ IF opts.mutation THEN pc' = "mutation" /\ UNCHANGED out
                        ELSE Finish(Verdict(TRUE, {}))
    /\ UNCHANGED <<opts, ctxDone, counters, failedStep, skip, failing, cited, green>>

MutationPasses ==
    /\ pc = "mutation"
    /\ Finish(Verdict(TRUE, {}))
    /\ UNCHANGED <<opts, ctxDone, counters, failedStep, skip, history, green>>

-----------------------------------------------------------------------------
CompileStep == \/ CompilePasses \/ CompileAutoFixed \/ CompileScoped
               \/ CompileFailsOutOfScope \/ CompileFailsInScope

TestStep == \E s \in TestSteps : TestPasses(s) \/ TestFails(s)

FixStep == \/ FixApplied \/ TestOutsideScope
           \/ \E why \in Refusals \cup {"none"} :
                \/ CompileRetried(why) \/ CompileAbandoned(why)
                \/ TestStuckDiscards(why) \/ TestNotFixed(why)

RepeatStep == RepeatNotCounted \/ RepeatCounted \/ RepeatOnlyExtended \/ RepeatDiscards

LaterStep == \/ LintPasses \/ Coverage \/ MutationPasses
             \/ \E s \in {"lint", "mutation"} : StepFails(s)

Step == \/ StopCancelled \/ BeginIteration \/ LeaveLoop
        \/ CompileStep \/ TestStep \/ FixStep \/ RepeatStep \/ LaterStep

Next == Step \/ Cancel

(***************************************************************************)
(* The loop runs to its end: every sandbox step and every fixer round is   *)
(* bounded by its own timeout.  Nothing obliges the caller to cancel.      *)
(***************************************************************************)
Spec == Init /\ [][Next]_vars /\ WF_vars(Step)

-----------------------------------------------------------------------------
\* Every variable has the type the code gives it; the repair budgets bound the writes.
TypeOK ==
    /\ opts \in OptionSpace
    /\ pc \in {"top", "compile", "test", "test_e2e", "fix", "repeat", "lint",
              "coverage", "mutation", "exit", "done"}
    /\ ctxDone \in BOOLEAN
    /\ iter \in 0 .. MaxFixIterations
    /\ fixes \in [Loops -> Nat] /\ \A l \in Loops : fixes[l] <= MaxFix[l]
    /\ tripped \in [Loops -> BOOLEAN]
    /\ compiled \in BOOLEAN /\ scopedTried \in BOOLEAN
    /\ failedStep \in {"none", "compile", "test", "test_e2e", "lint", "mutation"}
    /\ pc = "fix" => failedStep \in {"compile"} \cup TestSteps
    /\ pc = "repeat" => failedStep \in TestSteps
    /\ skip \in Refusals \cup {"none", "autofix", "environment", "applied"}
    /\ cited \in SUBSET Artifacts /\ failing \in SUBSET cited
    /\ streak \in [TestSteps -> Nat] /\ fp \in [TestSteps -> SUBSET Artifacts]
    /\ green \in SUBSET {"compile", "test", "test_e2e", "lint"}
    /\ out \in Contract!VerdictsOn(Artifacts) \cup {Contract!Running}

(***************************************************************************)
(* A verdict that is stable without discarding anything is about the tree  *)
(* as it is: every step of the pipeline passed after the last write of the *)
(* fixer ("Stable still requires every step to pass", workflow.go:252),    *)
(* except that compileOnce does not compile again what the fixer wrote.    *)
(***************************************************************************)
StableMeansGreen ==
    out.stable /\ out.discard = {} =>
        /\ {"test", "lint"} \subseteq green
        /\ opts.e2e => "test_e2e" \in green
        /\ ~opts.compileOnce => "compile" \in green

(***************************************************************************)
(* A discard is evidence-based.  The files it deletes are among those the  *)
(* last failure names, none of them is a file of the repository, and it is *)
(* proposed only when no repair round is left for the failed step or when  *)
(* the same files failed RepeatThreshold times.                            *)
(***************************************************************************)
DiscardIsEvidenced ==
    out.discard # {} =>
        /\ out.discard \subseteq cited \ Extended
        /\ \/ failedStep \in TestSteps /\ streak[failedStep] >= RepeatThreshold
           \/ tripped[Loop] \/ fixes[Loop] >= MaxFix[Loop]
           \/ failedStep = "compile" /\ (~opts.fixer \/ skip = "no_writable")

(***************************************************************************)
(* After an in-scope compile failure another iteration begins only when    *)
(* something changed the tree or a fresh fixer turn may: the comment above *)
(* fixerExhausted tells of 15 full container compiles that could not.      *)
(***************************************************************************)
NoFruitlessCompile ==
    [][iter' # iter /\ failedStep = "compile" =>
        \/ skip \in {"autofix", "environment", "applied"}
        \/ opts.fixer /\ ~tripped["compile"] /\ fixes["compile"] < MaxFix["compile"]]_vars

(***************************************************************************)
(* The repair loop implements its contract: whatever the sandbox and the   *)
(* fixer do, and whenever the context is cancelled, the caller gets one of *)
(* the allowed verdicts, once.                                             *)
(***************************************************************************)
ImplementsContract == Contract!Spec

(***************************************************************************)
(* The loop ends.                                                          *)
(***************************************************************************)
Terminates == <>(pc = "done")
=============================================================================
