--------------------------- MODULE EvaluationProofs ---------------------------
(***************************************************************************)
(* What the repair loop guarantees for every set of artifacts, every       *)
(* budget, every threshold and every combination of options: that it       *)
(* implements EvalContract and, loop by loop, RepairLoop; what a verdict   *)
(* rests on; that its streaks are what was reported; and how many steps it *)
(* can take.                                                               *)
(***************************************************************************)
EXTENDS EvaluationHistory, FiniteSetTheorems, SequenceTheorems, TLAPS

LEMMA VerdictType ==
    ASSUME NEW b \in BOOLEAN, NEW d \in SUBSET Artifacts
    PROVE  Verdict(b, d) \in Contract!VerdictsOn(Artifacts)
  BY DEF Verdict, Contract!VerdictsOn

LEMMA ErrorVerdictType == [Verdict(FALSE, {}) EXCEPT !.err = TRUE] \in Contract!VerdictsOn(Artifacts)
  BY DEF Verdict, Contract!VerdictsOn

LEMMA DiscardVerdictType ==
    ASSUME NEW f \in SUBSET Artifacts
    PROVE  DiscardVerdict(f) \in Contract!VerdictsOn(Artifacts)
  BY VerdictType DEF DiscardVerdict, Discardable

(***************************************************************************)
(* The variables keep their types, whatever the sandbox and the fixer do.  *)
(***************************************************************************)
LEMMA TypeInit == Init => TypeOK
  <1> SUFFICES ASSUME Init PROVE TypeOK
    OBVIOUS
  <1>1. /\ iter \in 0 .. MaxFixIterations
        /\ fixes \in [Loops -> Nat]
        /\ \A l \in Loops : fixes[l] <= MaxFix[l]
    BY EvaluationAssumption DEF Init, Loops
  <1>2. QED
    BY <1>1 DEF Init, TypeOK, Loops, TestSteps, Refusals

LEMMA TypeNext == TypeOK /\ [Next]_vars => TypeOK'
  <1> SUFFICES ASSUME TypeOK, [Next]_vars PROVE TypeOK'
    OBVIOUS
  <1> USE EvaluationAssumption DEF TypeOK, Loops, TestSteps, history, counters
  <1>1. CASE Cancel
    BY <1>1 DEF Cancel
  <1>2. CASE StopCancelled
    BY <1>2, ErrorVerdictType DEF StopCancelled, Finish
  <1>3. CASE BeginIteration
    BY <1>3 DEF BeginIteration
  <1>4. CASE LeaveLoop
    BY <1>4, VerdictType DEF LeaveLoop, Finish
  <1>5. CASE CompileStep
    <2>1. CASE CompilePasses
      BY <2>1 DEF CompilePasses
    <2>2. CASE CompileAutoFixed
      BY <2>2 DEF CompileAutoFixed
    <2>3. CASE CompileScoped
      BY <2>3 DEF CompileScoped
    <2>4. CASE CompileFailsOutOfScope
      BY <2>4 DEF CompileFailsOutOfScope
    <2>5. CASE CompileFailsInScope
      BY <2>5 DEF CompileFailsInScope
    <2>6. QED
      BY <1>5, <2>1, <2>2, <2>3, <2>4, <2>5 DEF CompileStep
  <1>6. CASE TestStep
    <2>1. ASSUME NEW s \in TestSteps, TestPasses(s) PROVE TypeOK'
      BY <2>1 DEF TestPasses, ClearStreaks
    <2>2. ASSUME NEW s \in TestSteps, TestFails(s) PROVE TypeOK'
      BY <2>2 DEF TestFails, ClearStreaks
    <2>3. QED
      BY <1>6, <2>1, <2>2 DEF TestStep
  <1>7. CASE FixStep
    <2>1. CASE FixApplied
      BY <2>1 DEF FixApplied, FixerCanAttempt, Loop
    <2>2. CASE TestOutsideScope
      BY <2>2 DEF TestOutsideScope, Refused, Refusals, Loop
    <2>3. ASSUME NEW why \in Refusals \cup {"none"}, CompileRetried(why) PROVE TypeOK'
      BY <2>3 DEF CompileRetried, Refused, Refusals, Loop
    <2>4. ASSUME NEW why \in Refusals \cup {"none"}, CompileAbandoned(why) PROVE TypeOK'
      BY <2>4, VerdictType, DiscardVerdictType
        DEF CompileAbandoned, Refused, Refusals, Loop, Finish
    <2>5. ASSUME NEW why \in Refusals \cup {"none"}, TestStuckDiscards(why) PROVE TypeOK'
      BY <2>5, DiscardVerdictType DEF TestStuckDiscards, Refused, Refusals, Loop, Finish
    <2>6. ASSUME NEW why \in Refusals \cup {"none"}, TestNotFixed(why) PROVE TypeOK'
      BY <2>6 DEF TestNotFixed, Refused, Refusals, Loop
    <2>7. QED
      BY <1>7, <2>1, <2>2, <2>3, <2>4, <2>5, <2>6 DEF FixStep
  <1>8. CASE RepeatStep
    <2>1. CASE RepeatNotCounted
      BY <2>1 DEF RepeatNotCounted, ClearStreaks
    <2>2. CASE RepeatCounted
      BY <2>2 DEF RepeatCounted, Repeats
    <2>3. CASE RepeatOnlyExtended
      BY <2>3 DEF RepeatOnlyExtended, ClearStreaks
    <2>4. CASE RepeatDiscards
      BY <2>4, DiscardVerdictType DEF RepeatDiscards, Repeats, Finish
    <2>5. QED
      BY <1>8, <2>1, <2>2, <2>3, <2>4 DEF RepeatStep
  <1>9. CASE LaterStep
    <2>1. CASE LintPasses
      BY <2>1 DEF LintPasses
    <2>2. CASE Coverage
      <3>1. /\ streak' \in [TestSteps -> Nat]
            /\ fp' \in [TestSteps -> SUBSET Artifacts]
        BY <2>2 DEF Coverage, ClearStreaks
      <3>2. CASE opts.mutation
        BY <2>2, <3>1, <3>2 DEF Coverage
      <3>3. CASE ~opts.mutation
        <4>1. out' = Verdict(TRUE, {}) /\ pc' = "done"
          BY <2>2, <3>3 DEF Coverage, Finish
        <4>2. out' \in Contract!VerdictsOn(Artifacts)
          BY <4>1, VerdictType
        <4>3. UNCHANGED <<opts, ctxDone, counters, failedStep, skip, failing, cited, green>>
          BY <2>2 DEF Coverage
        <4>4. QED
          BY <3>1, <4>1, <4>2, <4>3
      <3>4. QED
        BY <3>2, <3>3
    <2>3. CASE MutationPasses
      BY <2>3, VerdictType DEF MutationPasses, Finish
    <2>4. ASSUME NEW s \in {"lint", "mutation"}, StepFails(s) PROVE TypeOK'
      BY <2>4 DEF StepFails, ClearStreaks
    <2>5. QED
      BY <1>9, <2>1, <2>2, <2>3, <2>4 DEF LaterStep
  <1>10. CASE UNCHANGED vars
    BY <1>10 DEF vars
  <1>11. QED
    BY <1>1, <1>2, <1>3, <1>4, <1>5, <1>6, <1>7, <1>8, <1>9, <1>10 DEF Next, Step

\* The iterations and repairs of a call stay within their budgets, and its variables keep their types.
THEOREM TypeCorrect == Spec => []TypeOK
  BY TypeInit, TypeNext, PTL DEF Spec
-----------------------------------------------------------------------------
(***************************************************************************)
(* The contract.  The verdict is set once, by the step that ends the call. *)
(***************************************************************************)
Undecided == pc # "done" => out = Contract!Running

LEMMA VerdictAllowed ==
    ASSUME NEW b \in BOOLEAN
    PROVE  Verdict(b, {}) \in Contract!AllowedVerdicts(Artifacts, Extended, RepeatThreshold > 0)
  BY DEF Verdict, Contract!AllowedVerdicts, Contract!VerdictsOn, Contract!Allowed

LEMMA ErrorAllowed == [Verdict(FALSE, {}) EXCEPT !.err = TRUE] \in Contract!AllowedVerdicts(Artifacts, Extended, RepeatThreshold > 0)
  BY DEF Verdict, Contract!AllowedVerdicts, Contract!VerdictsOn, Contract!Allowed

LEMMA DiscardAllowed ==
    ASSUME NEW f \in SUBSET Artifacts, RepeatThreshold > 0, Discardable(f) # {}
    PROVE  DiscardVerdict(f) \in Contract!AllowedVerdicts(Artifacts, Extended, RepeatThreshold > 0)
  BY DEF DiscardVerdict, Discardable, Verdict,
         Contract!AllowedVerdicts, Contract!VerdictsOn, Contract!Allowed

LEMMA UndecidedNext ==
    ASSUME TypeOK, Undecided, [Next]_vars
    PROVE  Undecided' /\ [Contract!Return]_out
  <1> USE DEF Undecided, Contract!Return
  <1>1. CASE Cancel
    BY <1>1 DEF Cancel
  <1>2. CASE StopCancelled
    BY <1>2, ErrorAllowed DEF StopCancelled, Finish
  <1>3. CASE BeginIteration
    BY <1>3 DEF BeginIteration
  <1>4. CASE LeaveLoop
    BY <1>4, VerdictAllowed DEF LeaveLoop, Finish
  <1>5. CASE CompileStep
    BY <1>5 DEF CompileStep, CompilePasses, CompileAutoFixed, CompileScoped,
                CompileFailsOutOfScope, CompileFailsInScope
  <1>6. CASE TestStep
    BY <1>6 DEF TestStep, TestPasses, TestFails, TestSteps
  <1>7. CASE FixStep
    <2>1. CASE FixApplied \/ TestOutsideScope
      BY <2>1 DEF FixApplied, TestOutsideScope, Refused
    <2>2. ASSUME NEW why \in Refusals \cup {"none"},
                 CompileRetried(why) \/ TestNotFixed(why)
          PROVE  Undecided' /\ [Contract!Return]_out
      BY <2>2 DEF CompileRetried, TestNotFixed, Refused
    <2>3. ASSUME NEW why \in Refusals \cup {"none"}, CompileAbandoned(why)
          PROVE  Undecided' /\ [Contract!Return]_out
      <3>1. cited \in SUBSET Artifacts
        BY DEF TypeOK
      <3>2. QED
        BY <2>3, <3>1, VerdictAllowed, DiscardAllowed DEF CompileAbandoned, Refused, Finish
    <2>4. ASSUME NEW why \in Refusals \cup {"none"}, TestStuckDiscards(why)
          PROVE  Undecided' /\ [Contract!Return]_out
      BY <2>4, DiscardAllowed DEF TestStuckDiscards, Refused, Finish, TypeOK
    <2>5. QED
      BY <1>7, <2>1, <2>2, <2>3, <2>4 DEF FixStep
  <1>8. CASE RepeatStep
    <2>1. CASE RepeatDiscards
      BY <2>1, DiscardAllowed DEF RepeatDiscards, Counts, Finish, TypeOK
    <2>2. CASE RepeatNotCounted \/ RepeatCounted \/ RepeatOnlyExtended
      BY <2>2 DEF RepeatNotCounted, RepeatCounted, RepeatOnlyExtended
    <2>3. QED
      BY <1>8, <2>1, <2>2 DEF RepeatStep
  <1>9. CASE LaterStep
    <2>1. CASE Coverage
      BY <2>1, VerdictAllowed DEF Coverage, Finish
    <2>2. CASE MutationPasses
      BY <2>2, VerdictAllowed DEF MutationPasses, Finish
    <2>3. CASE LintPasses
      BY <2>3 DEF LintPasses
    <2>4. ASSUME NEW s \in {"lint", "mutation"}, StepFails(s)
          PROVE  Undecided' /\ [Contract!Return]_out
      BY <2>4 DEF StepFails
    <2>5. QED
      BY <1>9, <2>1, <2>2, <2>3, <2>4 DEF LaterStep
  <1>10. CASE UNCHANGED vars
    BY <1>10 DEF vars
  <1>11. QED
    BY <1>1, <1>2, <1>3, <1>4, <1>5, <1>6, <1>7, <1>8, <1>9, <1>10 DEF Next, Step

(***************************************************************************)
(* The repair loop implements its contract: every step is a step of        *)
(* EvalContract or leaves the verdict alone.                               *)
(***************************************************************************)
THEOREM ContractImplemented == Spec => ImplementsContract
  <1>1. Init => Undecided /\ Contract!Init
    BY DEF Init, Undecided, Contract!Init
  <1>2. TypeOK /\ Undecided /\ [Next]_vars => Undecided' /\ [Contract!Return]_out
    BY UndecidedNext
  <1>3. QED
    BY <1>1, <1>2, TypeCorrect, PTL DEF Spec, ImplementsContract, Contract!Spec
-----------------------------------------------------------------------------
(***************************************************************************)
(* Nothing happens after the verdict.                                      *)
(***************************************************************************)
LEMMA DoneIsFinal ==
    ASSUME pc = "done", TypeOK, [Next]_vars
    PROVE  UNCHANGED vars
  <1>1. ~StopCancelled /\ ~BeginIteration /\ ~LeaveLoop /\ ~Cancel
    BY DEF StopCancelled, BeginIteration, LeaveLoop, Cancel
  <1>2. ~CompileStep
    BY DEF CompileStep, CompilePasses, CompileAutoFixed, CompileScoped,
           CompileFailsOutOfScope, CompileFailsInScope
  <1>3. ~TestStep
    BY DEF TestStep, TestPasses, TestFails, TestSteps
  <1>4. ~FixStep
    BY DEF FixStep, FixApplied, TestOutsideScope, CompileRetried, CompileAbandoned,
           TestStuckDiscards, TestNotFixed, Refused
  <1>5. ~RepeatStep
    BY DEF RepeatStep, RepeatNotCounted, RepeatCounted, RepeatOnlyExtended, RepeatDiscards
  <1>6. ~LaterStep
    BY DEF LaterStep, LintPasses, Coverage, MutationPasses, StepFails
  <1>7. QED
    BY <1>1, <1>2, <1>3, <1>4, <1>5, <1>6 DEF Next, Step

(***************************************************************************)
(* The steps that decide, and what each of them decides.                   *)
(***************************************************************************)
Deciding ==
    \/ out' = out
    \/ out'.discard = {} /\ ~out'.stable
    \/ out' = Verdict(TRUE, {}) /\ (Coverage \/ MutationPasses)
    \/ \E why \in Refusals \cup {"none"} :
          /\ CompileAbandoned(why) /\ out' = DiscardVerdict(cited) /\ Discardable(cited) # {}
    \/ \E why \in Refusals \cup {"none"} :
          /\ TestStuckDiscards(why) /\ out' = DiscardVerdict(cited) /\ Discardable(cited) # {}
    \/ RepeatDiscards

LEMMA NextDecides == ASSUME [Next]_vars PROVE Deciding
  <1> USE DEF Deciding
  <1>1. CASE Cancel \/ BeginIteration
    BY <1>1 DEF Cancel, BeginIteration
  <1>2. CASE StopCancelled \/ LeaveLoop
    BY <1>2 DEF StopCancelled, LeaveLoop, Finish, Verdict
  <1>3. CASE CompileStep
    BY <1>3 DEF CompileStep, CompilePasses, CompileAutoFixed, CompileScoped,
                CompileFailsOutOfScope, CompileFailsInScope
  <1>4. CASE TestStep
    BY <1>4 DEF TestStep, TestPasses, TestFails
  <1>5. CASE FixStep
    <2>1. CASE FixApplied \/ TestOutsideScope
      BY <2>1 DEF FixApplied, TestOutsideScope
    <2>2. ASSUME NEW why \in Refusals \cup {"none"},
                 CompileRetried(why) \/ TestNotFixed(why)
          PROVE  Deciding
      BY <2>2 DEF CompileRetried, TestNotFixed
    <2>3. ASSUME NEW why \in Refusals \cup {"none"}, CompileAbandoned(why)
          PROVE  Deciding
      <3>1. \/ out' = DiscardVerdict(cited) /\ Discardable(cited) # {}
            \/ out' = Verdict(FALSE, {})
        BY <2>3 DEF CompileAbandoned, Finish
      <3>2. QED
        BY <2>3, <3>1 DEF Verdict
    <2>4. ASSUME NEW why \in Refusals \cup {"none"}, TestStuckDiscards(why)
          PROVE  Deciding
      BY <2>4 DEF TestStuckDiscards, Finish
    <2>5. QED
      BY <1>5, <2>1, <2>2, <2>3, <2>4 DEF FixStep
  <1>6. CASE RepeatStep
    BY <1>6 DEF RepeatStep, RepeatNotCounted, RepeatCounted, RepeatOnlyExtended
  <1>7. CASE LaterStep
    BY <1>7 DEF LaterStep, LintPasses, Coverage, MutationPasses, StepFails, Finish
  <1>8. CASE UNCHANGED vars
    BY <1>8 DEF vars
  <1>9. QED
    BY <1>1, <1>2, <1>3, <1>4, <1>5, <1>6, <1>7, <1>8 DEF Next, Step

(***************************************************************************)
(* Discards.  Undecided makes DiscardIsEvidenced inductive: only a step    *)
(* that ends the call can set a discard.                                   *)
(***************************************************************************)
LEMMA EvidenceNext ==
    ASSUME TypeOK, Undecided, DiscardIsEvidenced, [Next]_vars
    PROVE  DiscardIsEvidenced'
  <1>1. CASE pc = "done"
    BY <1>1, DoneIsFinal DEF vars, DiscardIsEvidenced, Loop
  <1>2. CASE pc # "done"
    <2>1. out.discard = {}
      BY <1>2 DEF Undecided, Contract!Running
    <2>2. CASE out'.discard = {}
      BY <2>2 DEF DiscardIsEvidenced
    <2>3. ASSUME NEW why \in Refusals \cup {"none"}, CompileAbandoned(why),
                 out' = DiscardVerdict(cited)
          PROVE  DiscardIsEvidenced'
      <3>1. out'.discard = cited \ Extended /\ cited' = cited
        BY <2>3 DEF CompileAbandoned, DiscardVerdict, Verdict, Discardable, history
      <3>2. failedStep' = "compile" /\ opts' = opts /\ fixes' = fixes /\ skip' = why
        BY <2>3 DEF CompileAbandoned, Refused
      <3>3. tripped'["compile"] = (tripped["compile"] \/ why = "breaker")
        BY <2>3 DEF CompileAbandoned, Refused, Loop, TypeOK, Loops
      <3>4. \/ ~opts.fixer \/ tripped'["compile"] \/ fixes["compile"] >= MaxFix["compile"]
            \/ why = "no_writable"
        BY <2>3, <3>3 DEF CompileAbandoned, FixerExhausted, Spent, IsTerminal, Loop
      <3>5. QED
        BY <3>1, <3>2, <3>4 DEF DiscardIsEvidenced, Loop
    <2>4. ASSUME NEW why \in Refusals \cup {"none"}, TestStuckDiscards(why),
                 out' = DiscardVerdict(cited)
          PROVE  DiscardIsEvidenced'
      <3>1. out'.discard = cited \ Extended /\ cited' = cited
        BY <2>4 DEF TestStuckDiscards, DiscardVerdict, Verdict, Discardable, history
      <3>2. failedStep' = failedStep /\ failedStep # "compile" /\ fixes' = fixes
        BY <2>4 DEF TestStuckDiscards, TestSteps
      <3>3. tripped'["test"] = (tripped["test"] \/ why = "breaker")
        BY <2>4, <3>2 DEF TestStuckDiscards, Refused, Loop, TypeOK, Loops
      <3>4. tripped'["test"] \/ fixes["test"] >= MaxFix["test"]
        BY <2>4, <3>2, <3>3 DEF TestStuckDiscards, Spent, Loop
      <3>5. QED
        BY <3>1, <3>2, <3>4 DEF DiscardIsEvidenced, Loop
    <2>5. CASE RepeatDiscards
      <3>1. out'.discard = failing \ Extended /\ failing \subseteq cited /\ cited' = cited
        BY <2>5 DEF RepeatDiscards, Finish, DiscardVerdict, Verdict, Discardable, TypeOK
      <3>2. failedStep' = failedStep /\ failedStep \in TestSteps
        BY <2>5 DEF RepeatDiscards, TypeOK
      <3>3. streak'[failedStep] >= RepeatThreshold
        BY <2>5, <3>2 DEF RepeatDiscards, TypeOK
      <3>4. QED
        BY <3>1, <3>2, <3>3 DEF DiscardIsEvidenced
    <2>6. QED
      BY <2>1, <2>2, <2>3, <2>4, <2>5, NextDecides DEF Deciding, Verdict
  <1>3. QED
    BY <1>1, <1>2

(***************************************************************************)
(* No file is proposed for deletion that the last failure does not name,   *)
(* that belongs to the repository, or that the fixer could still repair.   *)
(***************************************************************************)
THEOREM DiscardsEvidenced == Spec => []DiscardIsEvidenced
  <1>1. Init => Undecided /\ DiscardIsEvidenced
    BY DEF Init, Undecided, DiscardIsEvidenced, Contract!Running
  <1>2. TypeOK /\ Undecided /\ DiscardIsEvidenced /\ [Next]_vars
          => Undecided' /\ DiscardIsEvidenced'
    BY UndecidedNext, EvidenceNext
  <1>3. QED
    BY <1>1, <1>2, TypeCorrect, PTL DEF Spec
-----------------------------------------------------------------------------
(***************************************************************************)
(* Stability.  StableMeansGreen says nothing before the call ends; what is *)
(* inductive is how much has passed by the time each step is reached.      *)
(***************************************************************************)
GreenSoFar ==
    /\ pc \in {"test", "test_e2e", "lint", "coverage", "mutation"} =>
          opts.compileOnce \/ "compile" \in green
    /\ pc \in {"test_e2e", "lint", "coverage", "mutation"} => "test" \in green
    /\ pc \in {"lint", "coverage", "mutation"} /\ opts.e2e => "test_e2e" \in green
    /\ pc \in {"coverage", "mutation"} => "lint" \in green

LEMMA GreenNext ==
    ASSUME TypeOK, GreenSoFar, [Next]_vars
    PROVE  GreenSoFar'
  <1> USE DEF GreenSoFar
  <1>1. CASE Cancel
    BY <1>1 DEF Cancel
  <1>2. CASE StopCancelled \/ BeginIteration \/ LeaveLoop
    BY <1>2 DEF StopCancelled, BeginIteration, LeaveLoop, Finish
  <1>3. CASE CompileStep
    BY <1>3 DEF CompileStep, CompileSkipped, CompilePasses, CompileAutoFixed, CompileScoped,
                CompileFailsOutOfScope, CompileFailsInScope
  <1>4. CASE TestStep
    <2>1. ASSUME NEW s \in TestSteps, TestPasses(s) PROVE GreenSoFar'
      BY <2>1 DEF TestPasses, TestSteps
    <2>2. ASSUME NEW s \in TestSteps, TestFails(s) PROVE GreenSoFar'
      BY <2>2 DEF TestFails
    <2>3. QED
      BY <1>4, <2>1, <2>2 DEF TestStep
  <1>5. CASE FixStep
    BY <1>5 DEF FixStep, FixApplied, TestOutsideScope, CompileRetried, CompileAbandoned,
                TestStuckDiscards, TestNotFixed, Finish
  <1>6. CASE RepeatStep
    BY <1>6 DEF RepeatStep, RepeatNotCounted, RepeatCounted, RepeatOnlyExtended,
                RepeatDiscards, Finish
  <1>7. CASE LaterStep
    <2>1. CASE LintPasses
      BY <2>1 DEF LintPasses
    <2>2. CASE Coverage
      BY <2>2 DEF Coverage, Finish
    <2>3. CASE MutationPasses
      BY <2>3 DEF MutationPasses, Finish
    <2>4. ASSUME NEW s \in {"lint", "mutation"}, StepFails(s) PROVE GreenSoFar'
      BY <2>4 DEF StepFails
    <2>5. QED
      BY <1>7, <2>1, <2>2, <2>3, <2>4 DEF LaterStep
  <1>8. CASE UNCHANGED vars
    BY <1>8 DEF vars
  <1>9. QED
    BY <1>1, <1>2, <1>3, <1>4, <1>5, <1>6, <1>7, <1>8 DEF Next, Step

LEMMA StableNext ==
    ASSUME TypeOK, Undecided, GreenSoFar, StableMeansGreen, [Next]_vars
    PROVE  StableMeansGreen'
  <1>1. CASE pc = "done"
    BY <1>1, DoneIsFinal DEF vars, StableMeansGreen
  <1>2. CASE pc # "done"
    <2>1. ~out.stable
      BY <1>2 DEF Undecided, Contract!Running
    <2>2. CASE Coverage \/ MutationPasses
      <3>1. pc \in {"coverage", "mutation"} /\ green' = green /\ opts' = opts
        BY <2>2 DEF Coverage, MutationPasses
      <3>2. QED
        BY <3>1 DEF GreenSoFar, StableMeansGreen
    <2>3. CASE RepeatDiscards
      BY <2>3 DEF RepeatDiscards, Finish, DiscardVerdict, Verdict, StableMeansGreen
    <2>4. CASE out' = out \/ ~out'.stable
      BY <2>1, <2>4 DEF StableMeansGreen
    <2>5. CASE out' = DiscardVerdict(cited) /\ Discardable(cited) # {}
      BY <2>5 DEF DiscardVerdict, Verdict, StableMeansGreen
    <2>6. QED
      BY <2>2, <2>3, <2>4, <2>5, NextDecides DEF Deciding
  <1>3. QED
    BY <1>1, <1>2

(***************************************************************************)
(* A stable verdict that discards nothing is about the tree on disk: every *)
(* step passed after the last write.                                       *)
(***************************************************************************)
THEOREM StableIsGreen == Spec => []StableMeansGreen
  <1>1. Init => Undecided /\ GreenSoFar /\ StableMeansGreen
    BY DEF Init, Undecided, GreenSoFar, StableMeansGreen, Contract!Running
  <1>2. TypeOK /\ Undecided /\ GreenSoFar /\ StableMeansGreen /\ [Next]_vars
          => Undecided' /\ GreenSoFar' /\ StableMeansGreen'
    BY UndecidedNext, GreenNext, StableNext
  <1>3. QED
    BY <1>1, <1>2, TypeCorrect, PTL DEF Spec

-----------------------------------------------------------------------------
(***************************************************************************)
(* Fruitless compiles.  Back at the head of the loop after a compile       *)
(* failure, either something changed the tree or a fixer turn is left.     *)
(***************************************************************************)
CompileTurnLeft ==
    \/ skip \in {"autofix", "environment", "applied"}
    \/ opts.fixer /\ ~tripped["compile"] /\ fixes["compile"] < MaxFix["compile"]

WorthRetrying == pc = "top" /\ failedStep = "compile" => CompileTurnLeft

\* a refused repair returns to the head of the loop only with a turn left
LEMMA RetriedIsWorth ==
    ASSUME TypeOK, NEW why, CompileRetried(why)
    PROVE  CompileTurnLeft'
  <1>1. opts.fixer /\ ~tripped["compile"] /\ why # "breaker" /\ fixes["compile"] < MaxFix["compile"]
    <2>1. opts.fixer /\ ~Spent(why) /\ Loop = "compile"
      BY DEF CompileRetried, FixerExhausted, Loop
    <2>2. fixes["compile"] \in Nat /\ MaxFix["compile"] \in Nat
      BY EvaluationAssumption DEF TypeOK, Loops
    <2>3. QED
      BY <2>1, <2>2 DEF Spent
  <1>2. tripped' = [tripped EXCEPT !["compile"] = @ \/ why = "breaker"]
    BY DEF CompileRetried, Refused, Loop
  <1>3. ~tripped'["compile"]
    BY <1>1, <1>2 DEF TypeOK, Loops
  <1>4. QED
    BY <1>1, <1>3 DEF CompileRetried, CompileTurnLeft

LEMMA WorthNext ==
    ASSUME TypeOK, WorthRetrying, [Next]_vars
    PROVE  WorthRetrying'
  <1> USE DEF WorthRetrying
  <1>1. CASE Cancel
    BY <1>1 DEF Cancel, counters, CompileTurnLeft
  <1>2. CASE StopCancelled \/ BeginIteration \/ LeaveLoop
    BY <1>2 DEF StopCancelled, BeginIteration, LeaveLoop, Finish
  <1>3. CASE CompileStep
    <2>1. CASE CompileAutoFixed \/ CompileFailsOutOfScope
      BY <2>1 DEF CompileAutoFixed, CompileFailsOutOfScope, CompileTurnLeft
    <2>2. CASE CompilePasses \/ CompileScoped \/ CompileFailsInScope
      BY <2>2 DEF CompilePasses, CompileScoped, CompileFailsInScope
    <2>3. QED
      BY <1>3, <2>1, <2>2 DEF CompileStep
  <1>4. CASE TestStep
    BY <1>4 DEF TestStep, TestPasses, TestFails
  <1>5. CASE FixStep
    <2>1. CASE FixApplied
      BY <2>1 DEF FixApplied, CompileTurnLeft
    <2>2. ASSUME NEW why \in Refusals \cup {"none"}, CompileRetried(why)
          PROVE  WorthRetrying'
      BY <2>2, RetriedIsWorth
    <2>3. CASE TestOutsideScope
      BY <2>3 DEF TestOutsideScope
    <2>4. ASSUME NEW why \in Refusals \cup {"none"},
                 CompileAbandoned(why) \/ TestStuckDiscards(why) \/ TestNotFixed(why)
          PROVE  WorthRetrying'
      BY <2>4 DEF CompileAbandoned, TestStuckDiscards, TestNotFixed, Finish
    <2>5. QED
      BY <1>5, <2>1, <2>2, <2>3, <2>4 DEF FixStep
  <1>6. CASE RepeatStep
    <2>1. pc = "repeat" /\ failedStep' = failedStep
      BY <1>6 DEF RepeatStep, RepeatNotCounted, RepeatCounted, RepeatOnlyExtended, RepeatDiscards
    <2>2. QED
      BY <2>1 DEF TypeOK, TestSteps
  <1>7. CASE LaterStep
    <2>1. CASE LintPasses \/ Coverage \/ MutationPasses
      BY <2>1 DEF LintPasses, Coverage, MutationPasses, Finish
    <2>2. ASSUME NEW s \in {"lint", "mutation"}, StepFails(s)
          PROVE  WorthRetrying'
      BY <2>2 DEF StepFails
    <2>3. QED
      BY <1>7, <2>1, <2>2 DEF LaterStep
  <1>8. CASE UNCHANGED vars
    BY <1>8 DEF vars, counters, CompileTurnLeft
  <1>9. QED
    BY <1>1, <1>2, <1>3, <1>4, <1>5, <1>6, <1>7, <1>8 DEF Next, Step

\* only the head of the loop counts an iteration
LEMMA OnlyTopCounts ==
    ASSUME [Next]_vars, iter' # iter
    PROVE  BeginIteration
  <1>1. ~Cancel /\ ~StopCancelled /\ ~LeaveLoop
    BY DEF Cancel, StopCancelled, LeaveLoop, counters
  <1>2. ~CompileStep
    BY DEF CompileStep, CompilePasses, CompileAutoFixed, CompileScoped,
           CompileFailsOutOfScope, CompileFailsInScope, counters
  <1>3. ~TestStep
    BY DEF TestStep, TestPasses, TestFails, counters
  <1>4. ~FixStep
    BY DEF FixStep, FixApplied, TestOutsideScope, CompileRetried, CompileAbandoned,
           TestStuckDiscards, TestNotFixed
  <1>5. ~RepeatStep
    BY DEF RepeatStep, RepeatNotCounted, RepeatCounted, RepeatOnlyExtended, RepeatDiscards,
           counters
  <1>6. ~LaterStep
    BY DEF LaterStep, LintPasses, Coverage, MutationPasses, StepFails, counters
  <1>7. QED
    BY <1>1, <1>2, <1>3, <1>4, <1>5, <1>6 DEF Next, Step, vars, counters

(***************************************************************************)
(* A failing compile is run again only after a write, an environment       *)
(* retry, or with a repair round left that may change the outcome.         *)
(***************************************************************************)
THEOREM CompilesAreWorthwhile == Spec => NoFruitlessCompile
  <1>1. Init => WorthRetrying
    BY DEF Init, WorthRetrying
  <1>2. TypeOK /\ WorthRetrying /\ [Next]_vars => WorthRetrying'
    BY WorthNext
  <1>3. WorthRetrying /\ [Next]_vars
          => [iter' # iter /\ failedStep = "compile" =>
                \/ skip \in {"autofix", "environment", "applied"}
                \/ opts.fixer /\ ~tripped["compile"] /\ fixes["compile"] < MaxFix["compile"]]_vars
    BY OnlyTopCounts DEF BeginIteration, WorthRetrying, CompileTurnLeft
  <1>4. QED
    BY <1>1, <1>2, <1>3, TypeCorrect, PTL DEF Spec, NoFruitlessCompile

-----------------------------------------------------------------------------
(***************************************************************************)
(* Streaks.  While a failed test step is being handled its report is the   *)
(* last one recorded, so a streak about to grow has one more occurrence to *)
(* show than it counts.                                                    *)
(***************************************************************************)
RunsType == runs \in [TestSteps -> Seq(SUBSET Artifacts)]

LastIsRecorded(s) ==
    /\ runs[s] # <<>> /\ runs[s][Len(runs[s])] = failing
    /\ failing = fp[s] => streak[s] + 1 <= Cardinality(FailedAs(s, failing))

HandledIsRecorded ==
    pc \in {"fix", "repeat"} /\ failedStep \in TestSteps => LastIsRecorded(failedStep)

StreakInv == RunsType /\ StreakIsHistory /\ HandledIsRecorded

LEMMA FailedAsIsFinite ==
    ASSUME RunsType, NEW s \in TestSteps, NEW f
    PROVE  /\ IsFiniteSet(FailedAs(s, f)) /\ Cardinality(FailedAs(s, f)) \in Nat
           /\ FailedAs(s, f) # {} => Cardinality(FailedAs(s, f)) >= 1
  <1>1. runs[s] \in Seq(SUBSET Artifacts)
    BY DEF RunsType
  <1>2. DOMAIN runs[s] = 1 .. Len(runs[s]) /\ Len(runs[s]) \in Nat
    BY <1>1, LenProperties
  <1>3. IsFiniteSet(FailedAs(s, f))
    <2>1. IsFiniteSet(1 .. Len(runs[s]))
      BY <1>2, FS_Interval
    <2>2. FailedAs(s, f) \in SUBSET (1 .. Len(runs[s]))
      BY <1>2 DEF FailedAs
    <2>3. QED
      BY <2>1, <2>2, FS_Subset
  <1>4. QED
    BY <1>3, FS_CardinalityType, FS_EmptySet

\* a step that neither tests nor clears leaves the comparison alone
LEMMA StreakKept ==
    ASSUME StreakInv, TypeOK, UNCHANGED <<streak, fp, runs>>,
           \/ pc' \notin {"fix", "repeat"} \/ failedStep' \notin TestSteps
           \/ pc \in {"fix", "repeat"} /\ UNCHANGED <<failing, failedStep>>
    PROVE  StreakInv'
  <1>1. \A s, f : FailedAs(s, f)' = FailedAs(s, f)
    BY DEF FailedAs
  <1>2. QED
    BY <1>1 DEF StreakInv, RunsType, StreakIsHistory, HandledIsRecorded, LastIsRecorded

\* clearing the streak of some steps away from the handling of a failure
LEMMA StreakCleared ==
    ASSUME StreakInv, TypeOK, NEW steps, ClearStreaks(steps), UNCHANGED runs,
           pc' \notin {"fix", "repeat"}
    PROVE  StreakInv'
  <1>1. \A s, f : FailedAs(s, f)' = FailedAs(s, f)
    BY DEF FailedAs
  <1>2. ASSUME NEW s \in TestSteps
        PROVE  (streak[s] <= Cardinality(FailedAs(s, fp[s])))'
    <2>1. CASE s \in steps
      <3>1. streak'[s] = 0
        BY <2>1 DEF ClearStreaks
      <3>2. Cardinality(FailedAs(s, fp'[s])) \in Nat
        BY FailedAsIsFinite DEF StreakInv
      <3>3. QED
        BY <1>1, <3>1, <3>2
    <2>2. CASE s \notin steps
      <3>1. streak'[s] = streak[s] /\ fp'[s] = fp[s]
        BY <2>2 DEF ClearStreaks
      <3>2. QED
        BY <1>1, <3>1 DEF StreakInv, StreakIsHistory
    <2>3. QED
      BY <2>1, <2>2
  <1>3. QED
    BY <1>2 DEF StreakInv, RunsType, StreakIsHistory, HandledIsRecorded

\* maybeExitOnRepeatedTestFailure counts the failure just recorded
LEMMA StreakCounted ==
    ASSUME StreakInv, TypeOK, pc = "repeat", UNCHANGED runs, pc' \notin {"fix", "repeat"},
           streak' = [streak EXCEPT ![failedStep] = Repeats],
           fp' = [fp EXCEPT ![failedStep] = failing]
    PROVE  StreakInv'
  <1>1. \A s, f : FailedAs(s, f)' = FailedAs(s, f)
    BY DEF FailedAs
  <1>2. failedStep \in TestSteps /\ LastIsRecorded(failedStep)
    BY DEF TypeOK, StreakInv, HandledIsRecorded
  <1>3. Repeats <= Cardinality(FailedAs(failedStep, failing))
    <2>1. runs[failedStep] \in Seq(SUBSET Artifacts)
      BY <1>2 DEF StreakInv, RunsType
    <2>2. Len(runs[failedStep]) \in DOMAIN runs[failedStep]
      BY <1>2, <2>1, LenProperties, EmptySeq DEF LastIsRecorded
    <2>3. FailedAs(failedStep, failing) # {}
      BY <1>2, <2>2 DEF LastIsRecorded, FailedAs
    <2>4. Cardinality(FailedAs(failedStep, failing)) >= 1
      BY <1>2, <2>3, FailedAsIsFinite DEF StreakInv
    <2>5. QED
      BY <1>2, <2>4 DEF Repeats, LastIsRecorded
  <1>4. ASSUME NEW s \in TestSteps
        PROVE  (streak[s] <= Cardinality(FailedAs(s, fp[s])))'
    <2>1. CASE s = failedStep
      BY <1>1, <1>2, <1>3, <2>1 DEF TypeOK
    <2>2. CASE s # failedStep
      BY <1>1, <2>2 DEF StreakInv, StreakIsHistory, TypeOK
    <2>3. QED
      BY <2>1, <2>2
  <1>5. QED
    BY <1>4 DEF StreakInv, RunsType, StreakIsHistory, HandledIsRecorded

LEMMA StreakOfFailedTest ==
    ASSUME StreakInv, TypeOK, TypeOK', NEW s \in TestSteps, TestFails(s),
           runs' = [runs EXCEPT ![s] = Append(@, failing')]
    PROVE  StreakInv'
  <1> DEFINE m == Len(runs[s]) + 1
  <1>1. /\ runs[s] \in Seq(SUBSET Artifacts) /\ failing' \in SUBSET Artifacts
        /\ runs'[s] = Append(runs[s], failing')
        /\ \A q \in TestSteps : q # s => runs'[q] = runs[q]
    BY DEF StreakInv, RunsType, TypeOK
  <1>2. /\ runs'[s] \in Seq(SUBSET Artifacts) /\ runs'[s] # <<>>
        /\ DOMAIN runs[s] = 1 .. m - 1 /\ DOMAIN runs'[s] = 1 .. m /\ Len(runs'[s]) = m
        /\ m \in Nat /\ m - 1 \in Nat
        /\ \A i \in 1 .. m - 1 : runs'[s][i] = runs[s][i]
        /\ runs'[s][m] = failing'
    BY <1>1, AppendProperties, LenProperties
  <1> HIDE DEF m
  <1>3. RunsType'
    BY <1>1, <1>2 DEF StreakInv, RunsType
  <1>4. ASSUME NEW f
        PROVE  FailedAs(s, f)' = IF f = failing' THEN FailedAs(s, f) \cup {m} ELSE FailedAs(s, f)
    <2>1. FailedAs(s, f)' = {i \in (1 .. m - 1) \cup {m} : runs'[s][i] = f}
      BY <1>2 DEF FailedAs
    <2>2. QED
      BY <1>2, <2>1 DEF FailedAs
  <1>5. ASSUME NEW f
        PROVE  /\ Cardinality(FailedAs(s, f)) \in Nat /\ Cardinality(FailedAs(s, f)') \in Nat
               /\ Cardinality(FailedAs(s, f)) <= Cardinality(FailedAs(s, f)')
               /\ f = failing' => Cardinality(FailedAs(s, f)') = Cardinality(FailedAs(s, f)) + 1
    <2>1. IsFiniteSet(FailedAs(s, f)) /\ Cardinality(FailedAs(s, f)) \in Nat
      BY FailedAsIsFinite DEF StreakInv
    <2>2. m \notin FailedAs(s, f)
      BY <1>2 DEF FailedAs
    <2>3. f = failing' => Cardinality(FailedAs(s, f)') = Cardinality(FailedAs(s, f)) + 1
      BY <1>4, <2>1, <2>2, FS_AddElement
    <2>4. QED
      BY <1>4, <2>1, <2>3
  <1>6. streak'[s] = streak[s] /\ fp'[s] = fp[s]
    BY DEF TestFails, ClearStreaks, TestSteps
  <1>7. ASSUME NEW q \in TestSteps
        PROVE  (streak[q] <= Cardinality(FailedAs(q, fp[q])))'
    <2>1. CASE q = s
      <3>1. streak[s] <= Cardinality(FailedAs(s, fp[s])) /\ streak[s] \in Nat
        BY DEF StreakInv, StreakIsHistory, TypeOK
      <3>2. PICK g : g = fp[s] /\ g = fp'[s]
        BY <1>6
      <3>3. /\ Cardinality(FailedAs(s, g)) \in Nat /\ Cardinality(FailedAs(s, g)') \in Nat
            /\ Cardinality(FailedAs(s, g)) <= Cardinality(FailedAs(s, g)')
        BY <1>5
      <3>4. QED
        BY <1>6, <2>1, <3>1, <3>2, <3>3
    <2>2. CASE q # s
      <3>1. \A f : FailedAs(q, f)' = FailedAs(q, f)
        BY <1>1, <2>2 DEF FailedAs
      <3>2. \/ streak'[q] = 0
            \/ streak'[q] = streak[q] /\ fp'[q] = fp[q]
        BY DEF TestFails, ClearStreaks
      <3>3. Cardinality(FailedAs(q, fp'[q])) \in Nat
        BY FailedAsIsFinite DEF StreakInv
      <3>4. QED
        BY <3>1, <3>2, <3>3 DEF StreakInv, StreakIsHistory
    <2>3. QED
      BY <2>1, <2>2
  <1>8. failedStep' = s
    BY DEF TestFails
  <1>9. LastIsRecorded(s)'
    <2>1. ASSUME failing' = fp'[s]
          PROVE  streak'[s] + 1 <= Cardinality(FailedAs(s, failing)')
      <3>1. PICK g : g = failing' /\ g = fp[s]
        BY <1>6, <2>1
      <3>2. streak[s] <= Cardinality(FailedAs(s, g)) /\ streak[s] \in Nat
        BY <3>1 DEF StreakInv, StreakIsHistory, TypeOK
      <3>3. /\ Cardinality(FailedAs(s, g)) \in Nat
            /\ Cardinality(FailedAs(s, g)') = Cardinality(FailedAs(s, g)) + 1
        BY <1>5, <3>1
      <3>4. QED
        BY <1>6, <3>1, <3>2, <3>3
    <2>2. QED
      BY <1>2, <2>1 DEF LastIsRecorded
  <1>10. QED
    BY <1>3, <1>7, <1>8, <1>9 DEF StreakInv, StreakIsHistory, HandledIsRecorded

LEMMA StreakOfPassedTest ==
    ASSUME StreakInv, TypeOK, NEW s \in TestSteps, TestPasses(s),
           runs' = [runs EXCEPT ![s] = <<>>]
    PROVE  StreakInv'
  <1>1. RunsType'
    BY DEF StreakInv, RunsType
  <1>2. ASSUME NEW q \in TestSteps
        PROVE  (streak[q] <= Cardinality(FailedAs(q, fp[q])))'
    <2>1. CASE q = s
      <3>1. streak'[s] = 0
        BY DEF TestPasses, ClearStreaks
      <3>2. \A f : (Cardinality(FailedAs(s, f)) = 0)'
        <4>1. \A f : FailedAs(s, f)' = {}
          BY DEF FailedAs, StreakInv, RunsType
        <4>2. QED
          BY <4>1, FS_EmptySet
      <3>3. QED
        BY <2>1, <3>1, <3>2
    <2>2. CASE q # s
      <3>1. \A f : FailedAs(q, f)' = FailedAs(q, f)
        BY <2>2 DEF FailedAs, StreakInv, RunsType
      <3>2. streak'[q] = streak[q] /\ fp'[q] = fp[q]
        BY <2>2 DEF TestPasses, ClearStreaks
      <3>3. QED
        BY <3>1, <3>2 DEF StreakInv, StreakIsHistory
    <2>3. QED
      BY <2>1, <2>2
  <1>3. pc' \notin {"fix", "repeat"}
    BY DEF TestPasses
  <1>4. QED
    BY <1>1, <1>2, <1>3 DEF StreakInv, StreakIsHistory, HandledIsRecorded

LEMMA StreakInit == HistoryInit => StreakInv
  <1> SUFFICES ASSUME HistoryInit
               PROVE  StreakInv
    OBVIOUS
  <1>1. RunsType
    BY EmptySeq DEF HistoryInit, RunsType
  <1>2. ASSUME NEW s \in TestSteps
        PROVE  streak[s] <= Cardinality(FailedAs(s, fp[s]))
    <2>1. FailedAs(s, fp[s]) = {} /\ streak[s] = 0
      BY DEF HistoryInit, Init, FailedAs
    <2>2. QED
      BY <2>1, FS_EmptySet
  <1>3. QED
    BY <1>1, <1>2 DEF HistoryInit, Init, StreakInv, StreakIsHistory, HandledIsRecorded

LEMMA StreakNext ==
    ASSUME TypeOK, TypeOK', StreakInv, [HistoryNext]_historyVars
    PROVE  StreakInv'
  <1> USE DEF history, counters
  <1>1. CASE TestReports
    BY <1>1, StreakOfFailedTest, StreakOfPassedTest DEF TestReports
  <1>2. CASE (StopCancelled \/ BeginIteration \/ LeaveLoop \/ Cancel) /\ UNCHANGED runs
    BY <1>2, StreakKept DEF StopCancelled, BeginIteration, LeaveLoop, Cancel, Finish
  <1>3. CASE CompileStep /\ UNCHANGED runs
    BY <1>3, StreakKept DEF CompileStep, CompilePasses, CompileAutoFixed, CompileScoped,
                            CompileFailsOutOfScope, CompileFailsInScope, TestSteps
  <1>4. CASE FixStep /\ UNCHANGED runs
    <2>1. pc = "fix" /\ UNCHANGED <<failing, streak, fp, failedStep>>
      BY <1>4 DEF FixStep, FixApplied, TestOutsideScope, CompileRetried, CompileAbandoned,
                  TestStuckDiscards, TestNotFixed, Refused
    <2>2. QED
      BY <1>4, <2>1, StreakKept
  <1>5. CASE RepeatStep /\ UNCHANGED runs
    <2>1. CASE RepeatNotCounted \/ RepeatOnlyExtended
      BY <1>5, <2>1, StreakCleared DEF RepeatNotCounted, RepeatOnlyExtended
    <2>2. CASE RepeatCounted \/ RepeatDiscards
      BY <1>5, <2>2, StreakCounted DEF RepeatCounted, RepeatDiscards, Finish
    <2>3. QED
      BY <1>5, <2>1, <2>2 DEF RepeatStep
  <1>6. CASE LaterStep /\ UNCHANGED runs
    <2>1. CASE LintPasses \/ MutationPasses
      BY <1>6, <2>1, StreakKept DEF LintPasses, MutationPasses, Finish
    <2>2. CASE Coverage
      BY <1>6, <2>2, StreakKept, StreakCleared DEF Coverage, Finish
    <2>3. ASSUME NEW s \in {"lint", "mutation"}, StepFails(s)
          PROVE  StreakInv'
      BY <1>6, <2>3, StreakCleared DEF StepFails
    <2>4. QED
      BY <1>6, <2>1, <2>2, <2>3 DEF LaterStep
  <1>7. CASE UNCHANGED historyVars
    BY <1>7, StreakKept DEF historyVars, vars
  <1>8. QED
    BY <1>1, <1>2, <1>3, <1>4, <1>5, <1>6, <1>7 DEF HistoryNext, HistoryStep, OtherStep

(***************************************************************************)
(* What the repeated-failure exit counts really happened: a test step's    *)
(* streak is bounded by the times it reported exactly that set of files    *)
(* since it last passed, so a discard at RepeatThreshold has that many     *)
(* failures behind it.                                                     *)
(***************************************************************************)
THEOREM StreaksAreHistory == HistorySpec => []StreakIsHistory
  <1>1. HistoryInit => Init
    BY DEF HistoryInit
  <1>2. [HistoryNext]_historyVars => [Next]_vars
    BY DEF HistoryNext, HistoryStep, TestReports, OtherStep, historyVars, Next, Step, TestStep
  <1>3. HistorySpec => []TypeOK
    BY <1>1, <1>2, TypeInit, TypeNext, PTL DEF HistorySpec
  <1>4. TypeOK /\ TypeOK' /\ StreakInv /\ [HistoryNext]_historyVars => StreakInv'
    BY StreakNext
  <1>5. StreakInv => StreakIsHistory
    BY DEF StreakInv
  <1>6. QED
    BY <1>3, <1>4, <1>5, StreakInit, PTL DEF HistorySpec

-----------------------------------------------------------------------------
(***************************************************************************)
(* The two repair loops of a call, each against RepairLoop.                *)
(***************************************************************************)
Repair(l) == INSTANCE RepairLoop
               WITH writes <- fixes[l], stopped <- tripped[l], Budget <- MaxFix[l]

Rested(l) == UNCHANGED <<fixes[l], tripped[l]>>

\* a refused round trips the breaker of its own loop, or nothing
LEMMA RefusedTripsOrRests ==
    ASSUME TypeOK, NEW l \in Loops, NEW why, Refused(why), UNCHANGED fixes
    PROVE  Repair(l)!Trip \/ Rested(l)
  <1> USE DEF Loop, Loops
  <1>1. tripped \in [Loops -> BOOLEAN]
    BY DEF TypeOK
  <1>2. CASE l = Loop /\ why = "breaker"
    <2>1. FixerCanAttempt
      BY <1>2 DEF Refused
    <2>2. tripped'[l] = TRUE
      BY <1>1, <1>2 DEF Refused
    <2>3. QED
      BY <1>2, <2>1, <2>2 DEF FixerCanAttempt, Repair!Trip, Repair!CanAttempt
  <1>3. CASE ~(l = Loop /\ why = "breaker")
    BY <1>1, <1>3 DEF Refused, Rested
  <1>4. QED
    BY <1>2, <1>3

LEMMA RepairStep ==
    ASSUME TypeOK, NEW l \in Loops, [Next]_vars
    PROVE  Repair(l)!Write \/ Repair(l)!Trip \/ Rested(l)
  <1> USE DEF Rested, counters
  <1>1. CASE StopCancelled \/ BeginIteration \/ LeaveLoop \/ Cancel
    BY <1>1 DEF StopCancelled, BeginIteration, LeaveLoop, Cancel
  <1>2. CASE CompileStep
    BY <1>2 DEF CompileStep, CompilePasses, CompileAutoFixed, CompileScoped,
                CompileFailsOutOfScope, CompileFailsInScope
  <1>3. CASE TestStep
    BY <1>3 DEF TestStep, TestPasses, TestFails
  <1>4. CASE FixApplied
    <2>1. CASE l = Loop
      BY <1>4, <2>1 DEF FixApplied, FixerCanAttempt, TypeOK, Repair!Write, Repair!CanAttempt
    <2>2. CASE l # Loop
      BY <1>4, <2>2 DEF FixApplied, TypeOK
    <2>3. QED
      BY <2>1, <2>2
  <1>5. CASE FixStep /\ ~FixApplied
    <2>1. UNCHANGED fixes /\ \E why : Refused(why)
      BY <1>5 DEF FixStep, TestOutsideScope, CompileRetried, CompileAbandoned,
                  TestStuckDiscards, TestNotFixed
    <2>2. QED
      BY <2>1, RefusedTripsOrRests
  <1>6. CASE RepeatStep
    BY <1>6 DEF RepeatStep, RepeatNotCounted, RepeatCounted, RepeatOnlyExtended, RepeatDiscards
  <1>7. CASE LaterStep
    BY <1>7 DEF LaterStep, LintPasses, Coverage, MutationPasses, StepFails
  <1>8. CASE UNCHANGED vars
    BY <1>8 DEF vars
  <1>9. QED
    BY <1>1, <1>2, <1>3, <1>4, <1>5, <1>6, <1>7, <1>8 DEF Next, Step

(***************************************************************************)
(* Each of the two loops implements RepairLoop, as FixLoop does: what a    *)
(* call of applyLLMFix does to the workflow is no more than the rounds of  *)
(* FixLoop can do, and no repair is written past a budget or a breaker.    *)
(***************************************************************************)
THEOREM LoopsImplementRepairLoop ==
    ASSUME NEW l \in Loops
    PROVE  Spec => Repair(l)!Spec
  <1>1. Init => Repair(l)!Init
    BY DEF Init, Repair!Init
  <1>2. TypeOK /\ [Next]_vars => [Repair(l)!Write \/ Repair(l)!Trip]_(Repair(l)!loop)
    BY RepairStep DEF Rested, Repair!loop
  <1>3. QED
    BY <1>1, <1>2, TypeCorrect, PTL DEF Spec, Repair!Spec

-----------------------------------------------------------------------------
(***************************************************************************)
(* Why the loop ends: a bound on the steps that are left.  Begun           *)
(* iterations count for as many steps as an iteration can have, the place  *)
(* in the iteration for those behind it.                                   *)
(***************************************************************************)
StepsAfter ==
    [compile |-> 10, test |-> 9, test_e2e |-> 8, fix |-> 7, repeat |-> 6, lint |-> 5,
     coverage |-> 4, mutation |-> 3, top |-> 2, exit |-> 1, done |-> 0]

StepsLeft == (MaxFixIterations - iter) * 9 + StepsAfter[pc]

StepsLeftFall == StepsLeft' < StepsLeft

\* within an iteration, steps only go forward
LEMMA ForwardFalls ==
    ASSUME TypeOK, TypeOK', UNCHANGED iter, StepsAfter[pc'] < StepsAfter[pc]
    PROVE  StepsLeftFall
  <1>1. /\ StepsAfter[pc] \in 0 .. 10 /\ StepsAfter[pc'] \in 0 .. 10
        /\ MaxFixIterations - iter \in Int
    BY EvaluationAssumption DEF TypeOK, StepsAfter
  <1>2. QED
    BY <1>1 DEF StepsLeft, StepsLeftFall

LEMMA StepFalls ==
    ASSUME TypeOK, TypeOK', Step
    PROVE  StepsLeftFall
  <1> USE DEF StepsAfter, Finish, TestSteps, counters
  <1>1. CASE StopCancelled \/ LeaveLoop
    <2>1. pc \in {"top", "exit"} /\ pc' = "done" /\ UNCHANGED iter
      BY <1>1 DEF StopCancelled, LeaveLoop
    <2>2. QED
      BY <2>1, ForwardFalls
  <1>2. CASE BeginIteration
    <2>1. /\ iter \in Nat /\ MaxFixIterations \in Nat /\ iter' = iter + 1
          /\ pc = "top" /\ pc' = "compile"
      BY <1>2, EvaluationAssumption DEF BeginIteration, TypeOK
    <2>2. QED
      BY <2>1 DEF StepsLeft, StepsLeftFall
  <1>3. CASE CompileStep
    BY <1>3, ForwardFalls DEF CompileStep, CompilePasses, CompileAutoFixed, CompileScoped,
                CompileFailsOutOfScope, CompileFailsInScope
  <1>4. CASE TestStep
    BY <1>4, ForwardFalls DEF TestStep, TestPasses, TestFails
  <1>5. CASE FixStep
    <2>1. pc = "fix" /\ pc' \in {"top", "exit", "repeat", "done"} /\ UNCHANGED iter
      BY <1>5 DEF FixStep, FixApplied, TestOutsideScope, CompileRetried,
                  CompileAbandoned, TestStuckDiscards, TestNotFixed, Refused
    <2>2. QED
      BY <2>1, ForwardFalls
  <1>6. CASE RepeatStep
    BY <1>6, ForwardFalls DEF RepeatStep, RepeatNotCounted, RepeatCounted,
                RepeatOnlyExtended, RepeatDiscards
  <1>7. CASE LaterStep
    <2>1. CASE LintPasses
      BY <1>7, <2>1, ForwardFalls DEF LintPasses
    <2>2. CASE Coverage
      <3>1. pc = "coverage" /\ pc' \in {"mutation", "done"} /\ UNCHANGED iter
        BY <2>2 DEF Coverage
      <3>2. QED
        BY <3>1, ForwardFalls
    <2>3. CASE MutationPasses
      BY <1>7, <2>3, ForwardFalls DEF MutationPasses
    <2>4. ASSUME NEW s \in {"lint", "mutation"}, StepFails(s)
          PROVE  StepsLeftFall
      BY <2>4, ForwardFalls DEF StepFails
    <2>5. QED
      BY <1>7, <2>1, <2>2, <2>3, <2>4 DEF LaterStep
  <1>8. QED
    BY <1>1, <1>2, <1>3, <1>4, <1>5, <1>6, <1>7 DEF Step

LEMMA StepsLeftIsNat ==
    ASSUME TypeOK
    PROVE  StepsLeft \in Nat
  <1>1. /\ StepsAfter[pc] \in 0 .. 10
        /\ MaxFixIterations \in Nat /\ iter \in 0 .. MaxFixIterations
    BY EvaluationAssumption DEF TypeOK, StepsAfter
  <1>2. QED
    BY <1>1 DEF StepsLeft

LEMMA StepsLeftIsNatNext ==
    ASSUME TypeOK'
    PROVE  StepsLeft' \in Nat
  <1>1. /\ StepsAfter[pc'] \in 0 .. 10
        /\ MaxFixIterations \in Nat /\ iter' \in 0 .. MaxFixIterations
    BY EvaluationAssumption DEF TypeOK, StepsAfter
  <1>2. QED
    BY <1>1 DEF StepsLeft

LEMMA NextFalls ==
    ASSUME TypeOK, TypeOK', [Next]_vars
    PROVE  \/ StepsLeftFall
           \/ ~ctxDone /\ ctxDone' /\ StepsLeft' = StepsLeft
           \/ UNCHANGED vars
  <1>1. CASE Step
    BY <1>1, StepFalls
  <1>2. CASE Cancel
    BY <1>2 DEF Cancel, counters, StepsLeft
  <1>3. QED
    BY <1>1, <1>2 DEF Next

(***************************************************************************)
(* The safety half of termination, whatever the sandbox and the fixer      *)
(* answer: every step but the one cancellation leaves fewer steps to take, *)
(* and there are never more than nine per iteration left and two besides.  *)
(***************************************************************************)
StepsAreBounded ==
    /\ [](StepsLeft \in 0 .. 9 * MaxFixIterations + 2)
    /\ [][StepsLeftFall \/ (~ctxDone /\ ctxDone' /\ StepsLeft' = StepsLeft)]_vars

\* No call of RunEvaluation takes more steps than its iteration budget pays for.
THEOREM LoopIsBounded == Spec => StepsAreBounded
  <1> DEFINE Bounded == StepsLeft \in 0 .. 9 * MaxFixIterations + 2
             Falls == StepsLeftFall \/ (~ctxDone /\ ctxDone' /\ StepsLeft' = StepsLeft)
  <1>1. Init => Bounded
    BY EvaluationAssumption DEF Init, StepsLeft, StepsAfter
  <1>2. TypeOK /\ TypeOK' /\ [Next]_vars => [Falls]_vars
    BY NextFalls
  <1>3. TypeOK /\ TypeOK' /\ Bounded /\ [Next]_vars => Bounded'
    <2> SUFFICES ASSUME TypeOK, TypeOK', Bounded, [Next]_vars
                 PROVE  Bounded'
      OBVIOUS
    <2>1. StepsLeft \in Nat /\ StepsLeft' \in Nat
      BY StepsLeftIsNat, StepsLeftIsNatNext
    <2>2. StepsLeft' <= StepsLeft
      <3>1. CASE UNCHANGED vars
        <4>1. StepsLeft' = StepsLeft
          BY <3>1 DEF vars, StepsLeft
        <4>2. QED
          BY <2>1, <4>1
      <3>2. CASE Falls
        BY <2>1, <3>2 DEF StepsLeftFall
      <3>3. QED
        BY <3>1, <3>2, NextFalls
    <2>3. QED
      BY <2>1, <2>2, EvaluationAssumption
  <1>4. QED
    BY <1>1, <1>2, <1>3, TypeCorrect, PTL DEF Spec, StepsAreBounded
=============================================================================
