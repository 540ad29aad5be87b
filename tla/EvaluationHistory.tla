--------------------------- MODULE EvaluationHistory ---------------------------
(***************************************************************************)
(* Evaluation with a record of what each test step reported since it last  *)
(* passed, against which the repeated-failure streak is compared.          *)
(***************************************************************************)
EXTENDS Evaluation, Sequences

VARIABLE runs       \* per test step, the failing sets since it last passed

historyVars == <<vars, runs>>

HistoryInit == Init /\ runs = [s \in TestSteps |-> <<>>]

TestReports ==
    \E s \in TestSteps :
        \/ TestFails(s) /\ runs' = [runs EXCEPT ![s] = Append(@, failing')]
        \/ TestPasses(s) /\ runs' = [runs EXCEPT ![s] = <<>>]

OtherStep == \/ StopCancelled \/ BeginIteration \/ LeaveLoop
             \/ CompileStep \/ FixStep \/ RepeatStep \/ LaterStep

HistoryStep == TestReports \/ (OtherStep /\ UNCHANGED runs)

HistoryNext == HistoryStep \/ (Cancel /\ UNCHANGED runs)

HistorySpec == HistoryInit /\ [][HistoryNext]_historyVars /\ WF_historyVars(HistoryStep)

-----------------------------------------------------------------------------
\* the runs of a step, since it last passed, that failed in exactly these artifacts
FailedAs(s, artifacts) == {i \in DOMAIN runs[s] : runs[s][i] = artifacts}

(***************************************************************************)
(* A discard by the repeated-failure path deletes files that failed        *)
(* together, as that very set, at least RepeatThreshold times since the    *)
(* step last passed: the streak never exceeds what was reported.           *)
(***************************************************************************)
StreakIsHistory == \A s \in TestSteps : streak[s] <= Cardinality(FailedAs(s, fp[s]))
=============================================================================
