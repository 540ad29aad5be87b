---------------------------- MODULE PipelineProofs ----------------------------
(***************************************************************************)
(* The two halves of pipeline.Run.  PipelineRun for every set of paths,    *)
(* every repository and every plan: its type invariant, that a run never   *)
(* deletes a test file the repository owned, that what it ships is the     *)
(* tree its last evaluation passed on, that it ships something, and that   *)
(* what it reports stable is in the tree.  Preparation, which comes before *)
(* it, for every repository: that its instruments leave the tree as it     *)
(* was, that a verified contract means that a test ran, and that the       *)
(* test-id pass reports what it changed.                                   *)
(***************************************************************************)
EXTENDS PipelineRun, Preparation, FiniteSetTheorems, TLAPS

(***************************************************************************)
(* Every field of a verdict on some of the paths is typed, and so is the   *)
(* verdict as one on all of them.                                          *)
(***************************************************************************)
LEMMA VerdictWidens ==
    ASSUME NEW A \in SUBSET Paths, NEW v \in VerdictsOn(A)
    PROVE  /\ v \in VerdictsOn(Paths)
           /\ v.discard \subseteq A
           /\ v.stable \in BOOLEAN /\ v.err \in BOOLEAN /\ v.stableAfterDiscard \in BOOLEAN
  BY DEF VerdictsOn

LEMMA RunningFields ==
    /\ Running.discard = {} /\ Running.stable = FALSE /\ Running.err = FALSE
    /\ Running.stableAfterDiscard = FALSE
  BY DEF Running

LEMMA EvalFields ==
    ASSUME TypeOK
    PROVE  /\ eval.discard \subseteq Paths
           /\ eval.stable \in BOOLEAN /\ eval.err \in BOOLEAN
           /\ eval.stableAfterDiscard \in BOOLEAN
  BY RunningFields DEF TypeOK, VerdictsOn

LEMMA ArtifactsArePaths ==
    ASSUME TypeOK
    PROVE  ArtifactPaths \subseteq Paths
  BY DEF TypeOK, ArtifactPaths, Outcomes

LEMMA CountIsNat ==
    ASSUME NEW S \in SUBSET Paths
    PROVE  Cardinality(S) \in Nat
  BY PipelineAssumption, FS_Subset, FS_CardinalityType

LEMMA MarkedOutcomes ==
    ASSUME TypeOK, NEW gone
    PROVE  /\ MarkDiscarded(gone) \in [Items -> Outcomes]
           /\ \A i \in Items : MarkDiscarded(gone)[i].path = outcomes[i].path
  <1>1. ASSUME NEW o \in Outcomes, NEW b \in BOOLEAN
        PROVE  /\ [o EXCEPT !.discarded = b] \in Outcomes
               /\ [o EXCEPT !.discarded = b].path = o.path
    BY DEF Outcomes
  <1>2. ASSUME NEW i \in Items
        PROVE  /\ MarkDiscarded(gone)[i] \in Outcomes
               /\ MarkDiscarded(gone)[i].path = outcomes[i].path
    <2> DEFINE o == outcomes[i]
               b == o.discarded \/ (o.path \in gone /\ FirstWriter(i))
    <2>1. o \in Outcomes /\ b \in BOOLEAN
      BY DEF TypeOK, FirstWriter
    <2>2. MarkDiscarded(gone)[i] = [o EXCEPT !.discarded = b]
      BY DEF MarkDiscarded
    <2> HIDE DEF o, b
    <2>3. [o EXCEPT !.discarded = b].path = o.path
      BY <1>1, <2>1
    <2> QED
      BY <1>1, <2>1, <2>2, <2>3 DEF o
  <1>3. MarkDiscarded(gone) = [i \in Items |-> MarkDiscarded(gone)[i]]
    BY DEF MarkDiscarded
  <1> QED
    BY <1>2, <1>3

LEMMA CompleteRunType ==
    ASSUME TypeOK, NEW s \in Flags, NEW m \in Flags, CompleteRun(s, m)
    PROVE  row' \in Rows
  BY DEF TypeOK, CompleteRun, Rows

LEMMA VerdictType ==
    ASSUME NEW A, NEW v, Verdict(A, v)
    PROVE  verified' \in BOOLEAN /\ treeGreen' \in BOOLEAN
  BY DEF Verdict, AllowedVerdicts, VerdictsOn

-----------------------------------------------------------------------------
(***************************************************************************)
(* Type correctness.                                                       *)
(***************************************************************************)
THEOREM TypeCorrect == Spec => []TypeOK
  <1>1. Init => TypeOK
    <2> SUFFICES ASSUME Init PROVE TypeOK
      OBVIOUS
    <2> USE PipelineAssumption DEF Init
    <2>1. item \in 1 .. NumItems + 1 /\ disk \subseteq Paths
      OBVIOUS
    <2>2. outcomes \in [Items -> Outcomes]
      BY DEF Outcomes
    <2>3. sum \in Summaries
      BY DEF Summaries
    <2>4. row \in Rows
      BY DEF Rows, Flags
    <2> QED
      BY <2>1, <2>2, <2>3, <2>4 DEF TypeOK
  <1>2. TypeOK /\ [Next]_vars => TypeOK'
    <2> SUFFICES ASSUME TypeOK, [Next]_vars
                 PROVE  TypeOK'
      OBVIOUS
    <2> USE PipelineAssumption
    <2>1. CASE SkipItem
      BY <2>1 DEF SkipItem, TypeOK, Items
    <2>2. CASE GenerateItem
      <3>1. PICK path \in Paths, doExtend \in BOOLEAN :
              /\ Write(path, doExtend)
              /\ outcomes' = [outcomes EXCEPT ![item].path = path]
        BY <2>2 DEF GenerateItem
      <3>2. outcomes' \in [Items -> Outcomes]
        BY <2>2, <3>1 DEF GenerateItem, TypeOK, Outcomes
      <3>3. disk' \subseteq Paths /\ extended' \subseteq Paths
        BY <3>1 DEF Write, TypeOK
      <3>4. sum' \in Summaries
        BY <2>2 DEF GenerateItem, TypeOK, Summaries
      <3>5. item' \in 1 .. NumItems + 1
        BY <2>2 DEF GenerateItem, TypeOK, Items
      <3> QED
        BY <2>2, <3>2, <3>3, <3>4, <3>5 DEF GenerateItem, TypeOK
    <2>3. CASE NothingGenerated
      <3>1. row' \in Rows
        BY <2>3, CompleteRunType DEF NothingGenerated, Flags
      <3> QED
        BY <2>3, <3>1 DEF NothingGenerated, TypeOK, Items
    <2>4. CASE Evaluate
      <3>1. eval' \in VerdictsOn(Paths) /\ treeGreen' \in BOOLEAN
        BY <2>4, ArtifactsArePaths, VerdictWidens DEF Evaluate, AllowedVerdicts
      <3> QED
        BY <2>4, <3>1 DEF Evaluate, TypeOK, Items
    <2>5. CASE Discard
      <3>1. Cardinality(eval.discard) \in Nat
        BY EvalFields, CountIsNat
      <3>2. sum' \in Summaries
        BY <2>5, <3>1 DEF Discard, TypeOK, Summaries
      <3>3. outcomes' \in [Items -> Outcomes]
        BY <2>5, MarkedOutcomes DEF Discard
      <3>4. disk' \subseteq Paths
        BY <2>5 DEF Discard, TypeOK
      <3> QED
        BY <2>5, <3>2, <3>3, <3>4 DEF Discard, AfterDiscard, TypeOK
    <2>6. CASE Verify
      <3>1. verified' \in BOOLEAN /\ treeGreen' \in BOOLEAN
        BY <2>6, VerdictType DEF Verify
      <3> QED
        BY <2>6, <3>1 DEF Verify, TypeOK
    <2>7. CASE DiscardFailingSurvivors
      <3>1. PICK attributed \in SUBSET Survivors :
            \E removed \in SUBSET Removable(attributed) :
              /\ disk' = disk \ removed
              /\ extra' = removed
              /\ treeGreen' = (treeGreen /\ removed = {})
              /\ pc' = IF removed = {} THEN "report" ELSE "reverify"
        BY <2>7 DEF DiscardFailingSurvivors
      <3>2. PICK removed \in SUBSET Removable(attributed) :
              /\ disk' = disk \ removed
              /\ extra' = removed
              /\ treeGreen' = (treeGreen /\ removed = {})
              /\ pc' = IF removed = {} THEN "report" ELSE "reverify"
        BY <3>1
      <3>3. removed \subseteq Paths
        BY <3>1, <3>2, ArtifactsArePaths DEF Removable, Survivors
      <3> QED
        BY <2>7, <3>2, <3>3 DEF DiscardFailingSurvivors, TypeOK
    <2>8. CASE Reverify
      <3>1. verified' \in BOOLEAN /\ treeGreen' \in BOOLEAN
        BY <2>8, VerdictType DEF Reverify
      <3> QED
        BY <2>8, <3>1 DEF Reverify, TypeOK
    <2>9. CASE Report
      <3> DEFINE stable == EvalStable /\ verified /\ ~eval.err
      <3>1. stable \in BOOLEAN
        BY EvalFields DEF TypeOK, EvalStable
      <3>2. Cardinality(extra) \in Nat
        BY CountIsNat DEF TypeOK
      <3>3. sum' \in Summaries
        <4> DEFINE discarded == sum.discarded + Cardinality(extra)
                   gaps == IF stable THEN sum.generated - discarded ELSE sum.gapsStable
        <4>1. discarded \in Nat /\ gaps \in Int
          BY <3>2 DEF TypeOK, Summaries
        <4>2. sum' = [sum EXCEPT !.discarded = discarded, !.projectStable = stable,
                                 !.gapsStable = gaps]
          BY <2>9 DEF Report
        <4> HIDE DEF stable, discarded, gaps
        <4> QED
          BY <3>1, <4>1, <4>2 DEF TypeOK, Summaries
      <3>4. outcomes' \in [Items -> Outcomes]
        <4>1. MarkDiscarded(extra) \in [Items -> Outcomes]
          BY MarkedOutcomes
        <4>2. outcomes' = [i \in Items |-> [MarkDiscarded(extra)[i] EXCEPT
                             !.stable = stable /\ MarkDiscarded(extra)[i].path # NoPath
                                               /\ ~MarkDiscarded(extra)[i].discarded]]
          BY <2>9 DEF Report
        <4>3. ASSUME NEW o \in Outcomes, NEW b \in BOOLEAN
              PROVE  [o EXCEPT !.stable = b] \in Outcomes
          BY DEF Outcomes
        <4>4. \A i \in Items : outcomes'[i] \in Outcomes
          <5> SUFFICES ASSUME NEW i \in Items PROVE outcomes'[i] \in Outcomes
            OBVIOUS
          <5> DEFINE o == MarkDiscarded(extra)[i]
                     b == stable /\ o.path # NoPath /\ ~o.discarded
          <5>1. o \in Outcomes /\ b \in BOOLEAN
            BY <4>1
          <5>2. outcomes'[i] = [o EXCEPT !.stable = b]
            BY <4>2
          <5> HIDE DEF o, b
          <5> QED
            BY <5>1, <5>2, <4>3
        <4> QED
          BY <4>2, <4>4
      <3>5. row' \in Rows
        <4>1. Flag(stable) \in Flags /\ Metrics \in Flags
          BY DEF Flag, Flags, Metrics
        <4>2. CompleteRun(Flag(stable), Metrics)
          BY <2>9 DEF Report
        <4> QED
          BY <4>1, <4>2, CompleteRunType
      <3> QED
        BY <2>9, <3>3, <3>4, <3>5 DEF Report, TypeOK
    <2>10. CASE Ship
      <3>1. shipped' \in BOOLEAN
        BY <2>10 DEF Ship, SummaryStable, TypeOK, Summaries
      <3> QED
        BY <2>10, <3>1 DEF Ship, TypeOK
    <2>11. CASE UNCHANGED vars
      BY <2>11 DEF vars, TypeOK, Items
    <2> QED
      BY <2>1, <2>2, <2>3, <2>4, <2>5, <2>6, <2>7, <2>8, <2>9, <2>10, <2>11 DEF Next
  <1> QED
    BY <1>1, <1>2, PTL DEF Spec

-----------------------------------------------------------------------------
(***************************************************************************)
(* What was the repository's and became an artifact is known as extended,  *)
(* and nothing extended is among what the evaluation discards.  This is    *)
(* what makes "the repository's files are still there" inductive.          *)
(***************************************************************************)
Protected ==
    /\ RepoFilesSurvive
    /\ ArtifactPaths \cap RepoFiles \subseteq extended
    /\ eval.discard \subseteq ArtifactPaths
    /\ eval.discard \cap extended = {}
    /\ pc = "generate" => eval = Running

\* Nothing but a write of phase 1 changes which paths are artifacts.
LEMMA PathsKept ==
    ASSUME \A i \in Items : outcomes'[i].path = outcomes[i].path
    PROVE  ArtifactPaths' = ArtifactPaths
  BY DEF ArtifactPaths

LEMMA ProtectedFrame ==
    ASSUME Protected, ArtifactPaths' = ArtifactPaths,
           UNCHANGED <<extended, eval>>, pc' # "generate", RepoFiles \subseteq disk'
    PROVE  Protected'
  BY DEF Protected, RepoFilesSurvive

LEMMA ProtectedStep ==
    ASSUME TypeOK, Protected, [Next]_vars
    PROVE  Protected'
  <1>1. CASE SkipItem
    BY <1>1 DEF SkipItem, Protected, RepoFilesSurvive, ArtifactPaths
  <1>2. CASE GenerateItem
    <2>1. PICK path \in Paths, doExtend \in BOOLEAN :
            /\ Write(path, doExtend)
            /\ outcomes' = [outcomes EXCEPT ![item].path = path]
      BY <1>2 DEF GenerateItem
    <2>2. ArtifactPaths' \subseteq ArtifactPaths \cup {path}
      <3>1. \A i \in Items : outcomes'[i].path \in {outcomes[i].path, path}
        BY <2>1 DEF TypeOK, Outcomes
      <3> QED
        BY <3>1 DEF ArtifactPaths
    <2>3. path \in RepoFiles => path \in extended'
      <3>1. ASSUME path \in RepoFiles PROVE path \in disk
        BY <3>1 DEF Protected, RepoFilesSurvive
      <3> QED
        BY <2>1, <3>1 DEF Write, Protected
    <2>4. extended \subseteq extended' /\ RepoFiles \subseteq disk'
      BY <2>1 DEF Write, Protected, RepoFilesSurvive
    <2>5. eval' = Running /\ eval'.discard = {}
      BY <1>2, RunningFields DEF GenerateItem, Protected
    <2> QED
      BY <2>2, <2>3, <2>4, <2>5 DEF Protected, RepoFilesSurvive
  <1>3. CASE NothingGenerated
    BY <1>3, ProtectedFrame DEF NothingGenerated, Protected, RepoFilesSurvive, ArtifactPaths
  <1>4. CASE Evaluate
    <2>1. eval'.discard \subseteq ArtifactPaths /\ eval'.discard \cap extended = {}
      BY <1>4, ArtifactsArePaths, VerdictWidens
      DEF Evaluate, AllowedVerdicts, Allowed
    <2>2. ArtifactPaths' = ArtifactPaths /\ extended' = extended /\ disk' = disk
      BY <1>4 DEF Evaluate, ArtifactPaths
    <2>3. pc' # "generate"
      BY <1>4 DEF Evaluate
    <2> QED
      BY <2>1, <2>2, <2>3 DEF Protected, RepoFilesSurvive
  <1>5. CASE Discard
    <2>1. ArtifactPaths' = ArtifactPaths
      BY <1>5, MarkedOutcomes, PathsKept DEF Discard
    <2>2. RepoFiles \subseteq disk'
      BY <1>5 DEF Discard, Protected, RepoFilesSurvive
    <2>3. pc' # "generate" /\ UNCHANGED <<extended, eval>>
      BY <1>5 DEF Discard, AfterDiscard
    <2> QED
      BY <2>1, <2>2, <2>3, ProtectedFrame
  <1>6. CASE Verify
    BY <1>6, ProtectedFrame DEF Verify, Protected, RepoFilesSurvive, ArtifactPaths
  <1>7. CASE DiscardFailingSurvivors
    <2>1. PICK attributed \in SUBSET Survivors :
          \E removed \in SUBSET Removable(attributed) :
            disk' = disk \ removed /\ pc' \in {"report", "reverify"}
      BY <1>7 DEF DiscardFailingSurvivors
    <2>2. PICK removed \in SUBSET Removable(attributed) :
            disk' = disk \ removed /\ pc' \in {"report", "reverify"}
      BY <2>1
    <2>3. removed \subseteq ArtifactPaths \ extended
      BY <2>1, <2>2 DEF Removable, Survivors
    <2>4. RepoFiles \subseteq disk'
      BY <2>2, <2>3 DEF Protected, RepoFilesSurvive
    <2> QED
      BY <1>7, <2>2, <2>4, ProtectedFrame DEF DiscardFailingSurvivors, ArtifactPaths
  <1>8. CASE Reverify
    BY <1>8, ProtectedFrame DEF Reverify, Protected, RepoFilesSurvive, ArtifactPaths
  <1>9. CASE Report
    <2>1. \A i \in Items : outcomes'[i].path = outcomes[i].path
      <3> DEFINE stable == EvalStable /\ verified /\ ~eval.err
      <3>1. outcomes' = [i \in Items |-> [MarkDiscarded(extra)[i] EXCEPT
                           !.stable = stable /\ MarkDiscarded(extra)[i].path # NoPath
                                             /\ ~MarkDiscarded(extra)[i].discarded]]
        BY <1>9 DEF Report
      <3>2. ASSUME NEW o \in Outcomes, NEW b
            PROVE  [o EXCEPT !.stable = b].path = o.path
        BY DEF Outcomes
      <3>3. ASSUME NEW i \in Items
            PROVE  outcomes'[i].path = outcomes[i].path
        <4> DEFINE o == MarkDiscarded(extra)[i]
                   b == stable /\ o.path # NoPath /\ ~o.discarded
        <4>1. o \in Outcomes /\ o.path = outcomes[i].path
          BY MarkedOutcomes
        <4>2. outcomes'[i] = [o EXCEPT !.stable = b]
          BY <3>1
        <4> HIDE DEF o, b
        <4> QED
          BY <4>1, <4>2, <3>2
      <3> QED
        BY <3>3
    <2>2. pc' # "generate" /\ UNCHANGED <<extended, eval, disk>>
      BY <1>9 DEF Report
    <2> QED
      BY <2>1, <2>2, PathsKept, ProtectedFrame DEF Protected, RepoFilesSurvive
  <1>10. CASE Ship
    BY <1>10, ProtectedFrame DEF Ship, Protected, RepoFilesSurvive, ArtifactPaths
  <1>11. CASE UNCHANGED vars
    BY <1>11 DEF vars, Protected, RepoFilesSurvive, ArtifactPaths
  <1> QED
    BY <1>1, <1>2, <1>3, <1>4, <1>5, <1>6, <1>7, <1>8, <1>9, <1>10, <1>11 DEF Next

(***************************************************************************)
(* No run deletes a test file the repository owned when it started.        *)
(***************************************************************************)
THEOREM RepoFilesSafe == Spec => []RepoFilesSurvive
  <1>1. Init => Protected
    <2> SUFFICES ASSUME Init PROVE Protected
      OBVIOUS
    <2>1. ArtifactPaths = {}
      BY DEF Init, ArtifactPaths
    <2> QED
      BY <2>1, RunningFields DEF Init, Protected, RepoFilesSurvive
  <1>2. TypeOK /\ Protected /\ [Next]_vars => Protected'
    BY ProtectedStep
  <1>3. Protected => RepoFilesSurvive
    BY DEF Protected
  <1> QED
    BY <1>1, <1>2, <1>3, TypeCorrect, PTL DEF Spec

-----------------------------------------------------------------------------
(***************************************************************************)
(* When the run is about to report, a verdict that would make it stable    *)
(* was measured on the tree as it is; a verification that failed cannot    *)
(* become a stable report by discarding nothing.                           *)
(***************************************************************************)
Measured ==
    /\ pc = "survivors" => ~verified
    /\ pc = "report" => (EvalStable /\ verified => treeGreen)
    /\ pc \in {"ship", "done"} => (sum.projectStable => treeGreen)
    /\ pc \notin {"ship", "done"} => ~sum.projectStable
    /\ shipped => pc = "done" /\ sum.projectStable

LEMMA MeasuredStep ==
    ASSUME TypeOK, Measured, [Next]_vars
    PROVE  Measured'
  <1> USE DEF Measured
  <1>1. CASE SkipItem
    BY <1>1 DEF SkipItem
  <1>2. CASE GenerateItem
    <2>1. sum'.projectStable = sum.projectStable
      BY <1>2 DEF GenerateItem, TypeOK, Summaries
    <2> QED
      BY <1>2, <2>1 DEF GenerateItem
  <1>3. CASE NothingGenerated
    BY <1>3 DEF NothingGenerated
  <1>4. CASE Evaluate
    <2>1. eval' \in VerdictsOn(ArtifactPaths) /\ Allowed(eval', ArtifactPaths, extended, TRUE)
      BY <1>4 DEF Evaluate, AllowedVerdicts
    <2>2. ~eval'.stableAfterDiscard /\ eval'.stable => eval'.discard = {}
      BY <2>1 DEF Allowed
    <2> QED
      BY <1>4, <2>2 DEF Evaluate, EvalStable
  <1>5. CASE Discard
    <2>1. sum'.projectStable = sum.projectStable
      BY <1>5 DEF Discard, TypeOK, Summaries
    <2> QED
      BY <1>5, <2>1 DEF Discard, AfterDiscard
  <1>6. CASE Verify
    <2>1. PICK v \in VerdictsOn(Survivors) :
            /\ Verdict(Survivors, v)
            /\ pc' = IF v.stable THEN "report" ELSE "survivors"
      BY <1>6 DEF Verify
    <2> QED
      BY <1>6, <2>1 DEF Verify, Verdict
  <1>7. CASE DiscardFailingSurvivors
    <2>1. pc' \in {"report", "reverify"} /\ ~verified'
      BY <1>7 DEF DiscardFailingSurvivors
    <2> QED
      BY <1>7, <2>1 DEF DiscardFailingSurvivors
  <1>8. CASE Reverify
    <2>1. PICK v \in VerdictsOn(Survivors \ extra) : Verdict(Survivors \ extra, v)
      BY <1>8 DEF Reverify
    <2> QED
      BY <1>8, <2>1 DEF Reverify, Verdict
  <1>9. CASE Report
    <2>1. sum'.projectStable => EvalStable /\ verified
      BY <1>9 DEF Report, TypeOK, Summaries
    <2> QED
      BY <1>9, <2>1 DEF Report
  <1>10. CASE Ship
    BY <1>10 DEF Ship, SummaryStable
  <1>11. CASE UNCHANGED vars
    BY <1>11 DEF vars, EvalStable
  <1> QED
    BY <1>1, <1>2, <1>3, <1>4, <1>5, <1>6, <1>7, <1>8, <1>9, <1>10, <1>11 DEF Next

(***************************************************************************)
(* A shipped tree is one the last evaluation passed on, with no file       *)
(* removed since.                                                          *)
(***************************************************************************)
THEOREM ShippedIsGreen == Spec => []ShippedTreeIsGreen
  <1>1. Init => Measured
    BY DEF Init, Measured
  <1>2. TypeOK /\ Measured /\ [Next]_vars => Measured'
    BY MeasuredStep
  <1>3. Measured => ShippedTreeIsGreen
    BY DEF Measured, ShippedTreeIsGreen
  <1> QED
    BY <1>1, <1>2, <1>3, TypeCorrect, PTL DEF Spec
-----------------------------------------------------------------------------
(***************************************************************************)
(* What is not discarded is on disk, and a verdict that may become stable  *)
(* leaves something that is not.  Until the report no outcome is stable;   *)
(* after the first discard the first writers of its files are marked, so   *)
(* that the report, which marks those of the second, can tell.             *)
(***************************************************************************)
Kept == Survivors \ extra

Marked == \A i \in Items :
              FirstWriter(i) /\ outcomes[i].path \in eval.discard => outcomes[i].discarded

NoneStable == ~sum.projectStable /\ \A i \in Items : ~outcomes[i].stable

Standing ==
    /\ Kept \subseteq disk
    /\ pc \in {"generate", "discard", "verify", "survivors"} => extra = {}
    /\ pc \notin {"generate", "ship", "done"} /\ EvalStable => Kept # {}
    /\ pc \in {"verify", "survivors", "reverify", "report"} /\ EvalStable => Marked
    /\ pc \notin {"ship", "done"} => NoneStable
    /\ sum.projectStable => Kept # {}
    /\ StableOutcomesStand

\* A step that leaves outcomes, verdict and tree alone, towards a phase with the same claims.
LEMMA StandingFrame ==
    ASSUME Standing, UNCHANGED <<outcomes, eval, extra, disk, sum>>,
           pc' = pc \/ (/\ pc \in {"verify", "survivors", "reverify"}
                        /\ pc' \in {"survivors", "report"})
                    \/ pc' \in {"ship", "done"},
           pc' = "survivors" => pc = "verify"
    PROVE  Standing'
  BY DEF Standing, Kept, Survivors, ArtifactPaths, EvalStable, Marked, FirstWriter, NoneStable,
         StableOutcomesStand

\* Marking what is gone changes no path, no stable outcome, and forgets no earlier mark.
LEMMA MarkedFields ==
    ASSUME TypeOK, NEW gone, NEW i \in Items
    PROVE  LET o == MarkDiscarded(gone)[i]
           IN  /\ o \in Outcomes
               /\ o.path = outcomes[i].path /\ o.stable = outcomes[i].stable
               /\ o.discarded = (outcomes[i].discarded
                                    \/ (outcomes[i].path \in gone /\ FirstWriter(i)))
  <1> DEFINE o == outcomes[i]
             b == o.discarded \/ (o.path \in gone /\ FirstWriter(i))
  <1>1. o \in Outcomes /\ b \in BOOLEAN
    BY DEF TypeOK, FirstWriter
  <1>2. MarkDiscarded(gone)[i] = [o EXCEPT !.discarded = b]
    BY DEF MarkDiscarded
  <1>3. ASSUME NEW r \in Outcomes, NEW c \in BOOLEAN
        PROVE  LET s == [r EXCEPT !.discarded = c]
               IN  s \in Outcomes /\ s.path = r.path /\ s.stable = r.stable /\ s.discarded = c
    BY DEF Outcomes
  <1> HIDE DEF o, b
  <1>4. LET s == [o EXCEPT !.discarded = b]
        IN  s \in Outcomes /\ s.path = o.path /\ s.stable = o.stable /\ s.discarded = b
    BY <1>1, <1>3
  <1> QED
    BY <1>2, <1>4 DEF o, b

\* Who wrote a path first depends on the paths alone.
LEMMA FirstWriterKept ==
    ASSUME \A i \in Items : outcomes'[i].path = outcomes[i].path, NEW i \in Items
    PROVE  FirstWriter(i)' <=> FirstWriter(i)
  <1>1. \A j \in 1 .. i - 1 : j \in Items
    BY PipelineAssumption DEF Items
  <1> QED
    BY <1>1 DEF FirstWriter

LEMMA ReportedOutcomes ==
    ASSUME TypeOK, Report, NEW i \in Items
    PROVE  /\ outcomes'[i].path = outcomes[i].path
           /\ outcomes'[i].stable =>
                /\ EvalStable /\ outcomes[i].path # NoPath
                /\ ~outcomes[i].discarded
                /\ ~(outcomes[i].path \in extra /\ FirstWriter(i))
  <1> DEFINE o == MarkDiscarded(extra)[i]
             b == (EvalStable /\ verified /\ ~eval.err) /\ o.path # NoPath /\ ~o.discarded
  <1>1. outcomes'[i] = [o EXCEPT !.stable = b]
    BY DEF Report
  <1>2. o \in Outcomes
    BY MarkedFields
  <1>3. ASSUME NEW r \in Outcomes, NEW c
        PROVE  [r EXCEPT !.stable = c].path = r.path /\ [r EXCEPT !.stable = c].stable = c
    BY DEF Outcomes
  <1>4. outcomes'[i].path = o.path /\ outcomes'[i].stable = b
    <2> HIDE DEF o, b
    <2> QED
      BY <1>1, <1>2, <1>3
  <1> QED
    BY <1>4, MarkedFields

LEMMA StandingStep ==
    ASSUME TypeOK, Protected, Standing, [Next]_vars
    PROVE  Standing'
  <1>1. CASE SkipItem
    BY <1>1, StandingFrame DEF SkipItem
  <1>2. CASE GenerateItem
    <2>1. PICK path \in Paths, doExtend \in BOOLEAN :
            /\ Write(path, doExtend)
            /\ outcomes' = [outcomes EXCEPT ![item].path = path]
      BY <1>2 DEF GenerateItem
    <2>2. \A i \in Items : /\ outcomes'[i].path \in {outcomes[i].path, path}
                           /\ outcomes'[i].stable = outcomes[i].stable
      BY <2>1 DEF TypeOK, Outcomes
    <2>3. Kept' \subseteq Kept \cup {path}
      BY <1>2, <2>2 DEF GenerateItem, Kept, Survivors, ArtifactPaths
    <2>4. disk' = disk \cup {path}
      BY <2>1 DEF Write
    <2>5. sum'.projectStable = sum.projectStable
      BY <1>2 DEF GenerateItem, TypeOK, Summaries
    <2>6. NoneStable'
      BY <1>2, <2>2, <2>5 DEF GenerateItem, Standing, NoneStable
    <2> QED
      BY <1>2, <2>3, <2>4, <2>6 DEF GenerateItem, Standing, NoneStable, StableOutcomesStand
  <1>3. CASE NothingGenerated
    BY <1>3, StandingFrame DEF NothingGenerated
  <1>4. CASE Evaluate
    <2>1. eval' \in VerdictsOn(ArtifactPaths) /\ Allowed(eval', ArtifactPaths, extended, TRUE)
      BY <1>4 DEF Evaluate, AllowedVerdicts
    <2>2. eval'.discard \subseteq ArtifactPaths
      BY <2>1 DEF VerdictsOn
    <2>3. eval.discard = {} /\ extra = {} /\ extra' = extra
      BY <1>4, RunningFields DEF Evaluate, Protected, Standing
    <2>4. ArtifactPaths' = ArtifactPaths /\ ArtifactPaths # {}
      BY <1>4 DEF Evaluate, ArtifactPaths
    <2>5. Kept' = ArtifactPaths \ eval'.discard /\ Kept = ArtifactPaths
      BY <2>3, <2>4 DEF Kept, Survivors
    <2>6. EvalStable' => Kept' # {}
      BY <2>1, <2>2, <2>4, <2>5 DEF Allowed, EvalStable
    <2>7. EvalStable' /\ pc' = "report" => eval'.discard = {}
      BY <1>4, <2>1 DEF Evaluate, Allowed, EvalStable
    <2>8. pc' \in {"discard", "report"} /\ NoneStable'
      BY <1>4 DEF Evaluate, Standing, NoneStable
    <2> QED
      BY <1>4, <2>3, <2>5, <2>6, <2>7, <2>8
      DEF Evaluate, Standing, Marked, NoneStable, StableOutcomesStand
  <1>5. CASE Discard
    <2>1. \A i \in Items :
             /\ outcomes'[i].path = outcomes[i].path /\ outcomes'[i].stable = outcomes[i].stable
             /\ FirstWriter(i) /\ outcomes[i].path \in eval.discard => outcomes'[i].discarded
      BY <1>5, MarkedFields DEF Discard
    <2>2. ArtifactPaths' = ArtifactPaths
      BY <2>1, PathsKept
    <2>3. Kept' = Kept /\ Kept \cap eval.discard = {}
      BY <1>5, <2>2 DEF Discard, Kept, Survivors
    <2>4. Kept' \subseteq disk'
      BY <1>5, <2>3 DEF Discard, Standing
    <2>5. Marked'
      BY <1>5, <2>1, FirstWriterKept DEF Discard, Marked
    <2>6. sum'.projectStable = sum.projectStable
      BY <1>5 DEF Discard, TypeOK, Summaries
    <2>7. NoneStable'
      BY <1>5, <2>1, <2>6 DEF Discard, Standing, NoneStable
    <2>8. pc = "discard" /\ pc' = "verify" /\ extra' = extra /\ (EvalStable' <=> EvalStable)
      BY <1>5 DEF Discard, AfterDiscard, EvalStable
    <2> QED
      BY <2>3, <2>4, <2>5, <2>7, <2>8 DEF Standing, NoneStable, StableOutcomesStand
  <1>6. CASE Verify
    BY <1>6, StandingFrame DEF Verify
  <1>7. CASE DiscardFailingSurvivors
    <2>1. PICK attributed \in SUBSET Survivors :
          \E removed \in SUBSET Removable(attributed) :
            disk' = disk \ removed /\ extra' = removed /\ pc' \in {"report", "reverify"}
      BY <1>7 DEF DiscardFailingSurvivors
    <2>2. PICK removed \in SUBSET Removable(attributed) :
            disk' = disk \ removed /\ extra' = removed /\ pc' \in {"report", "reverify"}
      BY <2>1
    <2>3. extra = {} /\ pc = "survivors"
      BY <1>7 DEF DiscardFailingSurvivors, Standing
    <2>4. Survivors' = Survivors /\ (EvalStable' <=> EvalStable) /\ (Marked' <=> Marked)
      BY <1>7 DEF DiscardFailingSurvivors, Survivors, ArtifactPaths, EvalStable, Marked, FirstWriter
    <2>5. Kept' = Survivors \ removed /\ Kept = Survivors
      BY <2>2, <2>3, <2>4 DEF Kept
    <2>6. Survivors # {} => Survivors \ removed # {}
      BY <2>1, <2>2 DEF Removable
    <2>7. NoneStable'
      BY <1>7, <2>3 DEF DiscardFailingSurvivors, Standing, NoneStable
    <2> QED
      BY <2>2, <2>3, <2>4, <2>5, <2>6, <2>7 DEF Standing, NoneStable, StableOutcomesStand
  <1>8. CASE Reverify
    BY <1>8, StandingFrame DEF Reverify
  <1>9. CASE Report
    <2>1. \A i \in Items : outcomes'[i].path = outcomes[i].path
      BY <1>9, ReportedOutcomes
    <2>2. ArtifactPaths' = ArtifactPaths
      BY <2>1, PathsKept
    <2>3. Kept' = Kept /\ disk' = disk /\ pc = "report" /\ pc' = "ship"
      BY <1>9, <2>2 DEF Report, Kept, Survivors
    <2>4. sum'.projectStable => EvalStable
      BY <1>9 DEF Report, TypeOK, Summaries
    <2>5. ASSUME NEW i \in Items, outcomes'[i].stable, FirstWriter(i)'
          PROVE  outcomes'[i].path \in disk'
      <3>1. FirstWriter(i)
        BY <2>1, <2>5, FirstWriterKept
      <3>2. /\ EvalStable /\ outcomes[i].path # NoPath /\ ~outcomes[i].discarded
            /\ outcomes[i].path \notin extra
        BY <1>9, <2>5, <3>1, ReportedOutcomes
      <3>3. outcomes[i].path \notin eval.discard
        BY <2>3, <3>1, <3>2 DEF Standing, Marked
      <3>4. outcomes[i].path \in Kept
        BY <3>2, <3>3 DEF Kept, Survivors, ArtifactPaths
      <3> QED
        BY <2>1, <2>3, <3>4 DEF Standing
    <2> QED
      BY <2>3, <2>4, <2>5 DEF Standing, StableOutcomesStand
  <1>10. CASE Ship
    BY <1>10, StandingFrame DEF Ship
  <1>11. CASE UNCHANGED vars
    BY <1>11
    DEF vars, Standing, Kept, Survivors, ArtifactPaths, EvalStable, Marked, FirstWriter,
        NoneStable, StableOutcomesStand
  <1> QED
    BY <1>1, <1>2, <1>3, <1>4, <1>5, <1>6, <1>7, <1>8, <1>9, <1>10, <1>11 DEF Next

\* Standing holds throughout a run.
LEMMA AlwaysStanding == Spec => []Standing
  <1>1. Init => Protected /\ Standing
    <2> SUFFICES ASSUME Init PROVE Protected /\ Standing
      OBVIOUS
    <2>1. ArtifactPaths = {}
      BY DEF Init, ArtifactPaths
    <2> QED
      BY <2>1, RunningFields
      DEF Init, Protected, RepoFilesSurvive, Standing, Kept, Survivors, NoneStable,
          StableOutcomesStand
  <1>2. TypeOK /\ Protected /\ [Next]_vars => Protected'
    BY ProtectedStep
  <1>3. TypeOK /\ Protected /\ Standing /\ [Next]_vars => Standing'
    BY StandingStep
  <1> QED
    BY <1>1, <1>2, <1>3, TypeCorrect, PTL DEF Spec

(***************************************************************************)
(* The outcome of the item that first wrote a file is never stable when a  *)
(* discard has removed the file.                                           *)
(***************************************************************************)
THEOREM StableOutcomesAreThere == Spec => []StableOutcomesStand
  <1>1. Standing => StableOutcomesStand
    BY DEF Standing
  <1> QED
    BY <1>1, AlwaysStanding, PTL

(***************************************************************************)
(* A run that passes the ship gate has an artifact left in the tree.       *)
(***************************************************************************)
THEOREM SomethingSurvives == Spec => []SurvivorExists
  <1>1. Standing => SurvivorExists
    BY DEF Standing, SurvivorExists, SummaryStable, Kept, Survivors
  <1> QED
    BY <1>1, AlwaysStanding, PTL

-----------------------------------------------------------------------------
(***************************************************************************)
(* Preparation.  Bootstrap: every file that was not there when Run was     *)
(* called is marked as written by it and, unless a removal failed, is one  *)
(* of those the step it is at has in use.                                  *)
(***************************************************************************)
InUse ==
    IF bootPc \in {"start", "skipContract", "stage", "contract"} THEN {}
    ELSE IF bootPc = "returned" THEN Leftover
    ELSE IF bootPc = "runFramework" THEN {"unit", "framework", "component"}
    ELSE IF bootPc = "runTypecheck" THEN {"unit", "probe", "companion"}
    ELSE {"unit"}

TreeInv ==
    bootPc # "idle" =>
        /\ found \subseteq present
        /\ present \ found \subseteq wrote
        /\ ~littered => present \ found \subseteq InUse

\* what each step has seen run, of what it may write into the contract
RanInv ==
    /\ stamped => bootPc = "returned"
    /\ verdict = "ok" => ranUnit
    /\ bootPc \in {"framework", "runFramework", "typecheck", "runTypecheck"} => ranUnit
    /\ bootPc \in {"cleanup", "contract"} /\ lang # "java" => ranUnit
    /\ VerifiedMeansRan

LEMMA StageKeeps ==
    ASSUME BootTypeOK, NEW S \in SUBSET Instruments, Stage(S), UNCHANGED found,
           found \subseteq present, present \ found \subseteq wrote
    PROVE  /\ present' \subseteq Instruments /\ wrote' \subseteq Instruments \ found'
           /\ found' \subseteq present' /\ present' \ found' \subseteq wrote'
           /\ present' \ found' \subseteq (present \ found) \cup S
  BY DEF Stage, BootTypeOK

LEMMA RemoveKeeps ==
    ASSUME BootTypeOK, NEW S, Remove(S), UNCHANGED <<wrote, found>>,
           found \subseteq present, present \ found \subseteq wrote
    PROVE  /\ present' \subseteq Instruments /\ littered' \in BOOLEAN /\ (littered => littered')
           /\ found' \subseteq present' /\ present' \ found' \subseteq wrote'
           /\ ~littered' => present' \ found' \subseteq (present \ found) \ S
  BY DEF Remove, Strike, BootTypeOK

LEMMA BootStepKeeps ==
    ASSUME BootTypeOK, TreeInv, RanInv, BootStep
    PROVE  BootTypeOK' /\ TreeInv' /\ RanInv' /\ bootPc # "idle"
  <1> USE DEF Goto, Return
  <1>1. CASE NotApplied \/ NoAttempt \/ Patch
    <2>1. BootTypeOK'
      BY <1>1 DEF NotApplied, NoAttempt, Patch, BootTypeOK
    <2>2. TreeInv'
      BY <1>1 DEF NotApplied, NoAttempt, Patch, TreeInv, InUse
    <2>3. RanInv' /\ bootPc # "idle"
      BY <1>1 DEF NotApplied, NoAttempt, Patch, RanInv, VerifiedMeansRan
    <2>4. QED
      BY <2>1, <2>2, <2>3
  <1>2. CASE StageExisting
    <2>1. {"unit"} \in SUBSET Instruments
      BY DEF Instruments
    <2>2. QED
      BY <1>2, <2>1, StageKeeps
         DEF StageExisting, BootTypeOK, TreeInv, RanInv, InUse, VerifiedMeansRan
  <1>3. CASE RunExisting
    <2>1. ranUnit' \in BOOLEAN
      BY <1>3 DEF RunExisting
    <2>2. QED
      BY <1>3, <2>1, RemoveKeeps
         DEF RunExisting, BootTypeOK, TreeInv, RanInv, InUse, VerifiedMeansRan
  <1>4. CASE WriteSkipContract
    <2>1. BootTypeOK'
      BY <1>4 DEF WriteSkipContract, Stamp, BootTypeOK
    <2>2. TreeInv'
      BY <1>4 DEF WriteSkipContract, TreeInv, InUse
    <2>3. RanInv' /\ bootPc # "idle"
      BY <1>4 DEF WriteSkipContract, Stamp, SkipVerified, RanInv, VerifiedMeansRan
    <2>4. QED
      BY <2>1, <2>2, <2>3
  <1>5. CASE StageUnit
    <2>1. {"unit"} \in SUBSET Instruments
      BY DEF Instruments
    <2>2. QED
      BY <1>5, <2>1, StageKeeps
         DEF StageUnit, BootTypeOK, TreeInv, RanInv, InUse, VerifiedMeansRan
  <1>6. CASE GatePasses \/ GateObjects \/ NoTypecheck
    <2>1. BootTypeOK'
      BY <1>6 DEF GatePasses, GateObjects, NoTypecheck, BootTypeOK
    <2>2. TreeInv'
      BY <1>6 DEF GatePasses, GateObjects, NoTypecheck, TreeInv, InUse
    <2>3. RanInv' /\ bootPc # "idle"
      BY <1>6 DEF GatePasses, GateObjects, NoTypecheck, RanInv, VerifiedMeansRan
    <2>4. QED
      BY <2>1, <2>2, <2>3
  <1>7. CASE GateFails
    <2>1. CASE lang = "java"
      BY <1>7, <2>1, RemoveKeeps
         DEF GateFails, BootTypeOK, TreeInv, RanInv, InUse, Leftover, VerifiedMeansRan
    <2>2. CASE lang # "java"
      BY <1>7, <2>2 DEF GateFails, BootTypeOK, TreeInv, RanInv, InUse, Leftover, VerifiedMeansRan
    <2>3. QED
      BY <2>1, <2>2
  <1>8. CASE StageFramework
    <2>1. PICK S \in {{"framework"}, FrameworkFiles} : Stage(S)
      BY <1>8 DEF StageFramework
    <2>2. S \in SUBSET Instruments /\ S \subseteq {"framework", "component"}
      BY <2>1 DEF FrameworkFiles, Instruments
    <2>3. QED
      BY <1>8, <2>1, <2>2, StageKeeps
         DEF StageFramework, BootTypeOK, TreeInv, RanInv, InUse, VerifiedMeansRan
  <1>9. CASE NoFramework
    <2>1. {"component"} \in SUBSET Instruments
      BY DEF Instruments
    <2>2. QED
      BY <1>9, <2>1, StageKeeps
         DEF NoFramework, BootTypeOK, TreeInv, RanInv, InUse, VerifiedMeansRan
  <1>10. CASE RunFramework
    BY <1>10, RemoveKeeps DEF RunFramework, BootTypeOK, TreeInv, RanInv, InUse, VerifiedMeansRan
  <1>11. CASE StageProbe
    <2>1. PICK S \in {{"probe"}, {"companion"}, {"probe", "companion"}} : Stage(S)
      BY <1>11 DEF StageProbe
    <2>2. S \in SUBSET Instruments /\ S \subseteq {"probe", "companion"}
      BY <2>1 DEF Instruments
    <2>3. QED
      BY <1>11, <2>1, <2>2, StageKeeps
         DEF StageProbe, BootTypeOK, TreeInv, RanInv, InUse, VerifiedMeansRan
  <1>12. CASE TypecheckDone
    BY <1>12, RemoveKeeps DEF TypecheckDone, BootTypeOK, TreeInv, RanInv, InUse, VerifiedMeansRan
  <1>13. CASE TypecheckFails
    BY <1>13, RemoveKeeps DEF TypecheckFails, BootTypeOK, TreeInv, RanInv, InUse, VerifiedMeansRan
  <1>14. CASE CleanUp
    BY <1>14, RemoveKeeps DEF CleanUp, BootTypeOK, TreeInv, RanInv, InUse, VerifiedMeansRan
  <1>15. CASE WriteContract
    <2>1. BootTypeOK'
      BY <1>15 DEF WriteContract, Stamp, BootTypeOK
    <2>2. TreeInv'
      BY <1>15 DEF WriteContract, TreeInv, InUse
    <2>3. RanInv' /\ bootPc # "idle"
      BY <1>15 DEF WriteContract, Stamp, RanInv, VerifiedMeansRan
    <2>4. QED
      BY <2>1, <2>2, <2>3
  <1>16. QED
    BY <1>1, <1>2, <1>3, <1>4, <1>5, <1>6, <1>7, <1>8, <1>9, <1>10, <1>11, <1>12, <1>13, <1>14,
       <1>15 DEF BootStep

-----------------------------------------------------------------------------
(***************************************************************************)
(* The test-id pass.  Of the files nothing went wrong with, those changed  *)
(* so far are the ones applied, and the journal holds for exactly these    *)
(* what the pass found.                                                    *)
(***************************************************************************)
PassInv ==
    /\ passPc \in {"templates", "sources"} =>
          /\ reported = {}
          /\ \A f \in UIFiles \ damaged :
                /\ ui[f] # uiFound[f] <=> f \in applied
                /\ f \in DOMAIN journal <=> f \in applied
                /\ f \in applied => journal[f] = uiFound[f]
    /\ ChangedIsReported

LEMMA WriteHooksKeeps ==
    ASSUME PassTypeOK, PassInv, NEW f \in todo, WriteHooks(f), passPc \in {"templates", "sources"}
    PROVE  PassTypeOK' /\ PassInv'
  <1>0. f \in UIFiles /\ f \notin applied /\ ui \in [UIFiles -> Contents]
    BY DEF PassTypeOK
  <1>1. PICK snapshot \in BOOLEAN, content \in Contents :
            /\ journal' = IF snapshot THEN Record(f, content) ELSE journal
            /\ ui' = [ui EXCEPT ![f] = content]
            /\ applied' = IF content = "hooked" THEN applied \cup {f} ELSE applied
            /\ damaged' = IF snapshot /\ content = "hooked" THEN damaged ELSE damaged \cup {f}
    BY DEF WriteHooks
  <1>2. UNCHANGED <<passPc, reported, uiFound, batchFailed>> /\ todo' = todo \ {f} /\ ui[f] = "plain"
    BY DEF WriteHooks
  <1>3. PassTypeOK'
    <2>1. ui' \in [UIFiles -> Contents] /\ applied' \subseteq UIFiles \ todo' /\ reported' \subseteq applied'
      BY <1>0, <1>1, <1>2 DEF PassTypeOK
    <2>2. DOMAIN journal' \subseteq UIFiles /\ \A g \in DOMAIN journal' : journal'[g] \in Contents
      BY <1>0, <1>1 DEF Record, PassTypeOK
    <2>3. QED
      BY <1>0, <1>1, <1>2, <2>1, <2>2 DEF PassTypeOK
  <1>4. ASSUME NEW g \in UIFiles \ damaged'
        PROVE  /\ ui'[g] # uiFound[g] <=> g \in applied'
               /\ g \in DOMAIN journal' <=> g \in applied'
               /\ g \in applied' => journal'[g] = uiFound[g]
    <2>1. CASE g = f
      <3>1. snapshot /\ content = "hooked" /\ g \notin damaged
        BY <1>1, <1>4, <2>1
      <3>2. ui[f] = uiFound[f] /\ ui'[f] = "hooked" /\ f \in applied'
        BY <1>0, <1>1, <2>1, <3>1 DEF PassInv
      <3>3. f \in DOMAIN journal' /\ journal'[f] = ui[f]
        BY <1>1, <3>1 DEF Record
      <3>4. QED
        BY <1>2, <2>1, <3>2, <3>3
    <2>2. CASE g # f
      <3>1. g \in UIFiles \ damaged /\ ui'[g] = ui[g] /\ (g \in applied' <=> g \in applied)
        BY <1>0, <1>1, <1>4, <2>2
      <3>2. /\ g \in DOMAIN journal' <=> g \in DOMAIN journal
            /\ g \in DOMAIN journal => journal'[g] = journal[g]
        BY <1>1, <2>2 DEF Record
      <3>3. QED
        BY <3>1, <3>2 DEF PassInv
    <2>3. QED
      BY <2>1, <2>2
  <1>5. QED
    BY <1>2, <1>3, <1>4 DEF PassInv, ChangedIsReported

LEMMA RollBackKeeps ==
    ASSUME PassTypeOK, PassInv, RollBack
    PROVE  PassTypeOK' /\ PassInv'
  <1>1. PICK new \in [UIFiles -> Contents] :
            /\ \A f \in UIFiles : new[f] \in Restored(f)
            /\ ui' = new
            /\ damaged' = damaged \cup {f \in DOMAIN journal : new[f] # journal[f]}
    BY DEF RollBack
  <1>2. /\ passPc = "sources" /\ passPc' = "passed"
        /\ UNCHANGED <<todo, journal, applied, reported, uiFound, batchFailed>>
    BY DEF RollBack
  <1>3. PassTypeOK'
    BY <1>1, <1>2 DEF PassTypeOK
  <1>4. ASSUME NEW f \in UIFiles \ damaged'
        PROVE  ui'[f] = uiFound[f]
    <2>1. f \in UIFiles \ damaged /\ (f \in DOMAIN journal => new[f] = journal[f])
      BY <1>1, <1>4
    <2>2. CASE f \in DOMAIN journal
      BY <1>1, <1>2, <2>1, <2>2 DEF PassInv
    <2>3. CASE f \notin DOMAIN journal
      <3>1. new[f] = ui[f]
        BY <1>1, <2>3 DEF Restored
      <3>2. QED
        BY <1>1, <1>2, <2>1, <2>3, <3>1 DEF PassInv
    <2>4. QED
      BY <2>2, <2>3
  <1>5. reported' = {} /\ uiFound' = uiFound
    BY <1>2 DEF PassInv
  <1>6. QED
    BY <1>2, <1>3, <1>4, <1>5 DEF PassInv, ChangedIsReported

LEMMA PassStepKeeps ==
    ASSUME PassTypeOK, PassInv, PassStep
    PROVE  PassTypeOK' /\ PassInv' /\ passPc # "idle" /\ passPc' # "idle"
  <1>1. ASSUME NEW f \in todo, LeaveFile(f), passPc \in {"templates", "sources"}
        PROVE  PassTypeOK' /\ PassInv'
    BY <1>1 DEF LeaveFile, PassTypeOK, PassInv, ChangedIsReported
  <1>2. CASE Template
    BY <1>1, <1>2, WriteHooksKeeps DEF Template, WriteHooks, LeaveFile
  <1>3. CASE Source
    BY <1>1, <1>3, WriteHooksKeeps DEF Source, WriteHooks, LeaveFile
  <1>4. CASE Batch
    BY <1>4 DEF Batch, PassTypeOK, PassInv, ChangedIsReported
  <1>5. CASE ReportApplied
    BY <1>5 DEF ReportApplied, PassTypeOK, PassInv, ChangedIsReported
  <1>6. CASE RollBack
    BY <1>6, RollBackKeeps DEF RollBack
  <1>7. QED
    BY <1>2, <1>3, <1>4, <1>5, <1>6 DEF PassStep

-----------------------------------------------------------------------------
(***************************************************************************)
(* The run around them: bootstrap and pass have locals only while the run  *)
(* is at them, so what its owner does to the tree between runs cannot be   *)
(* taken for what a run did.                                               *)
(***************************************************************************)
InTurn ==
    /\ bootPc # "idle" => stage = "bootstrap"
    /\ passPc # "idle" => stage \in {"hooks", "indexed"}

PrepInv == PrepTypeOK /\ TreeInv /\ RanInv /\ PassInv /\ InTurn

LEMMA BootKept ==
    ASSUME BootTypeOK, TreeInv, RanInv, UNCHANGED bootVars
    PROVE  BootTypeOK' /\ TreeInv' /\ RanInv'
  BY DEF bootVars, bootLocals, BootTypeOK, TreeInv, RanInv, InUse, Leftover, VerifiedMeansRan

LEMMA PassKept ==
    ASSUME PassTypeOK, PassInv, UNCHANGED passVars
    PROVE  PassTypeOK' /\ PassInv'
  BY DEF passVars, passLocals, PassTypeOK, PassInv, ChangedIsReported

LEMMA BootLeft ==
    ASSUME BootTypeOK, LeaveBootstrap, UNCHANGED <<lang, declared, present, contract>>
    PROVE  BootTypeOK' /\ TreeInv' /\ RanInv' /\ bootPc' = "idle"
  BY DEF LeaveBootstrap, BootTypeOK, TreeInv, RanInv, VerifiedMeansRan

\* the journal of a pass that has not begun
LEMMA EmptyJournal == DOMAIN <<>> = {}
  OBVIOUS

LEMMA PrepInitInv == PrepInit => PrepInv
  <1> SUFFICES ASSUME PrepInit
               PROVE  PrepInv
    OBVIOUS
  <1>1. BootTypeOK /\ TreeInv /\ RanInv
    BY PreparationAssumption DEF PrepInit, BootInit, BootTypeOK, TreeInv, RanInv, VerifiedMeansRan
  <1>2. PassTypeOK /\ PassInv
    <2>1. PassTypeOK
      BY EmptyJournal DEF PrepInit, PassInit, PassTypeOK, Contents
    <2>2. PassInv
      BY DEF PrepInit, PassInit, PassInv, ChangedIsReported
    <2>3. QED
      BY <2>1, <2>2
  <1>3. runs \in 0 .. MaxRuns /\ edits \in 0 .. MaxEdits
    BY PreparationAssumption DEF PrepInit
  <1>4. QED
    BY <1>1, <1>2, <1>3 DEF PrepInit, BootInit, PassInit, PrepInv, PrepTypeOK, InTurn

LEMMA PrepNextInv == PrepInv /\ [PrepNext]_prepVars => PrepInv'
  <1> SUFFICES ASSUME PrepInv, [PrepNext]_prepVars
               PROVE  PrepInv'
    OBVIOUS
  <1>0. BootTypeOK /\ TreeInv /\ RanInv /\ PassTypeOK /\ PassInv /\ ui \in [UIFiles -> Contents]
    BY DEF PrepInv, PrepTypeOK, PassTypeOK
  <1>1. CASE StartRun
    <2>1. BootTypeOK' /\ TreeInv' /\ RanInv'
      <3>1. bootPc = "idle"
        BY <1>1 DEF StartRun, PrepInv, InTurn
      <3>2. BootTypeOK'
        BY <1>0, <1>1 DEF StartRun, StartBootstrap, Goto, BootTypeOK
      <3>3. TreeInv' /\ RanInv'
        BY <1>1 DEF StartRun, StartBootstrap, Goto, TreeInv, RanInv, VerifiedMeansRan
      <3>4. QED
        BY <3>2, <3>3
    <2>2. PassTypeOK' /\ PassInv' /\ passPc' = passPc /\ passPc = "idle"
      BY <1>0, <1>1, PassKept DEF StartRun, passVars, passLocals, PrepInv, InTurn
    <2>3. runs' \in 0 .. MaxRuns /\ edits' \in 0 .. MaxEdits
      BY <1>1, PreparationAssumption DEF StartRun, PrepInv, PrepTypeOK
    <2>4. QED
      BY <1>0, <1>1, <2>1, <2>2, <2>3 DEF StartRun, PrepInv, PrepTypeOK, InTurn, database
  <1>2. CASE Bootstrap
    <2>1. BootTypeOK' /\ TreeInv' /\ RanInv'
      BY <1>0, <1>2, BootStepKeeps DEF Bootstrap
    <2>2. PassTypeOK' /\ PassInv' /\ passPc' = passPc
      BY <1>0, <1>2, PassKept DEF Bootstrap, passVars, passLocals
    <2>3. QED
      BY <1>2, <2>1, <2>2 DEF Bootstrap, PrepInv, PrepTypeOK, InTurn, runVars, database
  <1>3. CASE StartHooks
    <2>1. BootTypeOK' /\ TreeInv' /\ RanInv' /\ bootPc' = "idle"
      BY <1>0, <1>3, BootLeft DEF StartHooks
    <2>2. PassTypeOK' /\ PassInv'
      <3>1. PassTypeOK'
        BY <1>0, <1>3, EmptyJournal DEF StartHooks, StartPass, PassTypeOK
      <3>2. PassInv'
        BY <1>3 DEF StartHooks, StartPass, PassInv, ChangedIsReported
      <3>3. QED
        BY <3>1, <3>2
    <2>3. QED
      BY <1>3, <2>1, <2>2 DEF StartHooks, PrepInv, PrepTypeOK, InTurn, database
  <1>4. CASE Hooks
    <2>1. BootTypeOK' /\ TreeInv' /\ RanInv' /\ bootPc' = bootPc
      BY <1>0, <1>4, BootKept DEF Hooks, bootVars, bootLocals
    <2>2. PassTypeOK' /\ PassInv'
      BY <1>0, <1>4, PassStepKeeps DEF Hooks
    <2>3. QED
      BY <1>4, <2>1, <2>2 DEF Hooks, PrepInv, PrepTypeOK, InTurn, runVars, database
  <1>5. CASE Index
    <2>1. BootTypeOK' /\ TreeInv' /\ RanInv' /\ bootPc' = bootPc
      BY <1>0, <1>5, BootKept DEF Index, bootVars, bootLocals
    <2>2. PassTypeOK' /\ PassInv' /\ passPc' = passPc
      BY <1>0, <1>5, PassKept DEF Index, passVars, passLocals
    <2>3. stage = "hooks" /\ scanned \in [UIFiles -> Contents]
      BY <1>5 DEF Index, PrepInv, PrepTypeOK
    <2>4. /\ recorded' \in [UIFiles -> Contents \cup {None}]
          /\ derived' \in [UIFiles -> Contents \cup {None}]
      BY <1>0, <1>5, <2>3 DEF Index, PrepInv, PrepTypeOK
    <2>5. QED
      BY <1>5, <2>1, <2>2, <2>3, <2>4 DEF Index, PrepInv, PrepTypeOK, InTurn
  <1>6. CASE End
    <2>1. BootTypeOK' /\ TreeInv' /\ RanInv' /\ bootPc' = "idle"
      BY <1>0, <1>6, BootLeft DEF End
    <2>2. PassTypeOK' /\ PassInv' /\ passPc' = "idle"
      <3>1. PassTypeOK'
        BY <1>0, <1>6, EmptyJournal DEF End, LeavePass, PassTypeOK
      <3>2. PassInv' /\ passPc' = "idle"
        BY <1>6 DEF End, LeavePass, PassInv, ChangedIsReported
      <3>3. QED
        BY <3>1, <3>2
    <2>3. QED
      BY <1>6, <2>1, <2>2 DEF End, PrepInv, PrepTypeOK, InTurn, database
  <1>7. CASE Rework
    <2>1. bootPc = "idle" /\ passPc = "idle" /\ UNCHANGED <<bootLocals, passLocals, lang>>
      BY <1>7 DEF Rework, PrepInv, InTurn
    <2>2. present' \subseteq Instruments /\ declared' \in BOOLEAN
          /\ contract' \in {"none", "unverified", "verified"}
      BY <1>0, <1>7, PreparationAssumption DEF Rework, BootTypeOK
    <2>3. BootTypeOK' /\ TreeInv' /\ RanInv' /\ bootPc' = "idle"
      BY <1>0, <2>1, <2>2 DEF bootLocals, BootTypeOK, TreeInv, RanInv, VerifiedMeansRan
    <2>4. ui' \in [UIFiles -> Contents]
      BY <1>7 DEF Rework, Contents
    <2>5. PassTypeOK' /\ PassInv' /\ passPc' = "idle"
      BY <1>0, <2>1, <2>4 DEF passLocals, PassTypeOK, PassInv, ChangedIsReported
    <2>6. edits' \in 0 .. MaxEdits
      BY <1>7, PreparationAssumption DEF Rework, PrepInv, PrepTypeOK
    <2>7. QED
      BY <1>7, <2>3, <2>5, <2>6 DEF Rework, PrepInv, PrepTypeOK, InTurn, database
  <1>8. CASE UNCHANGED prepVars
    <2>1. BootTypeOK' /\ TreeInv' /\ RanInv' /\ bootPc' = bootPc
      BY <1>0, <1>8, BootKept DEF prepVars, bootVars, bootLocals
    <2>2. PassTypeOK' /\ PassInv' /\ passPc' = passPc
      BY <1>0, <1>8, PassKept DEF prepVars, passVars, passLocals
    <2>3. QED
      BY <1>8, <2>1, <2>2 DEF prepVars, runVars, database, PrepInv, PrepTypeOK, InTurn
  <1>9. QED
    BY <1>1, <1>2, <1>3, <1>4, <1>5, <1>6, <1>7, <1>8 DEF PrepNext

LEMMA PrepInvariant == PrepSpec => []PrepInv
  BY PrepInitInv, PrepNextInv, PTL DEF PrepSpec

\* Tree, contract, journal and index keep their types over any number of runs, kills and edits.
THEOREM PrepTypeCorrect == PrepSpec => []PrepTypeOK
  <1>1. PrepInv => PrepTypeOK
    BY DEF PrepInv
  <1>2. QED
    BY <1>1, PrepInvariant, PTL

(***************************************************************************)
(* Bootstrap leaves no instrument in someone else's build and takes no     *)
(* file of theirs away, on any of the ways its three languages return.     *)
(***************************************************************************)
THEOREM TreeLeftAsFound == PrepSpec => []TreeAsFound
  <1>1. PrepInv => TreeAsFound
    BY DEF PrepInv, TreeInv, InUse, TreeAsFound
  <1>2. QED
    BY <1>1, PrepInvariant, PTL

\* A test stack contract is written as verified only by a run that saw its smoke test pass.
THEOREM VerifiedStackRan == PrepSpec => []VerifiedMeansRan
  <1>1. PrepInv => VerifiedMeansRan
    BY DEF PrepInv, RanInv
  <1>2. QED
    BY <1>1, PrepInvariant, PTL

(***************************************************************************)
(* What the test-id pass reports is what it changed: all of it, and        *)
(* nothing after a rollback.                                               *)
(***************************************************************************)
THEOREM ChangesAreReported == PrepSpec => []ChangedIsReported
  <1>1. PrepInv => ChangedIsReported
    BY DEF PrepInv, PassInv
  <1>2. QED
    BY <1>1, PrepInvariant, PTL
=============================================================================
