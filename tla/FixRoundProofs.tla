--------------------------- MODULE FixRoundProofs ---------------------------
(***************************************************************************)
(* Proofs about FixRound.  The copies of the run's own writable files are  *)
(* never cut, which makes the coverage gate bind for them; a widened round *)
(* that enforcement did not narrow leaves nothing to widen after it; and   *)
(* no file changes but in a round that RepairLoop allows to write.         *)
(***************************************************************************)
EXTENDS FixRound, TLAPS

\* a widened round offers the whole page, unless enforcement collapsed it
WidenedIsWhole == widened /\ ~forced => ~narrowed

IInv == TypeOK /\ OfferedInFull /\ NamedStaysWritable /\ WidenedIsWhole

\* The first round has not begun: nothing is offered yet.
LEMMA InitIInv == ASSUME Init PROVE IInv
<1>1. TypeOK
  <2>1. disk \in [Files -> 0 .. MaxTests]
    <3>1. 1 .. MaxTests \subseteq 0 .. MaxTests
      BY FixRoundAssumption
    <3>. QED
      BY <3>1 DEF Init
  <2>2. 0 \in 0 .. MaxRounds /\ 0 \in 0 .. MaxAttempts
    BY FixRoundAssumption
  <2>3. DOMAIN shown = {}
    BY DEF Init, NoCopies
  <2>. QED
    BY <2>1, <2>2, <2>3 DEF Init, TypeOK
<1>2. OfferedInFull /\ NamedStaysWritable /\ WidenedIsWhole
  BY DEF Init, OfferedInFull, NamedStaysWritable, WidenedIsWhole
<1>. QED
  BY <1>1, <1>2 DEF IInv

\* What a round offers lies within what it reads, is named if it can be, and is not empty of names.
LEMMA ScopeWithinPage ==
    ASSUME NEW step \in Steps, NEW page
    PROVE  /\ Scope(step, page) \subseteq page
           /\ page \cap Named(step) \subseteq Scope(step, page)
           /\ widened' => Scope(step, page) = page
  BY DEF Scope

\* The request: the prompt holds the run's writable files uncut, and narrowing kept what is named.
LEMMA AsksKeepsIInv == ASSUME IInv, NEW step \in Steps, Asks(step) PROVE IInv'
<1>. USE FixRoundAssumption DEF Asks
<1>1. /\ cited' \subseteq Files /\ failing' \subseteq Files /\ unrun' \subseteq failing'
      /\ (cited' \cup failing') = Named(step)
  BY DEF Named, Steps
<1>2. toRead' \subseteq Generated \cup Baseline /\ Generated \subseteq toRead'
  BY DEF Adopted
<1>. DEFINE scope == Scope(step, toRead')
<1>3. /\ scope \subseteq toRead' /\ toRead' \cap Named(step) \subseteq scope
      /\ widened' => scope = toRead'
  BY ScopeWithinPage
<1>4. /\ writable' \subseteq scope
      /\ forced' \in BOOLEAN /\ narrowed' \in BOOLEAN
      /\ ~forced' => writable' = scope /\ narrowed' = (scope # toRead')
  BY DEF Enforce
<1>5. PICK shed \in SUBSET Sheddable, cut \in BOOLEAN :
        shown' = [f \in (toRead' \cup cited') \ shed |-> IF cut /\ Sliced(f) THEN 0 ELSE disk[f]]
  <2>1. PICK shed \in (IF Escalated THEN {Sheddable} ELSE SUBSET Sheddable), cut \in BOOLEAN :
          shown' = [f \in (toRead' \cup cited') \ shed |-> IF cut /\ Sliced(f) THEN 0 ELSE disk[f]]
    <3>1. Show
      OBVIOUS
    <3>. HIDE DEF Asks
    <3>. QED
      BY <3>1, Zenon DEF Show
  <2>2. shed \in SUBSET Sheddable
    OBVIOUS
  <2>. QED
    BY <2>1, <2>2
<1>6. /\ DOMAIN shown' \subseteq Files
      /\ \A f \in DOMAIN shown' : shown'[f] \in 0 .. MaxTests
  BY <1>1, <1>2, <1>5 DEF Files, IInv, TypeOK
<1>7. widened' \in BOOLEAN
  BY DEF Widens, IInv, TypeOK
<1>8. TypeOK'
  <2>1. round' \in 0 .. MaxRounds /\ attempts' \in 0 .. MaxAttempts /\ attempts' < MaxAttempts
    BY DEF CanAttempt, IInv, TypeOK
  <2>2. disk' \in [Files -> 0 .. MaxTests] /\ rewritten' \subseteq Files
    BY DEF IInv, TypeOK
  <2>. QED
    BY <1>1, <1>2, <1>3, <1>4, <1>6, <1>7, <2>1, <2>2 DEF TypeOK
<1>9. OfferedInFull'
  <2>. SUFFICES ASSUME NEW f \in writable' \cap Generated
                PROVE  f \in DOMAIN shown' /\ shown'[f] = disk[f]
    BY DEF OfferedInFull
  <2>1. f \in (toRead' \cup cited') \ shed /\ ~Sliced(f)
    BY <1>3, <1>4, <1>5 DEF Sheddable, Sliced
  <2>. QED
    BY <1>5, <2>1
<1>10. NamedStaysWritable'
  BY <1>1, <1>3, <1>4 DEF NamedStaysWritable
<1>11. WidenedIsWhole'
  BY <1>3, <1>4 DEF WidenedIsWhole
<1>. QED
  BY <1>8, <1>9, <1>10, <1>11 DEF IInv

\* The end of a round drops the request and keeps the contents within their bounds.
LEMMA EndKeepsIInv ==
    ASSUME IInv, EndsRound,
           disk' \in [Files -> 0 .. MaxTests], attempts' \in 0 .. MaxAttempts, rewritten' \subseteq Files
    PROVE  IInv'
<1>1. TypeOK'
  BY FixRoundAssumption DEF EndsRound, IInv, TypeOK, NoCopies
<1>2. OfferedInFull' /\ NamedStaysWritable' /\ WidenedIsWhole'
  BY DEF EndsRound, IInv, OfferedInFull, NamedStaysWritable, WidenedIsWhole
<1>. QED
  BY <1>1, <1>2 DEF IInv

LEMMA WritesNothingKeepsIInv == ASSUME IInv, WritesNothing PROVE IInv'
<1>1. disk' \in [Files -> 0 .. MaxTests] /\ attempts' \in 0 .. MaxAttempts /\ rewritten' \subseteq Files
  BY DEF WritesNothing, IInv, TypeOK
<1>. QED
  BY <1>1, EndKeepsIInv DEF WritesNothing

LEMMA WritesKeepsIInv == ASSUME IInv, Writes PROVE IInv'
<1>1. PICK files \in SUBSET (UNION {Targets(n) : n \in Names} \cap Files) :
        \E tests \in [files -> 0 .. MaxTests] :
        /\ disk' = [f \in Files |-> IF f \in files THEN tests[f] ELSE disk[f]]
        /\ rewritten' = files \cap cited
  BY DEF Writes
<1>2. disk' \in [Files -> 0 .. MaxTests] /\ rewritten' \subseteq Files
  BY <1>1 DEF IInv, TypeOK
<1>3. attempts' \in 0 .. MaxAttempts
  BY FixRoundAssumption DEF Writes, EndsRound, IInv, TypeOK
<1>. QED
  BY <1>2, <1>3, EndKeepsIInv DEF Writes

\* A step that changes nothing keeps the invariant.
LEMMA StutterKeepsIInv == ASSUME IInv, UNCHANGED vars PROVE IInv'
<1>1. TypeOK' /\ WidenedIsWhole'
  BY DEF IInv, TypeOK, WidenedIsWhole, vars, failureVars, scopeVars
<1>2. OfferedInFull' /\ NamedStaysWritable'
  BY DEF IInv, OfferedInFull, NamedStaysWritable, vars, failureVars, scopeVars
<1>. QED
  BY <1>1, <1>2 DEF IInv

\* IInv is inductive.
THEOREM IInvAlways == Spec => []IInv
<1>1. IInv /\ [Next]_vars => IInv'
  BY AsksKeepsIInv, WritesNothingKeepsIInv, WritesKeepsIInv, StutterKeepsIInv DEF Next
<1>. QED
  BY InitIInv, <1>1, PTL DEF Spec

\* What is offered is in scope and the counters are within their bounds.
THEOREM TypeCorrect == Spec => []TypeOK
<1>1. IInv => TypeOK
  BY DEF IInv
<1>. QED
  BY IInvAlways, <1>1, PTL

\* A file of this run that may be written is shown as it is on disk.
THEOREM AlwaysOfferedInFull == Spec => []OfferedInFull
<1>1. IInv => OfferedInFull
  BY DEF IInv
<1>. QED
  BY IInvAlways, <1>1, PTL

\* What keeps failing stays writable unless the round is forced onto one file.
THEOREM AlwaysNamedStaysWritable == Spec => []NamedStaysWritable
<1>1. IInv => NamedStaysWritable
  BY DEF IInv
<1>. QED
  BY IInvAlways, <1>1, PTL

\* What lands in a file of this run that was offered declares at least the tests it had.
LEMMA GateBinds ==
    ASSUME IInv, [Next]_vars,
           NEW f \in writable \cap Generated, pc = "asked", ~AllowReduction, f \notin unrun
    PROVE  disk'[f] >= disk[f]
<1>1. f \in Files /\ disk[f] \in Nat
  BY FixRoundAssumption DEF Files, IInv, TypeOK
<1>2. CASE Writes
  <2>1. PICK files \in SUBSET (UNION {Targets(n) : n \in Names} \cap Files) :
          \E tests \in [files -> 0 .. MaxTests] :
          /\ \A g \in files : Accepted(g, tests[g])
          /\ disk' = [g \in Files |-> IF g \in files THEN tests[g] ELSE disk[g]]
    BY <1>2 DEF Writes
  <2>4. PICK tests \in [files -> 0 .. MaxTests] :
          /\ \A g \in files : Accepted(g, tests[g])
          /\ disk' = [g \in Files |-> IF g \in files THEN tests[g] ELSE disk[g]]
    BY <2>1
  <2>2. CASE f \in files
    <3>1. ~FewerRefused(f, tests[f]) /\ tests[f] \in Nat
      BY <2>4, <2>2 DEF Accepted
    <3>2. f \in DOMAIN shown /\ shown[f] = disk[f]
      BY DEF IInv, OfferedInFull
    <3>. QED
      BY <1>1, <2>4, <2>2, <3>1, <3>2 DEF FewerRefused
  <2>3. CASE f \notin files
    BY <1>1, <2>4, <2>3
  <2>. QED
    BY <2>2, <2>3
<1>3. CASE WritesNothing \/ UNCHANGED vars \/ \E step \in Steps : Asks(step)
  BY <1>1, <1>3 DEF WritesNothing, vars, Asks
<1>. QED
  BY <1>2, <1>3 DEF Next

\* No reply takes tests away from a file of this run it was offered.
THEOREM AlwaysOfferedTestsKept == Spec => OfferedTestsKept
<1>1. IInv /\ [Next]_vars =>
        [\A f \in writable \cap Generated :
            pc = "asked" /\ ~AllowReduction /\ f \notin unrun => disk'[f] >= disk[f]]_vars
  BY GateBinds
<1>. QED
  BY IInvAlways, <1>1, PTL DEF Spec, OfferedTestsKept

\* A widened round follows a narrowed one, and a widened round only one that was forced.
LEMMA WidensAfterNarrowed ==
    ASSUME IInv, [Next]_vars, pc = "idle", pc' = "asked", widened'
    PROVE  narrowed /\ (widened => forced)
<1>1. \E step \in Steps : Asks(step)
  BY DEF Next, WritesNothing, Writes, EndsRound, vars
<1>2. narrowed
  BY <1>1 DEF Asks, Widens
<1>. QED
  BY <1>2 DEF IInv, WidenedIsWhole

\* Widening lasts one round.
THEOREM AlwaysWideningIsOneRound == Spec => WideningIsOneRound
<1>1. IInv /\ [Next]_vars =>
        [pc = "idle" /\ pc' = "asked" /\ widened' => narrowed /\ (widened => forced)]_vars
  BY WidensAfterNarrowed
<1>. QED
  BY IInvAlways, <1>1, PTL DEF Spec, WideningIsOneRound
-----------------------------------------------------------------------------
(***************************************************************************)
(* The rounds against RepairLoop.  What trips a breaker is FixLoop's, and  *)
(* a loop here ends by its budgets alone.                                  *)
(***************************************************************************)
Repair == INSTANCE RepairLoop WITH writes <- attempts, stopped <- FALSE, Budget <- MaxAttempts

LEMMA RoundRepairs ==
    ASSUME IInv, [Next]_vars
    PROVE  /\ [Repair!Write \/ Repair!Trip]_Repair!loop
           /\ disk' # disk => Repair!Write
<1>. USE DEF Repair!loop
<1>1. ASSUME NEW step \in Steps, Asks(step)
      PROVE  UNCHANGED <<attempts, disk>>
  BY <1>1 DEF Asks
<1>2. CASE WritesNothing
  BY <1>2 DEF WritesNothing
<1>3. CASE Writes
  BY <1>3 DEF Writes, EndsRound, IInv, TypeOK, Repair!Write, Repair!CanAttempt
<1>4. CASE UNCHANGED vars
  BY <1>4 DEF vars
<1>. QED
  BY <1>1, <1>2, <1>3, <1>4 DEF Next

(***************************************************************************)
(* Whatever the model answers, the files on disk change only in a round    *)
(* that is charged to the repair budget, and only while one is left.       *)
(***************************************************************************)
WritesAreCharged == [][disk' # disk => Repair!Write]_vars

\* The rounds implement RepairLoop, and what they write is one of its writes.
THEOREM RoundsImplementRepairLoop == Spec => Repair!Spec /\ WritesAreCharged
<1>1. Init => Repair!Init
  BY DEF Init, Repair!Init
<1>2. IInv /\ [Next]_vars =>
        /\ [Repair!Write \/ Repair!Trip]_Repair!loop
        /\ [disk' # disk => Repair!Write]_vars
  BY RoundRepairs
<1>. QED
  BY IInvAlways, <1>1, <1>2, PTL DEF Spec, Repair!Spec, WritesAreCharged
=============================================================================
