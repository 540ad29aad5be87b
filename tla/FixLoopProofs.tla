---------------------------- MODULE FixLoopProofs ----------------------------
(***************************************************************************)
(* What the circuit breakers guarantee for every set of failures and       *)
(* sites, every budget and every threshold: where they stop the loop, that *)
(* they implement RepairLoop, and that the counters they read are what a   *)
(* log of the rounds would give.                                           *)
(***************************************************************************)
EXTENDS FixLoopHistory, FiniteSetTheorems, SequenceTheorems, TLAPS

LEMMA BudgetType == MaxAttempts \in Nat \ {0} /\ MaxRounds \in Nat \ {0}
  BY FixLoopAssumption

LEMMA TypeInit == Init => TypeOK
  <1> SUFFICES ASSUME Init
               PROVE  TypeOK
    OBVIOUS
  <1>1. round \in 0 .. MaxRounds /\ attempts \in 0 .. MaxAttempts
    BY BudgetType DEF Init
  <1>2. /\ current \in SUBSET Failures /\ last \in SUBSET Failures /\ seen \in SUBSET Failures
        /\ best \in SUBSET Nat
    BY Zenon DEF Init
  <1>3. streak \in Nat /\ recurrences \in Nat /\ noProgress \in Nat /\ stalled \in Nat /\ untouched \in Nat
    BY DEF Init
  <1>4. site \in Sites \cup {NoSite} /\ reason \in Reasons \cup {"none"}
    BY Zenon DEF Init
  <1>5. pc = "idle" /\ wrote = FALSE /\ enforced = FALSE /\ forced = FALSE
    BY DEF Init
  <1>6. QED
    BY <1>1, <1>2, <1>3, <1>4, <1>5 DEF TypeOK

LEMMA SiteIsASite ==
    ASSUME NEW f \in Failures
    PROVE  Site[f] \in Sites \cup {NoSite}
  BY DEF Sites

\* counting a round keeps the counters of checkFixLoopBreakers in their types
LEMMA CountRoundType ==
    ASSUME TypeOK, NEW f \in Failures, CountRound(f)
    PROVE  /\ last' \in SUBSET Failures /\ seen' \in SUBSET Failures
           /\ streak' \in Nat /\ recurrences' \in Nat /\ noProgress' \in Nat
           /\ best' \in SUBSET Nat
  <1>1. Magnitude[f] \in Nat
    BY FixLoopAssumption
  <1>2. recurrences' \in Nat
    BY DEF CountRound, RecurrencesAfter, TypeOK
  <1>3. noProgress' \in Nat /\ best' \in SUBSET Nat
    <2>1. TrackProgress(f)
      BY DEF CountRound
    <2>2. CASE f \in ParseBroken
      BY <2>1, <2>2 DEF TrackProgress, TypeOK
    <2>3. CASE f \notin ParseBroken /\ Improves(f)
      <3>1. best' = {Magnitude[f]} /\ noProgress' = 0
        BY <2>1, <2>3 DEF TrackProgress
      <3>2. QED
        BY <3>1, <1>1
    <2>4. CASE f \notin ParseBroken /\ ~Improves(f)
      <3>1. noProgress' = noProgress + 1 /\ best' = best
        BY <2>1, <2>4 DEF TrackProgress
      <3>2. QED
        BY <3>1 DEF TypeOK
    <2>5. QED
      BY <2>2, <2>3, <2>4
  <1>4. QED
    BY <1>2, <1>3 DEF CountRound, TypeOK

LEMMA TypeNext == TypeOK /\ [Next]_vars => TypeOK'
  <1> SUFFICES ASSUME TypeOK, [Next]_vars
               PROVE  TypeOK'
    OBVIOUS
  <1> USE DEF TypeOK
  <1>1. ASSUME NEW f \in Failures, StopsAtSite(f)
        PROVE  TypeOK'
    <2>1. round' \in 0 .. MaxRounds
      BY <1>1, BudgetType DEF StopsAtSite, CanAttempt
    <2>2. reason' \in Reasons
      BY <1>1 DEF StopsAtSite, Reasons
    <2>3. QED
      BY <1>1, <2>1, <2>2 DEF StopsAtSite, CanAttempt, breakers, siteVars
  <1>2. ASSUME NEW f \in Failures, BreakerTrips(f)
        PROVE  TypeOK'
    <2>1. reason' \in Reasons
      BY <1>2 DEF BreakerTrips, Fires, Reasons
    <2>2. CountRound(f)
      BY <1>2 DEF BreakerTrips
    <2>3. QED
      BY <1>2, <2>1, <2>2, CountRoundType, FixLoopAssumption DEF BreakerTrips, CanAttempt, siteVars
  <1>3. ASSUME NEW f \in Failures, Asks(f)
        PROVE  TypeOK'
    <2>1. CountRound(f)
      BY <1>3 DEF Asks
    <2>2. forced' \in BOOLEAN /\ enforced' \in BOOLEAN
      BY <1>3 DEF Asks, Forced
    <2>3. stalled' \in Nat
      BY <1>3 DEF Asks
    <2>4. round' \in 0 .. MaxRounds /\ attempts' \in 0 .. MaxAttempts /\ attempts' < MaxAttempts
      BY <1>3, FixLoopAssumption DEF Asks, CanAttempt
    <2>5. QED
      BY <1>3, <2>1, <2>2, <2>3, <2>4, CountRoundType DEF Asks
  <1>4. CASE WritesNothing
    BY <1>4 DEF WritesNothing, breakers, siteVars
  <1>5. ASSUME NEW f \in Failures, Writes(f)
        PROVE  TypeOK'
    <2>1. site' \in Sites \cup {NoSite} /\ untouched' \in Nat /\ enforced' \in BOOLEAN
      <3>1. CASE LeavesSite(f) /\ SiteStreakActive(f)
        BY <3>1 DEF LeavesSite
      <3>2. CASE LeavesSite(f) /\ ~SiteStreakActive(f)
        <4>1. site' = Site[f] /\ untouched' = 1 /\ enforced' = FALSE
          BY <3>2 DEF LeavesSite
        <4>2. Site[f] \in Sites \cup {NoSite}
          BY SiteIsASite
        <4>3. QED
          BY <4>1, <4>2
      <3>3. CASE TouchesSite
        BY <3>3 DEF TouchesSite
      <3>4. CASE UNCHANGED siteVars
        BY <3>4 DEF siteVars
      <3>5. QED
        BY <1>5, <3>1, <3>2, <3>3, <3>4 DEF Writes
    <2>2. attempts' \in 0 .. MaxAttempts
      BY <1>5, FixLoopAssumption DEF Writes
    <2>3. QED
      BY <1>5, <2>1, <2>2 DEF Writes, breakers
  <1>6. CASE UNCHANGED vars
    BY <1>6 DEF vars, breakers, siteVars
  <1>7. QED
    BY <1>1, <1>2, <1>3, <1>4, <1>5, <1>6 DEF Next, Diagnose, Answer

(***************************************************************************)
(* The counters and memories of a fix loop keep their types, and the       *)
(* rounds that write never exceed the repair budget (attemptCounter).      *)
(***************************************************************************)
THEOREM TypeCorrect == Spec => []TypeOK
  <1>1. Init => TypeOK
    BY TypeInit
  <1>2. TypeOK /\ [Next]_vars => TypeOK'
    BY TypeNext
  <1>3. QED
    BY <1>1, <1>2, PTL DEF Spec

-----------------------------------------------------------------------------
(***************************************************************************)
(* The strengthening: the enforcement flag is only ever up for a site the  *)
(* fixer may write, and nothing moves once the loop has stopped.           *)
(***************************************************************************)
EnforcedIsWritable == enforced => site \in Writable

StoppedIsIdle == Tripped => pc = "idle"

StopInv == EnforcedIsWritable /\ StoppedIsIdle /\ StopsOnlyWhereForced

LEMMA StopInit == Init => StopInv
  BY DEF Init, StopInv, EnforcedIsWritable, StoppedIsIdle, Tripped, StopsOnlyWhereForced

\* the round is forced only onto the blamed file, and only if it may write it
LEMMA ForcedIsWritable ==
    ASSUME NEW f, NEW widened, Forced(f, widened)
    PROVE  site \in Writable
  BY FixLoopAssumption DEF Forced, SiteStreakActive

LEMMA StopNext == StopInv /\ [Next]_vars => StopInv'
  <1> SUFFICES ASSUME StopInv, [Next]_vars
               PROVE  StopInv'
    OBVIOUS
  <1> USE DEF StopInv, EnforcedIsWritable, StoppedIsIdle, StopsOnlyWhereForced, Tripped
  <1>1. ASSUME NEW f \in Failures, StopsAtSite(f)
        PROVE  StopInv'
    BY <1>1 DEF StopsAtSite, CanAttempt, NeverTouched, siteVars
  <1>2. ASSUME NEW f \in Failures, BreakerTrips(f)
        PROVE  StopInv'
    <2>1. reason' # "fix_primary_site_never_touched"
      BY <1>2 DEF BreakerTrips, Fires
    <2>2. QED
      BY <1>2, <2>1 DEF BreakerTrips, CanAttempt, siteVars
  <1>3. ASSUME NEW f \in Failures, Asks(f)
        PROVE  StopInv'
    <2>1. reason' = "none"
      BY <1>3 DEF Asks, CanAttempt
    <2>2. enforced' => enforced \/ site \in Writable
      BY <1>3, ForcedIsWritable DEF Asks
    <2>3. QED
      BY <1>3, <2>1, <2>2 DEF Asks
  <1>4. CASE WritesNothing
    BY <1>4 DEF WritesNothing, siteVars
  <1>5. ASSUME NEW f \in Failures, Writes(f)
        PROVE  StopInv'
    <2>1. reason' = "none"
      BY <1>5 DEF Writes
    <2>2. enforced' => enforced /\ site' = site
      BY <1>5 DEF Writes, LeavesSite, TouchesSite, siteVars
    <2>3. QED
      BY <1>5, <2>1, <2>2 DEF Writes
  <1>6. CASE UNCHANGED vars
    BY <1>6 DEF vars, siteVars
  <1>7. QED
    BY <1>1, <1>2, <1>3, <1>4, <1>5, <1>6 DEF Next, Diagnose, Answer

(***************************************************************************)
(* fix_primary_site_never_touched ends a loop only over a file the fixer   *)
(* was allowed to write and was forced onto, after the configured number   *)
(* of rounds that left it untouched.                                       *)
(***************************************************************************)
THEOREM StopsFollowForce == Spec => []StopsOnlyWhereForced
  <1>1. Init => StopInv
    BY StopInit
  <1>2. StopInv /\ [Next]_vars => StopInv'
    BY StopNext
  <1>3. StopInv => StopsOnlyWhereForced
    BY DEF StopInv
  <1>4. QED
    BY <1>1, <1>2, <1>3, PTL DEF Spec

-----------------------------------------------------------------------------
(***************************************************************************)
(* The loop as the workflow sees it: what it has written, and whether it   *)
(* has tripped.                                                            *)
(***************************************************************************)
Repair == INSTANCE RepairLoop
            WITH writes <- attempts, stopped <- Tripped, Budget <- MaxAttempts

LEMMA RepairStep ==
    ASSUME TypeOK, StopInv, [Next]_vars
    PROVE  [Repair!Write \/ Repair!Trip]_Repair!loop
  <1> USE DEF Repair!loop, Repair!CanAttempt, Tripped
  <1>1. ASSUME NEW f \in Failures, StopsAtSite(f)
        PROVE  Repair!Trip
    BY <1>1 DEF StopsAtSite, CanAttempt, Repair!Trip
  <1>2. ASSUME NEW f \in Failures, BreakerTrips(f)
        PROVE  Repair!Trip
    BY <1>2 DEF BreakerTrips, CanAttempt, Repair!Trip
  <1>3. ASSUME NEW f \in Failures, Asks(f)
        PROVE  UNCHANGED Repair!loop
    BY <1>3 DEF Asks
  <1>4. CASE WritesNothing
    BY <1>4 DEF WritesNothing
  <1>5. ASSUME NEW f \in Failures, Writes(f)
        PROVE  Repair!Write
    BY <1>5 DEF Writes, TypeOK, StopInv, StoppedIsIdle, Repair!Write
  <1>6. CASE UNCHANGED vars
    BY <1>6 DEF vars
  <1>7. QED
    BY <1>1, <1>2, <1>3, <1>4, <1>5, <1>6 DEF Next, Diagnose, Answer

(***************************************************************************)
(* The loop implements RepairLoop: whatever the failures and the answers,  *)
(* it writes within its budget, and nothing it was asked before a breaker  *)
(* tripped writes after it.                                                *)
(***************************************************************************)
THEOREM ImplementsRepairLoop == Spec => Repair!Spec
  <1>1. Init => Repair!Init
    BY DEF Init, Repair!Init, Tripped
  <1>2. TypeOK /\ StopInv /\ [Next]_vars => [Repair!Write \/ Repair!Trip]_Repair!loop
    BY RepairStep
  <1>3. Spec => []StopInv
    BY StopInit, StopNext, PTL DEF Spec
  <1>4. QED
    BY <1>1, <1>2, <1>3, TypeCorrect, PTL DEF Spec, Repair!Spec

-----------------------------------------------------------------------------
(***************************************************************************)
(* The strengthening: a failure that stands at the repeat threshold with   *)
(* the loop still running had its round of grace, so the breaker will not  *)
(* be held back for it again.  While that round is being answered, this is *)
(* so because the site streak is enforced and the answer can only prolong  *)
(* it, end it or leave it.                                                 *)
(***************************************************************************)
Repeatable(f) == Site[f] \notin Writable \ Kept

GraceSpent(f) ==
    /\ ~Pending(f)
    /\ pc = "ask" => current = {f} /\ SiteStreakActive(f) /\ enforced

RepeatInv ==
    \A f \in last : Repeatable(f) =>
        /\ streak <= RepeatStop + 1
        /\ ~Tripped /\ streak >= RepeatStop => streak = RepeatStop /\ GraceSpent(f)

\* a round that reaches the threshold and goes on is the round of grace
LEMMA AskSpendsGrace ==
    ASSUME NEW f \in Failures, Asks(f), Repeatable(f), streak' >= RepeatStop
    PROVE  Pending(f) /\ enforced' /\ GraceSpent(f)'
  <1>1. Fires = "fix_loop_repeat"
    BY DEF Fires
  <1>2. Pending(f)
    BY <1>1 DEF Asks
  <1>3. Site[f] \in Kept /\ untouched >= EnforceAfter /\ SiteStreakActive(f)
    BY <1>2 DEF Pending, Repeatable
  <1>4. Site[f] \in Writable
    BY <1>2 DEF Pending
  <1>5. forced'
    BY <1>3, <1>4 DEF Asks, Forced
  <1>6. enforced' /\ current' = {f} /\ pc' = "ask" /\ site' = site /\ untouched' = untouched
    BY <1>5 DEF Asks
  <1>7. SiteStreakActive(f)'
    BY <1>3, <1>6 DEF SiteStreakActive
  <1>8. QED
    BY <1>2, <1>6, <1>7 DEF GraceSpent, Pending

LEMMA RepeatInit == Init => RepeatInv
  BY DEF Init, RepeatInv

LEMMA RepeatNext == TypeOK /\ RepeatInv /\ [Next]_vars => RepeatInv'
  <1> SUFFICES ASSUME TypeOK, RepeatInv, [Next]_vars
               PROVE  RepeatInv'
    OBVIOUS
  <1>0. RepeatStop \in Nat \ {0} /\ streak \in Nat
    BY FixLoopAssumption DEF TypeOK
  <1>1. ASSUME NEW f \in Failures, StopsAtSite(f)
        PROVE  RepeatInv'
    <2>1. Tripped' /\ UNCHANGED <<last, streak>>
      BY <1>1 DEF StopsAtSite, breakers, Tripped
    <2>2. QED
      BY <2>1 DEF RepeatInv, Repeatable
  <1>2. ASSUME NEW f \in Failures, BreakerTrips(f)
        PROVE  RepeatInv'
    <2>1. Tripped' /\ ~Tripped /\ last' = {f} /\ streak' = IF {f} = last THEN streak + 1 ELSE 1
      BY <1>2 DEF BreakerTrips, CanAttempt, CountRound, Tripped
    <2>2. SUFFICES ASSUME Repeatable(f)
                   PROVE  streak' <= RepeatStop + 1
      BY <2>1 DEF RepeatInv, Repeatable
    <2>3. {f} = last => streak <= RepeatStop
      BY <1>0, <2>1, <2>2 DEF RepeatInv
    <2>4. QED
      BY <1>0, <2>1, <2>3
  <1>3. ASSUME NEW f \in Failures, Asks(f)
        PROVE  RepeatInv'
    <2>1. ~Tripped /\ last' = {f} /\ streak' = IF {f} = last THEN streak + 1 ELSE 1
      BY <1>3 DEF Asks, CanAttempt, CountRound
    <2>2. SUFFICES ASSUME Repeatable(f)
                   PROVE  /\ streak' <= RepeatStop + 1
                          /\ streak' >= RepeatStop => streak' = RepeatStop /\ GraceSpent(f)'
      BY <2>1 DEF RepeatInv, Repeatable
    <2>3. {f} = last /\ streak >= RepeatStop => streak = RepeatStop /\ ~Pending(f)
      BY <2>1, <2>2 DEF RepeatInv, GraceSpent
    <2>4. streak' >= RepeatStop => Pending(f) /\ GraceSpent(f)'
      BY <1>3, <2>2, AskSpendsGrace
    <2>5. QED
      BY <1>0, <2>1, <2>3, <2>4
  <1>4. ASSUME Answer
        PROVE  RepeatInv'
    <2>1. pc = "ask" /\ pc' = "idle" /\ UNCHANGED <<last, streak, reason>>
      BY <1>4 DEF Answer, WritesNothing, Writes, breakers
    <2>2. SUFFICES ASSUME NEW f \in last, GraceSpent(f)
                   PROVE  ~Pending(f)'
      BY <2>1 DEF RepeatInv, Repeatable, Tripped, GraceSpent
    <2>3. current = {f} /\ SiteStreakActive(f) /\ enforced
      BY <2>1, <2>2 DEF GraceSpent
    <2>4. CASE WritesNothing
      BY <2>3, <2>4 DEF WritesNothing, siteVars, Pending
    <2>5. ASSUME NEW g \in Failures, Writes(g)
          PROVE  ~Pending(f)'
      <3>1. g = f
        BY <2>3, <2>5 DEF Writes
      <3>2. enforced' \/ untouched' = 0
        BY <2>3, <2>5, <3>1 DEF Writes, LeavesSite, TouchesSite, siteVars
      <3>3. QED
        BY <3>2 DEF Pending, SiteStreakActive
    <2>6. QED
      BY <1>4, <2>4, <2>5 DEF Answer
  <1>5. CASE UNCHANGED vars
    BY <1>5 DEF vars, breakers, siteVars, RepeatInv, Repeatable, GraceSpent, Pending, SiteStreakActive,
                Tripped
  <1>6. QED
    BY <1>1, <1>2, <1>3, <1>4, <1>5 DEF Next, Diagnose

(***************************************************************************)
(* Whatever the LLM answers, a failure narrowing can be forced on is put   *)
(* to the fixer at most once past the repeat threshold.                    *)
(***************************************************************************)
THEOREM RepeatsAreBounded == Spec => []RepeatsBounded
  <1>1. Init => RepeatInv
    BY RepeatInit
  <1>2. TypeOK /\ TypeOK' /\ RepeatInv /\ [Next]_vars => RepeatInv'
    BY RepeatNext
  <1>3. RepeatInv => RepeatsBounded
    BY DEF RepeatInv, RepeatsBounded, Repeatable
  <1>4. QED
    BY <1>1, <1>2, <1>3, TypeCorrect, PTL DEF Spec

-----------------------------------------------------------------------------
(***************************************************************************)
(* The log of FixLoopHistory: what a step does to it, and that the         *)
(* memories of FixLoopState are those of the log.                          *)
(***************************************************************************)
Entry == [f : Failures, held : BOOLEAN, forced : BOOLEAN, effect : Effects]

MemoryOfLog ==
    /\ log \in Seq(Entry)
    /\ last = IF log = <<>> THEN {} ELSE {log[Len(log)].f}
    /\ seen = {log[i].f : i \in Rounds}
    /\ pc = "ask" => log # <<>> /\ current = last /\ log[Len(log)].effect = "asked"

\* the log with one more round
Grown(r) ==
    /\ Len(log') = Len(log) + 1
    /\ Rounds' = 1 .. Len(log) + 1
    /\ \A i \in Rounds : log'[i] = log[i]
    /\ log'[Len(log) + 1] = r

\* the log with another effect of its last round
Amended ==
    /\ Len(log') = Len(log)
    /\ Rounds' = Rounds
    /\ \A i \in Rounds : /\ log'[i].f = log[i].f /\ log'[i].held = log[i].held
                         /\ log'[i].forced = log[i].forced
                         /\ i < Len(log) => log'[i] = log[i]

LEMMA LogRounds ==
    ASSUME log \in Seq(Entry)
    PROVE  /\ Len(log) \in Nat /\ Rounds = 1 .. Len(log)
           /\ \A i \in Rounds : log[i] \in Entry
           /\ log = <<>> <=> Len(log) = 0
  BY DEF Rounds

LEMMA LogGrows ==
    ASSUME log \in Seq(Entry), NEW r \in Entry, log' = Append(log, r)
    PROVE  log' \in Seq(Entry) /\ Grown(r)
  <1>1. /\ log' \in Seq(Entry) /\ Len(log') = Len(log) + 1
        /\ \A i \in 1 .. Len(log) : log'[i] = log[i]
        /\ log'[Len(log) + 1] = r
    BY AppendProperties
  <1>2. Rounds' = 1 .. Len(log) + 1 /\ Rounds = 1 .. Len(log)
    BY <1>1, LenProperties DEF Rounds
  <1>3. QED
    BY <1>1, <1>2 DEF Grown

LEMMA LogAmended ==
    ASSUME log \in Seq(Entry), log # <<>>, NEW e \in Effects,
           log' = [log EXCEPT ![Len(log)].effect = e]
    PROVE  log' \in Seq(Entry) /\ Amended /\ log'[Len(log)].effect = e
  <1> DEFINE n == Len(log)
             r == [log[n] EXCEPT !.effect = e]
  <1>1. n \in 1 .. Len(log) /\ log[n] \in Entry
    BY LogRounds
  <1>2. /\ r \in Entry /\ r.f = log[n].f /\ r.held = log[n].held /\ r.forced = log[n].forced
        /\ r.effect = e
    BY <1>1 DEF Entry
  <1>3. log' = [log EXCEPT ![n] = r]
    OBVIOUS
  <1> HIDE DEF r, n
  <1>4. /\ log' \in Seq(Entry) /\ Len(log') = Len(log)
        /\ \A j \in 1 .. Len(log) : log'[j] = IF j = n THEN r ELSE log[j]
    BY <1>1, <1>2, <1>3, ExceptSeq
  <1>5. Rounds' = Rounds /\ Rounds = 1 .. Len(log)
    BY <1>4, LenProperties DEF Rounds
  <1>6. Len(log) \in Nat
    BY LogRounds
  <1>7. QED
    BY <1>1, <1>2, <1>4, <1>5, <1>6 DEF Amended, n

\* a round that is counted is logged, with what the counters said before it
LEMMA MemoryGrows ==
    ASSUME MemoryOfLog, NEW r \in Entry, log' = Append(log, r), CountRound(r.f),
           pc' = "ask" => current' = {r.f} /\ r.effect = "asked"
    PROVE  MemoryOfLog'
  <1>1. log' \in Seq(Entry) /\ Grown(r) /\ Len(log) \in Nat /\ Rounds = 1 .. Len(log)
    BY LogGrows, LogRounds DEF MemoryOfLog
  <1>2. log' # <<>> /\ last' = {log'[Len(log')].f}
    BY <1>1 DEF Grown, CountRound
  <1>3. seen' = {log'[i].f : i \in Rounds'}
    <2>1. seen' = {log[i].f : i \in Rounds} \cup {r.f}
      BY DEF CountRound, MemoryOfLog
    <2>2. QED
      BY <1>1, <2>1 DEF Grown
  <1>4. QED
    BY <1>1, <1>2, <1>3 DEF MemoryOfLog, Grown

LEMMA MemoryInit == HistoryInit => MemoryOfLog
  BY DEF HistoryInit, Init, MemoryOfLog, Rounds

LEMMA EffectIsAnEffect == Effect \in Effects
  BY DEF Effect, Effects

LEMMA MemoryNext ==
    TypeOK' /\ MemoryOfLog /\ [HistoryNext]_historyVars => MemoryOfLog'
  <1> SUFFICES ASSUME TypeOK', MemoryOfLog, [HistoryNext]_historyVars
               PROVE  MemoryOfLog'
    OBVIOUS
  <1>1. ASSUME NEW f \in Failures, StopsAtSite(f), UNCHANGED log
        PROVE  MemoryOfLog'
    BY <1>1 DEF StopsAtSite, CanAttempt, breakers, MemoryOfLog, Rounds
  <1>2. ASSUME NEW f \in Failures, NEW held \in BOOLEAN, Logged(f, held), CountRound(f),
               pc' = "ask" => current' = {f}
        PROVE  MemoryOfLog'
    <2> DEFINE r == [f |-> f, held |-> held, forced |-> forced', effect |-> "asked"]
    <2>1. r \in Entry /\ log' = Append(log, r) /\ r.f = f /\ r.effect = "asked"
      BY <1>2 DEF Entry, Effects, TypeOK, Logged
    <2> HIDE DEF r
    <2>2. QED
      BY <1>2, <2>1, MemoryGrows
  <1>3. CASE Answer /\ log' = [log EXCEPT ![Len(log)].effect = Effect]
    <2>1. pc = "ask" /\ pc' = "idle" /\ UNCHANGED <<last, seen>>
      BY <1>3 DEF Answer, WritesNothing, Writes, breakers
    <2>2. log' \in Seq(Entry) /\ Amended
      BY <1>3, <2>1, EffectIsAnEffect, LogAmended DEF MemoryOfLog
    <2>3. log # <<>> /\ Len(log) \in Rounds /\ log' # <<>>
      BY <2>1, <2>2, LogRounds DEF MemoryOfLog, Amended
    <2>4. QED
      BY <2>1, <2>2, <2>3 DEF MemoryOfLog, Amended
  <1>4. CASE UNCHANGED historyVars
    BY <1>4 DEF historyVars, vars, breakers, MemoryOfLog, Rounds
  <1>5. ASSUME NEW f \in Failures, BreakerTrips(f)
        PROVE  CountRound(f) /\ pc' # "ask"
    BY <1>5 DEF BreakerTrips, CanAttempt
  <1>6. ASSUME NEW f \in Failures, Asks(f)
        PROVE  CountRound(f) /\ current' = {f} /\ (Fires # "none") \in BOOLEAN
    BY <1>6 DEF Asks
  <1>7. QED
    BY <1>1, <1>2, <1>3, <1>4, <1>5, <1>6 DEF HistoryNext

\* the log is only looked on: a step of FixLoopHistory is a step of FixLoop
LEMMA HistoryIsSpec == HistorySpec => Spec
  <1>1. HistoryInit => Init
    BY DEF HistoryInit
  <1>2. [HistoryNext]_historyVars => [Next]_vars
    BY DEF HistoryNext, historyVars, Next, Diagnose
  <1>3. QED
    BY <1>1, <1>2, PTL DEF HistorySpec, Spec

LEMMA MemoryCorrect == HistorySpec => []MemoryOfLog
  <1>1. HistoryInit => MemoryOfLog
    BY MemoryInit
  <1>2. TypeOK' /\ MemoryOfLog /\ [HistoryNext]_historyVars => MemoryOfLog'
    BY MemoryNext
  <1>3. HistorySpec => []TypeOK
    BY HistoryIsSpec, TypeCorrect
  <1>4. QED
    BY <1>1, <1>2, <1>3, PTL DEF HistorySpec

-----------------------------------------------------------------------------
(***************************************************************************)
(* The counters, round by round.  best is the magnitude of the first round *)
(* with the smallest one, and a round that does not beat it joins those    *)
(* that came after.                                                        *)
(***************************************************************************)
BestMatchesLog ==
    /\ Attributed = {} => best = {}
    /\ Attributed # {} => \E b \in Attributed : IsBest(b) /\ best = {Magnitude[log[b].f]}

CounterInv == CountersMatchLog /\ BestMatchesLog

LEMMA SetsOfRoundsAreFinite ==
    ASSUME log \in Seq(Entry)
    PROVE  IsFiniteSet(TrailingRun) /\ IsFiniteSet(Returns) /\ IsFiniteSet(Unimproved)
  <1>1. IsFiniteSet(Rounds)
    BY LogRounds, FS_Interval
  <1>2. Returns \subseteq Rounds /\ TrailingRun \subseteq Rounds /\ Unimproved \subseteq Rounds
    BY DEF Returns, TrailingRun, Unimproved, Attributed
  <1>3. QED
    BY <1>1, <1>2, FS_Subset

LEMMA MagnitudeIsNat ==
    ASSUME log \in Seq(Entry), NEW i \in Rounds
    PROVE  log[i].f \in Failures /\ Magnitude[log[i].f] \in Nat
  BY LogRounds, FixLoopAssumption DEF Entry

LEMMA OneBest ==
    ASSUME log \in Seq(Entry), NEW b, NEW d, IsBest(b), IsBest(d)
    PROVE  b = d
  <1>1. b \in Rounds /\ d \in Rounds /\ b \in Nat /\ d \in Nat
    BY LogRounds DEF IsBest, Attributed
  <1>2. Magnitude[log[b].f] \in Nat /\ Magnitude[log[d].f] \in Nat
    BY <1>1, MagnitudeIsNat
  <1>3. Magnitude[log[b].f] <= Magnitude[log[d].f] /\ Magnitude[log[d].f] <= Magnitude[log[b].f]
    BY DEF IsBest
  <1>4. ~(d < b) /\ ~(b < d)
    BY <1>2, <1>3 DEF IsBest
  <1>5. QED
    BY <1>1, <1>4

LEMMA UnimprovedSinceBest ==
    log \in Seq(Entry) => \A d : IsBest(d) => Unimproved = {i \in Attributed : d < i}
  BY OneBest DEF Unimproved, IsBest

LEMMA UnimprovedSinceBestNext ==
    (log \in Seq(Entry) => \A d : IsBest(d) => Unimproved = {i \in Attributed : d < i})'
  BY UnimprovedSinceBest, PTL

\* streak and lastSignature
LEMMA StreakGrows ==
    ASSUME MemoryOfLog, CountersMatchLog, NEW r \in Entry, log' = Append(log, r), CountRound(r.f)
    PROVE  streak' = Cardinality(TrailingRun')
  <1> DEFINE n == Len(log)
  <1>1. Grown(r) /\ n \in Nat /\ Rounds = 1 .. n /\ (log = <<>> <=> n = 0)
    BY LogGrows, LogRounds DEF MemoryOfLog
  <1>2. TrailingRun' = {i \in 1 .. n + 1 : \A j \in i .. n + 1 : log'[j].f = r.f}
    BY <1>1 DEF Grown, TrailingRun
  <1>3. CASE {r.f} = last
    <2>0. log # <<>> /\ {r.f} = {log[n].f}
      BY <1>3 DEF MemoryOfLog
    <2>1. n \in Rounds /\ log[n].f = r.f
      BY <1>1, <2>0
    <2>2. TrailingRun' = TrailingRun \cup {n + 1}
      BY <1>1, <1>2, <2>1 DEF Grown, TrailingRun
    <2>3. n + 1 \notin TrailingRun
      BY <1>1 DEF TrailingRun
    <2>4. Cardinality(TrailingRun') = Cardinality(TrailingRun) + 1
      BY <2>2, <2>3, SetsOfRoundsAreFinite, FS_AddElement DEF MemoryOfLog
    <2>5. QED
      BY <1>3, <2>4 DEF CountersMatchLog, CountRound
  <1>4. CASE {r.f} # last
    <2>1. n # 0 => n \in Rounds /\ log[n].f # r.f
      BY <1>1, <1>4 DEF MemoryOfLog
    <2>2. TrailingRun' = {n + 1}
      <3>1. n + 1 \in TrailingRun'
        BY <1>1, <1>2 DEF Grown
      <3>2. ASSUME NEW i \in TrailingRun'
            PROVE  i = n + 1
        <4>1. i \in 1 .. n => n \in i .. n + 1 /\ log'[n].f = log[n].f
          BY <1>1 DEF Grown
        <4>2. QED
          BY <1>1, <1>2, <2>1, <4>1
      <3>3. QED
        BY <3>1, <3>2
    <2>3. QED
      BY <1>4, <2>2, FS_Singleton DEF CountRound
  <1>5. QED
    BY <1>3, <1>4

\* recurrences and the signatures seen
LEMMA ReturnsGrow ==
    ASSUME MemoryOfLog, CountersMatchLog, NEW r \in Entry, log' = Append(log, r), CountRound(r.f)
    PROVE  recurrences' = Cardinality(Returns')
  <1> DEFINE n == Len(log)
  <1>1. Grown(r) /\ n \in Nat /\ Rounds = 1 .. n
    BY LogGrows, LogRounds DEF MemoryOfLog
  <1>2. r.f \in seen <=> \E j \in 1 .. n : log[j].f = r.f
    BY <1>1 DEF MemoryOfLog
  <1>3. n > 0 => ({r.f} # last <=> r.f # log[n].f)
    BY <1>1 DEF MemoryOfLog
  <1>4. \A i \in Rounds : i \in Returns' <=> i \in Returns
    BY <1>1 DEF Grown, Returns
  <1>5. n + 1 \in Returns' <=> {r.f} # last /\ r.f \in seen
    <2>1. n + 1 \in Returns' <=>
              n > 0 /\ r.f # log'[n].f /\ \E j \in 1 .. n : log'[j].f = r.f
      BY <1>1 DEF Grown, Returns
    <2>2. QED
      BY <1>1, <1>2, <1>3, <2>1 DEF Grown
  <1>6. Returns \subseteq Rounds /\ Returns' \subseteq Rounds \cup {n + 1} /\ n + 1 \notin Returns
    <2>1. Rounds' = Rounds \cup {n + 1}
      BY <1>1 DEF Grown
    <2>2. QED
      BY <1>1, <2>1 DEF Returns
  <1>7. CASE {r.f} # last /\ r.f \in seen
    <2>1. Returns' = Returns \cup {n + 1}
      BY <1>4, <1>5, <1>6, <1>7
    <2>2. Cardinality(Returns') = Cardinality(Returns) + 1
      BY <1>6, <2>1, SetsOfRoundsAreFinite, FS_AddElement DEF MemoryOfLog
    <2>3. QED
      BY <1>7, <2>2 DEF CountersMatchLog, CountRound, RecurrencesAfter
  <1>8. CASE ~({r.f} # last /\ r.f \in seen)
    <2>1. Returns' = Returns
      BY <1>4, <1>5, <1>6, <1>8
    <2>2. QED
      BY <1>8, <2>1 DEF CountersMatchLog, CountRound, RecurrencesAfter
  <1>9. QED
    BY <1>7, <1>8

\* bestMagnitude and the rounds that did not beat it
LEMMA ProgressGrows ==
    ASSUME MemoryOfLog, CounterInv, NEW r \in Entry, log' = Append(log, r), CountRound(r.f)
    PROVE  noProgress' = Cardinality(Unimproved') /\ BestMatchesLog'
  <1> DEFINE m == Magnitude[r.f]
  <1>0. PICK n \in Nat : n = Len(log)
    BY LogRounds DEF MemoryOfLog
  <1>1. /\ Rounds = 1 .. n /\ Rounds' = 1 .. n + 1
        /\ \A i \in Rounds : log'[i] = log[i]
        /\ log'[n + 1] = r
        /\ log' \in Seq(Entry) /\ log \in Seq(Entry)
    BY <1>0, LogGrows, LogRounds DEF MemoryOfLog, Grown
  <1>2. Attributed' = IF r.f \in ParseBroken THEN Attributed ELSE Attributed \cup {n + 1}
    <2>1. Attributed' = {i \in Rounds \cup {n + 1} : log'[i].f \notin ParseBroken}
      <3>1. Rounds' = Rounds \cup {n + 1}
        BY <1>0, <1>1
      <3>2. QED
        BY <3>1 DEF Attributed
    <2>2. n + 1 \notin Rounds
      BY <1>1
    <2>3. QED
      BY <1>1, <2>1, <2>2 DEF Attributed
  <1>3. Attributed \subseteq Rounds /\ \A i \in Attributed : log'[i] = log[i]
    BY <1>1 DEF Attributed
  <1>4. m \in Nat /\ \A i \in Attributed : Magnitude[log[i].f] \in Nat
    BY <1>1, <1>3, MagnitudeIsNat, FixLoopAssumption DEF Entry
  <1>5. /\ n + 1 \in Attributed' => log'[n + 1] = r
        /\ n + 1 \notin Attributed
        /\ \A i \in Attributed : i \in Nat /\ i < n + 1
    BY <1>1, <1>3
  <1> HIDE DEF m
  <1>6. TrackProgress(r.f)
    BY DEF CountRound
  <1>7. CASE r.f \in ParseBroken
    <2>1. Attributed' = Attributed /\ \A i : IsBest(i)' <=> IsBest(i)
      BY <1>2, <1>3, <1>7 DEF IsBest
    <2>2. Unimproved' = Unimproved
      BY <2>1 DEF Unimproved
    <2>3. QED
      BY <1>3, <1>6, <1>7, <2>1, <2>2 DEF TrackProgress, CounterInv, CountersMatchLog, BestMatchesLog
  <1>8. CASE r.f \notin ParseBroken /\ Improves(r.f)
    <2>1. best' = {m} /\ noProgress' = 0
      BY <1>6, <1>8 DEF TrackProgress, m
    <2>2. ASSUME NEW i \in Attributed
          PROVE  m < Magnitude[log[i].f]
      <3>1. PICK b \in Attributed : IsBest(b) /\ best = {Magnitude[log[b].f]}
        BY <2>2 DEF CounterInv, BestMatchesLog
      <3>2. m < Magnitude[log[b].f] /\ Magnitude[log[b].f] <= Magnitude[log[i].f]
        BY <1>8, <3>1 DEF Improves, IsBest, m
      <3>3. QED
        BY <1>4, <3>2
    <2>3. IsBest(n + 1)'
      <3>1. n + 1 \in Attributed' /\ Magnitude[log'[n + 1].f] = m
        BY <1>2, <1>5, <1>8 DEF m
      <3>2. ASSUME NEW j \in Attributed'
            PROVE  /\ m <= Magnitude[log'[j].f]
                   /\ j < n + 1 => m < Magnitude[log'[j].f]
        <4>1. CASE j \in Attributed
          <5>1. log'[j] = log[j] /\ m < Magnitude[log[j].f] /\ Magnitude[log[j].f] \in Nat
            BY <1>3, <1>4, <2>2, <4>1
          <5>2. QED
            BY <1>4, <5>1
        <4>2. CASE j = n + 1
          BY <1>0, <1>4, <3>1, <4>2
        <4>3. QED
          BY <1>2, <1>8, <4>1, <4>2
      <3>3. QED
        BY <3>1, <3>2 DEF IsBest
    <2>4. Unimproved' = {i \in Attributed' : n + 1 < i}
      BY <1>1, <2>3, UnimprovedSinceBestNext
    <2>5. Unimproved' = {}
      BY <1>2, <1>5, <2>4
    <2>6. BestMatchesLog'
      <3>1. n + 1 \in Attributed' /\ best' = {Magnitude[log'[n + 1].f]}
        BY <1>2, <1>5, <1>8, <2>1 DEF m
      <3>2. QED
        BY <2>3, <3>1 DEF BestMatchesLog
    <2>7. QED
      BY <2>1, <2>5, <2>6, FS_EmptySet
  <1>9. CASE r.f \notin ParseBroken /\ ~Improves(r.f)
    <2>1. best' = best /\ noProgress' = noProgress + 1
      BY <1>6, <1>9 DEF TrackProgress
    <2>2. PICK b \in Attributed : IsBest(b) /\ best = {Magnitude[log[b].f]}
      BY <1>9 DEF Improves, CounterInv, BestMatchesLog
    <2>3. Magnitude[log[b].f] <= m
      BY <1>4, <1>9, <2>2 DEF Improves, m
    <2>4. IsBest(b)'
      <3>1. b \in Attributed' /\ log'[b] = log[b] /\ b < n + 1 /\ b \in Nat
        BY <1>2, <1>3, <1>5, <2>2
      <3>2. ASSUME NEW j \in Attributed'
            PROVE  /\ Magnitude[log'[b].f] <= Magnitude[log'[j].f]
                   /\ j < b => Magnitude[log'[b].f] < Magnitude[log'[j].f]
        <4>1. CASE j \in Attributed
          BY <1>3, <2>2, <3>1, <4>1 DEF IsBest
        <4>2. CASE j = n + 1
          <5>1. Magnitude[log'[j].f] = m
            BY <1>2, <1>5, <1>9, <4>2 DEF m
          <5>2. QED
            BY <2>3, <3>1, <4>2, <5>1
        <4>3. QED
          BY <1>2, <1>9, <4>1, <4>2
      <3>3. QED
        BY <3>1, <3>2 DEF IsBest
    <2>5. Unimproved = {i \in Attributed : b < i} /\ Unimproved' = {i \in Attributed' : b < i}
      BY <1>1, <2>2, <2>4, UnimprovedSinceBest, UnimprovedSinceBestNext
    <2>6. Unimproved' = Unimproved \cup {n + 1} /\ n + 1 \notin Unimproved
      BY <1>2, <1>5, <1>9, <2>2, <2>5
    <2>7. Cardinality(Unimproved') = Cardinality(Unimproved) + 1
      BY <1>1, <2>6, SetsOfRoundsAreFinite, FS_AddElement
    <2>8. b \in Attributed' /\ best' = {Magnitude[log'[b].f]}
      BY <1>2, <1>3, <2>1, <2>2
    <2>9. QED
      BY <2>1, <2>4, <2>7, <2>8 DEF CounterInv, CountersMatchLog, BestMatchesLog
  <1>10. QED
    BY <1>7, <1>8, <1>9

LEMMA CountersKept ==
    ASSUME CounterInv, UNCHANGED breakers, Len(log') = Len(log), Rounds' = Rounds,
           log \in Seq(Entry), \A i \in Rounds : log'[i].f = log[i].f
    PROVE  CounterInv'
  <1>0. Len(log) \in Nat /\ Rounds = 1 .. Len(log)
    BY LogRounds
  <1>1. TrailingRun' = TrailingRun
    BY <1>0 DEF TrailingRun
  <1>2. Returns' = Returns
    BY <1>0 DEF Returns
  <1>3. Attributed' = Attributed /\ Attributed \subseteq Rounds
    BY DEF Attributed
  <1>4. \A i : IsBest(i)' <=> IsBest(i)
    BY <1>3 DEF IsBest
  <1>5. Unimproved' = Unimproved
    BY <1>3, <1>4 DEF Unimproved
  <1>6. QED
    BY <1>1, <1>2, <1>3, <1>4, <1>5 DEF CounterInv, CountersMatchLog, BestMatchesLog, breakers

LEMMA CounterInit == HistoryInit => CounterInv
  <1> SUFFICES ASSUME HistoryInit
               PROVE  CounterInv
    OBVIOUS
  <1>1. Rounds = {}
    BY DEF HistoryInit, Rounds
  <1>2. TrailingRun = {} /\ Returns = {} /\ Attributed = {} /\ Unimproved = {}
    BY <1>1 DEF TrailingRun, Returns, Attributed, Unimproved
  <1>3. QED
    BY <1>2, FS_EmptySet DEF HistoryInit, Init, CounterInv, CountersMatchLog, BestMatchesLog

LEMMA CounterNext ==
    TypeOK' /\ MemoryOfLog /\ CounterInv /\ [HistoryNext]_historyVars => CounterInv'
  <1> SUFFICES ASSUME TypeOK', MemoryOfLog, CounterInv, [HistoryNext]_historyVars
               PROVE  CounterInv'
    OBVIOUS
  <1>0. log \in Seq(Entry)
    BY DEF MemoryOfLog
  <1>1. ASSUME NEW f \in Failures, StopsAtSite(f), UNCHANGED log
        PROVE  CounterInv'
    <2>1. UNCHANGED breakers /\ Rounds' = Rounds
      BY <1>1 DEF StopsAtSite, Rounds
    <2>2. QED
      BY <1>0, <1>1, <2>1, CountersKept
  <1>2. ASSUME NEW f \in Failures, NEW held \in BOOLEAN, Logged(f, held), CountRound(f)
        PROVE  CounterInv'
    <2> DEFINE r == [f |-> f, held |-> held, forced |-> forced', effect |-> "asked"]
    <2>1. r \in Entry /\ log' = Append(log, r) /\ r.f = f
      BY <1>2 DEF Entry, Effects, TypeOK, Logged
    <2> HIDE DEF r
    <2>2. CountRound(r.f) /\ CountersMatchLog
      BY <1>2, <2>1 DEF CounterInv
    <2>3. QED
      BY <2>1, <2>2, StreakGrows, ReturnsGrow, ProgressGrows DEF CounterInv, CountersMatchLog
  <1>3. CASE Answer /\ log' = [log EXCEPT ![Len(log)].effect = Effect]
    <2>1. pc = "ask" /\ UNCHANGED breakers
      BY <1>3 DEF Answer, WritesNothing, Writes
    <2>2. Amended
      BY <1>3, <2>1, EffectIsAnEffect, LogAmended DEF MemoryOfLog
    <2>3. QED
      BY <1>0, <2>1, <2>2, CountersKept DEF Amended
  <1>4. CASE UNCHANGED historyVars
    <2>1. UNCHANGED breakers /\ Rounds' = Rounds /\ log' = log
      BY <1>4 DEF historyVars, vars, Rounds
    <2>2. QED
      BY <1>0, <2>1, CountersKept
  <1>5. ASSUME NEW f \in Failures, BreakerTrips(f)
        PROVE  CountRound(f)
    BY <1>5 DEF BreakerTrips
  <1>6. ASSUME NEW f \in Failures, Asks(f)
        PROVE  CountRound(f) /\ (Fires # "none") \in BOOLEAN
    BY <1>6 DEF Asks
  <1>7. QED
    BY <1>1, <1>2, <1>3, <1>4, <1>5, <1>6 DEF HistoryNext

(***************************************************************************)
(* streak, recurrences and noProgress, which FixLoopState updates one      *)
(* round at a time and which decide when a loop is stopped, are what their *)
(* comments say they count in the log of all the rounds.                   *)
(***************************************************************************)
THEOREM CountersCount == HistorySpec => []CountersMatchLog
  <1>1. HistoryInit => CounterInv
    BY CounterInit
  <1>2. TypeOK' /\ MemoryOfLog /\ CounterInv /\ [HistoryNext]_historyVars => CounterInv'
    BY CounterNext
  <1>3. CounterInv => CountersMatchLog
    BY DEF CounterInv
  <1>4. HistorySpec => []TypeOK
    BY HistoryIsSpec, TypeCorrect
  <1>5. QED
    BY <1>1, <1>2, <1>3, <1>4, MemoryCorrect, PTL DEF HistorySpec

-----------------------------------------------------------------------------
(***************************************************************************)
(* Grace, round by round.  A round a breaker was held back for leaves the  *)
(* site enforced, and while it is, no breaker is held back for that site:  *)
(* the enforcement ends only with a write that starts the streak over.     *)
(***************************************************************************)
HadGrace(i) == log[i].held /\ Site[log[i].f] \in Kept

StillEnforced(i) == enforced /\ site = Site[log[i].f] /\ untouched > 0

GraceInv ==
    /\ GraceIsOneRound
    /\ \A i \in Rounds : HadGrace(i) =>
           StillEnforced(i) \/ \E k \in i .. Len(log) : StartsOver(k, i)

\* a breaker is held back only for a round that then is forced, on a site not enforced before
LEMMA HeldIsForced ==
    ASSUME NEW f \in Failures, Asks(f), Fires # "none"
    PROVE  /\ ~enforced /\ site = Site[f] /\ untouched > 0 /\ UNCHANGED <<site, untouched>>
           /\ Site[f] \in Kept => forced' /\ enforced'
  <1>1. Pending(f)
    BY DEF Asks
  <1>2. Site[f] \in Kept => forced'
    BY <1>1, FixLoopAssumption DEF Asks, Pending, Forced
  <1>3. QED
    BY <1>1, <1>2 DEF Asks, Pending, SiteStreakActive

LEMMA GraceGrows ==
    ASSUME MemoryOfLog, GraceInv, TypeOK, NEW r \in Entry, log' = Append(log, r),
           UNCHANGED <<site, untouched>>, enforced => enforced',
           r.held => /\ ~enforced /\ site = Site[r.f] /\ untouched > 0
                     /\ Site[r.f] \in Kept => r.forced /\ enforced'
    PROVE  GraceInv'
  <1>0. PICK n \in Nat : n = Len(log)
    BY LogRounds DEF MemoryOfLog
  <1>1. /\ Rounds = 1 .. n /\ Len(log') = n + 1 /\ Rounds' = Rounds \cup {n + 1}
        /\ \A i \in Rounds : log'[i] = log[i]
        /\ log'[n + 1] = r
    <2>1. Grown(r) /\ Rounds = 1 .. n
      BY <1>0, LogGrows, LogRounds DEF MemoryOfLog
    <2>2. QED
      BY <1>0, <2>1 DEF Grown
  <1>2. \A i, k \in Rounds : StartsOver(k, i)' <=> StartsOver(k, i)
    BY <1>1 DEF StartsOver, SameSite
  <1>3. ASSUME NEW i \in Rounds, HadGrace(i)
        PROVE  StillEnforced(i)' \/ \E k \in i .. n : StartsOver(k, i)'
    <2>1. CASE StillEnforced(i)
      BY <1>1, <2>1 DEF StillEnforced
    <2>2. CASE \E k \in i .. n : StartsOver(k, i)
      BY <1>1, <1>2, <2>2
    <2>3. QED
      BY <1>0, <1>3, <2>1, <2>2 DEF GraceInv
  <1>4. ASSUME NEW i \in Rounds, HadGrace(i), r.held, Site[log[i].f] = Site[r.f]
        PROVE  \E k \in i .. n : StartsOver(k, i)'
    BY <1>0, <1>1, <1>2, <1>4 DEF GraceInv, StillEnforced
  <1>5. GraceIsOneRound'
    <2>1. SUFFICES ASSUME NEW i \in Rounds', HadGrace(i)'
                   PROVE  /\ log'[i].forced
                          /\ \A j \in i + 1 .. n + 1 : log'[j].held /\ SameSite(i, j)' =>
                                 \E k \in i .. j - 1 : StartsOver(k, i)'
      BY <1>1 DEF GraceIsOneRound, HadGrace
    <2>2. CASE i \in Rounds
      <3>1. HadGrace(i) /\ log'[i] = log[i]
        BY <1>1, <2>1, <2>2 DEF HadGrace
      <3>2. log'[i].forced
        BY <2>2, <3>1 DEF GraceInv, GraceIsOneRound, HadGrace
      <3>3. ASSUME NEW j \in i + 1 .. n, log'[j].held, SameSite(i, j)'
            PROVE  \E k \in i .. j - 1 : StartsOver(k, i)'
        <4>1. j \in Rounds /\ log'[j] = log[j] /\ i .. j - 1 \subseteq Rounds
          BY <1>1, <2>2
        <4>2. log[j].held /\ SameSite(i, j)
          BY <3>1, <3>3, <4>1 DEF SameSite
        <4>3. PICK k \in i .. j - 1 : StartsOver(k, i)
          BY <1>0, <2>2, <3>1, <4>1, <4>2 DEF GraceInv, GraceIsOneRound, HadGrace
        <4>4. QED
          BY <1>2, <2>2, <4>1, <4>3
      <3>4. ASSUME log'[n + 1].held, SameSite(i, n + 1)'
            PROVE  \E k \in i .. n : StartsOver(k, i)'
        BY <1>1, <1>4, <2>2, <3>1, <3>4 DEF SameSite
      <3>5. i + 1 .. n + 1 \subseteq (i + 1 .. n) \cup {n + 1}
        BY <1>1, <2>2
      <3>6. ASSUME NEW j \in i + 1 .. n + 1, log'[j].held, SameSite(i, j)'
            PROVE  \E k \in i .. j - 1 : StartsOver(k, i)'
        <4>1. CASE j \in i + 1 .. n
          BY <3>3, <3>6, <4>1
        <4>2. CASE j = n + 1
          <5>1. log'[n + 1].held /\ SameSite(i, n + 1)' /\ i .. j - 1 = i .. n
            BY <1>0, <3>6, <4>2 DEF SameSite
          <5>2. QED
            BY <3>4, <5>1
        <4>3. QED
          BY <3>5, <4>1, <4>2
      <3>7. QED
        BY <3>2, <3>6
    <2>3. CASE i = n + 1
      <3>1. i + 1 .. n + 1 = {}
        BY <2>3
      <3>2. log'[i].forced
        BY <1>1, <2>1, <2>3 DEF HadGrace
      <3>3. QED
        BY <3>1, <3>2
    <2>4. QED
      BY <1>1, <2>1, <2>2, <2>3
  <1>6. ASSUME NEW i \in Rounds', HadGrace(i)'
        PROVE  StillEnforced(i)' \/ \E k \in i .. n + 1 : StartsOver(k, i)'
    <2>1. CASE i \in Rounds
      BY <1>1, <1>3, <1>6, <2>1 DEF HadGrace
    <2>2. CASE i = n + 1
      BY <1>1, <1>6, <2>2 DEF HadGrace, StillEnforced
    <2>3. QED
      BY <1>1, <2>1, <2>2
  <1>7. QED
    BY <1>1, <1>5, <1>6 DEF GraceInv

\* the answer ends the enforcement only by what it is logged to have done
LEMMA AnswerEndsEnforcement ==
    ASSUME TypeOK, NEW f \in Failures, Writes(f), NEW s, s # NoSite,
           enforced /\ site = s /\ untouched > 0
    PROVE  \/ enforced' /\ site' = s /\ untouched' > 0
           \/ Effect = "touched"
           \/ Effect = "untouched" /\ Site[f] # s
  <1>0. untouched \in Nat /\ wrote' = TRUE
    BY DEF TypeOK, Writes
  <1>1. CASE LeavesSite(f) /\ SiteStreakActive(f)
    BY <1>0, <1>1 DEF LeavesSite
  <1>2. CASE LeavesSite(f) /\ ~SiteStreakActive(f) /\ Site[f] # NoSite
    <2>1. Site[f] # s
      BY <1>2 DEF SiteStreakActive
    <2>2. site' = Site[f] /\ untouched' = 1
      BY <1>2 DEF LeavesSite
    <2>3. siteVars' # siteVars
      BY <2>1, <2>2 DEF siteVars
    <2>4. QED
      BY <1>0, <2>1, <2>2, <2>3 DEF Effect
  <1>3. CASE TouchesSite
    BY <1>0, <1>3 DEF TouchesSite, Effect
  <1>4. CASE UNCHANGED siteVars
    BY <1>4 DEF siteVars
  <1>5. QED
    BY <1>1, <1>2, <1>3, <1>4 DEF Writes

LEMMA GraceAmended ==
    ASSUME MemoryOfLog, GraceInv, TypeOK, Answer, log' = [log EXCEPT ![Len(log)].effect = Effect]
    PROVE  GraceInv'
  <1>0. PICK n \in Nat : n = Len(log)
    BY LogRounds DEF MemoryOfLog
  <1>1. pc = "ask"
    BY DEF Answer, WritesNothing, Writes
  <1>2. /\ Rounds = 1 .. n /\ Len(log') = n /\ Rounds' = Rounds /\ n \in Rounds
        /\ \A i \in Rounds : /\ log'[i].f = log[i].f /\ log'[i].held = log[i].held
                             /\ log'[i].forced = log[i].forced
                             /\ i < n => log'[i] = log[i]
        /\ log'[n].effect = Effect
    <2>1. Amended /\ log'[Len(log)].effect = Effect
      BY <1>1, EffectIsAnEffect, LogAmended DEF MemoryOfLog
    <2>2. Rounds = 1 .. n /\ n # 0
      BY <1>0, <1>1, LogRounds DEF MemoryOfLog
    <2>3. QED
      BY <1>0, <2>1, <2>2 DEF Amended
  <1>3. log[n].effect = "asked" /\ current = {log[n].f}
    BY <1>0, <1>1 DEF MemoryOfLog
  <1>4. \A i, k \in Rounds : StartsOver(k, i) => StartsOver(k, i)'
    <2>1. \A i \in Rounds : ~StartsOver(n, i)
      BY <1>3 DEF StartsOver
    <2>2. \A i, k \in Rounds : SameSite(k, i)' <=> SameSite(k, i)
      BY <1>2 DEF SameSite
    <2>3. \A k \in Rounds : k # n => log'[k].effect = log[k].effect
      BY <1>2
    <2>4. QED
      BY <2>1, <2>2, <2>3 DEF StartsOver
  <1>5. \A i \in Rounds : HadGrace(i)' <=> HadGrace(i)
    BY <1>2 DEF HadGrace
  <1>6. GraceIsOneRound'
    <2>1. SUFFICES ASSUME NEW i \in Rounds, HadGrace(i)
                   PROVE  /\ log'[i].forced
                          /\ \A j \in i + 1 .. n : log'[j].held /\ SameSite(i, j)' =>
                                 \E k \in i .. j - 1 : StartsOver(k, i)'
      BY <1>2, <1>5 DEF GraceIsOneRound, HadGrace
    <2>2. log'[i].forced
      BY <1>2, <2>1 DEF GraceInv, GraceIsOneRound, HadGrace
    <2>3. ASSUME NEW j \in i + 1 .. n, log'[j].held, SameSite(i, j)'
          PROVE  \E k \in i .. j - 1 : StartsOver(k, i)'
      <3>1. j \in Rounds /\ i .. j - 1 \subseteq Rounds
        BY <1>2, <2>1
      <3>2. log[j].held /\ SameSite(i, j)
        BY <1>2, <2>3, <3>1 DEF SameSite
      <3>3. PICK k \in i .. j - 1 : StartsOver(k, i)
        BY <1>0, <2>1, <3>1, <3>2 DEF GraceInv, GraceIsOneRound, HadGrace
      <3>4. QED
        BY <1>4, <3>1, <3>3
    <2>4. QED
      BY <2>2, <2>3
  <1>7. ASSUME NEW i \in Rounds, HadGrace(i)
        PROVE  StillEnforced(i)' \/ \E k \in i .. n : StartsOver(k, i)'
    <2>1. CASE \E k \in i .. n : StartsOver(k, i)
      BY <1>2, <1>4, <2>1
    <2>2. CASE StillEnforced(i)
      <3>1. n \in i .. n /\ log'[i].f = log[i].f /\ Site[log[i].f] # NoSite
        BY <1>2, <1>7, FixLoopAssumption DEF HadGrace
      <3>2. CASE WritesNothing
        BY <2>2, <3>1, <3>2 DEF WritesNothing, siteVars, StillEnforced
      <3>3. ASSUME NEW f \in Failures, Writes(f)
            PROVE  StillEnforced(i)' \/ StartsOver(n, i)'
        <4>1. f = log[n].f /\ log'[n].f = log[n].f
          BY <1>2, <1>3, <3>3 DEF Writes
        <4>2. \/ enforced' /\ site' = Site[log[i].f] /\ untouched' > 0
              \/ Effect = "touched"
              \/ Effect = "untouched" /\ Site[f] # Site[log[i].f]
          BY <2>2, <3>1, <3>3, AnswerEndsEnforcement DEF StillEnforced
        <4>3. QED
          BY <1>2, <3>1, <4>1, <4>2 DEF StillEnforced, StartsOver, SameSite
      <3>4. QED
        BY <3>1, <3>2, <3>3 DEF Answer
    <2>3. QED
      BY <1>0, <1>7, <2>1, <2>2 DEF GraceInv
  <1>8. QED
    BY <1>2, <1>5, <1>6, <1>7 DEF GraceInv

LEMMA GraceNext ==
    TypeOK /\ TypeOK' /\ MemoryOfLog /\ GraceInv /\ [HistoryNext]_historyVars => GraceInv'
  <1> SUFFICES ASSUME TypeOK, TypeOK', MemoryOfLog, GraceInv, [HistoryNext]_historyVars
               PROVE  GraceInv'
    OBVIOUS
  <1>1. ASSUME UNCHANGED <<siteVars, log>>
        PROVE  GraceInv'
    BY <1>1 DEF siteVars, GraceInv, GraceIsOneRound, HadGrace, StillEnforced, StartsOver, SameSite, Rounds
  <1>2. ASSUME NEW f \in Failures, BreakerTrips(f), Logged(f, FALSE)
        PROVE  GraceInv'
    <2> DEFINE r == [f |-> f, held |-> FALSE, forced |-> forced', effect |-> "asked"]
    <2>1. r \in Entry /\ log' = Append(log, r) /\ r.held = FALSE
      BY <1>2 DEF Entry, Effects, TypeOK, Logged
    <2>2. UNCHANGED <<site, untouched, enforced>>
      BY <1>2 DEF BreakerTrips, siteVars
    <2> HIDE DEF r
    <2>3. QED
      BY <2>1, <2>2, GraceGrows
  <1>3. ASSUME NEW f \in Failures, Asks(f), Logged(f, Fires # "none")
        PROVE  GraceInv'
    <2> DEFINE r == [f |-> f, held |-> Fires # "none", forced |-> forced', effect |-> "asked"]
    <2>1. /\ r \in Entry /\ log' = Append(log, r)
          /\ r.f = f /\ r.held = (Fires # "none") /\ r.forced = forced'
      BY <1>3 DEF Entry, Effects, TypeOK, Logged
    <2>2. UNCHANGED <<site, untouched>> /\ enforced' = (enforced \/ forced')
      BY <1>3 DEF Asks
    <2> HIDE DEF r
    <2>3. r.held => /\ ~enforced /\ site = Site[r.f] /\ untouched > 0
                    /\ Site[r.f] \in Kept => r.forced /\ enforced'
      BY <1>3, <2>1, HeldIsForced
    <2>4. QED
      BY <2>1, <2>2, <2>3, GraceGrows
  <1>4. ASSUME NEW f \in Failures, StopsAtSite(f), UNCHANGED log
        PROVE  UNCHANGED <<siteVars, log>>
    BY <1>4 DEF StopsAtSite
  <1>5. CASE UNCHANGED historyVars
    BY <1>1, <1>5 DEF historyVars, vars
  <1>6. QED
    BY <1>1, <1>2, <1>3, <1>4, <1>5, GraceAmended DEF HistoryNext

LEMMA GraceInit == HistoryInit => GraceInv
  BY DEF HistoryInit, GraceInv, GraceIsOneRound, Rounds

(***************************************************************************)
(* enforcementPending lets a loop past its breakers for one round, which   *)
(* is forced onto the blamed file; it does so again for that site only     *)
(* after a write that reached the file, or one about another site.         *)
(***************************************************************************)
THEOREM OneRoundOfGrace == HistorySpec => []GraceIsOneRound
  <1>1. HistoryInit => GraceInv
    BY GraceInit
  <1>2. TypeOK /\ TypeOK' /\ MemoryOfLog /\ GraceInv /\ [HistoryNext]_historyVars => GraceInv'
    BY GraceNext
  <1>3. GraceInv => GraceIsOneRound
    BY DEF GraceInv
  <1>4. HistorySpec => []TypeOK
    BY HistoryIsSpec, TypeCorrect
  <1>5. QED
    BY <1>1, <1>2, <1>3, <1>4, MemoryCorrect, PTL DEF HistorySpec
=============================================================================
