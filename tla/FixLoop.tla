------------------------------- MODULE FixLoop -------------------------------
(***************************************************************************)
(* The circuit breakers of one fix loop: FixLoopState of                   *)
(* internal/evaluator/workflow.go over the rounds of one step of one       *)
(* evaluation.  A round is a call of applyLLMFix: the failure it is handed *)
(* is diagnosed first (primary-site stop, then checkFixLoopBreakers), and  *)
(* unless that stops the loop the LLM is asked, whose answer updates the   *)
(* memory the next diagnosis reads.  Evaluation knows of all this that a   *)
(* breaker may trip, which RepairLoop states.                              *)
(***************************************************************************)
EXTENDS Naturals, FiniteSets

CONSTANTS
    Failures,        \* what fixLoopSignature tells apart
    NoSite,          \* a failure without a usable primary location
    Site,            \* [Failures -> identity of the blamed site, or NoSite]
    Magnitude,       \* [Failures -> Nat], fixLoopErrorMagnitude
    ParseBroken,     \* failures whose primary diagnostic is a parse failure
    Writable,        \* sites whose file is among the paths the round may write
    Kept,            \* those whose file narrowing to the failure's citations keeps
    MaxAttempts,     \* the repair budget of the step
    MaxRounds,       \* the iteration budget: one round per iteration
    RepeatStop, RecurrenceStop, NoProgressStop   \* configured thresholds

EnforceAfter == 2    \* EnforcePrimarySiteAfterUntouchedRounds
StopAfter == 3       \* StopPrimarySiteAfterUntouchedRounds
StalledStop == 3     \* FixLoopStalledWritesStopThreshold

Sites == {Site[f] : f \in Failures} \ {NoSite}

ASSUME FixLoopAssumption ==
    /\ DOMAIN Site = Failures
    /\ Magnitude \in [Failures -> Nat]
    /\ ParseBroken \subseteq Failures
    /\ Kept \subseteq Writable /\ NoSite \notin Writable
    /\ {MaxAttempts, MaxRounds, RepeatStop, RecurrenceStop, NoProgressStop} \subseteq Nat \ {0}

VARIABLES
    pc,                       \* "idle" between rounds, "ask" while the LLM is asked
    round, attempts,          \* rounds begun; rounds that wrote (attemptCounter)
    current,                  \* the failure of this round
    last, streak,             \* lastSignature ({} before the first), streak
    seen, recurrences,        \* signatures seen; returns to one after another
    best, noProgress,         \* bestMagnitude ({} = unknown); rounds that did not beat it
    wrote, stalled,           \* whether the last banked round wrote; stalledWriteStreak
    site, untouched,          \* the streak's site identity and its length
    enforced,                 \* primarySiteEnforced
    forced,                   \* this round is forced onto the blamed file alone
    reason                    \* trippedReason; "none" while the breaker has not tripped

breakers == <<last, streak, seen, recurrences, best, noProgress>>
siteVars == <<site, untouched, enforced>>
vars == <<pc, round, attempts, current, breakers, wrote, stalled, siteVars, forced, reason>>

Reasons == {"fix_loop_repeat", "fix_loop_oscillation", "fix_loop_no_progress",
            "fix_loop_writes_stalled", "fix_primary_site_never_touched"}

Tripped == reason # "none"

\* siteStreakActive: this failure blames the site the streak is about
SiteStreakActive(f) == Site[f] # NoSite /\ Site[f] = site /\ untouched > 0

\* mutant: stops before a round was ever forced onto the file
MutantNeverTouched(f) == SiteStreakActive(f) /\ untouched >= StopAfter

NeverTouched(f) == SiteStreakActive(f) /\ enforced /\ untouched >= StopAfter

\* mutant: forgets that the forced round already happened
MutantPending(f) ==
    SiteStreakActive(f) /\ untouched >= EnforceAfter /\ Site[f] \in Writable

\* enforcementPending: the breakers stand down for the round about to be forced
Pending(f) ==
    SiteStreakActive(f) /\ ~enforced /\ untouched >= EnforceAfter /\ Site[f] \in Writable

\* mutant: one round late, so the round that was let through is not forced
MutantForced(f, widened) ==
    /\ SiteStreakActive(f) /\ untouched > EnforceAfter
    /\ Site[f] \in IF widened THEN Writable ELSE Kept

\* the blamed file must have survived narrowing, which shouldWidenScope
\* suspends for the round after a write that stalled
Forced(f, widened) ==
    /\ SiteStreakActive(f) /\ untouched >= EnforceAfter
    /\ Site[f] \in IF widened THEN Writable ELSE Kept

-----------------------------------------------------------------------------
(***************************************************************************)
(* checkFixLoopBreakers: what the counters become, and which one fires.    *)
(***************************************************************************)
\* mutant: an identical failure counts as seen before
MutantRecurrencesAfter(f) == IF f \in seen THEN recurrences + 1 ELSE recurrences

RecurrencesAfter(f) == IF {f} # last /\ f \in seen THEN recurrences + 1 ELSE recurrences

Improves(f) == best = {} \/ \A b \in best : Magnitude[f] < b

TrackProgress(f) ==
    IF f \in ParseBroken THEN UNCHANGED <<best, noProgress>>
    ELSE IF Improves(f) THEN best' = {Magnitude[f]} /\ noProgress' = 0
    ELSE noProgress' = noProgress + 1 /\ UNCHANGED best

CountRound(f) ==
    /\ streak' = IF {f} = last THEN streak + 1 ELSE 1
    /\ last' = {f}
    /\ recurrences' = RecurrencesAfter(f)
    /\ seen' = seen \cup {f}
    /\ TrackProgress(f)

\* the first that applies, in the order of the switch; reads the counters after CountRound
Fires == IF streak' >= RepeatStop THEN "fix_loop_repeat"
         ELSE IF recurrences' >= RecurrenceStop THEN "fix_loop_oscillation"
         ELSE IF noProgress' >= NoProgressStop THEN "fix_loop_no_progress"
         ELSE IF stalled >= StalledStop THEN "fix_loop_writes_stalled"
         ELSE "none"

-----------------------------------------------------------------------------
Init ==
    /\ pc = "idle" /\ round = 0 /\ attempts = 0 /\ current = {}
    /\ last = {} /\ streak = 0 /\ seen = {} /\ recurrences = 0
    /\ best = {} /\ noProgress = 0 /\ wrote = FALSE /\ stalled = 0
    /\ site = NoSite /\ untouched = 0 /\ enforced = FALSE /\ forced = FALSE
    /\ reason = "none"

\* mutant: one write more than the budget
MutantCanAttempt == pc = "idle" /\ ~Tripped /\ attempts <= MaxAttempts /\ round < MaxRounds

\* fixerCanAttempt, and an iteration left to call from
CanAttempt == pc = "idle" /\ ~Tripped /\ attempts < MaxAttempts /\ round < MaxRounds

StopsAtSite(f) ==
    /\ CanAttempt /\ NeverTouched(f)
    /\ reason' = "fix_primary_site_never_touched"
    /\ round' = round + 1
    /\ UNCHANGED <<pc, attempts, current, breakers, wrote, stalled, siteVars, forced>>

BreakerTrips(f) ==
    /\ CanAttempt /\ ~NeverTouched(f) /\ ~Pending(f)
    /\ CountRound(f)
    /\ Fires # "none" /\ reason' = Fires
    /\ round' = round + 1
    /\ UNCHANGED <<pc, attempts, current, wrote, stalled, siteVars, forced>>

\* narrowing, enforcement and the stalled-write accounting, up to the LLM call
Asks(f) ==
    /\ CanAttempt /\ ~NeverTouched(f)
    /\ CountRound(f)
    /\ Pending(f) \/ Fires = "none"
    /\ \E widened \in {FALSE, wrote} : forced' = Forced(f, widened)
    /\ enforced' = (enforced \/ forced')
    /\ \E priorStalled \in {FALSE, wrote} : stalled' = IF priorStalled THEN stalled + 1 ELSE 0
    /\ current' = {f}
    /\ pc' = "ask"
    /\ round' = round + 1
    /\ UNCHANGED <<attempts, wrote, site, untouched, reason>>

(***************************************************************************)
(* The answer.  An unusable reply and refused writes bank a round without  *)
(* changes and leave the site streak alone.  A write either touches the    *)
(* blamed site, or leaves it untouched (or never writes that file), or     *)
(* wrote that file in a way that cannot be told.                           *)
(***************************************************************************)
WritesNothing ==
    /\ pc = "ask"
    /\ wrote' = FALSE
    /\ pc' = "idle"
    /\ UNCHANGED <<round, attempts, current, breakers, stalled, siteVars, forced, reason>>

LeavesSite(f) ==
    IF SiteStreakActive(f)
    THEN untouched' = untouched + 1 /\ UNCHANGED <<site, enforced>>
    ELSE site' = Site[f] /\ untouched' = 1 /\ enforced' = FALSE

TouchesSite == site' = NoSite /\ untouched' = 0 /\ enforced' = FALSE

Writes(f) ==
    /\ pc = "ask" /\ current = {f}
    /\ attempts' = attempts + 1
    /\ wrote' = TRUE
    /\ pc' = "idle"
    /\ \/ Site[f] # NoSite /\ (LeavesSite(f) \/ TouchesSite)
       \/ UNCHANGED siteVars
    /\ UNCHANGED <<round, current, breakers, stalled, forced, reason>>

Diagnose == \E f \in Failures : StopsAtSite(f) \/ BreakerTrips(f) \/ Asks(f)
Answer == WritesNothing \/ \E f \in Failures : Writes(f)

Next == Diagnose \/ Answer

Spec == Init /\ [][Next]_vars
-----------------------------------------------------------------------------
\* The counters are within their budgets and the breakers trip at their thresholds.
TypeOK ==
    /\ pc \in {"idle", "ask"}
    /\ round \in 0 .. MaxRounds /\ attempts \in 0 .. MaxAttempts
    /\ current \in SUBSET Failures /\ last \in SUBSET Failures /\ seen \in SUBSET Failures
    /\ streak \in Nat /\ recurrences \in Nat /\ noProgress \in Nat /\ stalled \in Nat
    /\ best \in SUBSET Nat
    /\ wrote \in BOOLEAN /\ enforced \in BOOLEAN /\ forced \in BOOLEAN
    /\ site \in Sites \cup {NoSite} /\ untouched \in Nat
    /\ reason \in Reasons \cup {"none"}
    /\ pc = "ask" => attempts < MaxAttempts

(***************************************************************************)
(* The terminal stop comes only after a round was forced onto the blamed   *)
(* file alone: "a blamed file outside the writable set can never be        *)
(* forced, and stopping on it would end the loop over a file the fixer was *)
(* never allowed to touch".                                                *)
(***************************************************************************)
StopsOnlyWhereForced ==
    reason = "fix_primary_site_never_touched" =>
        site \in Writable /\ enforced /\ untouched >= StopAfter

(***************************************************************************)
(* No failure is put to the fixer more than once past the repeat threshold *)
(* (as long as narrowing keeps the blamed file): what the breakers were    *)
(* written to save.                                                        *)
(***************************************************************************)
RepeatsBounded ==
    \A f \in last : Site[f] \notin Writable \ Kept => streak <= RepeatStop + 1
=============================================================================
