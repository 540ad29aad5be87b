---------------------------- MODULE FixLoopHistory ----------------------------
(***************************************************************************)
(* FixLoop with the log of its rounds, against which the counters of       *)
(* FixLoopState are compared: what each of them is documented to count,    *)
(* computed from the whole log instead of kept incrementally.              *)
(***************************************************************************)
EXTENDS FixLoop, Sequences

VARIABLE log   \* per round: the failure, whether a breaker was held back, forced, and what it wrote

historyVars == <<vars, log>>

HistoryInit == Init /\ log = <<>>

Effects == {"asked", "nothing", "untouched", "touched", "unknown"}

Logged(f, held) ==
    log' = Append(log, [f |-> f, held |-> held, forced |-> forced', effect |-> "asked"])

\* what the answer did to the streak of rounds that left the blamed site alone
Effect == IF ~wrote' THEN "nothing"
          ELSE IF untouched' > untouched \/ (untouched' = 1 /\ siteVars' # siteVars) THEN "untouched"
          ELSE IF untouched' = 0 /\ untouched > 0 THEN "touched"
          ELSE "unknown"

HistoryNext ==
    \/ \E f \in Failures :
           \/ StopsAtSite(f) /\ UNCHANGED log
           \/ BreakerTrips(f) /\ Logged(f, FALSE)
           \/ Asks(f) /\ Logged(f, Fires # "none")
    \/ Answer /\ log' = [log EXCEPT ![Len(log)].effect = Effect]

HistorySpec == HistoryInit /\ [][HistoryNext]_historyVars

-----------------------------------------------------------------------------
Rounds == DOMAIN log
Attributed == {i \in Rounds : log[i].f \notin ParseBroken}

\* rounds at the end that were all handed the failure of the last one
TrailingRun == {i \in Rounds : \A j \in i .. Len(log) : log[j].f = log[Len(log)].f}

\* rounds handed a failure seen before, but not by the round just before
Returns == {i \in Rounds : /\ i > 1 /\ log[i].f # log[i - 1].f
                           /\ \E j \in 1 .. i - 1 : log[j].f = log[i].f}

\* the first of the attributed rounds with the smallest magnitude
IsBest(i) ==
    /\ i \in Attributed
    /\ \A j \in Attributed : /\ Magnitude[log[i].f] <= Magnitude[log[j].f]
                             /\ j < i => Magnitude[log[i].f] < Magnitude[log[j].f]

\* attributed rounds since the smallest magnitude was first seen
Unimproved == {i \in Attributed : \E b \in Attributed : IsBest(b) /\ b < i}

(***************************************************************************)
(* The counters the breakers read are the ones their comments define, for  *)
(* every sequence of failures: consecutive identical rounds, returns to an *)
(* abandoned failure, and attempts that failed to beat the minimum, rounds *)
(* with a parse failure left out of the last one.                          *)
(***************************************************************************)
CountersMatchLog ==
    /\ streak = Cardinality(TrailingRun)
    /\ recurrences = Cardinality(Returns)
    /\ noProgress = Cardinality(Unimproved)

(***************************************************************************)
(* "One round of grace": a breaker is held back only for a round that is   *)
(* forced onto the blamed file, and not again for that site unless the     *)
(* streak about it started over.                                           *)
(***************************************************************************)
SameSite(i, j) == Site[log[i].f] = Site[log[j].f]

\* what round k wrote started the streak about the site of round i over
StartsOver(k, i) ==
    \/ log[k].effect = "touched"
    \/ log[k].effect = "untouched" /\ ~SameSite(k, i)

GraceIsOneRound ==
    \A i \in Rounds : log[i].held /\ Site[log[i].f] \in Kept =>
        /\ log[i].forced
        /\ \A j \in i + 1 .. Len(log) :
               log[j].held /\ SameSite(i, j) => \E k \in i .. j - 1 : StartsOver(k, i)
=============================================================================
