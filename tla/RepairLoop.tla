------------------------------ MODULE RepairLoop ------------------------------
(***************************************************************************)
(* What one repair loop of an evaluation promises the workflow around it:  *)
(* its rounds write at most Budget times, and after a circuit breaker has  *)
(* tripped none writes again.  Three modules look at that loop and each is *)
(* shown to implement this: FixLoop has the breakers and no workflow,      *)
(* Evaluation two loops in their workflow and breakers that may trip at    *)
(* any call, FixRound what a round writes and no breakers.                 *)
(***************************************************************************)
EXTENDS Naturals

CONSTANT Budget     \* maxFix: rounds that may write

VARIABLES
    writes,     \* *attemptCounter
    stopped     \* FixLoopState.tripped

loop == <<writes, stopped>>

Init == writes = 0 /\ stopped = FALSE

CanAttempt == ~stopped /\ writes < Budget

Write ==
    /\ CanAttempt
    /\ writes' = writes + 1
    /\ UNCHANGED stopped

\* only a round the loop may begin is diagnosed, so only it can trip a breaker
Trip ==
    /\ CanAttempt
    /\ stopped' = TRUE
    /\ UNCHANGED writes

Spec == Init /\ [][Write \/ Trip]_loop
=============================================================================
