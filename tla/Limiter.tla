-------------------------------- MODULE Limiter --------------------------------
(***************************************************************************)
(* What LLMLimiter promises those that share it: "a single global          *)
(* in-flight cap".  A client is inside or outside; the count in the        *)
(* channel, the attempts and the ways out of a call do not show.  LlmCalls *)
(* is shown to implement this.                                             *)
(***************************************************************************)
EXTENDS Naturals, FiniteSets

CONSTANTS
    Client,
    Capacity    \* Cap(): cap(l.sem)

VARIABLE inside     \* clients between acquire and release

Init == inside = {}

Acquire(c) ==
    /\ c \notin inside
    /\ Cardinality(inside) < Capacity
    /\ inside' = inside \cup {c}

Release(c) ==
    /\ c \in inside
    /\ inside' = inside \ {c}

Next == \E c \in Client : Acquire(c) \/ Release(c)

Spec == Init /\ [][Next]_inside
=============================================================================
