------------------------------- MODULE LossyLog -------------------------------
(***************************************************************************)
(* What a goroutine that logs is promised: a bounded backlog that leaves   *)
(* in the order it came, into the file or into the count of what was lost. *)
(* An entry is turned away only when the backlog is full.  AuditLog is     *)
(* shown to implement this: which entry the drain goroutine holds, and     *)
(* that Close closes one thing after another, cannot be told from outside. *)
(***************************************************************************)
EXTENDS Naturals, Sequences

CONSTANTS Entry, Capacity

VARIABLES backlog, lines, lost

log == <<backlog, lines, lost>>

Init == backlog = <<>> /\ lines = <<>> /\ lost = 0

\* the entry being written is no longer in the channel, so one more than its capacity waits
Accept(entry) ==
    /\ Len(backlog) <= Capacity
    /\ backlog' = Append(backlog, entry)
    /\ UNCHANGED <<lines, lost>>

TurnAway ==
    /\ Len(backlog) >= Capacity
    /\ lost' = lost + 1
    /\ UNCHANGED <<backlog, lines>>

Deliver ==
    /\ backlog # <<>>
    /\ lines' = Append(lines, Head(backlog))
    /\ backlog' = Tail(backlog)
    /\ UNCHANGED lost

Lose ==
    /\ backlog # <<>>
    /\ lost' = lost + 1
    /\ backlog' = Tail(backlog)
    /\ UNCHANGED lines

Next == (\E entry \in Entry : Accept(entry)) \/ TurnAway \/ Deliver \/ Lose

Spec == Init /\ [][Next]_log
=============================================================================
