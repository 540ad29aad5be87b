------------------------------- MODULE LlmCalls -------------------------------
(***************************************************************************)
(* One chat call at a time per caller, through the limiter all callers of  *)
(* an endpoint share (internal/intelligence/model, LLMLimiter) and the     *)
(* attempts of the Ollama client (internal/llm/ollama, Complete, doChat).  *)
(* A slot is held over every attempt and every backoff of the call.        *)
(*                                                                         *)
(* Each attempt has a context of its own, cancelled by a timer: one guards *)
(* the wait for the headers, another the silence of the stream.  Timers    *)
(* and the server run beside the caller, and so does whoever cancels the   *)
(* run's context.  What a reply says is left to ToolLoop; what the callers *)
(* are promised of the slots is Limiter.                                   *)
(***************************************************************************)
EXTENDS Naturals, FiniteSets

CONSTANTS
    Callers,      \* goroutines that call the model, one per gap
    Slots,        \* capacity of the limiter
    MaxAttempts   \* chatMaxAttempts

ASSUME LlmCallsAssumption ==
    /\ IsFiniteSet(Callers)
    /\ Slots \in Nat \ {0}
    /\ MaxAttempts \in Nat \ {0}

VARIABLES
    cancelled,  \* the context of the run, which all its callers share, is done
    inUse,      \* len(sem), values in the channel of the limiter
    at,         \* where the call of each caller is
    attempt,    \* attempts begun by the call
    aborted,    \* callers whose attempt context is done by a timer
    stalled,    \* stallGuard.fired
    reply,      \* what the last call returned
    late        \* history: requests a caller sent after it was cancelled

callVars == <<cancelled, inUse, at, attempt, aborted, stalled, reply, late>>

InAttempt == {"headers", "timer", "reading"}
Holding   == {"head", "backoff"} \cup InAttempt
Errors    == {"truncated", "cancelled", "failed"}
Answers   == {"whole", "partial"}

CallInit ==
    /\ cancelled = FALSE
    /\ inUse = 0
    /\ at = [c \in Callers |-> "out"]
    /\ attempt = [c \in Callers |-> 0]
    /\ aborted = {} /\ stalled = {}
    /\ reply = [c \in Callers |-> "none"]
    /\ late = [c \in Callers |-> 0]

\* The run is cancelled or times out.
Cancel ==
    /\ ~cancelled
    /\ cancelled' = TRUE
    /\ UNCHANGED <<inUse, at, attempt, aborted, stalled, reply, late>>

-----------------------------------------------------------------------------
(***************************************************************************)
(* The limiter.  acquire selects between a free slot and the context: when *)
(* both are ready either is taken, so a cancelled caller may get a slot.   *)
(***************************************************************************)
Call(c) ==
    /\ at[c] = "out"
    /\ at' = [at EXCEPT ![c] = "waiting"]
    /\ reply' = [reply EXCEPT ![c] = "none"]
    /\ UNCHANGED <<cancelled, inUse, attempt, aborted, stalled, late>>

\* mutant: one slot is never given out
MutantFree == inUse + 1 < Slots

Free == inUse < Slots

GetSlot(c) ==
    /\ at[c] = "waiting" /\ Free
    /\ inUse' = inUse + 1
    /\ at' = [at EXCEPT ![c] = "head"]
    /\ UNCHANGED <<cancelled, attempt, aborted, stalled, reply, late>>

\* mutant: the release is deferred before the slot is had
MutantGiveUp(c) ==
    /\ at[c] = "waiting" /\ cancelled
    /\ at' = [at EXCEPT ![c] = "out"]
    /\ reply' = [reply EXCEPT ![c] = "cancelled"]
    /\ inUse' = IF inUse > 0 THEN inUse - 1 ELSE 0
    /\ UNCHANGED <<cancelled, attempt, aborted, stalled, late>>

GiveUp(c) ==
    /\ at[c] = "waiting" /\ cancelled
    /\ at' = [at EXCEPT ![c] = "out"]
    /\ reply' = [reply EXCEPT ![c] = "cancelled"]
    /\ UNCHANGED <<cancelled, inUse, attempt, aborted, stalled, late>>

\* Every way out of a call that holds a slot gives the slot back.
Return(c, result) ==
    /\ inUse' = inUse - 1
    /\ at' = [at EXCEPT ![c] = "out"]
    /\ reply' = [reply EXCEPT ![c] = result]
    /\ attempt' = [attempt EXCEPT ![c] = 0]
    /\ aborted' = aborted \ {c} /\ stalled' = stalled \ {c}
    /\ UNCHANGED <<cancelled, late>>

\* The attempt failed with an error worth another one.
Retry(c) ==
    /\ at' = [at EXCEPT ![c] = "head"]
    /\ aborted' = aborted \ {c} /\ stalled' = stalled \ {c}
    /\ UNCHANGED <<cancelled, inUse, attempt, reply, late>>

\* An error of the transport or a status: retriable or not.
Fail(c) == Retry(c) \/ Return(c, "failed")

-----------------------------------------------------------------------------
\* The head of the loop over attempts: bound, context, then backoff before all but the first.
Exhausted(c) ==
    /\ at[c] = "head" /\ attempt[c] = MaxAttempts
    /\ Return(c, "failed")

\* mutant: attempts are not counted
MutantTireless(c) == ~cancelled

MayTry(c) == attempt[c] < MaxAttempts /\ ~cancelled

StopCancelled(c) ==
    /\ at[c] = "head" /\ attempt[c] < MaxAttempts
    /\ cancelled
    /\ Return(c, "cancelled")

Backoff(c) ==
    /\ at[c] = "head" /\ attempt[c] > 0 /\ MayTry(c)
    /\ at' = [at EXCEPT ![c] = "backoff"]
    /\ UNCHANGED <<cancelled, inUse, attempt, aborted, stalled, reply, late>>

CancelBackoff(c) ==
    /\ at[c] = "backoff" /\ cancelled
    /\ Return(c, "cancelled")

\* The first attempt, or one whose wait is over; the context may be done by now.
Send(c) ==
    /\ \/ at[c] = "head" /\ attempt[c] = 0 /\ MayTry(c)
       \/ at[c] = "backoff"
    /\ attempt' = [attempt EXCEPT ![c] = @ + 1]
    /\ at' = [at EXCEPT ![c] = "headers"]
    /\ late' = [late EXCEPT ![c] = IF cancelled THEN @ + 1 ELSE @]
    /\ UNCHANGED <<cancelled, inUse, aborted, stalled, reply>>

-----------------------------------------------------------------------------
\* The header timer is stopped one statement after Do returns and may fire until then.
HeaderTimer(c) ==
    /\ at[c] \in {"headers", "timer"} /\ c \notin aborted
    /\ aborted' = aborted \cup {c}
    /\ UNCHANGED <<cancelled, inUse, at, attempt, stalled, reply, late>>

HeadersArrive(c) ==
    /\ at[c] = "headers"
    /\ at' = [at EXCEPT ![c] = "timer"]
    /\ UNCHANGED <<cancelled, inUse, attempt, aborted, stalled, reply, late>>

(***************************************************************************)
(* Do returns an error.  The attempt's context done and the caller's not   *)
(* make it a stall, which is retried; the caller's own cancellation is not.*)
(***************************************************************************)
RoundTripFails(c) ==
    /\ at[c] = "headers"
    /\ \/ cancelled /\ Return(c, "cancelled")
       \/ c \in aborted /\ ~cancelled /\ Retry(c)
       \/ (cancelled \/ c \notin aborted) /\ Fail(c)

StopTimer(c) ==
    /\ at[c] = "timer"
    /\ \/ /\ at' = [at EXCEPT ![c] = "reading"]
          /\ UNCHANGED <<cancelled, inUse, attempt, aborted, stalled, reply, late>>
       \/ Fail(c)

\* Nothing was delivered for the length of the budget.
Stall(c) ==
    /\ at[c] = "reading" /\ c \notin stalled
    /\ stalled' = stalled \cup {c}
    /\ aborted' = aborted \cup {c}
    /\ UNCHANGED <<cancelled, inUse, at, attempt, reply, late>>

(***************************************************************************)
(* The stream breaks: a stall is retried, a cancellation ends the call,    *)
(* and so does an attempt context that the header timer cancelled late: its*)
(* error is a cancellation nobody asked for.                               *)
(***************************************************************************)
ReadFails(c) ==
    /\ at[c] = "reading"
    /\ \/ cancelled /\ Return(c, "cancelled")
       \/ c \in stalled /\ ~cancelled /\ Retry(c)
       \/ c \in aborted \ stalled /\ ~cancelled /\ Return(c, "failed")
       \/ c \notin stalled /\ ~cancelled /\ Fail(c)

\* The stream ends: with the done frame, at the output cap, or, taken for complete, without it.
ReadEnds(c) ==
    /\ at[c] = "reading"
    /\ \E result \in Answers \cup {"truncated"} : Return(c, result)

-----------------------------------------------------------------------------
\* What happens in a call other than being cancelled and being given a slot.
CallStep(c) ==
    \/ GiveUp(c) \/ Exhausted(c) \/ StopCancelled(c) \/ Backoff(c) \/ CancelBackoff(c) \/ Send(c)
    \/ HeaderTimer(c) \/ HeadersArrive(c) \/ RoundTripFails(c) \/ StopTimer(c)
    \/ Stall(c) \/ ReadFails(c) \/ ReadEnds(c)

CallTypeOK ==
    /\ cancelled \in BOOLEAN
    /\ inUse \in 0 .. Slots
    /\ at \in [Callers -> {"out", "waiting"} \cup Holding]
    /\ attempt \in [Callers -> 0 .. MaxAttempts]
    /\ \A c \in Callers : at[c] = "backoff" => attempt[c] < MaxAttempts
    /\ aborted \subseteq Callers /\ stalled \subseteq Callers
    /\ reply \in [Callers -> {"none"} \cup Answers \cup Errors]
    /\ late \in [Callers -> Nat]

(***************************************************************************)
(* A value is in the channel for each caller between acquire and return,   *)
(* whichever of the ways out it takes: a slot lost shrinks the endpoint's  *)
(* capacity for good, one returned twice lifts the cap.                    *)
(***************************************************************************)
SlotsConserved == inUse = Cardinality({c \in Callers : at[c] \in Holding})

(***************************************************************************)
(* acquire: "callers never proceed to the LLM after cancellation".  It     *)
(* does not keep that promise alone, since a cancelled caller may get a    *)
(* slot; with the checks of the attempts behind it, at most one request,   *)
(* the one whose wait was over already, is sent after cancellation.        *)
(***************************************************************************)
OneLateRequest == \A c \in Callers : late[c] <= 1
=============================================================================
