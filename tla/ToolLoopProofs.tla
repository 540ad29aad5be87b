---------------------------- MODULE ToolLoopProofs ----------------------------
(***************************************************************************)
(* ToolLoop, and LlmCalls under it, for any callers, slots, caps and       *)
(* numbers of attempts.  A step of the loop either makes a call or leaves  *)
(* the calls alone, and a step of a call leaves the loop alone, so the two *)
(* halves of the invariant are proved apart; only the typing relates them. *)
(* From it follow that the calls implement Limiter, and the measure by     *)
(* which every step brings its caller nearer to its end.                   *)
(***************************************************************************)
EXTENDS ToolLoop, TLAPS, FiniteSetTheorems

\* What is known of the calls: a request that came late has no other attempt behind it.
LateIsLast == \A c \in Callers :
                  late[c] = 0 \/ (late[c] = 1 /\ cancelled /\ at[c] # "backoff")

CallInv == CallTypeOK /\ SlotsConserved /\ LateIsLast

LoopTypeOK ==
    /\ phase \in [Callers -> {"idle", "tools", "over"} \cup Asking]
    /\ turn \in [Callers -> 0 .. MaxTurns]
    /\ calls \in [Callers -> Nat] /\ chars \in [Callers -> Nat]
    /\ pending \in [Callers -> Nat] /\ unanswered \in [Callers -> Nat]
    /\ spent \subseteq Callers
    /\ tries \in [Callers -> 0 .. MaxTries] /\ escalations \in [Callers -> 0 .. MaxEscalations]
    /\ unstructured \subseteq Callers
    /\ completions \in [Callers -> Nat]
    /\ ran \in [Callers -> Nat]

\* The budget counts what ran; what is still to run fits in it and waits in the conversation.
Spending == \A c \in Callers :
                /\ ran[c] = calls[c] /\ calls[c] + pending[c] <= CallsPerRun
                /\ unanswered[c] = pending[c]
                /\ phase[c] # "tools" => pending[c] = 0
                /\ chars[c] <= ResultChars + Notice

\* How far a loop has come for the calls of the model it has made.
Progress == \A c \in Callers :
                /\ phase[c] \in {"turn", "tools"} =>
                       turn[c] < MaxTurns /\ completions[c] = turn[c] + 1
                /\ phase[c] = "final" => completions[c] <= MaxTurns + 1
                /\ phase[c] \in {"retry", "only"} => completions[c] <= MaxTurns + 2
                /\ phase[c] \in {"idle", "over"} => completions[c] = 0

LoopInv == LoopTypeOK /\ Spending /\ Progress

\* A caller is in a call only while it asks.
OnlyAsking == \A c \in Callers : at[c] # "out" => phase[c] \in Asking

Inv == CallInv /\ LoopInv /\ OnlyAsking

USE DEF Holding, InAttempt, Errors, Answers, Asking

-----------------------------------------------------------------------------
Holders == {c \in Callers : at[c] \in Holding}

LEMMA HoldersFinite == IsFiniteSet(Holders) /\ Cardinality(Holders) \in Nat
  <1>1. Holders \subseteq Callers
    BY DEF Holders
  <1>2. IsFiniteSet(Holders)
    BY <1>1, FS_Subset, LlmCallsAssumption
  <1> QED
    BY <1>2, FS_CardinalityType

\* The call moves, and holds a slot afterwards exactly if it did before.
LEMMA Moves ==
  ASSUME CallInv, NEW c \in Callers, at' = [at EXCEPT ![c] = at'[c]],
         at'[c] \in Holding <=> at[c] \in Holding, inUse' = inUse
  PROVE  SlotsConserved' /\ inUse' \in 0 .. Slots
  <1>1. Holders' = Holders
    BY DEF CallInv, CallTypeOK, Holders
  <1> QED
    BY <1>1 DEF CallInv, CallTypeOK, SlotsConserved, Holders

\* A call that returns had a slot, so there is one to give back.
LEMMA GivesBack ==
  ASSUME CallInv, NEW c \in Callers, at[c] \in Holding, NEW result, Return(c, result)
  PROVE  SlotsConserved' /\ inUse' \in 0 .. Slots
  <1>1. Holders' = Holders \ {c} /\ c \in Holders
    BY DEF CallInv, CallTypeOK, Holders, Return
  <1>2. Cardinality(Holders') = Cardinality(Holders) - 1
    BY <1>1, HoldersFinite, FS_RemoveElement
  <1>3. Cardinality(Holders) # 0
    BY <1>1, HoldersFinite, FS_EmptySet
  <1>4. inUse = Cardinality(Holders) /\ inUse \in 0 .. Slots /\ Slots \in Nat
    BY LlmCallsAssumption DEF CallInv, CallTypeOK, SlotsConserved, Holders
  <1>5. inUse' \in 0 .. Slots /\ inUse' = Cardinality(Holders')
    BY <1>2, <1>3, <1>4 DEF Return
  <1> QED
    BY <1>5 DEF SlotsConserved, Holders

LEMMA InvReturn ==
  ASSUME CallInv, NEW c \in Callers, at[c] \in Holding,
         NEW result \in Answers \cup Errors, Return(c, result)
  PROVE  CallInv'
  <1>1. SlotsConserved' /\ inUse' \in 0 .. Slots
    BY GivesBack
  <1>2. CallTypeOK'
    BY <1>1, LlmCallsAssumption DEF CallInv, CallTypeOK, Return
  <1>3. LateIsLast'
    BY DEF CallInv, CallTypeOK, LateIsLast, Return
  <1> QED
    BY <1>1, <1>2, <1>3 DEF CallInv

LEMMA InvRetry ==
  ASSUME CallInv, NEW c \in Callers, at[c] \in Holding, Retry(c)
  PROVE  CallInv'
  <1>1. SlotsConserved' /\ inUse' \in 0 .. Slots
    BY Moves DEF CallInv, CallTypeOK, Retry
  <1>2. CallTypeOK' /\ LateIsLast'
    BY <1>1 DEF CallInv, CallTypeOK, LateIsLast, Retry
  <1> QED
    BY <1>1, <1>2 DEF CallInv

LEMMA InvCall ==
  ASSUME CallInv, NEW c \in Callers, Call(c)
  PROVE  CallInv'
  <1>1. SlotsConserved' /\ inUse' \in 0 .. Slots
    BY Moves DEF CallInv, CallTypeOK, Call
  <1>2. CallTypeOK' /\ LateIsLast'
    BY <1>1 DEF CallInv, CallTypeOK, LateIsLast, Call
  <1> QED
    BY <1>1, <1>2 DEF CallInv

LEMMA InvSlot ==
  ASSUME CallInv, NEW c \in Callers, GetSlot(c)
  PROVE  CallInv'
  <1>1. Holders' = Holders \cup {c} /\ c \notin Holders
    BY DEF CallInv, CallTypeOK, Holders, GetSlot
  <1>2. Cardinality(Holders') = Cardinality(Holders) + 1
    BY <1>1, HoldersFinite, FS_AddElement
  <1>3. inUse' \in 0 .. Slots /\ inUse' = Cardinality(Holders')
    BY <1>2, LlmCallsAssumption DEF CallInv, CallTypeOK, SlotsConserved, Holders, GetSlot, Free
  <1>4. CallTypeOK' /\ LateIsLast'
    BY <1>3 DEF CallInv, CallTypeOK, LateIsLast, GetSlot
  <1> QED
    BY <1>3, <1>4 DEF CallInv, SlotsConserved, Holders

LEMMA InvCancel ==
  ASSUME CallInv, Cancel
  PROVE  CallInv'
  BY DEF CallInv, CallTypeOK, SlotsConserved, LateIsLast, Cancel

\* A request is late only when its wait began before the cancellation.
LEMMA InvSend ==
  ASSUME CallInv, NEW c \in Callers, Send(c)
  PROVE  CallInv'
  <1>1. SlotsConserved' /\ inUse' \in 0 .. Slots
    BY Moves DEF CallInv, CallTypeOK, Send
  <1>2. attempt[c] + 1 \in 0 .. MaxAttempts
    BY LlmCallsAssumption DEF CallInv, CallTypeOK, Send, MayTry
  <1>3. CallTypeOK'
    BY <1>1, <1>2 DEF CallInv, CallTypeOK, Send
  <1>4. LateIsLast'
    BY DEF CallInv, CallTypeOK, LateIsLast, Send, MayTry
  <1> QED
    BY <1>1, <1>3, <1>4 DEF CallInv

\* The steps that neither return nor begin another attempt.
LEMMA InvWithin ==
  ASSUME CallInv, NEW c \in Callers,
         \/ GiveUp(c) \/ Backoff(c) \/ HeaderTimer(c) \/ HeadersArrive(c) \/ Stall(c)
         \/ /\ at[c] = "timer" /\ at' = [at EXCEPT ![c] = "reading"]
            /\ UNCHANGED <<cancelled, inUse, attempt, aborted, stalled, reply, late>>
  PROVE  CallInv'
  <1>1. SlotsConserved' /\ inUse' \in 0 .. Slots
    <2>1. at' = [at EXCEPT ![c] = at'[c]] /\ inUse' = inUse
      BY DEF CallInv, CallTypeOK, GiveUp, Backoff, HeaderTimer, HeadersArrive, Stall
    <2>2. at'[c] \in Holding <=> at[c] \in Holding
      BY DEF CallInv, CallTypeOK, GiveUp, Backoff, HeaderTimer, HeadersArrive, Stall
    <2> QED
      BY <2>1, <2>2, Moves
  <1>2. CallTypeOK'
    BY <1>1, LlmCallsAssumption
       DEF CallInv, CallTypeOK, GiveUp, Backoff, MayTry, HeaderTimer, HeadersArrive, Stall
  <1>3. LateIsLast'
    BY DEF CallInv, CallTypeOK, LateIsLast, GiveUp, Backoff, MayTry,
           HeaderTimer, HeadersArrive, Stall
  <1> QED
    BY <1>1, <1>2, <1>3 DEF CallInv

LEMMA InvCallStep ==
  ASSUME CallInv, NEW c \in Callers, CallStep(c)
  PROVE  CallInv'
  <1>1. CASE Exhausted(c) \/ StopCancelled(c) \/ CancelBackoff(c)
    BY <1>1, InvReturn DEF Exhausted, StopCancelled, CancelBackoff
  <1>2. CASE RoundTripFails(c)
    BY <1>2, InvReturn, InvRetry DEF RoundTripFails, Fail
  <1>3. CASE StopTimer(c)
    BY <1>3, InvReturn, InvRetry, InvWithin DEF StopTimer, Fail
  <1>4. CASE ReadFails(c)
    BY <1>4, InvReturn, InvRetry DEF ReadFails, Fail
  <1>5. CASE ReadEnds(c)
    BY <1>5, InvReturn DEF ReadEnds
  <1>6. CASE Send(c)
    BY <1>6, InvSend
  <1>7. CASE GiveUp(c) \/ Backoff(c) \/ HeaderTimer(c) \/ HeadersArrive(c) \/ Stall(c)
    BY <1>7, InvWithin
  <1> QED
    BY <1>1, <1>2, <1>3, <1>4, <1>5, <1>6, <1>7 DEF CallStep

-----------------------------------------------------------------------------
USE DEF budget, loop, request

\* A step of a call leaves the loop alone, and no caller enters a call by it.
LEMMA InvInCall ==
  ASSUME Inv, NEW c \in Callers, CallStep(c) \/ GetSlot(c), UNCHANGED loopVars
  PROVE  Inv'
  <1>1. CallInv'
    BY InvCallStep, InvSlot DEF Inv
  <1>2. LoopInv'
    BY DEF Inv, LoopInv, LoopTypeOK, Spending, Progress, loopVars
  <1>3. at[c] # "out"
    BY DEF CallStep, GetSlot, GiveUp, Exhausted, StopCancelled, Backoff, CancelBackoff, Send,
           HeaderTimer, HeadersArrive, RoundTripFails, StopTimer, Stall, ReadFails, ReadEnds
  <1>4. \A d \in Callers : d # c => at'[d] = at[d]
    BY DEF Inv, CallInv, CallTypeOK, CallStep, GetSlot, GiveUp, Exhausted, StopCancelled, Backoff,
           CancelBackoff, Send, HeaderTimer, HeadersArrive, RoundTripFails, StopTimer, Stall,
           ReadFails, ReadEnds, Fail, Retry, Return
  <1>5. OnlyAsking'
    BY <1>3, <1>4 DEF Inv, OnlyAsking, loopVars
  <1> QED
    BY <1>1, <1>2, <1>5 DEF Inv

\* A loop begins, on the budget as it is or on a new one.
LEMMA InvEnterLoop ==
  ASSUME Inv, NEW c \in Callers, EnterLoop(c),
         \/ UNCHANGED <<calls, chars, ran>>
         \/ /\ calls' = [calls EXCEPT ![c] = 0] /\ chars' = [chars EXCEPT ![c] = 0]
            /\ ran' = [ran EXCEPT ![c] = 0],
         tries' \in [Callers -> 0 .. MaxTries], escalations' \in [Callers -> 0 .. MaxEscalations],
         unstructured' \subseteq Callers
  PROVE  Inv'
  <1> USE DEF Inv, LoopInv, LoopTypeOK, EnterLoop
  <1>1. CallInv'
    BY InvCall
  <1>a. calls' \in [Callers -> Nat] /\ chars' \in [Callers -> Nat] /\ ran' \in [Callers -> Nat]
    OBVIOUS
  <1>b. phase' \in [Callers -> {"idle", "tools", "over"} \cup Asking]
    OBVIOUS
  <1>c. turn' \in [Callers -> 0 .. MaxTurns] /\ completions' \in [Callers -> Nat]
    BY ToolLoopAssumption
  <1>d. pending' \in [Callers -> Nat] /\ unanswered' \in [Callers -> Nat] /\ spent' \subseteq Callers
    OBVIOUS
  <1>2. LoopTypeOK'
    BY <1>a, <1>b, <1>c, <1>d
  <1>3. Spending'
    BY ToolLoopAssumption DEF Spending
  <1>4. Progress'
    BY ToolLoopAssumption DEF Progress
  <1>5. OnlyAsking'
    BY DEF OnlyAsking, CallInv, CallTypeOK, Call
  <1> QED
    BY <1>1, <1>2, <1>3, <1>4, <1>5

\* A call is made from inside a loop, or by a caller that has none.
LEMMA InvAsk ==
  ASSUME Inv, NEW c \in Callers, NEW as \in Asking, Ask(c, as),
         UNCHANGED <<budget, pending, unanswered, spent, request, ran>>,
         phase[c] = "tools" => pending[c] = 0,
         turn' \in [Callers -> 0 .. MaxTurns], Progress'
  PROVE  Inv'
  <1> USE DEF Inv, LoopInv, Ask
  <1>1. CallInv'
    BY InvCall
  <1>a. phase' \in [Callers -> {"idle", "tools", "over"} \cup Asking]
    BY DEF LoopTypeOK
  <1>b. completions' \in [Callers -> Nat]
    BY DEF LoopTypeOK
  <1>2. LoopTypeOK'
    BY <1>a, <1>b DEF LoopTypeOK
  <1>3. Spending'
    BY DEF Spending, LoopTypeOK
  <1>4. OnlyAsking'
    BY DEF OnlyAsking, CallInv, CallTypeOK, Call, LoopTypeOK
  <1> QED
    BY <1>1, <1>2, <1>3, <1>4

LEMMA CallsUntouched ==
  ASSUME CallInv, UNCHANGED callVars
  PROVE  CallInv'
  BY DEF CallInv, CallTypeOK, SlotsConserved, LateIsLast, callVars

LEMMA InvOver ==
  ASSUME Inv, NEW c \in Callers, at[c] = "out", Over(c)
  PROVE  Inv'
  <1> USE DEF Inv, LoopInv, LoopTypeOK, Over
  <1>1. CallInv'
    BY CallsUntouched
  <1>2. LoopTypeOK'
    BY ToolLoopAssumption
  <1>3. Spending'
    BY ToolLoopAssumption DEF Spending
  <1>4. Progress'
    BY DEF Progress
  <1>5. OnlyAsking'
    BY DEF OnlyAsking, callVars
  <1> QED
    BY <1>1, <1>2, <1>3, <1>4, <1>5

LEMMA InvEndRequest ==
  ASSUME Inv, NEW c \in Callers, at[c] = "out", EndRequest(c)
  PROVE  Inv'
  <1>1. CASE Over(c)
    BY <1>1, InvOver
  <1>2. CASE AskUnstructured(c)
    <2> USE DEF Inv, LoopInv, LoopTypeOK, AskUnstructured, BeginRequest
    <2>1. tries' \in [Callers -> 0 .. MaxTries] /\ escalations' \in [Callers -> 0 .. MaxEscalations]
      BY <1>2, ToolLoopAssumption
    <2>2. unstructured' \subseteq Callers
      BY <1>2
    <2> QED
      BY <1>2, <2>1, <2>2, InvEnterLoop
  <1> QED
    BY <1>1, <1>2 DEF EndRequest

LEMMA InvEndOrAgain ==
  ASSUME Inv, NEW c \in Callers, at[c] = "out", EndOrAgain(c)
  PROVE  Inv'
  <1>1. CASE EndRequest(c)
    BY <1>1, InvEndRequest
  <1>2. CASE ~EndRequest(c)
    <2> USE DEF Inv, LoopInv, LoopTypeOK, EndOrAgain, BeginLoop
    <2>1. tries' \in [Callers -> 0 .. MaxTries] /\ escalations' \in [Callers -> 0 .. MaxEscalations]
      BY <1>2, ToolLoopAssumption
    <2>2. unstructured' \subseteq Callers
      BY <1>2
    <2>3. EnterLoop(c) /\ UNCHANGED <<calls, chars, ran>>
      BY <1>2
    <2> QED
      BY <2>1, <2>2, <2>3, InvEnterLoop
  <1> QED
    BY <1>1, <1>2

LEMMA InvStart ==
  ASSUME Inv, NEW c \in Callers, Start(c)
  PROVE  Inv'
  <1> USE DEF Inv, LoopInv, LoopTypeOK, Start, BeginRequest
  <1>1. tries' \in [Callers -> 0 .. MaxTries] /\ escalations' \in [Callers -> 0 .. MaxEscalations]
    BY ToolLoopAssumption
  <1> QED
    BY <1>1, InvEnterLoop

-----------------------------------------------------------------------------
LEMMA AllowedFits ==
  ASSUME Inv, NEW c \in Callers, calls[c] < CallsPerRun, NEW asked \in Requests
  PROVE  Allowed(c, asked) \in Nat /\ calls[c] + Allowed(c, asked) <= CallsPerRun
  BY ToolLoopAssumption DEF Inv, LoopInv, LoopTypeOK, Allowed, Least

LEMMA InvTurnAsks ==
  ASSUME Inv, NEW c \in Callers, TurnAsks(c)
  PROVE  Inv'
  <1> USE DEF Inv, LoopInv, LoopTypeOK, TurnAsks, Answered
  <1>1. CallInv'
    BY CallsUntouched
  <1>2. PICK n \in Nat : /\ pending' = [pending EXCEPT ![c] = n]
                        /\ unanswered' = [unanswered EXCEPT ![c] = n]
                        /\ calls[c] + n <= CallsPerRun
    BY AllowedFits DEF Listed
  <1>3. LoopTypeOK'
    BY <1>2
  <1>4. Spending'
    BY <1>2 DEF Spending
  <1>5. Progress'
    BY DEF Progress
  <1>6. OnlyAsking'
    BY DEF OnlyAsking, callVars
  <1> QED
    BY <1>1, <1>3, <1>4, <1>5, <1>6

\* What is kept of a result overdraws the characters by the notice at most.
LEMMA KeptFits ==
  ASSUME Inv, NEW c \in Callers, NEW length \in Lengths
  PROVE  Kept(c, length) \in Nat /\ chars[c] + Kept(c, length) <= ResultChars + Notice
  BY ToolLoopAssumption DEF Inv, LoopInv, LoopTypeOK, Spending, Kept

LEMMA InvRunTool ==
  ASSUME Inv, NEW c \in Callers, RunTool(c)
  PROVE  Inv'
  <1> USE DEF Inv, LoopInv, LoopTypeOK, RunTool
  <1>1. CallInv'
    BY CallsUntouched
  <1>2. PICK k \in Nat : chars' = [chars EXCEPT ![c] = @ + k] /\ chars[c] + k <= ResultChars + Notice
    BY KeptFits
  <1>3. pending[c] - 1 \in Nat /\ unanswered[c] - 1 \in Nat
    BY DEF Spending
  <1>4. LoopTypeOK'
    BY <1>2, <1>3
  <1>5. Spending'
    BY <1>2, <1>3, ToolLoopAssumption DEF Spending
  <1>6. Progress'
    BY DEF Progress
  <1>7. OnlyAsking'
    BY DEF OnlyAsking, callVars
  <1> QED
    BY <1>1, <1>4, <1>5, <1>6, <1>7

\* The steps that call the model from where the loop is.
LEMMA InvAsks ==
  ASSUME Inv, NEW c \in Callers,
         TurnRefused(c) \/ EndTurn(c) \/ FinalIsEmpty(c) \/ StartOneShot(c)
  PROVE  Inv'
  <1> USE DEF Inv, LoopInv, LoopTypeOK, Progress, Answered, Ask
  <1>1. CASE TurnRefused(c)
    <2>1. Progress'
      BY <1>1, ToolLoopAssumption DEF TurnRefused
    <2> QED
      BY <1>1, <2>1, InvAsk DEF TurnRefused
  <1>2. CASE EndTurn(c)
    <2>1. turn[c] < MaxTurns /\ completions[c] = turn[c] + 1
      BY <1>2 DEF EndTurn
    <2>2. turn' \in [Callers -> 0 .. MaxTurns]
      BY <1>2, <2>1, ToolLoopAssumption DEF EndTurn
    <2>3. Progress'
      BY <1>2, <2>1, ToolLoopAssumption DEF EndTurn
    <2> QED
      BY <1>2, <2>2, <2>3, InvAsk DEF EndTurn
  <1>3. CASE FinalIsEmpty(c)
    <2>1. Progress'
      BY <1>3, ToolLoopAssumption DEF FinalIsEmpty, MayRetry
    <2> QED
      BY <1>3, <2>1, InvAsk DEF FinalIsEmpty, MayRetry
  <1>4. CASE StartOneShot(c)
    <2>1. Progress'
      BY <1>4, ToolLoopAssumption DEF StartOneShot
    <2> QED
      BY <1>4, <2>1, InvAsk DEF StartOneShot
  <1> QED
    BY <1>1, <1>2, <1>3, <1>4

LEMMA InvStep ==
  ASSUME Inv, NEW c \in Callers, LoopStep(c)
  PROVE  Inv'
  <1>1. CASE TurnFails(c) \/ FinalFails(c)
    BY <1>1, InvEndOrAgain DEF TurnFails, FinalFails, Answered
  <1>2. CASE TurnAnswers(c) \/ FinalAnswers(c) \/ RetryEnds(c)
    BY <1>2, InvEndRequest DEF TurnAnswers, FinalAnswers, RetryEnds, Answered
  <1>3. CASE OneShotEnds(c)
    BY <1>3, InvOver DEF OneShotEnds, Answered
  <1> QED
    BY <1>1, <1>2, <1>3, InvStart, InvTurnAsks, InvRunTool, InvAsks DEF LoopStep

-----------------------------------------------------------------------------
LEMMA InvInit == Init => Inv
  <1> SUFFICES ASSUME Init PROVE Inv
    OBVIOUS
  <1> USE DEF Init, CallInit
  <1>1. Holders = {}
    BY DEF Holders
  <1>2. SlotsConserved
    BY <1>1, FS_EmptySet DEF SlotsConserved, Holders
  <1>a. 0 \in 0 .. Slots /\ 0 \in 0 .. MaxAttempts
    BY LlmCallsAssumption
  <1>3. CallTypeOK /\ LateIsLast
    BY <1>a DEF CallTypeOK, LateIsLast
  <1>4. LoopInv
    BY ToolLoopAssumption DEF LoopInv, LoopTypeOK, Spending, Progress
  <1> QED
    BY <1>2, <1>3, <1>4 DEF Inv, CallInv, OnlyAsking

LEMMA InvStutter == Inv /\ (Cancel \/ UNCHANGED callVars) /\ UNCHANGED loopVars => Inv'
  <1> SUFFICES ASSUME Inv, Cancel \/ UNCHANGED callVars, UNCHANGED loopVars PROVE Inv'
    OBVIOUS
  <1>1. CallInv'
    BY InvCancel, CallsUntouched DEF Inv
  <1>2. LoopInv'
    BY DEF Inv, LoopInv, LoopTypeOK, Spending, Progress, loopVars
  <1>3. OnlyAsking'
    BY DEF Inv, OnlyAsking, loopVars, callVars, Cancel
  <1> QED
    BY <1>1, <1>2, <1>3 DEF Inv

LEMMA Invariance == Spec => []Inv
  <1>1. Inv /\ [Next]_vars => Inv'
    BY InvStep, InvInCall, InvStutter DEF Next, Step, Slot, vars
  <1> QED
    BY <1>1, InvInit, PTL DEF Spec

-----------------------------------------------------------------------------
\* The calls and the loops of every caller are of their types.
THEOREM TypeCorrect == Spec => []TypeOK
  <1>1. Inv => TypeOK
    BY DEF Inv, CallInv, LoopInv, LoopTypeOK, OnlyAsking, TypeOK
  <1> QED
    BY <1>1, Invariance, PTL

\* The limiter's count is the number of callers that hold a slot, whichever way calls end.
THEOREM SlotsAreConserved == Spec => []SlotsConserved
  BY Invariance, PTL DEF Inv, CallInv

\* No caller sends two requests after the run was cancelled.
THEOREM LateAtMostOnce == Spec => []OneLateRequest
  <1>1. Inv => OneLateRequest
    BY DEF Inv, CallInv, LateIsLast, OneLateRequest
  <1> QED
    BY <1>1, Invariance, PTL

\* All loops of one request together run no more tools than the cap.
THEOREM ToolsWithinCap == Spec => []CallsWithinCap
  <1>1. Inv => CallsWithinCap
    BY DEF Inv, LoopInv, Spending, CallsWithinCap
  <1> QED
    BY <1>1, Invariance, PTL

\* The character budget is overdrawn by one truncation notice at most.
THEOREM CharsOverdrawnOnce == Spec => []OverdrawnOnce
  <1>1. Inv => OverdrawnOnce
    BY DEF Inv, LoopInv, Spending, OverdrawnOnce
  <1> QED
    BY <1>1, Invariance, PTL

\* Whenever the model is called, every tool call in the conversation has its result.
THEOREM CallsAreAnswered == Spec => []EveryCallAnswered
  <1>1. Inv => EveryCallAnswered
    BY DEF Inv, LoopInv, Spending, EveryCallAnswered
  <1> QED
    BY <1>1, Invariance, PTL

\* A loop calls the model at most twice more than it has turns.
THEOREM LoopsAreBounded == Spec => []CompletionsBounded
  <1>1. Inv => CompletionsBounded
    BY ToolLoopAssumption DEF Inv, LoopInv, LoopTypeOK, Progress, CompletionsBounded
  <1> QED
    BY <1>1, Invariance, PTL
-----------------------------------------------------------------------------
(***************************************************************************)
(* The callers that hold a slot, against Limiter.                          *)
(***************************************************************************)
Shared == INSTANCE Limiter WITH Client <- Callers, Capacity <- Slots, inside <- Holders

LEMMA HoldersMove ==
  ASSUME CallInv, NEW c \in Callers, NEW place, at' = [at EXCEPT ![c] = place]
  PROVE  Holders' = IF place \in Holding THEN Holders \cup {c} ELSE Holders \ {c}
  BY DEF CallInv, CallTypeOK, Holders

LEMMA Stays ==
  ASSUME CallInv, NEW c \in Callers, NEW place, at' = [at EXCEPT ![c] = place],
         place \in Holding <=> at[c] \in Holding
  PROVE  UNCHANGED Holders
  BY HoldersMove DEF Holders

LEMMA ReturnReleases ==
  ASSUME CallInv, NEW c \in Callers, at[c] \in Holding, NEW result, Return(c, result)
  PROVE  Shared!Release(c)
  BY HoldersMove DEF Return, Shared!Release, Holders

LEMMA SlotAcquires ==
  ASSUME CallInv, NEW c \in Callers, GetSlot(c)
  PROVE  Shared!Acquire(c)
  <1>1. c \notin Holders /\ Holders' = Holders \cup {c}
    BY HoldersMove DEF GetSlot, Holders
  <1>2. Cardinality(Holders) < Slots
    BY DEF CallInv, SlotsConserved, Holders, GetSlot, Free
  <1>3. Shared!Cardinality(Holders) = Cardinality(Holders)
    BY DEF Shared!Cardinality, Cardinality
  <1> QED
    BY <1>1, <1>2, <1>3 DEF Shared!Acquire

LEMMA RetryStays ==
  ASSUME CallInv, NEW c \in Callers, at[c] \in Holding, Retry(c)
  PROVE  UNCHANGED Holders
  BY Stays DEF Retry

LEMMA SharedCallStep ==
  ASSUME CallInv, NEW c \in Callers, CallStep(c)
  PROVE  Shared!Release(c) \/ UNCHANGED Holders
  <1>1. CASE Exhausted(c) \/ StopCancelled(c) \/ CancelBackoff(c)
    BY <1>1, ReturnReleases DEF Exhausted, StopCancelled, CancelBackoff
  <1>2. CASE RoundTripFails(c) \/ ReadFails(c)
    BY <1>2, ReturnReleases, RetryStays DEF RoundTripFails, ReadFails, Fail
  <1>3. CASE StopTimer(c)
    <2>1. CASE at' = [at EXCEPT ![c] = "reading"]
      BY <1>3, <2>1, Stays DEF StopTimer
    <2>2. CASE Fail(c)
      BY <1>3, <2>2, ReturnReleases, RetryStays DEF StopTimer, Fail
    <2> QED
      BY <1>3, <2>1, <2>2 DEF StopTimer
  <1>4. CASE ReadEnds(c)
    BY <1>4, ReturnReleases DEF ReadEnds
  <1>5. CASE GiveUp(c)
    BY <1>5, Stays DEF GiveUp
  <1>6. CASE Backoff(c) \/ Send(c) \/ HeadersArrive(c)
    BY <1>6, Stays DEF Backoff, Send, HeadersArrive
  <1>7. CASE HeaderTimer(c) \/ Stall(c)
    BY <1>7 DEF HeaderTimer, Stall, Holders
  <1> QED
    BY <1>1, <1>2, <1>3, <1>4, <1>5, <1>6, <1>7 DEF CallStep

\* a loop calls the model, which takes no slot yet, or leaves the calls alone
LEMMA LoopCallsOrNot ==
  ASSUME NEW c \in Callers, LoopStep(c)
  PROVE  Call(c) \/ UNCHANGED callVars
  BY DEF LoopStep, StartOneShot, OneShotEnds, Start, TurnFails, TurnAnswers, TurnAsks,
         TurnRefused, RunTool, EndTurn, FinalFails, FinalAnswers, FinalIsEmpty, RetryEnds,
         EndOrAgain, EndRequest, AskUnstructured, BeginRequest, BeginLoop, EnterLoop, Over, Ask

LEMMA LoopTakesNoSlot ==
  ASSUME CallInv, NEW c \in Callers, LoopStep(c)
  PROVE  UNCHANGED Holders
  <1>1. CASE Call(c)
    BY <1>1, Stays DEF Call
  <1>2. CASE UNCHANGED callVars
    BY <1>2 DEF callVars, Holders
  <1> QED
    BY <1>1, <1>2, LoopCallsOrNot

LEMMA SharedStep ==
  ASSUME CallInv, [Next]_vars
  PROVE  [Shared!Next]_Holders
  <1>1. ASSUME NEW c \in Callers, Step(c)
        PROVE  [Shared!Next]_Holders
    BY <1>1, SharedCallStep, LoopTakesNoSlot DEF Step, Shared!Next
  <1>2. ASSUME NEW c \in Callers, Slot(c)
        PROVE  Shared!Next
    BY <1>2, SlotAcquires DEF Slot, Shared!Next
  <1>3. CASE Cancel \/ UNCHANGED vars
    BY <1>3 DEF Cancel, vars, callVars, Holders
  <1> QED
    BY <1>1, <1>2, <1>3 DEF Next

(***************************************************************************)
(* The calls implement Limiter: whatever is retried, stalls, times out or  *)
(* is cancelled, and however many loops share the endpoint, no more than   *)
(* its capacity are inside, and each leaves once for each time it entered. *)
(***************************************************************************)
THEOREM ImplementsLimiter == Spec => Shared!Spec
  <1>1. Init => Shared!Init
    BY DEF Init, CallInit, Shared!Init, Holders
  <1>2. Inv /\ [Next]_vars => [Shared!Next]_Holders
    BY SharedStep DEF Inv
  <1> QED
    BY <1>1, <1>2, Invariance, PTL DEF Spec, Shared!Spec
-----------------------------------------------------------------------------
(***************************************************************************)
(* Why every caller ends: what it has left to do, most significant first.  *)
(* The requests of its conversation, the loops of a request, the calls of  *)
(* a loop, and in the end the tools of a turn or the steps of a call.      *)
(***************************************************************************)
RequestsLeft(c) ==
    IF phase[c] = "over" THEN 0
    ELSE IF phase[c] = "idle" THEN 3
    ELSE IF c \in unstructured THEN 1 ELSE 2

LoopsLeft(c) == (MaxTries - tries[c]) + (MaxEscalations - escalations[c])

TurnsLeft(c) ==
    IF phase[c] = "turn" THEN 2 * (MaxTurns - turn[c]) + 2
    ELSE IF phase[c] = "tools" THEN 2 * (MaxTurns - turn[c]) + 1
    ELSE IF phase[c] = "final" THEN 1 ELSE 0

\* the two timers of an attempt fire once each
TimersLeft(c) == (IF c \in aborted THEN 0 ELSE 1) + (IF c \in stalled THEN 0 ELSE 1)

PlacesLeft ==
    [head |-> 6, backoff |-> 5, headers |-> 11, timer |-> 10, reading |-> 9]

CallLeft(c) ==
    IF at[c] = "out" THEN 0
    ELSE IF at[c] = "waiting" THEN 8 * MaxAttempts + 9
    ELSE 8 * (MaxAttempts - attempt[c]) + TimersLeft(c) + PlacesLeft[at[c]]

WorkLeft(c) == IF phase[c] = "tools" THEN pending[c] ELSE CallLeft(c)

CallsFall(c) ==
    \/ TurnsLeft(c)' < TurnsLeft(c)
    \/ TurnsLeft(c)' = TurnsLeft(c) /\ WorkLeft(c)' < WorkLeft(c)

LoopsFall(c) ==
    \/ LoopsLeft(c)' < LoopsLeft(c)
    \/ LoopsLeft(c)' = LoopsLeft(c) /\ CallsFall(c)

LeftFalls(c) ==
    \/ RequestsLeft(c)' < RequestsLeft(c)
    \/ RequestsLeft(c)' = RequestsLeft(c) /\ LoopsFall(c)

LeftStays(c) ==
    UNCHANGED <<RequestsLeft(c), LoopsLeft(c), TurnsLeft(c), WorkLeft(c)>>

LEMMA LeftIsNat ==
  ASSUME Inv, NEW c \in Callers
  PROVE  /\ RequestsLeft(c) \in Nat /\ LoopsLeft(c) \in Nat
         /\ TurnsLeft(c) \in Nat /\ WorkLeft(c) \in Nat
  <1> USE DEF Inv, CallInv, CallTypeOK, LoopInv, LoopTypeOK
  <1>1. RequestsLeft(c) \in Nat
    BY DEF RequestsLeft
  <1>2. LoopsLeft(c) \in Nat
    BY ToolLoopAssumption DEF LoopsLeft
  <1>3. TurnsLeft(c) \in Nat
    BY ToolLoopAssumption DEF TurnsLeft
  <1>4. CallLeft(c) \in Nat
    <2>1. MaxAttempts \in Nat /\ attempt[c] \in 0 .. MaxAttempts /\ TimersLeft(c) \in 0 .. 2
      BY LlmCallsAssumption DEF TimersLeft
    <2>2. at[c] \notin {"out", "waiting"} => PlacesLeft[at[c]] \in 5 .. 11
      BY DEF PlacesLeft
    <2> QED
      BY <2>1, <2>2 DEF CallLeft
  <1>5. WorkLeft(c) \in Nat
    BY <1>4 DEF WorkLeft
  <1> QED
    BY <1>1, <1>2, <1>3, <1>5

\* a call that holds a slot has at least five steps left, whatever its attempt
LEMMA HoldingLeft ==
  ASSUME CallTypeOK, NEW c \in Callers, at[c] \in Holding
  PROVE  /\ CallLeft(c) = 8 * (MaxAttempts - attempt[c]) + TimersLeft(c) + PlacesLeft[at[c]]
         /\ PlacesLeft[at[c]] \in 5 .. 11 /\ TimersLeft(c) \in 0 .. 2
         /\ MaxAttempts \in Nat /\ attempt[c] \in 0 .. MaxAttempts
         /\ CallLeft(c) >= 5
  <1>1. /\ MaxAttempts \in Nat /\ attempt[c] \in 0 .. MaxAttempts
        /\ TimersLeft(c) \in 0 .. 2
    BY LlmCallsAssumption DEF CallTypeOK, TimersLeft
  <1>2. PlacesLeft[at[c]] \in 5 .. 11
    BY DEF PlacesLeft
  <1>3. CallLeft(c) = 8 * (MaxAttempts - attempt[c]) + TimersLeft(c) + PlacesLeft[at[c]]
    BY DEF CallLeft
  <1> QED
    BY <1>1, <1>2, <1>3

LEMMA ReturnFalls ==
  ASSUME CallTypeOK, NEW c \in Callers, at[c] \in Holding, NEW result, Return(c, result)
  PROVE  CallLeft(c)' < CallLeft(c)
  <1>1. CallLeft(c)' = 0
    BY DEF Return, CallTypeOK, CallLeft
  <1> QED
    BY <1>1, HoldingLeft

\* a new attempt has its timers again, and fewer places before it than the old one had behind it
LEMMA RetryFalls ==
  ASSUME CallTypeOK, NEW c \in Callers, at[c] \in InAttempt, Retry(c)
  PROVE  CallLeft(c)' < CallLeft(c)
  <1>1. at'[c] = "head" /\ attempt' = attempt /\ aborted' = aborted \ {c} /\ stalled' = stalled \ {c}
    BY DEF Retry, CallTypeOK
  <1>2. CallLeft(c)' = 8 * (MaxAttempts - attempt[c]) + 2 + 6
    BY <1>1 DEF CallLeft, TimersLeft, PlacesLeft
  <1>3. PlacesLeft[at[c]] \in 9 .. 11
    BY DEF PlacesLeft
  <1> QED
    BY <1>2, <1>3, HoldingLeft

LEMMA SlotFalls ==
  ASSUME CallTypeOK, NEW c \in Callers, GetSlot(c)
  PROVE  CallLeft(c)' < CallLeft(c)
  <1>1. CallLeft(c) = 8 * MaxAttempts + 9
    BY DEF GetSlot, CallLeft
  <1>2. at'[c] = "head" /\ UNCHANGED <<attempt, aborted, stalled>>
    BY DEF GetSlot, CallTypeOK
  <1>3. CallLeft(c)' = 8 * (MaxAttempts - attempt[c]) + TimersLeft(c) + 6
    BY <1>2 DEF CallLeft, TimersLeft, PlacesLeft
  <1>4. TimersLeft(c) \in 0 .. 2 /\ MaxAttempts \in Nat /\ attempt[c] \in 0 .. MaxAttempts
    BY LlmCallsAssumption DEF TimersLeft, CallTypeOK
  <1> QED
    BY <1>1, <1>3, <1>4

\* the steps on the way from one attempt to the end of the next
LEMMA WithinFalls ==
  ASSUME CallTypeOK, NEW c \in Callers,
         \/ GiveUp(c) \/ Backoff(c) \/ HeaderTimer(c) \/ HeadersArrive(c) \/ Stall(c) \/ Send(c)
         \/ /\ at[c] = "timer" /\ at' = [at EXCEPT ![c] = "reading"]
            /\ UNCHANGED <<cancelled, inUse, attempt, aborted, stalled, reply, late>>
  PROVE  CallLeft(c)' < CallLeft(c)
  <1> USE DEF CallTypeOK
  <1>1. CASE GiveUp(c)
    BY <1>1, LlmCallsAssumption DEF GiveUp, CallLeft
  <1>2. CASE Backoff(c)
    <2>1. at[c] = "head" /\ at'[c] = "backoff" /\ UNCHANGED <<attempt, aborted, stalled>>
      BY <1>2 DEF Backoff
    <2>2. CallLeft(c)' = 8 * (MaxAttempts - attempt[c]) + TimersLeft(c) + 5
      BY <2>1 DEF CallLeft, TimersLeft, PlacesLeft
    <2> QED
      BY <2>1, <2>2, HoldingLeft DEF PlacesLeft
  <1>3. CASE HeadersArrive(c)
    <2>1. at[c] = "headers" /\ at'[c] = "timer" /\ UNCHANGED <<attempt, aborted, stalled>>
      BY <1>3 DEF HeadersArrive
    <2>2. CallLeft(c)' = 8 * (MaxAttempts - attempt[c]) + TimersLeft(c) + 10
      BY <2>1 DEF CallLeft, TimersLeft, PlacesLeft
    <2> QED
      BY <2>1, <2>2, HoldingLeft DEF PlacesLeft
  <1>4. CASE /\ at[c] = "timer" /\ at' = [at EXCEPT ![c] = "reading"]
             /\ UNCHANGED <<cancelled, inUse, attempt, aborted, stalled, reply, late>>
    <2>1. CallLeft(c)' = 8 * (MaxAttempts - attempt[c]) + TimersLeft(c) + 9
      BY <1>4 DEF CallLeft, TimersLeft, PlacesLeft
    <2> QED
      BY <1>4, <2>1, HoldingLeft DEF PlacesLeft
  <1>5. CASE HeaderTimer(c) \/ Stall(c)
    <2>1. at[c] \in Holding /\ UNCHANGED <<at, attempt>>
      BY <1>5 DEF HeaderTimer, Stall
    <2>2. TimersLeft(c)' \in 0 .. 2 /\ TimersLeft(c)' < TimersLeft(c)
      BY <1>5 DEF HeaderTimer, Stall, TimersLeft
    <2>3. CallLeft(c)' = 8 * (MaxAttempts - attempt[c]) + TimersLeft(c)' + PlacesLeft[at[c]]
      BY <2>1 DEF CallLeft
    <2> QED
      BY <2>1, <2>2, <2>3, HoldingLeft
  <1>6. CASE Send(c)
    <2>1. /\ at[c] \in {"head", "backoff"} /\ at'[c] = "headers" /\ UNCHANGED <<aborted, stalled>>
          /\ attempt'[c] = attempt[c] + 1
      BY <1>6 DEF Send
    <2>2. CallLeft(c)' = 8 * (MaxAttempts - (attempt[c] + 1)) + TimersLeft(c) + 11
      BY <2>1 DEF CallLeft, TimersLeft, PlacesLeft
    <2>3. PlacesLeft[at[c]] >= 5 /\ at[c] \in Holding
      BY <2>1 DEF PlacesLeft
    <2> QED
      BY <2>2, <2>3, HoldingLeft
  <1> QED
    BY <1>1, <1>2, <1>3, <1>4, <1>5, <1>6

LEMMA CallFalls ==
  ASSUME CallTypeOK, NEW c \in Callers, CallStep(c) \/ GetSlot(c)
  PROVE  CallLeft(c)' < CallLeft(c)
  <1>1. CASE Exhausted(c) \/ StopCancelled(c) \/ CancelBackoff(c)
    BY <1>1, ReturnFalls DEF Exhausted, StopCancelled, CancelBackoff
  <1>2. CASE RoundTripFails(c) \/ ReadFails(c)
    BY <1>2, ReturnFalls, RetryFalls DEF RoundTripFails, ReadFails, Fail
  <1>3. CASE StopTimer(c)
    BY <1>3, ReturnFalls, RetryFalls, WithinFalls DEF StopTimer, Fail
  <1>4. CASE ReadEnds(c)
    BY <1>4, ReturnFalls DEF ReadEnds
  <1>5. CASE GiveUp(c) \/ Backoff(c) \/ HeaderTimer(c) \/ HeadersArrive(c) \/ Stall(c) \/ Send(c)
    BY <1>5, WithinFalls
  <1>6. CASE GetSlot(c)
    BY <1>6, SlotFalls
  <1> QED
    BY <1>1, <1>2, <1>3, <1>4, <1>5, <1>6 DEF CallStep
LEMMA InCallFalls ==
  ASSUME Inv, NEW c \in Callers, CallStep(c) \/ GetSlot(c), UNCHANGED loopVars
  PROVE  LeftFalls(c)
  <1>1. at[c] # "out"
    BY DEF CallStep, GetSlot, GiveUp, Exhausted, StopCancelled, Backoff, CancelBackoff, Send,
           HeaderTimer, HeadersArrive, RoundTripFails, StopTimer, Stall, ReadFails, ReadEnds
  <1>2. phase[c] # "tools"
    BY <1>1 DEF Inv, OnlyAsking
  <1>3. CallLeft(c)' < CallLeft(c)
    BY CallFalls DEF Inv, CallInv
  <1>4. WorkLeft(c)' < WorkLeft(c)
    BY <1>2, <1>3 DEF WorkLeft, loopVars
  <1>5. UNCHANGED <<RequestsLeft(c), LoopsLeft(c), TurnsLeft(c)>>
    BY DEF loopVars, RequestsLeft, LoopsLeft, TurnsLeft
  <1> QED
    BY <1>4, <1>5 DEF LeftFalls, LoopsFall, CallsFall

LEMMA OverFalls ==
  ASSUME Inv, NEW c \in Callers, phase[c] # "over", Over(c)
  PROVE  LeftFalls(c)
  <1>1. phase'[c] = "over"
    BY DEF Over, Inv, LoopInv, LoopTypeOK
  <1>2. RequestsLeft(c)' = 0
    BY <1>1 DEF RequestsLeft
  <1>3. RequestsLeft(c) > 0
    BY DEF RequestsLeft
  <1> QED
    BY <1>2, <1>3 DEF LeftFalls

LEMMA EndRequestFalls ==
  ASSUME Inv, NEW c \in Callers, phase[c] \notin {"over", "idle"}, EndRequest(c)
  PROVE  LeftFalls(c)
  <1>1. CASE AskUnstructured(c)
    <2>1. RequestsLeft(c) = 2
      BY <1>1 DEF AskUnstructured, RequestsLeft
    <2>2. phase'[c] = "turn" /\ c \in unstructured'
      BY <1>1 DEF AskUnstructured, BeginRequest, EnterLoop, Inv, LoopInv, LoopTypeOK
    <2>3. RequestsLeft(c)' = 1
      BY <2>2 DEF RequestsLeft
    <2> QED
      BY <2>1, <2>3 DEF LeftFalls
  <1> QED
    BY <1>1, OverFalls DEF EndRequest

LEMMA EndOrAgainFalls ==
  ASSUME Inv, NEW c \in Callers, phase[c] \notin {"over", "idle"}, EndOrAgain(c)
  PROVE  LeftFalls(c)
  <1> USE DEF Inv, LoopInv, LoopTypeOK
  <1>1. CASE /\ \/ /\ escalations[c] < MaxEscalations
                   /\ escalations' = [escalations EXCEPT ![c] = @ + 1] /\ UNCHANGED tries
                \/ /\ tries[c] + 1 < MaxTries
                   /\ tries' = [tries EXCEPT ![c] = @ + 1] /\ UNCHANGED escalations
             /\ BeginLoop(c) /\ UNCHANGED unstructured
    <2>1. phase'[c] = "turn"
      BY <1>1 DEF BeginLoop, EnterLoop
    <2>2. RequestsLeft(c)' = RequestsLeft(c)
      BY <1>1, <2>1 DEF RequestsLeft
    <2>3. LoopsLeft(c)' < LoopsLeft(c)
      BY <1>1, ToolLoopAssumption DEF LoopsLeft
    <2> QED
      BY <2>2, <2>3 DEF LeftFalls, LoopsFall
  <1> QED
    BY <1>1, EndRequestFalls DEF EndOrAgain

\* the next call of a loop is one of those it had left
LEMMA AskFalls ==
  ASSUME Inv, NEW c \in Callers, NEW as \in Asking, Ask(c, as),
         phase[c] \notin {"over", "idle"}, UNCHANGED request, TurnsLeft(c)' < TurnsLeft(c)
  PROVE  LeftFalls(c)
  <1>1. phase'[c] = as
    BY DEF Ask, Inv, LoopInv, LoopTypeOK
  <1>2. UNCHANGED <<RequestsLeft(c), LoopsLeft(c)>>
    BY <1>1 DEF RequestsLeft, LoopsLeft
  <1> QED
    BY <1>2 DEF LeftFalls, LoopsFall, CallsFall

LEMMA LoopStepFalls ==
  ASSUME Inv, NEW c \in Callers, LoopStep(c)
  PROVE  LeftFalls(c)
  <1> USE DEF Inv, LoopInv, LoopTypeOK
  <1>1. CASE Start(c)
    <2>1. RequestsLeft(c) = 3
      BY <1>1 DEF Start, RequestsLeft
    <2>2. phase'[c] = "turn"
      BY <1>1 DEF Start, BeginRequest, EnterLoop
    <2>3. RequestsLeft(c)' \in {1, 2}
      BY <2>2 DEF RequestsLeft
    <2> QED
      BY <2>1, <2>3 DEF LeftFalls
  <1>2. CASE StartOneShot(c)
    <2>1. RequestsLeft(c) = 3
      BY <1>2 DEF StartOneShot, RequestsLeft
    <2>2. phase'[c] = "only"
      BY <1>2 DEF StartOneShot, Ask
    <2>3. RequestsLeft(c)' \in {1, 2}
      BY <2>2 DEF RequestsLeft
    <2> QED
      BY <2>1, <2>3 DEF LeftFalls
  <1>3. CASE OneShotEnds(c)
    BY <1>3, OverFalls DEF OneShotEnds, Answered
  <1>4. CASE TurnFails(c) \/ FinalFails(c)
    BY <1>4, EndOrAgainFalls DEF TurnFails, FinalFails, Answered
  <1>5. CASE TurnAnswers(c) \/ FinalAnswers(c) \/ RetryEnds(c)
    BY <1>5, EndRequestFalls DEF TurnAnswers, FinalAnswers, RetryEnds, Answered
  <1>6. CASE TurnAsks(c)
    <2>1. phase[c] = "turn" /\ phase'[c] = "tools" /\ UNCHANGED <<turn, tries, escalations, unstructured>>
      BY <1>6 DEF TurnAsks, Answered
    <2>2. UNCHANGED <<RequestsLeft(c), LoopsLeft(c)>>
      BY <2>1 DEF RequestsLeft, LoopsLeft
    <2>3. TurnsLeft(c)' < TurnsLeft(c)
      BY <2>1, ToolLoopAssumption DEF TurnsLeft
    <2> QED
      BY <2>2, <2>3 DEF LeftFalls, LoopsFall, CallsFall
  <1>7. CASE RunTool(c)
    <2>1. phase[c] = "tools" /\ UNCHANGED <<phase, turn, tries, escalations, unstructured>>
      BY <1>7 DEF RunTool
    <2>2. UNCHANGED <<RequestsLeft(c), LoopsLeft(c), TurnsLeft(c)>>
      BY <2>1 DEF RequestsLeft, LoopsLeft, TurnsLeft
    <2>3. WorkLeft(c)' < WorkLeft(c)
      BY <1>7, <2>1 DEF RunTool, WorkLeft
    <2> QED
      BY <2>2, <2>3 DEF LeftFalls, LoopsFall, CallsFall
  <1>8. CASE TurnRefused(c)
    <2>1. phase[c] = "turn" /\ phase'[c] = "final" /\ turn[c] < MaxTurns
      BY <1>8 DEF TurnRefused, Answered, Ask, Progress
    <2>2. TurnsLeft(c)' < TurnsLeft(c)
      BY <2>1, ToolLoopAssumption DEF TurnsLeft
    <2> QED
      BY <1>8, <2>1, <2>2, AskFalls DEF TurnRefused
  <1>9. CASE EndTurn(c)
    <2>1. /\ phase[c] = "tools" /\ turn[c] < MaxTurns /\ turn'[c] = turn[c] + 1
          /\ UNCHANGED <<tries, escalations, unstructured>>
      BY <1>9 DEF EndTurn, Progress
    <2>2. PICK as \in {"turn", "final"} : Ask(c, as)
      BY <1>9 DEF EndTurn
    <2>3. phase'[c] = as
      BY <2>2 DEF Ask
    <2>4. TurnsLeft(c)' < TurnsLeft(c)
      <3>1. /\ TurnsLeft(c) = 2 * (MaxTurns - turn[c]) + 1
            /\ MaxTurns \in Nat /\ turn[c] \in Nat
        BY <2>1, ToolLoopAssumption DEF TurnsLeft
      <3>2. TurnsLeft(c)' \in {1, 2 * (MaxTurns - (turn[c] + 1)) + 2}
        BY <2>1, <2>3 DEF TurnsLeft
      <3> QED
        BY <2>1, <3>1, <3>2
    <2> QED
      BY <2>1, <2>2, <2>4, AskFalls
  <1>10. CASE FinalIsEmpty(c)
    <2>1. phase[c] = "final" /\ phase'[c] = "retry"
      BY <1>10 DEF FinalIsEmpty, MayRetry, Ask
    <2>2. TurnsLeft(c)' < TurnsLeft(c)
      BY <2>1 DEF TurnsLeft
    <2> QED
      BY <1>10, <2>1, <2>2, AskFalls DEF FinalIsEmpty
  <1> QED
    BY <1>1, <1>2, <1>3, <1>4, <1>5, <1>6, <1>7, <1>8, <1>9, <1>10 DEF LoopStep

-----------------------------------------------------------------------------
\* What the measure of a caller reads, and what a step of another leaves alone.
Read(c) == <<phase[c], turn[c], pending[c], tries[c], escalations[c], c \in unstructured,
             at[c], attempt[c], c \in aborted, c \in stalled>>

LEMMA ReadDecides ==
  ASSUME NEW d, UNCHANGED Read(d)
  PROVE  LeftStays(d)
  <1>1. /\ UNCHANGED <<phase[d], turn[d], pending[d], tries[d], escalations[d], at[d], attempt[d]>>
        /\ d \in unstructured' <=> d \in unstructured
        /\ d \in aborted' <=> d \in aborted
        /\ d \in stalled' <=> d \in stalled
    BY DEF Read
  <1>2. UNCHANGED <<RequestsLeft(d), LoopsLeft(d), TurnsLeft(d)>>
    BY <1>1 DEF RequestsLeft, LoopsLeft, TurnsLeft
  <1>3. UNCHANGED WorkLeft(d)
    BY <1>1 DEF WorkLeft, CallLeft, TimersLeft
  <1> QED
    BY <1>2, <1>3 DEF LeftStays

LEMMA OthersInCall ==
  ASSUME CallTypeOK, NEW c \in Callers, CallStep(c) \/ GetSlot(c) \/ Call(c),
         NEW d \in Callers, d # c
  PROVE  /\ UNCHANGED <<at[d], attempt[d]>>
         /\ d \in aborted' <=> d \in aborted
         /\ d \in stalled' <=> d \in stalled
  BY DEF CallTypeOK, CallStep, GetSlot, Call, GiveUp, Exhausted, StopCancelled, Backoff,
         CancelBackoff, Send, HeaderTimer, HeadersArrive, RoundTripFails, StopTimer, Stall,
         ReadFails, ReadEnds, Fail, Retry, Return

LEMMA OthersInLoop ==
  ASSUME LoopTypeOK, NEW c \in Callers, LoopStep(c), NEW d \in Callers, d # c
  PROVE  /\ UNCHANGED <<phase[d], turn[d], pending[d], tries[d], escalations[d]>>
         /\ d \in unstructured' <=> d \in unstructured
  <1> USE DEF LoopTypeOK
  <1>1. ASSUME EnterLoop(c)
        PROVE  UNCHANGED <<phase[d], turn[d], pending[d]>>
    BY <1>1 DEF EnterLoop
  <1>2. ASSUME EndRequest(c)
        PROVE  /\ UNCHANGED <<phase[d], turn[d], pending[d], tries[d], escalations[d]>>
               /\ d \in unstructured' <=> d \in unstructured
    BY <1>1, <1>2 DEF EndRequest, AskUnstructured, BeginRequest, Over
  <1>3. CASE TurnFails(c) \/ FinalFails(c)
    BY <1>1, <1>2, <1>3 DEF TurnFails, FinalFails, EndOrAgain, BeginLoop
  <1>4. CASE TurnAnswers(c) \/ FinalAnswers(c) \/ RetryEnds(c)
    BY <1>2, <1>4 DEF TurnAnswers, FinalAnswers, RetryEnds
  <1>5. CASE OneShotEnds(c)
    BY <1>2, <1>5 DEF OneShotEnds, EndRequest
  <1>6. CASE Start(c)
    BY <1>1, <1>6 DEF Start, BeginRequest
  <1>7. CASE StartOneShot(c) \/ TurnRefused(c) \/ EndTurn(c) \/ FinalIsEmpty(c)
    BY <1>7 DEF StartOneShot, TurnRefused, EndTurn, FinalIsEmpty, Ask
  <1>8. CASE TurnAsks(c) \/ RunTool(c)
    BY <1>8 DEF TurnAsks, RunTool
  <1> QED
    BY <1>3, <1>4, <1>5, <1>6, <1>7, <1>8 DEF LoopStep

LEMMA OthersStay ==
  ASSUME Inv, NEW c \in Callers, Step(c) \/ Slot(c), NEW d \in Callers, d # c
  PROVE  LeftStays(d)
  <1>1. CASE LoopStep(c)
    <2>1. Call(c) \/ UNCHANGED callVars
      BY <1>1, LoopCallsOrNot
    <2>2. /\ UNCHANGED <<at[d], attempt[d]>>
          /\ d \in aborted' <=> d \in aborted
          /\ d \in stalled' <=> d \in stalled
      BY <2>1, OthersInCall DEF Inv, CallInv, callVars
    <2> QED
      BY <1>1, <2>2, OthersInLoop, ReadDecides DEF Inv, LoopInv, Read
  <1>2. CASE (CallStep(c) \/ GetSlot(c)) /\ UNCHANGED loopVars
    BY <1>2, OthersInCall, ReadDecides DEF Inv, CallInv, Read, loopVars
  <1> QED
    BY <1>1, <1>2 DEF Step, Slot

(***************************************************************************)
(* The safety half of EveryCallerEnds, for every number of callers, slots, *)
(* attempts, turns, tries and escalations: a step brings the caller that   *)
(* takes it nearer to its end, in a measure that cannot fall for ever, and *)
(* no other farther from its own.  Only the cancellation moves nobody.     *)
(***************************************************************************)
WorkFalls ==
    \/ \E c \in Callers : LeftFalls(c) /\ \A d \in Callers \ {c} : LeftStays(d)
    \/ ~cancelled /\ cancelled' /\ \A d \in Callers : LeftStays(d)

WorkIsNat == \A c \in Callers : /\ RequestsLeft(c) \in Nat /\ LoopsLeft(c) \in Nat
                               /\ TurnsLeft(c) \in Nat /\ WorkLeft(c) \in Nat

LEMMA WorkStep ==
  ASSUME Inv, [Next]_vars
  PROVE  [WorkFalls]_vars
  <1>1. ASSUME NEW c \in Callers, Step(c) \/ Slot(c)
        PROVE  WorkFalls
    BY <1>1, InCallFalls, LoopStepFalls, OthersStay DEF Step, Slot, WorkFalls
  <1>2. CASE Cancel /\ UNCHANGED loopVars
    <2>1. \A d \in Callers : LeftStays(d)
      BY <1>2, ReadDecides DEF Cancel, loopVars, Read
    <2> QED
      BY <1>2, <2>1 DEF Cancel, WorkFalls
  <1> QED
    BY <1>1, <1>2 DEF Next

\* No caller of the model can go on for ever, whatever the server, the timers and the tools do.
THEOREM WorkIsBounded == Spec => []WorkIsNat /\ [][WorkFalls]_vars
  <1>1. Inv => WorkIsNat
    BY LeftIsNat DEF WorkIsNat
  <1>2. Inv /\ [Next]_vars => [WorkFalls]_vars
    BY WorkStep
  <1> QED
    BY <1>1, <1>2, Invariance, PTL DEF Spec
=============================================================================
