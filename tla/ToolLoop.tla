------------------------------- MODULE ToolLoop -------------------------------
(***************************************************************************)
(* The conversation that generates one test (internal/generator,           *)
(* generateFromConversation, completeGenerateWithRetry) as a sequence of   *)
(* tool loops (internal/intelligence/tools, CompleteWithTools, finalTurn). *)
(* A loop calls the model, runs the tools it asks for and calls again,     *)
(* within a number of turns, and within calls and result characters that   *)
(* all loops of a request share (RunBudget).  Every call of the model is   *)
(* one of LlmCalls, so the conversations of several gaps meet at the       *)
(* limiter, and meet there the callers that use no tools.                  *)
(*                                                                         *)
(* A conversation is reduced to the tool calls in it that still lack their *)
(* result.  Left out: what tools return, other than its length; the second *)
(* phase of two-phase generation, which is another conversation; and the   *)
(* fixer's own retries around the same loop.                               *)
(***************************************************************************)
EXTENDS LlmCalls

CONSTANTS
    OneShot,         \* callers without tools: documentation, overview
    MaxTurns,        \* LoopOptions.turns
    CallsPerTurn, CallsPerRun, ResultChars,  \* LoopOptions: the three caps
    Notice,          \* length of the truncation notice
    Lengths,         \* lengths of a tool's result
    Requests,        \* numbers of tools a model asks for in a turn
    MaxTries,        \* maxRetries of completeGenerateWithRetry
    MaxEscalations   \* truncationEscalations

ASSUME ToolLoopAssumption ==
    /\ OneShot \subseteq Callers
    /\ {MaxTurns, CallsPerTurn, CallsPerRun, ResultChars, MaxTries} \subseteq Nat \ {0}
    /\ {Notice, MaxEscalations} \subseteq Nat
    /\ Lengths \subseteq Nat /\ Requests \subseteq Nat \ {0}

VARIABLES
    phase,       \* what a gap is doing: the call it made, or its tools
    turn,        \* turns of the loop completed
    calls,       \* RunBudget.calls
    chars,       \* RunBudget.resultChars
    pending,     \* tool calls of the turn still to be run
    unanswered,  \* tool calls of the conversation without a result
    spent,       \* budgetSpent: gaps whose loop has met the character cap
    tries, escalations, \* loops begun again after an error, after a truncation
    unstructured, \* conversations that have made their second request
    completions, \* history: calls of the model in the loop
    ran          \* history: tools run by the loops of this request

budget   == <<calls, chars>>
loop     == <<turn, pending, unanswered, spent>>
request  == <<tries, escalations, unstructured>>
loopVars == <<phase, budget, loop, request, completions, ran>>
vars == <<callVars, loopVars>>

Asking == {"turn", "final", "retry", "only"}

Init ==
    /\ CallInit
    /\ phase = [c \in Callers |-> "idle"]
    /\ turn = [c \in Callers |-> 0]
    /\ calls = [c \in Callers |-> 0] /\ chars = [c \in Callers |-> 0]
    /\ pending = [c \in Callers |-> 0] /\ unanswered = [c \in Callers |-> 0]
    /\ spent = {}
    /\ tries = [c \in Callers |-> 0] /\ escalations = [c \in Callers |-> 0]
    /\ unstructured = {}
    /\ completions = [c \in Callers |-> 0]
    /\ ran = [c \in Callers |-> 0]

-----------------------------------------------------------------------------
\* The next call of the model, as turn, as forced final turn or as its one retry.
Ask(c, as) ==
    /\ Call(c)
    /\ phase' = [phase EXCEPT ![c] = as]
    /\ completions' = [completions EXCEPT ![c] = @ + 1]

\* CompleteWithTools begins, on a conversation without tool calls.
EnterLoop(c) ==
    /\ Call(c)
    /\ phase' = [phase EXCEPT ![c] = "turn"]
    /\ completions' = [completions EXCEPT ![c] = 1]
    /\ turn' = [turn EXCEPT ![c] = 0]
    /\ spent' = spent \ {c}
    /\ pending' = [pending EXCEPT ![c] = 0] /\ unanswered' = [unanswered EXCEPT ![c] = 0]

\* A loop on what the loops of the request before it have left of the budget.
BeginLoop(c) == EnterLoop(c) /\ UNCHANGED budget

\* completeGenerateWithRetry begins: a new budget, no retry made yet.
BeginRequest(c) ==
    /\ EnterLoop(c)
    /\ calls' = [calls EXCEPT ![c] = 0] /\ chars' = [chars EXCEPT ![c] = 0]
    /\ tries' = [tries EXCEPT ![c] = 0] /\ escalations' = [escalations EXCEPT ![c] = 0]
    /\ ran' = [ran EXCEPT ![c] = 0]

Start(c) ==
    /\ phase[c] = "idle" /\ c \notin OneShot
    /\ BeginRequest(c)
    /\ UNCHANGED unstructured

(***************************************************************************)
(* A request is over: the provider refused structured output, or the reply *)
(* does not parse as such, and the conversation is sent once more without  *)
(* it; or the conversation ends.                                           *)
(***************************************************************************)
AskUnstructured(c) ==
    /\ c \notin unstructured
    /\ reply[c] \in Answers \cup {"failed"}
    /\ unstructured' = unstructured \cup {c}
    /\ BeginRequest(c)

\* The conversation ends, and its variables go with it.
Over(c) ==
    /\ phase' = [phase EXCEPT ![c] = "over"]
    /\ turn' = [turn EXCEPT ![c] = 0]
    /\ calls' = [calls EXCEPT ![c] = 0] /\ chars' = [chars EXCEPT ![c] = 0]
    /\ pending' = [pending EXCEPT ![c] = 0] /\ unanswered' = [unanswered EXCEPT ![c] = 0]
    /\ spent' = spent \ {c}
    /\ tries' = [tries EXCEPT ![c] = 0] /\ escalations' = [escalations EXCEPT ![c] = 0]
    /\ unstructured' = unstructured \ {c}
    /\ completions' = [completions EXCEPT ![c] = 0]
    /\ ran' = [ran EXCEPT ![c] = 0]
    /\ UNCHANGED callVars

EndRequest(c) == AskUnstructured(c) \/ Over(c)

(***************************************************************************)
(* The loop returned an error: a truncation is asked again with a larger   *)
(* cap, a transient failure once more, and neither counts for the other.   *)
(***************************************************************************)
EndOrAgain(c) ==
    \/ /\ reply[c] = "truncated" /\ escalations[c] < MaxEscalations
       /\ escalations' = [escalations EXCEPT ![c] = @ + 1]
       /\ BeginLoop(c)
       /\ UNCHANGED <<tries, unstructured, ran>>
    \/ /\ reply[c] = "failed" /\ tries[c] + 1 < MaxTries
       /\ tries' = [tries EXCEPT ![c] = @ + 1]
       /\ BeginLoop(c)
       /\ UNCHANGED <<escalations, unstructured, ran>>
    \/ EndRequest(c)

Answered(c, as) == phase[c] = as /\ at[c] = "out"

-----------------------------------------------------------------------------
TurnFails(c) ==
    /\ Answered(c, "turn") /\ reply[c] \in Errors
    /\ EndOrAgain(c)

\* The reply asks for no tool: it is the answer.
TurnAnswers(c) ==
    /\ Answered(c, "turn") /\ reply[c] \in Answers
    /\ EndRequest(c)

Least(m, n) == IF m <= n THEN m ELSE n

Allowed(c, asked) == Least(Least(asked, CallsPerTurn), CallsPerRun - calls[c])

\* mutant: the assistant's turn enters the conversation as it came
MutantListed(c, asked) == asked

Listed(c, asked) == Allowed(c, asked)

\* The assistant's turn is added with the calls that will be run, and with no other.
TurnAsks(c) ==
    /\ Answered(c, "turn") /\ reply[c] \in Answers
    /\ calls[c] < CallsPerRun
    /\ \E asked \in Requests :
           /\ pending' = [pending EXCEPT ![c] = Allowed(c, asked)]
           /\ unanswered' = [unanswered EXCEPT ![c] = Listed(c, asked)]
    /\ phase' = [phase EXCEPT ![c] = "tools"]
    /\ UNCHANGED <<callVars, budget, turn, spent, request, completions, ran>>

\* No call is left in the budget: the assistant's turn is not added, an answer is forced.
TurnRefused(c) ==
    /\ Answered(c, "turn") /\ reply[c] \in Answers
    /\ calls[c] >= CallsPerRun
    /\ Ask(c, "final")
    /\ UNCHANGED <<budget, loop, request, ran>>

\* What is kept of a result: nothing once the characters are spent, else what there is room for.
Kept(c, length) ==
    IF chars[c] >= ResultChars THEN 0
    ELSE IF chars[c] + length > ResultChars THEN ResultChars - chars[c] + Notice
    ELSE length

RunTool(c) ==
    /\ phase[c] = "tools" /\ pending[c] > 0
    /\ \E length \in Lengths :
           /\ chars' = [chars EXCEPT ![c] = @ + Kept(c, length)]
           /\ spent' = IF chars[c] >= ResultChars \/ chars[c] + length > ResultChars
                       THEN spent \cup {c} ELSE spent
    /\ calls' = [calls EXCEPT ![c] = @ + 1] /\ ran' = [ran EXCEPT ![c] = @ + 1]
    /\ pending' = [pending EXCEPT ![c] = @ - 1]
    /\ unanswered' = [unanswered EXCEPT ![c] = @ - 1]
    /\ UNCHANGED <<callVars, phase, turn, request, completions>>

\* The turn is over: an answer is forced when a budget or the last turn is spent.
EndTurn(c) ==
    /\ phase[c] = "tools" /\ pending[c] = 0
    /\ turn' = [turn EXCEPT ![c] = @ + 1]
    /\ IF c \in spent \/ calls[c] >= CallsPerRun \/ turn[c] + 1 = MaxTurns
       THEN Ask(c, "final") ELSE Ask(c, "turn")
    /\ UNCHANGED <<budget, pending, unanswered, spent, request, ran>>

-----------------------------------------------------------------------------
FinalFails(c) ==
    /\ Answered(c, "final") /\ reply[c] \in Errors
    /\ EndOrAgain(c)

FinalAnswers(c) ==
    /\ Answered(c, "final") /\ reply[c] \in Answers
    /\ EndRequest(c)

MayRetry(c) == phase[c] = "final"

FinalIsEmpty(c) ==
    /\ MayRetry(c) /\ at[c] = "out" /\ reply[c] \in Answers
    /\ Ask(c, "retry")
    /\ UNCHANGED <<budget, loop, request, ran>>

\* Whatever comes of the retry, the loop returns a result: at worst the empty one.
RetryEnds(c) ==
    /\ Answered(c, "retry")
    /\ EndRequest(c)

-----------------------------------------------------------------------------
\* A caller without tools makes one call.
StartOneShot(c) ==
    /\ phase[c] = "idle" /\ c \in OneShot
    /\ Ask(c, "only")
    /\ UNCHANGED <<budget, loop, request, ran>>

OneShotEnds(c) ==
    /\ Answered(c, "only")
    /\ Over(c)

LoopStep(c) ==
    \/ StartOneShot(c) \/ OneShotEnds(c)
    \/ Start(c) \/ TurnFails(c) \/ TurnAnswers(c) \/ TurnAsks(c) \/ TurnRefused(c)
    \/ RunTool(c) \/ EndTurn(c)
    \/ FinalFails(c) \/ FinalAnswers(c) \/ FinalIsEmpty(c) \/ RetryEnds(c)

Step(c) == LoopStep(c) \/ (CallStep(c) /\ UNCHANGED loopVars)
Slot(c) == GetSlot(c) /\ UNCHANGED loopVars

Next ==
    \/ \E c \in Callers : Step(c) \/ Slot(c)
    \/ Cancel /\ UNCHANGED loopVars

(***************************************************************************)
(* A goroutine that can go on does, and a timer that is armed fires unless *)
(* something happens first; a server that neither ends its stream nor      *)
(* falls silent is excluded.  Goroutines blocked on a channel are woken in *)
(* the order they came, so one cannot be passed over for ever.             *)
(***************************************************************************)
Fairness == \A c \in Callers : WF_vars(Step(c)) /\ SF_vars(Slot(c))

Spec == Init /\ [][Next]_vars /\ Fairness

-----------------------------------------------------------------------------
TypeOK ==
    /\ CallTypeOK
    /\ phase \in [Callers -> {"idle", "tools", "over"} \cup Asking]
    /\ \A c \in Callers : at[c] # "out" => phase[c] \in Asking
    /\ turn \in [Callers -> 0 .. MaxTurns]
    /\ calls \in [Callers -> Nat] /\ chars \in [Callers -> Nat]
    /\ pending \in [Callers -> Nat]
    /\ spent \subseteq Callers
    /\ tries \in [Callers -> 0 .. MaxTries] /\ escalations \in [Callers -> 0 .. MaxEscalations]
    /\ unstructured \subseteq Callers
    /\ completions \in [Callers -> Nat]
    /\ ran \in [Callers -> Nat]

(***************************************************************************)
(* RunBudget: "a budget scoped to a single call resets each time ... one   *)
(* gap made EIGHT loop invocations and 60 tool calls against a cap of 12". *)
(* All loops of a request together run no more tools than the cap.         *)
(***************************************************************************)
CallsWithinCap == \A c \in Callers : ran[c] + pending[c] <= CallsPerRun

(***************************************************************************)
(* The notice of a truncated result is charged too, and so overdraws the   *)
(* characters.  That happens once to a request, however many loops it      *)
(* makes: afterwards results are dropped, not truncated.                   *)
(***************************************************************************)
OverdrawnOnce == \A c \in Callers : chars[c] <= ResultChars + Notice

(***************************************************************************)
(* Providers refuse a conversation in which a tool call lacks its result.  *)
(* Calls are cut by two caps, run one by one, fail and lose their text;    *)
(* when the model is next called, each it was told it made has a result.   *)
(***************************************************************************)
EveryCallAnswered == \A c \in Callers : phase[c] # "tools" => unanswered[c] = 0

(***************************************************************************)
(* A loop calls the model once per turn, once for the forced answer, and   *)
(* once more when that is empty.                                           *)
(***************************************************************************)
CompletionsBounded == \A c \in Callers : completions[c] <= MaxTurns + 2

(***************************************************************************)
(* The limiter is "never held across a tool handler", so callers that      *)
(* outnumber its slots all come to an end, whatever is retried, stalls, or *)
(* is cancelled.                                                           *)
(***************************************************************************)
EveryCallerEnds == \A c \in Callers : <>(phase[c] = "over")
=============================================================================
