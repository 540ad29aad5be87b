------------------------------ MODULE AuditLog ------------------------------
(***************************************************************************)
(* JSONLLogger (internal/audit/audit.go): the goroutines of a run append   *)
(* entries to a bounded channel without ever waiting, one goroutine drains *)
(* it into a file, and Close drains what is left.  The contract of its     *)
(* comment is kept: Log is not called concurrently with Close, and may be  *)
(* called after it.                                                        *)
(***************************************************************************)
EXTENDS Integers, Sequences

CONSTANTS
    Loggers,    \* goroutines that call Log: the pipeline and the overview generator
    Closers,    \* callers of Close
    PerLogger,  \* bound of the model: entries one goroutine logs
    QueueSize   \* Options.QueueSize

ASSUME AuditAssumption == PerLogger \in Nat /\ QueueSize \in Nat \ {0}

VARIABLES
    logger,    \* where each logger is: outside Log, or about to send
    sent,      \* calls each logger has made
    queue,     \* l.ch
    closed,    \* l.closed, and l.ch closed with it
    drain,     \* the drain goroutine: receiving, writing or gone (l.done closed)
    held,      \* the entry it is writing
    file,      \* the lines in the file
    fileOpen,  \* l.w not closed yet
    written, dropped,  \* the two counters
    attempted, \* entries that reached the select
    closer,    \* where each caller of Close is
    panicked   \* a send on a closed channel

vars == <<logger, sent, queue, closed, drain, held, file, fileOpen, written,
          dropped, attempted, closer, panicked>>

Entries == Loggers \X (1 .. PerLogger)

Init ==
    /\ logger = [l \in Loggers |-> "out"]
    /\ sent = [l \in Loggers |-> 0]
    /\ queue = <<>>
    /\ closed = FALSE
    /\ drain = "receive"
    /\ held = <<>>
    /\ file = <<>>
    /\ fileOpen = TRUE
    /\ written = 0 /\ dropped = 0 /\ attempted = 0
    /\ closer = [c \in Closers |-> "out"]
    /\ panicked = FALSE

Closing == \E c \in Closers : closer[c] \in {"waiting", "blocked"}

(***************************************************************************)
(* enqueue: return at once when the logger is closed, else marshal and     *)
(* send.                                                                   *)
(***************************************************************************)
Accepts == ~closed

Log(l) ==
    /\ logger[l] = "out" /\ sent[l] < PerLogger
    /\ ~Closing
    /\ sent' = [sent EXCEPT ![l] = @ + 1]
    /\ logger' = IF Accepts THEN [logger EXCEPT ![l] = "sending"] ELSE logger
    /\ UNCHANGED <<queue, closed, drain, held, file, fileOpen, written, dropped,
                   attempted, closer, panicked>>

(***************************************************************************)
(* The select: into the channel if there is room, else the entry is        *)
(* dropped and counted.  A send on a closed channel panics.                *)
(***************************************************************************)
\* mutant: the channel has no capacity
MutantSelect(entry) ==
    /\ queue' = Append(queue, entry)
    /\ UNCHANGED dropped

Select(entry) ==
    \/ /\ Len(queue) < QueueSize
       /\ queue' = Append(queue, entry)
       /\ UNCHANGED dropped
    \/ /\ Len(queue) >= QueueSize
       /\ dropped' = dropped + 1
       /\ UNCHANGED queue

Send(l) ==
    /\ logger[l] = "sending"
    /\ logger' = [logger EXCEPT ![l] = "out"]
    /\ panicked' = (panicked \/ closed)
    /\ IF closed
       THEN UNCHANGED <<queue, dropped, attempted>>
       ELSE Select(<<l, sent[l]>>) /\ attempted' = attempted + 1
    /\ UNCHANGED <<sent, closed, drain, held, file, fileOpen, written, closer>>

(***************************************************************************)
(* drain: one entry at a time; a line that cannot be marshalled or written *)
(* is counted as dropped.  The loop ends when the channel is closed and    *)
(* empty.                                                                  *)
(***************************************************************************)
Receive ==
    /\ drain = "receive" /\ queue # <<>>
    /\ held' = <<Head(queue)>>
    /\ queue' = Tail(queue)
    /\ drain' = "write"
    /\ UNCHANGED <<logger, sent, closed, file, fileOpen, written, dropped, attempted,
                   closer, panicked>>

WriteFails == dropped' = dropped + 1 /\ UNCHANGED <<file, written>>

WriteSucceeds ==
    /\ fileOpen
    /\ file' = Append(file, Head(held))
    /\ written' = written + 1
    /\ UNCHANGED dropped

Write ==
    /\ drain = "write"
    /\ WriteFails \/ WriteSucceeds
    /\ held' = <<>>
    /\ drain' = "receive"
    /\ UNCHANGED <<logger, sent, queue, closed, fileOpen, attempted, closer, panicked>>

DrainEnds ==
    /\ drain = "receive" /\ queue = <<>> /\ closed
    /\ drain' = "done"
    /\ UNCHANGED <<logger, sent, queue, closed, held, file, fileOpen, written, dropped,
                   attempted, closer, panicked>>

(***************************************************************************)
(* Close, under sync.Once: the first caller closes the channel, waits for  *)
(* the drain goroutine and closes the file; a caller that arrives          *)
(* meanwhile waits for the first.                                          *)
(***************************************************************************)
First(c) == \A d \in Closers : closer[d] = "out"

\* mutant: the channel is left open
MutantCloseChannel == closed' = closed

CloseChannel == closed' = TRUE

Close(c) ==
    /\ closer[c] = "out"
    /\ \A l \in Loggers : logger[l] = "out"
    /\ IF First(c)
       THEN CloseChannel /\ closer' = [closer EXCEPT ![c] = "waiting"]
       ELSE UNCHANGED closed /\ closer' = [closer EXCEPT ![c] = "blocked"]
    /\ UNCHANGED <<logger, sent, queue, drain, held, file, fileOpen, written, dropped,
                   attempted, panicked>>

\* mutant: Close does not wait on l.done
MutantDrained == TRUE

Drained == drain = "done"

CloseFile(c) ==
    /\ closer[c] = "waiting"
    /\ Drained
    /\ fileOpen' = FALSE
    /\ closer' = [closer EXCEPT ![c] = "returned"]
    /\ UNCHANGED <<logger, sent, queue, closed, drain, held, file, written, dropped,
                   attempted, panicked>>

CloseAgain(c) ==
    /\ closer[c] = "blocked" /\ \E d \in Closers : closer[d] = "returned"
    /\ closer' = [closer EXCEPT ![c] = "returned"]
    /\ UNCHANGED <<logger, sent, queue, closed, drain, held, file, fileOpen, written,
                   dropped, attempted, panicked>>

Next ==
    \/ \E l \in Loggers : Log(l) \/ Send(l)
    \/ Receive \/ Write \/ DrainEnds
    \/ \E c \in Closers : Close(c) \/ CloseFile(c) \/ CloseAgain(c)

(***************************************************************************)
(* The scheduler runs every goroutine that can run; a goroutine need not   *)
(* call Log or Close.                                                      *)
(***************************************************************************)
Spec ==
    /\ Init /\ [][Next]_vars
    /\ WF_vars(Receive \/ Write \/ DrainEnds)
    /\ \A l \in Loggers : WF_vars(Send(l))
    /\ \A c \in Closers : WF_vars(CloseFile(c) \/ CloseAgain(c))

-----------------------------------------------------------------------------
Counters == Nat

TypeOK ==
    /\ logger \in [Loggers -> {"out", "sending"}]
    /\ sent \in [Loggers -> 0 .. PerLogger]
    /\ queue \in Seq(Entries) /\ Len(queue) <= QueueSize
    /\ closed \in BOOLEAN /\ fileOpen \in BOOLEAN /\ panicked \in BOOLEAN
    /\ drain \in {"receive", "write", "done"}
    /\ held \in Seq(Entries) /\ Len(held) = IF drain = "write" THEN 1 ELSE 0
    /\ file \in Seq(Entries)
    /\ written \in Counters /\ dropped \in Counters /\ attempted \in Counters
    /\ closer \in [Closers -> {"out", "waiting", "blocked", "returned"}]

\* A Log after Close is a no-op, not a panic.
NoSendOnClosed == ~panicked

(***************************************************************************)
(* When Close has returned, every entry logged before it is in the file or *)
(* counted in Dropped, and Written is what the file holds: nothing of the  *)
(* tail is lost silently.                                                  *)
(***************************************************************************)
TailAccounted ==
    (\E c \in Closers : closer[c] = "returned") =>
        attempted = written + dropped /\ written = Len(file)

(***************************************************************************)
(* The file keeps the order of each goroutine's entries, and none of them  *)
(* twice, whatever was dropped between them.                               *)
(***************************************************************************)
FileInOrder ==
    \A i, j \in DOMAIN file : i < j /\ file[i][1] = file[j][1] => file[i][2] < file[j][2]

\* Every call of Close returns, also the concurrent ones.
CloseReturns == \A c \in Closers : closer[c] # "out" ~> closer[c] = "returned"
=============================================================================
