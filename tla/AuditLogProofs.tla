---------------------------- MODULE AuditLogProofs ----------------------------
(***************************************************************************)
(* AuditLog for any number of goroutines, any queue size and any number of *)
(* entries: its type invariant, that no entry is sent on a closed channel, *)
(* that Close accounts for every entry logged before it, that the logger   *)
(* implements LossyLog, that the file is in order, and why Close returns.  *)
(***************************************************************************)
EXTENDS AuditLog, SequenceTheorems, TLAPS

(***************************************************************************)
(* A goroutine about to send has made a call, so its entry has a number.   *)
(***************************************************************************)
TypeInv ==
    /\ TypeOK
    /\ \A l \in Loggers : logger[l] = "sending" => sent[l] \in 1 .. PerLogger

LEMMA TypeInit == Init => TypeInv
  <1> SUFFICES ASSUME Init PROVE TypeInv
    OBVIOUS
  <1>1. <<>> \in Seq(Entries) /\ Len(<<>>) = 0
    OBVIOUS
  <1>2. /\ queue \in Seq(Entries) /\ Len(queue) <= QueueSize
        /\ held \in Seq(Entries) /\ Len(held) = 0
        /\ file \in Seq(Entries)
    BY <1>1, AuditAssumption DEF Init
  <1>3. sent \in [Loggers -> 0 .. PerLogger]
    BY AuditAssumption DEF Init
  <1>4. /\ logger \in [Loggers -> {"out", "sending"}]
        /\ closer \in [Closers -> {"out", "waiting", "blocked", "returned"}]
        /\ \A l \in Loggers : logger[l] # "sending"
    BY DEF Init
  <1>5. written \in Nat /\ dropped \in Nat /\ attempted \in Nat
    BY DEF Init
  <1>6. /\ closed \in BOOLEAN /\ fileOpen \in BOOLEAN /\ panicked \in BOOLEAN
        /\ drain = "receive"
    BY DEF Init
  <1>7. TypeOK
    BY ONLY <1>2, <1>3, <1>4, <1>5, <1>6 DEF TypeOK, Counters
  <1> QED
    BY <1>4, <1>7 DEF TypeInv

LEMMA SelectType ==
    ASSUME TypeOK, NEW e \in Entries, Select(e)
    PROVE  /\ queue' \in Seq(Entries) /\ Len(queue') <= QueueSize
           /\ dropped' \in Nat
           /\ Len(queue') + dropped' = Len(queue) + dropped + 1
  <1> USE AuditAssumption
  <1>1. CASE Len(queue) < QueueSize /\ queue' = Append(queue, e) /\ UNCHANGED dropped
    BY <1>1 DEF TypeOK, Counters
  <1>2. CASE Len(queue) >= QueueSize /\ dropped' = dropped + 1 /\ UNCHANGED queue
    BY <1>2 DEF TypeOK, Counters
  <1> QED
    BY <1>1, <1>2 DEF Select

LEMMA EntryOfSender ==
    ASSUME TypeInv, NEW l \in Loggers, logger[l] = "sending"
    PROVE  <<l, sent[l]>> \in Entries
  BY DEF TypeInv, Entries

\* The two outcomes of writing the entry held.
LEMMA WriteEffect ==
    ASSUME TypeOK, Write
    PROVE  /\ file' \in Seq(Entries)
           /\ written' \in Nat /\ dropped' \in Nat
           /\ written' + dropped' = written + dropped + 1
           /\ written = Len(file) => written' = Len(file')
  <1>1. file \in Seq(Entries) /\ written \in Nat /\ dropped \in Nat
    BY DEF TypeOK, Counters
  <1>2. Head(held) \in Entries
    <2>1. held \in Seq(Entries) /\ held # <<>>
      <3>1. held \in Seq(Entries) /\ Len(held) = 1
        BY DEF TypeOK, Write
      <3>2. Len(<<>>) = 0
        OBVIOUS
      <3> QED
        BY <3>1, <3>2
    <2> QED
      BY <2>1, HeadTailProperties
  <1>3. CASE WriteFails
    BY <1>1, <1>3 DEF WriteFails
  <1>4. CASE WriteSucceeds
    <2>1. file' = Append(file, Head(held)) /\ written' = written + 1 /\ dropped' = dropped
      BY <1>4 DEF WriteSucceeds
    <2>2. file' \in Seq(Entries) /\ Len(file') = Len(file) + 1
      BY <1>1, <1>2, <2>1
    <2> QED
      BY <1>1, <2>1, <2>2
  <1> QED
    BY <1>3, <1>4 DEF Write

LEMMA EmptyHeld ==
    ASSUME Write
    PROVE  held' \in Seq(Entries) /\ Len(held') = 0
  <1>1. <<>> \in Seq(Entries) /\ Len(<<>>) = 0
    OBVIOUS
  <1> QED
    BY <1>1 DEF Write

LEMMA TypeStep ==
    ASSUME TypeInv, [Next]_vars
    PROVE  TypeInv'
  <1> USE AuditAssumption DEF TypeInv
  <1>1. ASSUME NEW l \in Loggers, Log(l) PROVE TypeInv'
    <2>1. sent' \in [Loggers -> 0 .. PerLogger]
      BY <1>1 DEF Log, TypeOK
    <2>2. logger' \in [Loggers -> {"out", "sending"}]
      BY <1>1 DEF Log, TypeOK
    <2>3. \A m \in Loggers : logger'[m] = "sending" => sent'[m] \in 1 .. PerLogger
      BY <1>1 DEF Log, TypeOK
    <2> QED
      BY <1>1, <2>1, <2>2, <2>3 DEF Log, TypeOK
  <1>2. ASSUME NEW l \in Loggers, Send(l) PROVE TypeInv'
    <2>1. queue' \in Seq(Entries) /\ Len(queue') <= QueueSize /\ dropped' \in Nat
      BY <1>2, SelectType, EntryOfSender DEF Send, TypeOK, Counters
    <2>2. attempted' \in Nat /\ panicked' \in BOOLEAN
      BY <1>2 DEF Send, TypeOK, Counters
    <2>3. /\ logger' \in [Loggers -> {"out", "sending"}]
          /\ \A m \in Loggers : logger'[m] = "sending" => sent'[m] \in 1 .. PerLogger
      BY <1>2 DEF Send, TypeOK
    <2> QED
      BY <1>2, <2>1, <2>2, <2>3 DEF Send, TypeOK, Counters
  <1>3. CASE Receive
    <2>1. /\ held' \in Seq(Entries) /\ Len(held') = 1
          /\ queue' \in Seq(Entries) /\ Len(queue') <= QueueSize
      BY <1>3 DEF Receive, TypeOK
    <2> QED
      BY <1>3, <2>1 DEF Receive, TypeOK
  <1>4. CASE Write
    <2>1. file' \in Seq(Entries) /\ written' \in Nat /\ dropped' \in Nat
      BY <1>4, WriteEffect
    <2> QED
      BY <1>4, <2>1, EmptyHeld DEF Write, TypeOK, Counters
  <1>5. CASE DrainEnds
    BY <1>5 DEF DrainEnds, TypeOK
  <1>6. ASSUME NEW c \in Closers, Close(c) PROVE TypeInv'
    BY <1>6 DEF Close, CloseChannel, TypeOK
  <1>7. ASSUME NEW c \in Closers, CloseFile(c) \/ CloseAgain(c) PROVE TypeInv'
    BY <1>7 DEF CloseFile, CloseAgain, TypeOK
  <1>8. CASE UNCHANGED vars
    BY <1>8 DEF vars, TypeOK
  <1> QED
    BY <1>1, <1>2, <1>3, <1>4, <1>5, <1>6, <1>7, <1>8 DEF Next

(***************************************************************************)
(* Type correctness, for every queue size.                                 *)
(***************************************************************************)
THEOREM TypeCorrect == Spec => []TypeOK
  <1>1. TypeInv => TypeOK
    BY DEF TypeInv
  <1> QED
    BY <1>1, TypeInit, TypeStep, PTL DEF Spec

-----------------------------------------------------------------------------
(***************************************************************************)
(* At every moment the entries logged are in the file, counted as dropped, *)
(* in the queue or held by the drain goroutine; and the stages of Close    *)
(* are passed in order.                                                    *)
(***************************************************************************)
Accounting ==
    /\ attempted = written + dropped + Len(queue) + Len(held)
    /\ written = Len(file)
    /\ closed => \A l \in Loggers : logger[l] = "out"
    /\ drain = "done" => closed /\ queue = <<>>
    /\ (\E c \in Closers : closer[c] = "returned") => drain = "done"
    /\ ~panicked

LEMMA AccountingStep ==
    ASSUME TypeInv, Accounting, [Next]_vars
    PROVE  Accounting'
  <1> USE AuditAssumption DEF Accounting
  <1>0. attempted = written + dropped + Len(queue) + Len(held)
    OBVIOUS
  <1>1. ASSUME NEW l \in Loggers, Log(l) PROVE Accounting'
    BY <1>1 DEF Log, Accepts
  <1>2. ASSUME NEW l \in Loggers, Send(l) PROVE Accounting'
    <2>1. ~closed
      BY <1>2 DEF Send
    <2>2. attempted' = attempted + 1
      BY <1>2, <2>1 DEF Send
    <2>3. Len(queue') + dropped' = Len(queue) + dropped + 1
          /\ Len(queue') \in Nat /\ dropped' \in Nat
      BY <1>2, <2>1, SelectType, EntryOfSender DEF Send, TypeInv
    <2>4. /\ attempted \in Nat /\ written \in Nat /\ dropped \in Nat
          /\ Len(queue) \in Nat /\ Len(held) \in Nat
      BY DEF TypeInv, TypeOK, Counters
    <2>5. written' = written /\ Len(held') = Len(held)
      BY <1>2 DEF Send
    <2>6. attempted' = written + dropped' + Len(queue') + Len(held)
      BY ONLY <1>0, <2>2, <2>3, <2>4
    <2>6a. attempted' = written' + dropped' + Len(queue') + Len(held')
      BY ONLY <2>5, <2>6
    <2>7. drain # "done"
      BY <2>1
    <2>8. panicked' = FALSE
      BY <1>2, <2>1 DEF Send
    <2> QED
      BY <1>2, <2>1, <2>6a, <2>7, <2>8 DEF Send
  <1>3. CASE Receive
    <2>1. Len(queue') + Len(held') = Len(queue) + Len(held) /\ Len(held') = 1
      BY <1>3 DEF Receive, TypeInv, TypeOK
    <2>2. Len(queue) \in Nat /\ Len(queue') \in Nat /\ Len(held) = 0
      BY <1>3 DEF Receive, TypeInv, TypeOK
    <2> QED
      BY <1>3, <2>1, <2>2 DEF Receive, TypeInv, TypeOK, Counters
  <1>4. CASE Write
    <2>1. /\ written' + dropped' = written + dropped + 1
          /\ written' = Len(file')
          /\ written' \in Nat /\ dropped' \in Nat
      BY <1>4, WriteEffect DEF TypeInv
    <2>2. Len(held) = 1 /\ Len(held') = 0 /\ Len(queue) \in Nat
      BY <1>4, EmptyHeld DEF Write, TypeInv, TypeOK
    <2>3. written \in Nat /\ dropped \in Nat
      BY DEF TypeInv, TypeOK, Counters
    <2>4. attempted' = attempted /\ queue' = queue /\ drain' = "receive"
          /\ UNCHANGED <<logger, closed, closer, panicked>> /\ drain = "write"
      BY <1>4 DEF Write
    <2>5. attempted' = written' + dropped' + Len(queue') + Len(held')
      <3>1. attempted = written' + dropped' + Len(queue) + Len(held')
        BY ONLY <1>0, <2>1, <2>2, <2>3
      <3>2. attempted' = attempted /\ Len(queue') = Len(queue)
        BY <2>4
      <3> QED
        BY ONLY <3>1, <3>2
    <2> QED
      BY <2>1, <2>4, <2>5
  <1>5. CASE DrainEnds
    BY <1>5 DEF DrainEnds
  <1>6. ASSUME NEW c \in Closers, Close(c) PROVE Accounting'
    <2>1. (\E d \in Closers : closer'[d] = "returned") =>
            (\E d \in Closers : closer[d] = "returned")
      BY <1>6 DEF Close, TypeInv, TypeOK
    <2> QED
      BY <1>6, <2>1 DEF Close, CloseChannel
  <1>7. ASSUME NEW c \in Closers, CloseFile(c) PROVE Accounting'
    BY <1>7 DEF CloseFile, Drained
  <1>8. ASSUME NEW c \in Closers, CloseAgain(c) PROVE Accounting'
    BY <1>8 DEF CloseAgain
  <1>9. CASE UNCHANGED vars
    BY <1>9 DEF vars
  <1> QED
    BY <1>1, <1>2, <1>3, <1>4, <1>5, <1>6, <1>7, <1>8, <1>9 DEF Next

LEMMA AccountingHolds == Spec => [](TypeInv /\ Accounting)
  <1>1. Init => Accounting
    BY DEF Init, Accounting
  <1> QED
    BY <1>1, TypeInit, TypeStep, AccountingStep, PTL DEF Spec

(***************************************************************************)
(* A call of Log never panics, before or after Close.                      *)
(***************************************************************************)
THEOREM NeverPanics == Spec => []NoSendOnClosed
  <1>1. Accounting => NoSendOnClosed
    BY DEF Accounting, NoSendOnClosed
  <1> QED
    BY <1>1, AccountingHolds, PTL

(***************************************************************************)
(* When a Close has returned, what was logged is written or counted.       *)
(***************************************************************************)
THEOREM TailIsAccounted == Spec => []TailAccounted
  <1>1. TypeInv /\ Accounting => TailAccounted
    <2> SUFFICES ASSUME TypeInv, Accounting, \E c \in Closers : closer[c] = "returned"
                 PROVE  attempted = written + dropped /\ written = Len(file)
      BY DEF TailAccounted
    <2>1. queue = <<>> /\ Len(held) = 0
      BY DEF Accounting, TypeInv, TypeOK
    <2> QED
      BY <2>1 DEF Accounting, TypeInv, TypeOK, Counters
  <1> QED
    BY <1>1, AccountingHolds, PTL
-----------------------------------------------------------------------------
(***************************************************************************)
(* The queue and the entry the drain goroutine holds, as one backlog.      *)
(***************************************************************************)
Backlog == held \o queue

Lossy == INSTANCE LossyLog
           WITH Entry <- Entries, Capacity <- QueueSize,
                backlog <- Backlog, lines <- file, lost <- dropped

LEMMA BehindOne ==
    ASSUME NEW S, NEW e \in S, NEW s \in Seq(S)
    PROVE  /\ <<e>> \o s # <<>>
           /\ Head(<<e>> \o s) = e
           /\ Tail(<<e>> \o s) = s
  <1> DEFINE t == <<e>> \o s
  <1>1. /\ t \in Seq(S) /\ Len(t) = 1 + Len(s)
        /\ \A i \in 1 .. 1 + Len(s) : t[i] = IF i <= 1 THEN e ELSE s[i - 1]
    <2>1. <<e>> \in Seq(S) /\ Len(<<e>>) = 1 /\ <<e>>[1] = e
      OBVIOUS
    <2>2. QED
      BY <2>1, ConcatProperties
  <1>2. Len(s) \in Nat
    OBVIOUS
  <1>3. t # <<>>
    BY <1>1, <1>2, EmptySeq
  <1>4. Head(t) = e
    BY <1>1, <1>2, <1>3
  <1>5. /\ Tail(t) \in Seq(S) /\ Len(Tail(t)) = Len(s)
        /\ \A i \in 1 .. Len(s) : Tail(t)[i] = s[i]
    <2> HIDE DEF t
    <2>1. /\ Tail(t) \in Seq(S) /\ Len(Tail(t)) = Len(t) - 1
          /\ \A i \in 1 .. Len(Tail(t)) : Tail(t)[i] = t[i + 1]
      BY <1>1, <1>3, HeadTailProperties
    <2>2. QED
      BY <2>1, <1>1, <1>2
  <1>6. Tail(t) = s
    BY <1>5, SeqEqual
  <1>7. QED
    BY <1>3, <1>4, <1>6

LEMMA ConsHeadTail ==
    ASSUME NEW S, NEW s \in Seq(S), s # <<>>
    PROVE  s = <<Head(s)>> \o Tail(s)
  <1> DEFINE t == <<Head(s)>> \o Tail(s)
  <1>1. /\ Head(s) \in S /\ Head(s) = s[1]
        /\ Tail(s) \in Seq(S) /\ Len(Tail(s)) = Len(s) - 1
        /\ \A i \in 1 .. Len(s) - 1 : Tail(s)[i] = s[i + 1]
    BY HeadTailProperties
  <1>2. <<Head(s)>> \in Seq(S) /\ Len(<<Head(s)>>) = 1 /\ <<Head(s)>>[1] = s[1]
    BY <1>1
  <1>3. Len(s) \in Nat \ {0}
    BY EmptySeq
  <1>4. /\ t \in Seq(S) /\ Len(t) = Len(s)
        /\ \A i \in 1 .. Len(s) : t[i] = IF i <= 1 THEN s[1] ELSE Tail(s)[i - 1]
    BY <1>1, <1>2, <1>3, ConcatProperties
  <1>5. \A i \in 1 .. Len(s) : t[i] = s[i]
    BY <1>1, <1>3, <1>4
  <1>6. QED
    BY <1>4, <1>5, SeqEqual

LEMMA HeldIsOne ==
    ASSUME TypeOK, drain = "write"
    PROVE  /\ Head(held) \in Entries
           /\ held = <<Head(held)>>
  <1>1. held \in Seq(Entries) /\ Len(held) = 1
    BY DEF TypeOK
  <1>2. held[1] \in Entries
    BY <1>1, ElementOfSeq
  <1>3. <<held[1]>> \in Seq(Entries) /\ Len(<<held[1]>>) = 1
    BY <1>2
  <1>4. held = <<held[1]>>
    BY <1>1, <1>3, SeqEqual
  <1>5. Head(held) = held[1]
    BY <1>1
  <1>6. QED
    BY <1>2, <1>4, <1>5

LEMMA HeldIsNone ==
    ASSUME TypeOK, drain # "write"
    PROVE  held = <<>>
  BY EmptySeq DEF TypeOK

\* an entry that meets the select joins the backlog, or finds it full and is lost
LEMMA SendIsAcceptedOrTurnedAway ==
    ASSUME TypeInv, NEW l \in Loggers, logger[l] = "sending", Select(<<l, sent[l]>>),
           UNCHANGED <<held, file>>
    PROVE  (\E e \in Entries : Lossy!Accept(e)) \/ Lossy!TurnAway
  <1> DEFINE e == <<l, sent[l]>>
  <1>1. e \in Entries
    BY EntryOfSender
  <1>2. /\ held \in Seq(Entries) /\ Len(held) \in 0 .. 1
        /\ queue \in Seq(Entries) /\ Len(queue) \in Nat /\ QueueSize \in Nat
    BY AuditAssumption DEF TypeInv, TypeOK
  <1>3. Len(Backlog) = Len(held) + Len(queue)
    BY <1>2, ConcatProperties DEF Backlog
  <1> HIDE DEF e
  <1>4. CASE Len(queue) < QueueSize /\ queue' = Append(queue, e) /\ UNCHANGED dropped
    <2>1. Backlog' = Append(Backlog, e)
      <3>1. queue \o <<e>> = Append(queue, e)
        BY <1>1, <1>2, AppendIsConcat
      <3>2. Backlog \in Seq(Entries) /\ Backlog \o <<e>> = Append(Backlog, e)
        BY <1>1, <1>2, ConcatProperties, AppendIsConcat DEF Backlog
      <3>3. <<e>> \in Seq(Entries)
        BY <1>1
      <3>4. (held \o queue) \o <<e>> = held \o (queue \o <<e>>)
        BY <1>2, <3>3, ConcatAssociative
      <3>5. QED
        BY <1>4, <3>1, <3>2, <3>4 DEF Backlog
    <2>2. Len(Backlog) <= QueueSize
      <3>1. Len(queue) < QueueSize
        BY <1>4
      <3>2. \A h, q, n \in Nat : h <= 1 /\ q < n => h + q <= n
        OBVIOUS
      <3>3. Len(held) \in Nat /\ Len(held) <= 1
        BY <1>2
      <3>4. Len(held) + Len(queue) <= QueueSize
        BY ONLY <1>2, <3>1, <3>2, <3>3
      <3>5. QED
        BY ONLY <1>3, <3>4
    <2>3. QED
      BY <1>1, <1>4, <2>1, <2>2 DEF Lossy!Accept
  <1>5. CASE Len(queue) >= QueueSize /\ dropped' = dropped + 1 /\ UNCHANGED queue
    <2>1. Len(Backlog) >= QueueSize
      BY <1>2, <1>3, <1>5
    <2>2. QED
      BY <1>5, <2>1 DEF Lossy!TurnAway, Backlog
  <1>6. QED
    BY <1>4, <1>5 DEF Select, e

LEMMA LossyStep ==
    ASSUME TypeInv, Accounting, [Next]_vars
    PROVE  [Lossy!Next]_Lossy!log
  <1> USE DEF Lossy!log
  <1>1. ASSUME NEW l \in Loggers, Log(l)
        PROVE  UNCHANGED Lossy!log
    BY <1>1 DEF Log, Backlog
  <1>2. ASSUME NEW l \in Loggers, Send(l)
        PROVE  Lossy!Next
    <2>1. ~closed
      BY <1>2 DEF Send, Accounting
    <2>2. logger[l] = "sending" /\ Select(<<l, sent[l]>>) /\ UNCHANGED <<held, file>>
      BY <1>2, <2>1 DEF Send
    <2>3. QED
      BY <2>2, SendIsAcceptedOrTurnedAway DEF Lossy!Next
  <1>3. CASE Receive
    <2>1. held = <<>> /\ queue \in Seq(Entries) /\ queue # <<>>
      BY <1>3, HeldIsNone DEF Receive, TypeInv, TypeOK
    <2>2. Backlog = queue
      BY <2>1, ConcatEmptySeq DEF Backlog
    <2>3. Backlog' = queue
      <3>1. Head(queue) \in Entries /\ Tail(queue) \in Seq(Entries)
        BY <2>1, HeadTailProperties
      <3>2. queue = <<Head(queue)>> \o Tail(queue)
        BY <2>1, <3>1, ConsHeadTail
      <3>3. QED
        BY <1>3, <3>2 DEF Receive, Backlog
    <2>4. QED
      BY <1>3, <2>2, <2>3 DEF Receive
  <1>4. CASE Write
    <2>1. /\ Head(held) \in Entries /\ held = <<Head(held)>>
          /\ queue \in Seq(Entries)
      BY <1>4, HeldIsOne DEF Write, TypeInv, TypeOK
    <2>2. Backlog # <<>> /\ Head(Backlog) = Head(held) /\ Tail(Backlog) = queue
      BY <2>1, BehindOne DEF Backlog
    <2>3. Backlog' = queue
      BY <1>4, <2>1, ConcatEmptySeq DEF Write, Backlog
    <2>4. CASE WriteSucceeds
      BY <2>2, <2>3, <2>4 DEF WriteSucceeds, Lossy!Deliver, Lossy!Next
    <2>5. CASE WriteFails
      BY <2>2, <2>3, <2>5 DEF WriteFails, Lossy!Lose, Lossy!Next
    <2>6. QED
      BY <1>4, <2>4, <2>5 DEF Write
  <1>5. CASE DrainEnds
    BY <1>5 DEF DrainEnds, Backlog
  <1>6. ASSUME NEW c \in Closers, Close(c) \/ CloseFile(c) \/ CloseAgain(c)
        PROVE  UNCHANGED Lossy!log
    BY <1>6 DEF Close, CloseFile, CloseAgain, Backlog
  <1>7. CASE UNCHANGED vars
    BY <1>7 DEF vars, Backlog
  <1>8. QED
    BY <1>1, <1>2, <1>3, <1>4, <1>5, <1>6, <1>7 DEF Next

(***************************************************************************)
(* The logger implements LossyLog: entries leave in the order the channel  *)
(* took them, each into the file or into Dropped, and one is turned away   *)
(* only from a full channel.                                               *)
(***************************************************************************)
THEOREM ImplementsLossyLog == Spec => Lossy!Spec
  <1>1. Init => Lossy!Init
    BY ConcatEmptySeq, EmptySeq DEF Init, Lossy!Init, Backlog
  <1>2. TypeInv /\ Accounting /\ [Next]_vars => [Lossy!Next]_Lossy!log
    BY LossyStep
  <1>3. QED
    BY <1>1, <1>2, AccountingHolds, PTL DEF Spec, Lossy!Spec
-----------------------------------------------------------------------------
(***************************************************************************)
(* Why the file is in order: so is everything on its way there.  What      *)
(* waits is younger than what is written, what is held younger than the    *)
(* one and older than the other, and no entry is as young as the next one  *)
(* of its goroutine.                                                       *)
(***************************************************************************)
Precedes(d, e) == d[1] = e[1] => d[2] < e[2]

AllPrecede(s, e) == \A i \in DOMAIN s : Precedes(s[i], e)

Sorted(s) == \A j \in DOMAIN s : \A i \in DOMAIN s : i < j => Precedes(s[i], s[j])

OlderThan(s, t) == \A j \in DOMAIN t : AllPrecede(s, t[j])

\* the entry a goroutine sends next
Upcoming(l) == <<l, IF logger[l] = "sending" THEN sent[l] ELSE sent[l] + 1>>

OrderInv ==
    /\ Sorted(file) /\ Sorted(queue)
    /\ OlderThan(file, held) /\ OlderThan(file, queue) /\ OlderThan(held, queue)
    /\ \A l \in Loggers : /\ AllPrecede(file, Upcoming(l))
                          /\ AllPrecede(held, Upcoming(l))
                          /\ AllPrecede(queue, Upcoming(l))

LEMMA AppendPrecedes ==
    ASSUME NEW s \in Seq(Entries), NEW d \in Entries, NEW e, AllPrecede(s, e), Precedes(d, e)
    PROVE  AllPrecede(Append(s, d), e)
  <1>1. /\ DOMAIN s = 1 .. Len(s) /\ DOMAIN Append(s, d) = 1 .. Len(s) + 1
        /\ Len(s) \in Nat
        /\ \A i \in 1 .. Len(s) : Append(s, d)[i] = s[i]
        /\ Append(s, d)[Len(s) + 1] = d
    BY AppendProperties, LenProperties
  <1> SUFFICES ASSUME NEW i \in 1 .. Len(s) + 1
               PROVE  Precedes(Append(s, d)[i], e)
    BY <1>1 DEF AllPrecede
  <1>2. CASE i = Len(s) + 1
    BY <1>1, <1>2
  <1>3. CASE i \in 1 .. Len(s)
    BY <1>1, <1>3 DEF AllPrecede
  <1>4. QED
    BY <1>1, <1>2, <1>3

LEMMA AppendSorted ==
    ASSUME NEW s \in Seq(Entries), NEW d \in Entries, Sorted(s), AllPrecede(s, d)
    PROVE  Sorted(Append(s, d))
  <1>1. /\ DOMAIN s = 1 .. Len(s) /\ DOMAIN Append(s, d) = 1 .. Len(s) + 1
        /\ Len(s) \in Nat
        /\ \A i \in 1 .. Len(s) : Append(s, d)[i] = s[i]
        /\ Append(s, d)[Len(s) + 1] = d
    BY AppendProperties, LenProperties
  <1> SUFFICES ASSUME NEW j \in 1 .. Len(s) + 1, NEW i \in 1 .. Len(s) + 1, i < j
               PROVE  Precedes(Append(s, d)[i], Append(s, d)[j])
    BY <1>1 DEF Sorted
  <1>2. i \in 1 .. Len(s) /\ Append(s, d)[i] = s[i]
    BY <1>1
  <1>3. CASE j = Len(s) + 1
    BY <1>1, <1>2, <1>3 DEF AllPrecede
  <1>4. CASE j \in 1 .. Len(s)
    BY <1>1, <1>2, <1>4 DEF Sorted
  <1>5. QED
    BY <1>1, <1>3, <1>4

LEMMA TailAndHead ==
    ASSUME NEW s \in Seq(Entries), s # <<>>
    PROVE  /\ Head(s) \in Entries /\ Head(s) = s[1] /\ 1 \in DOMAIN s
           /\ \A i \in DOMAIN Tail(s) : i \in Nat /\ i + 1 \in DOMAIN s /\ Tail(s)[i] = s[i + 1]
           /\ 1 < Len(s) + 1
  <1>1. /\ Head(s) \in Entries /\ Tail(s) \in Seq(Entries)
        /\ Len(Tail(s)) = Len(s) - 1
        /\ \A i \in 1 .. Len(Tail(s)) : Tail(s)[i] = s[i + 1]
    BY HeadTailProperties
  <1>2. /\ Len(s) \in Nat \ {0} /\ DOMAIN s = 1 .. Len(s)
        /\ DOMAIN Tail(s) = 1 .. Len(s) - 1
    BY <1>1, EmptySeq, LenProperties
  <1>3. Head(s) = s[1]
    OBVIOUS
  <1>4. QED
    BY <1>1, <1>2, <1>3

\* the oldest entry leaves the queue: it precedes the others, which keep their order
LEMMA ReceiveKeepsOrder ==
    ASSUME NEW s \in Seq(Entries), s # <<>>, Sorted(s)
    PROVE  /\ Sorted(Tail(s))
           /\ OlderThan(<<Head(s)>>, Tail(s))
           /\ \A e : AllPrecede(s, e) => Precedes(Head(s), e) /\ AllPrecede(Tail(s), e)
  <1> USE TailAndHead DEF Sorted
  <1>1. Sorted(Tail(s))
    <2> SUFFICES ASSUME NEW j \in DOMAIN Tail(s), NEW i \in DOMAIN Tail(s), i < j
                 PROVE  Precedes(Tail(s)[i], Tail(s)[j])
      OBVIOUS
    <2>1. i \in Nat /\ j \in Nat /\ i + 1 \in DOMAIN s /\ j + 1 \in DOMAIN s
      OBVIOUS
    <2>2. i + 1 < j + 1
      BY <2>1
    <2>3. QED
      BY <2>1, <2>2
  <1>2. OlderThan(<<Head(s)>>, Tail(s))
    <2> SUFFICES ASSUME NEW j \in DOMAIN Tail(s)
                 PROVE  Precedes(Head(s), Tail(s)[j])
      BY DEF OlderThan, AllPrecede
    <2>1. j \in DOMAIN Tail(s) /\ j \in Nat /\ j + 1 \in DOMAIN s
      OBVIOUS
    <2>1a. Tail(s)[j] = s[j + 1] /\ 1 \in DOMAIN s
      OBVIOUS
    <2>2. j # 0
      <3>1. Tail(s) \in Seq(Entries)
        BY HeadTailProperties
      <3>2. QED
        BY <2>1, <3>1, LenProperties
    <2>3. 1 < j + 1
      BY <2>1, <2>2
    <2>4. QED
      BY <2>1, <2>1a, <2>3
  <1>3. ASSUME NEW e, AllPrecede(s, e)
        PROVE  Precedes(Head(s), e) /\ AllPrecede(Tail(s), e)
    BY <1>3 DEF AllPrecede
  <1>4. QED
    BY <1>1, <1>2, <1>3
LEMMA LaterIsPreceded ==
    ASSUME NEW s \in Seq(Entries), NEW l, NEW m \in Int, NEW n \in Int, m <= n,
           AllPrecede(s, <<l, m>>)
    PROVE  AllPrecede(s, <<l, n>>)
  <1> SUFFICES ASSUME NEW i \in DOMAIN s, s[i][1] = l
               PROVE  s[i][2] < n
    BY DEF AllPrecede, Precedes
  <1>1. s[i] \in Entries
    BY ElementOfSeq, LenProperties
  <1>2. s[i][2] \in Int
    BY <1>1, AuditAssumption DEF Entries
  <1>3. s[i][2] < m
    BY DEF AllPrecede, Precedes
  <1>4. QED
    BY <1>2, <1>3

\* the number of a goroutine's next entry never falls
LEMMA UpcomingRises ==
    ASSUME TypeInv, [Next]_vars, NEW l \in Loggers
    PROVE  \E m, n \in Int : Upcoming(l) = <<l, m>> /\ Upcoming(l)' = <<l, n>> /\ m <= n
  <1> DEFINE Number == IF logger[l] = "sending" THEN sent[l] ELSE sent[l] + 1
  <1>1. /\ sent[l] \in Int /\ logger[l] \in {"out", "sending"}
        /\ logger \in [Loggers -> {"out", "sending"}] /\ sent \in [Loggers -> 0 .. PerLogger]
    BY AuditAssumption DEF TypeInv, TypeOK
  <1>2. \/ UNCHANGED <<logger[l], sent[l]>>
        \/ logger[l] = "out" /\ sent'[l] = sent[l] + 1
        \/ logger[l] = "sending" /\ logger'[l] = "out" /\ sent'[l] = sent[l]
    <2>1. ASSUME NEW k \in Loggers, Log(k)
          PROVE  \/ UNCHANGED <<logger[l], sent[l]>>
                 \/ logger[l] = "out" /\ sent'[l] = sent[l] + 1
      BY <1>1, <2>1 DEF Log
    <2>2. ASSUME NEW k \in Loggers, Send(k)
          PROVE  \/ UNCHANGED <<logger[l], sent[l]>>
                 \/ logger[l] = "sending" /\ logger'[l] = "out" /\ sent'[l] = sent[l]
      BY <1>1, <2>2 DEF Send
    <2>3. CASE Receive \/ Write \/ DrainEnds \/ UNCHANGED vars
      BY <2>3 DEF Receive, Write, DrainEnds, vars
    <2>4. ASSUME NEW c \in Closers, Close(c) \/ CloseFile(c) \/ CloseAgain(c)
          PROVE  UNCHANGED <<logger[l], sent[l]>>
      BY <2>4 DEF Close, CloseFile, CloseAgain
    <2>5. QED
      BY <2>1, <2>2, <2>3, <2>4 DEF Next
  <1>3. Number \in Int /\ Number' \in Int /\ Number <= Number'
    BY <1>1, <1>2
  <1>4. Upcoming(l) = <<l, Number>> /\ Upcoming(l)' = <<l, Number'>>
    BY DEF Upcoming
  <1> HIDE DEF Number
  <1>5. QED
    BY <1>3, <1>4

LEMMA StillPrecede ==
    ASSUME TypeInv, [Next]_vars, NEW l \in Loggers, NEW s \in Seq(Entries),
           AllPrecede(s, Upcoming(l))
    PROVE  AllPrecede(s, Upcoming(l)')
  BY UpcomingRises, LaterIsPreceded

LEMMA OrderKept ==
    ASSUME TypeInv, OrderInv, [Next]_vars, UNCHANGED <<file, held, queue>>
    PROVE  OrderInv'
  <1>1. file \in Seq(Entries) /\ held \in Seq(Entries) /\ queue \in Seq(Entries)
    BY DEF TypeInv, TypeOK
  <1>2. ASSUME NEW l \in Loggers
        PROVE  /\ AllPrecede(file, Upcoming(l)')
               /\ AllPrecede(held, Upcoming(l)')
               /\ AllPrecede(queue, Upcoming(l)')
    BY <1>1, StillPrecede DEF OrderInv
  <1>3. QED
    BY <1>2 DEF OrderInv, AllPrecede, Sorted, OlderThan

LEMMA SendKeepsOrder ==
    ASSUME TypeInv, OrderInv, NEW l \in Loggers, Send(l),
           queue' = Append(queue, <<l, sent[l]>>)
    PROVE  OrderInv'
  <1> DEFINE e == <<l, sent[l]>>
  <1>1. /\ file \in Seq(Entries) /\ held \in Seq(Entries) /\ queue \in Seq(Entries)
        /\ e \in Entries /\ UNCHANGED <<file, held>>
    BY EntryOfSender DEF TypeInv, TypeOK, Send
  <1>2. Upcoming(l) = e
    BY DEF Send, Upcoming
  <1>3. AllPrecede(file, e) /\ AllPrecede(held, e) /\ AllPrecede(queue, e)
    BY <1>2 DEF OrderInv
  <1>4. \A m \in Loggers : Precedes(e, Upcoming(m)')
    <2>1. Upcoming(l)' = <<l, sent[l] + 1>> /\ sent[l] \in Int
      BY AuditAssumption DEF Send, Upcoming, TypeInv, TypeOK
    <2>2. QED
      BY <2>1 DEF Precedes, Upcoming
  <1>5. [Next]_vars
    BY DEF Next
  <1> HIDE DEF e
  <1>6. queue' = Append(queue, e)
    BY DEF e
  <1>7. Sorted(queue')
    BY <1>1, <1>3, <1>6, AppendSorted DEF OrderInv
  <1>8. /\ DOMAIN queue' = 1 .. Len(queue) + 1 /\ DOMAIN queue = 1 .. Len(queue)
        /\ Len(queue) \in Nat
        /\ \A i \in 1 .. Len(queue) : queue'[i] = queue[i]
        /\ queue'[Len(queue) + 1] = e
    <2>1. DOMAIN queue = 1 .. Len(queue) /\ Len(queue) \in Nat
      BY <1>1, LenProperties
    <2>2. /\ Append(queue, e) \in Seq(Entries) /\ Len(Append(queue, e)) = Len(queue) + 1
          /\ \A i \in 1 .. Len(queue) : Append(queue, e)[i] = queue[i]
          /\ Append(queue, e)[Len(queue) + 1] = e
      BY <1>1, AppendProperties
    <2>3. DOMAIN Append(queue, e) = 1 .. Len(queue) + 1
      BY <2>2, LenProperties
    <2>4. QED
      BY <1>6, <2>1, <2>2, <2>3
  <1>9. \A j \in DOMAIN queue' : queue'[j] = e \/ \E i \in DOMAIN queue : queue'[j] = queue[i]
    BY <1>8
  <1>10. OlderThan(file, queue') /\ OlderThan(held, queue')
    BY <1>3, <1>9 DEF OrderInv, OlderThan
  <1>11. ASSUME NEW m \in Loggers
         PROVE  /\ AllPrecede(file, Upcoming(m)') /\ AllPrecede(held, Upcoming(m)')
                /\ AllPrecede(queue', Upcoming(m)')
    <2>1. /\ AllPrecede(file, Upcoming(m)') /\ AllPrecede(held, Upcoming(m)')
          /\ AllPrecede(queue, Upcoming(m)')
      BY <1>1, <1>5, StillPrecede DEF OrderInv
    <2>2. QED
      BY <1>1, <1>4, <1>6, <2>1, AppendPrecedes
  <1>12. QED
    BY <1>1, <1>7, <1>10, <1>11 DEF OrderInv, Sorted, OlderThan, AllPrecede

LEMMA ReceivedInOrder ==
    ASSUME TypeInv, OrderInv, Receive
    PROVE  OrderInv'
  <1>1. /\ file \in Seq(Entries) /\ queue \in Seq(Entries) /\ queue # <<>> /\ file' = file
        /\ held' = <<Head(queue)>> /\ queue' = Tail(queue)
        /\ \A l : Upcoming(l)' = Upcoming(l)
    BY DEF Receive, TypeInv, TypeOK, Upcoming
  <1>2. /\ Sorted(Tail(queue)) /\ OlderThan(<<Head(queue)>>, Tail(queue))
        /\ \A e : AllPrecede(queue, e) => Precedes(Head(queue), e) /\ AllPrecede(Tail(queue), e)
    BY <1>1, ReceiveKeepsOrder DEF OrderInv
  <1>3. OlderThan(file, <<Head(queue)>>) /\ OlderThan(file, Tail(queue))
    BY <1>1, TailAndHead DEF OrderInv, OlderThan
  <1>4. \A l \in Loggers : /\ AllPrecede(<<Head(queue)>>, Upcoming(l))
                           /\ AllPrecede(Tail(queue), Upcoming(l))
    <2> SUFFICES ASSUME NEW l \in Loggers
                 PROVE  /\ AllPrecede(<<Head(queue)>>, Upcoming(l))
                        /\ AllPrecede(Tail(queue), Upcoming(l))
      OBVIOUS
    <2>1. Precedes(Head(queue), Upcoming(l)) /\ AllPrecede(Tail(queue), Upcoming(l))
      BY <1>2 DEF OrderInv
    <2>2. DOMAIN <<Head(queue)>> = {1} /\ <<Head(queue)>>[1] = Head(queue)
      OBVIOUS
    <2>3. QED
      BY <2>1, <2>2 DEF AllPrecede
  <1>5. QED
    BY <1>1, <1>2, <1>3, <1>4 DEF OrderInv, Sorted, OlderThan, AllPrecede

LEMMA WrittenInOrder ==
    ASSUME TypeInv, OrderInv, Write
    PROVE  OrderInv'
  <1>1. /\ file \in Seq(Entries) /\ queue' = queue /\ held' = <<>>
        /\ Head(held) \in Entries /\ held = <<Head(held)>>
        /\ \A l : Upcoming(l)' = Upcoming(l)
    BY HeldIsOne DEF Write, TypeInv, TypeOK, Upcoming
  <1>2. PICK h \in Entries : held = <<h>> /\ h = Head(held)
    BY <1>1
  <1>3. /\ AllPrecede(file, h)
        /\ \A j \in DOMAIN queue : Precedes(h, queue[j])
        /\ \A l \in Loggers : Precedes(h, Upcoming(l))
    BY <1>2 DEF OrderInv, OlderThan, AllPrecede
  <1>4. file' = file \/ file' = Append(file, h)
    BY <1>2 DEF Write, WriteFails, WriteSucceeds
  <1>5. /\ Sorted(file')
        /\ \A e : AllPrecede(file, e) /\ Precedes(h, e) => AllPrecede(file', e)
    <2>1. CASE UNCHANGED file
      BY <2>1 DEF OrderInv, Sorted, AllPrecede
    <2>2. CASE file' = Append(file, h)
      BY <1>1, <1>3, <2>2, AppendSorted, AppendPrecedes DEF OrderInv
    <2>3. QED
      BY <1>4, <2>1, <2>2
  <1>6. OlderThan(file', queue)
    BY <1>3, <1>5 DEF OrderInv, OlderThan
  <1>7. \A l \in Loggers : AllPrecede(file', Upcoming(l))
    BY <1>3, <1>5 DEF OrderInv
  <1>8. DOMAIN <<>> = {}
    OBVIOUS
  <1>9. QED
    BY <1>1, <1>5, <1>6, <1>7, <1>8 DEF OrderInv, Sorted, OlderThan, AllPrecede

LEMMA OrderStep ==
    ASSUME TypeInv, OrderInv, [Next]_vars
    PROVE  OrderInv'
  <1>1. ASSUME NEW l \in Loggers, Log(l)
        PROVE  OrderInv'
    BY <1>1, OrderKept DEF Log
  <1>2. ASSUME NEW l \in Loggers, Send(l)
        PROVE  OrderInv'
    <2>1. CASE queue' = Append(queue, <<l, sent[l]>>)
      BY <1>2, <2>1, SendKeepsOrder
    <2>2. CASE UNCHANGED queue
      BY <1>2, <2>2, OrderKept DEF Send
    <2>3. QED
      BY <1>2, <2>1, <2>2 DEF Send, Select
  <1>3. CASE Receive
    BY <1>3, ReceivedInOrder
  <1>4. CASE Write
    BY <1>4, WrittenInOrder
  <1>5. CASE DrainEnds
    BY <1>5, OrderKept DEF DrainEnds
  <1>6. ASSUME NEW c \in Closers, Close(c) \/ CloseFile(c) \/ CloseAgain(c)
        PROVE  OrderInv'
    BY <1>6, OrderKept DEF Close, CloseFile, CloseAgain
  <1>7. CASE UNCHANGED vars
    BY <1>7, OrderKept DEF vars
  <1>8. QED
    BY <1>1, <1>2, <1>3, <1>4, <1>5, <1>6, <1>7 DEF Next

(***************************************************************************)
(* The file holds each goroutine's entries in the order it logged them,    *)
(* and none of them twice.                                                 *)
(***************************************************************************)
THEOREM FileIsInOrder == Spec => []FileInOrder
  <1>1. Init => OrderInv
    BY DEF Init, OrderInv, Sorted, OlderThan, AllPrecede
  <1>2. OrderInv => FileInOrder
    BY DEF OrderInv, Sorted, Precedes, FileInOrder
  <1>3. TypeInv /\ OrderInv /\ [Next]_vars => OrderInv'
    BY OrderStep
  <1>4. QED
    BY <1>1, <1>2, <1>3, AccountingHolds, PTL DEF Spec
-----------------------------------------------------------------------------
(***************************************************************************)
(* Why Close returns: some caller is waiting for the drain goroutine or    *)
(* done with it whenever another is in Close, and once the channel is      *)
(* closed what that goroutine has left to do only becomes less.            *)
(***************************************************************************)
CloseIsServed ==
    (\E c \in Closers : closer[c] # "out") =>
        closed /\ \E d \in Closers : closer[d] \in {"waiting", "returned"}

DrainLeft == 2 * Len(queue) + (IF drain = "write" THEN 2 ELSE IF drain = "receive" THEN 1 ELSE 0)

DrainFalls == closed => DrainLeft' < DrainLeft \/ UNCHANGED <<queue, held, drain>>

LEMMA ServedStep ==
    ASSUME TypeInv, CloseIsServed, [Next]_vars
    PROVE  CloseIsServed'
  <1> USE DEF CloseIsServed
  <1>1. closer \in [Closers -> {"out", "waiting", "blocked", "returned"}]
    BY DEF TypeInv, TypeOK
  <1>2. ASSUME NEW c \in Closers, Close(c)
        PROVE  CloseIsServed'
    <2>1. CASE First(c)
      BY <1>1, <1>2, <2>1 DEF Close, CloseChannel
    <2>2. CASE ~First(c)
      <3>1. closed /\ closed' /\ \E d \in Closers : closer[d] \in {"waiting", "returned"}
        BY <1>2, <2>2 DEF Close, First
      <3>2. PICK d \in Closers : closer[d] \in {"waiting", "returned"}
        BY <3>1
      <3>3. closer'[d] = closer[d]
        BY <1>1, <1>2, <2>2, <3>2 DEF Close
      <3>4. QED
        BY <3>1, <3>2, <3>3
    <2>3. QED
      BY <2>1, <2>2
  <1>3. ASSUME NEW c \in Closers, CloseFile(c) \/ CloseAgain(c)
        PROVE  CloseIsServed'
    <2>1. closer'[c] = "returned" /\ closer[c] # "out" /\ closed' = closed
      BY <1>1, <1>3 DEF CloseFile, CloseAgain
    <2>2. QED
      BY <2>1
  <1>4. ASSUME NEW l \in Loggers, Log(l) \/ Send(l)
        PROVE  CloseIsServed'
    BY <1>4 DEF Log, Send
  <1>5. CASE Receive \/ Write \/ DrainEnds \/ UNCHANGED vars
    BY <1>5 DEF Receive, Write, DrainEnds, vars
  <1>6. QED
    BY <1>2, <1>3, <1>4, <1>5 DEF Next

LEMMA DrainStep ==
    ASSUME TypeInv, Accounting, [Next]_vars
    PROVE  DrainFalls
  <1> SUFFICES ASSUME closed
               PROVE  DrainLeft' < DrainLeft \/ UNCHANGED <<queue, held, drain>>
    BY DEF DrainFalls
  <1>1. Len(queue) \in Nat
    BY DEF TypeInv, TypeOK
  <1>2. CASE Receive
    <2>1. Len(queue') = Len(queue) - 1
      BY <1>2, HeadTailProperties DEF Receive, TypeInv, TypeOK
    <2>2. drain = "receive" /\ drain' = "write"
      BY <1>2 DEF Receive
    <2>3. QED
      BY <1>1, <2>1, <2>2 DEF DrainLeft
  <1>3. CASE Write
    BY <1>1, <1>3 DEF Write, DrainLeft
  <1>4. CASE DrainEnds
    BY <1>1, <1>4 DEF DrainEnds, DrainLeft
  <1>5. ASSUME NEW l \in Loggers, Log(l) \/ Send(l)
        PROVE  UNCHANGED <<queue, held, drain>>
    BY <1>5 DEF Log, Send, Accounting
  <1>6. ASSUME NEW c \in Closers, Close(c) \/ CloseFile(c) \/ CloseAgain(c)
        PROVE  UNCHANGED <<queue, held, drain>>
    BY <1>6 DEF Close, CloseFile, CloseAgain
  <1>7. CASE UNCHANGED vars
    BY <1>7 DEF vars
  <1>8. QED
    BY <1>2, <1>3, <1>4, <1>5, <1>6, <1>7 DEF Next

(***************************************************************************)
(* The safety half of CloseReturns: a caller of Close always has one that  *)
(* waits for the drain goroutine or has returned, and after the channel is *)
(* closed nothing lengthens that goroutine's work.                         *)
(***************************************************************************)
THEOREM CloseMakesProgress == Spec => []CloseIsServed /\ [][DrainFalls]_vars
  <1>1. Init => CloseIsServed
    BY DEF Init, CloseIsServed
  <1>2. TypeInv /\ CloseIsServed /\ [Next]_vars => CloseIsServed'
    BY ServedStep
  <1>3. TypeInv /\ Accounting /\ [Next]_vars => [DrainFalls]_vars
    BY DrainStep
  <1>4. QED
    BY <1>1, <1>2, <1>3, AccountingHolds, PTL DEF Spec
=============================================================================
