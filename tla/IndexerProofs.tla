---------------------------- MODULE IndexerProofs ----------------------------
(***************************************************************************)
(* Indexer for any files, contents, calls, runs and edits: types and       *)
(* foreign keys, that a row is there exactly when the symbols of its       *)
(* content are, that no edge and no chunk outlives the content it came     *)
(* from, and that a successful run has recorded its scan.                  *)
(***************************************************************************)
EXTENDS Indexer, TLAPS

(***************************************************************************)
(* What holds of the file in progress at each statement.  The invariants   *)
(* say nothing of it while it is in between; these facts are what makes    *)
(* them true of it again once it is settled.                               *)
(***************************************************************************)
Stages ==
    /\ pc \in {"clearEdges", "flushEdges", "recordFile"} => symbols[cur] = {source}
    /\ pc = "prune" => symbols[cur] # {}
    /\ pc = "flushEdges" => \A e \in edges : e[1] # cur
    /\ pc = "recordFile" => \A e \in edges : e[1] = cur => e[2] \in Calls[cur][source]
    /\ pc = "removeRow" /\ cur \notin half =>
           symbols[cur] = {} /\ \A e \in edges : e[1] # cur
    /\ pc \in Busy /\ cur \notin stale => chunks[cur] = {}
    /\ pc = "storeChunks" /\ cur \notin half => row[cur] = source

\* The files of the scan whose rows this run has still to bring in line.
Pending == todo \cup gone \cup passedOver
              \cup (IF pc \in Busy \ {"storeChunks"} THEN {cur} ELSE {})

Recorded ==
    /\ \A f \in gone : scan[f] = None
    /\ pc \in Removing => scan[cur] = None
    /\ pc \in {"next"} \cup Busy /\ ~rowFailed => \A f \in Files \ Pending : row[f] = scan[f]
    /\ SuccessMeansRecorded

Inv == TypeOK /\ RowsTellTheTruth /\ EdgesReflectCallers /\ ChunksAreCurrent /\ Stages /\ Recorded

USE DEF Busy, Removing, Writing, Resting, InBetween

-----------------------------------------------------------------------------
LEMMA InvInit == Init => Inv
  <1> SUFFICES ASSUME Init PROVE Inv
    OBVIOUS
  <1>a. 0 \in 0 .. MaxRuns /\ 0 \in 0 .. MaxEdits
    BY IndexerAssumption
  <1>1. TypeOK
    BY <1>a DEF Init, TypeOK
  <1>2. RowsTellTheTruth /\ EdgesReflectCallers /\ ChunksAreCurrent
    BY DEF Init, RowsTellTheTruth, EdgesReflectCallers, ChunksAreCurrent
  <1>3. Stages /\ Recorded
    BY DEF Init, Stages, Recorded, SuccessMeansRecorded
  <1> QED
    BY <1>1, <1>2, <1>3 DEF Inv

LEMMA InvEdit == Inv /\ Edit => Inv'
  <1> SUFFICES ASSUME Inv, Edit PROVE Inv'
    OBVIOUS
  <1> USE DEF Inv, Edit, database, progress, history
  <1>a. edits' \in 0 .. MaxEdits
    BY IndexerAssumption DEF TypeOK
  <1>1. TypeOK'
    BY <1>a DEF TypeOK
  <1>2. RowsTellTheTruth' /\ EdgesReflectCallers' /\ ChunksAreCurrent'
    BY DEF RowsTellTheTruth, EdgesReflectCallers, ChunksAreCurrent, Settled
  <1>3. Stages'
    BY DEF Stages
  <1>4. Recorded'
    BY DEF Recorded, SuccessMeansRecorded, Pending
  <1> QED
    BY <1>1, <1>2, <1>3, <1>4

LEMMA InvStart == Inv /\ (StartRun \/ CannotStart) => Inv'
  <1> SUFFICES ASSUME Inv, StartRun \/ CannotStart PROVE Inv'
    OBVIOUS
  <1> USE DEF Inv, database, progress, history
  <1>a. runs' \in 0 .. MaxRuns
    BY IndexerAssumption DEF StartRun, CannotStart, TypeOK
  <1>1. CASE StartRun
    <2> USE <1>1 DEF StartRun
    <2>1. TypeOK'
      BY <1>a DEF TypeOK, Current, Differing, Removed
    <2>2. RowsTellTheTruth' /\ EdgesReflectCallers' /\ ChunksAreCurrent'
      BY DEF RowsTellTheTruth, EdgesReflectCallers, ChunksAreCurrent, Settled
    <2>3. Stages'
      BY DEF Stages
    <2>4. \A f \in Files \ Pending' : row[f] = tree[f]
      BY DEF Pending, Current, Differing, Removed
    <2>5. Recorded'
      BY <2>4 DEF Recorded, SuccessMeansRecorded, Current, Removed
    <2> QED
      BY <2>1, <2>2, <2>3, <2>5
  <1>2. CASE CannotStart
    <2> USE <1>2 DEF CannotStart
    <2>1. TypeOK'
      BY <1>a DEF TypeOK
    <2>2. RowsTellTheTruth' /\ EdgesReflectCallers' /\ ChunksAreCurrent'
      BY DEF RowsTellTheTruth, EdgesReflectCallers, ChunksAreCurrent, Settled
    <2>3. Stages' /\ Recorded'
      BY DEF Stages, Recorded, SuccessMeansRecorded
    <2> QED
      BY <2>1, <2>2, <2>3
  <1> QED
    BY <1>1, <1>2

LEMMA InvRemoval == Inv /\ (RemoveChunks \/ RemoveSymbols \/ RemoveRow) => Inv'
  <1> SUFFICES ASSUME Inv, RemoveChunks \/ RemoveSymbols \/ RemoveRow PROVE Inv'
    OBVIOUS
  <1> USE DEF Inv
  <1>1. CASE RemoveChunks
    <2> USE <1>1 DEF RemoveChunks, DeleteChunks
    <2>1. TypeOK'
      BY DEF TypeOK
    <2>2. RowsTellTheTruth' /\ EdgesReflectCallers'
      BY DEF RowsTellTheTruth, EdgesReflectCallers, Settled
    <2>3. ChunksAreCurrent'
      BY DEF ChunksAreCurrent, Settled, TypeOK
    <2>4. Stages'
      BY DEF Stages, TypeOK
    <2>5. Recorded'
      BY DEF Recorded, SuccessMeansRecorded, Pending
    <2> QED
      BY <2>1, <2>2, <2>3, <2>4, <2>5
  <1>2. CASE RemoveSymbols
    <2> USE <1>2 DEF RemoveSymbols, Cascade, progress
    <2>1. TypeOK'
      BY DEF TypeOK
    <2>2. RowsTellTheTruth'
      BY DEF RowsTellTheTruth, Settled, TypeOK
    <2>3. EdgesReflectCallers' /\ ChunksAreCurrent'
      BY DEF EdgesReflectCallers, ChunksAreCurrent, Settled
    <2>4. Stages'
      BY DEF Stages, TypeOK
    <2>5. Recorded'
      BY DEF Recorded, SuccessMeansRecorded, Pending
    <2> QED
      BY <2>1, <2>2, <2>3, <2>4, <2>5
  <1>3. CASE RemoveRow
    <2> USE <1>3 DEF RemoveRow, progress
    <2>1. TypeOK'
      BY DEF TypeOK
    <2>2. RowsTellTheTruth'
      BY DEF RowsTellTheTruth, Settled, Stages, TypeOK
    <2>3. EdgesReflectCallers'
      BY DEF EdgesReflectCallers, Settled, Stages, TypeOK
    <2>4. ChunksAreCurrent'
      BY DEF ChunksAreCurrent, Settled, Stages, TypeOK
    <2>5. Stages'
      BY DEF Stages
    <2>6. Recorded'
      BY DEF Recorded, SuccessMeansRecorded, Pending, TypeOK
    <2> QED
      BY <2>1, <2>2, <2>3, <2>4, <2>5, <2>6
  <1> QED
    BY <1>1, <1>2, <1>3

LEMMA InvBegin == Inv /\ (SkipStub \/ BeginFile) => Inv'
  <1> SUFFICES ASSUME Inv, SkipStub \/ BeginFile PROVE Inv'
    OBVIOUS
  <1> USE DEF Inv, database
  <1>1. CASE SkipStub
    <2> USE <1>1 DEF SkipStub
    <2>1. TypeOK'
      BY DEF TypeOK
    <2>2. RowsTellTheTruth' /\ EdgesReflectCallers' /\ ChunksAreCurrent'
      BY DEF RowsTellTheTruth, EdgesReflectCallers, ChunksAreCurrent, Settled
    <2>3. Stages' /\ Recorded'
      BY DEF Stages, Recorded, SuccessMeansRecorded, Pending
    <2> QED
      BY <2>1, <2>2, <2>3
  <1>2. CASE BeginFile
    <2> USE <1>2 DEF BeginFile, DeleteChunks
    <2>1. TypeOK'
      BY DEF TypeOK
    <2>2. RowsTellTheTruth' /\ EdgesReflectCallers'
      BY DEF RowsTellTheTruth, EdgesReflectCallers, Settled
    <2>3. ChunksAreCurrent'
      BY DEF ChunksAreCurrent, Settled, TypeOK
    <2>4. Stages'
      BY DEF Stages, TypeOK
    <2>5. Recorded'
      BY DEF Recorded, SuccessMeansRecorded, Pending
    <2> QED
      BY <2>1, <2>2, <2>3, <2>4, <2>5
  <1> QED
    BY <1>1, <1>2

LEMMA InvSymbols == Inv /\ (InsertSymbols \/ Prune) => Inv'
  <1> SUFFICES ASSUME Inv, InsertSymbols \/ Prune PROVE Inv'
    OBVIOUS
  <1> USE DEF Inv, progress, history
  <1>1. CASE InsertSymbols
    <2> USE <1>1 DEF InsertSymbols
    <2>1. TypeOK'
      BY DEF TypeOK
    <2>2. RowsTellTheTruth' /\ EdgesReflectCallers' /\ ChunksAreCurrent'
      BY DEF RowsTellTheTruth, EdgesReflectCallers, ChunksAreCurrent, Settled
    <2>3. Stages'
      BY DEF Stages, TypeOK
    <2>4. Recorded'
      BY DEF Recorded, SuccessMeansRecorded, Pending
    <2> QED
      BY <2>1, <2>2, <2>3, <2>4
  <1>2. CASE Prune
    <2> USE <1>2 DEF Prune
    <2>1. TypeOK'
      BY DEF TypeOK
    <2>2. RowsTellTheTruth' /\ EdgesReflectCallers' /\ ChunksAreCurrent'
      BY DEF RowsTellTheTruth, EdgesReflectCallers, ChunksAreCurrent, Settled
    <2>3. Stages'
      BY DEF Stages, TypeOK
    <2>4. Recorded'
      BY DEF Recorded, SuccessMeansRecorded, Pending
    <2> QED
      BY <2>1, <2>2, <2>3, <2>4
  <1> QED
    BY <1>1, <1>2

LEMMA InvEdges == Inv /\ (ClearEdges \/ FlushEdges) => Inv'
  <1> SUFFICES ASSUME Inv, ClearEdges \/ FlushEdges PROVE Inv'
    OBVIOUS
  <1> USE DEF Inv, progress, history
  <1>1. CASE ClearEdges
    <2> USE <1>1 DEF ClearEdges, Inherited
    <2>1. TypeOK'
      BY DEF TypeOK
    <2>2. RowsTellTheTruth' /\ EdgesReflectCallers' /\ ChunksAreCurrent'
      BY DEF RowsTellTheTruth, EdgesReflectCallers, ChunksAreCurrent, Settled
    <2>3. Stages'
      BY DEF Stages
    <2>4. Recorded'
      BY DEF Recorded, SuccessMeansRecorded, Pending
    <2> QED
      BY <2>1, <2>2, <2>3, <2>4
  <1>2. CASE FlushEdges
    <2>1. PICK stored \in SUBSET Resolved : edges' = edges \cup stored
      BY <1>2 DEF FlushEdges
    <2>2. Calls[cur][source] \subseteq Files
      BY <1>2, IndexerAssumption DEF FlushEdges, TypeOK
    <2>3. \A e \in stored : /\ e \in Files \X Files
                            /\ e[1] = cur
                            /\ e[2] \in Calls[cur][source]
                            /\ symbols[e[2]] # {}
      BY <1>2, <2>1, <2>2 DEF FlushEdges, Resolved, TypeOK
    <2>4. TypeOK'
      BY <1>2, <2>1, <2>3 DEF FlushEdges, TypeOK, Stages
    <2>5. RowsTellTheTruth' /\ ChunksAreCurrent'
      BY <1>2 DEF FlushEdges, RowsTellTheTruth, ChunksAreCurrent, Settled
    <2>6. EdgesReflectCallers'
      BY <1>2, <2>1, <2>3 DEF FlushEdges, EdgesReflectCallers, Settled
    <2>7. Stages'
      BY <1>2, <2>1, <2>3 DEF FlushEdges, Stages
    <2>8. Recorded'
      BY <1>2 DEF FlushEdges, Recorded, SuccessMeansRecorded, Pending
    <2> QED
      BY <2>4, <2>5, <2>6, <2>7, <2>8
  <1> QED
    BY <1>1, <1>2

LEMMA InvRecord == Inv /\ RecordFile => Inv'
  <1> SUFFICES ASSUME Inv, RecordFile PROVE Inv'
    OBVIOUS
  <1> USE DEF Inv, RecordFile
  <1>0. source # None /\ cur \in Files
    BY IndexerAssumption DEF TypeOK
  <1>1. TypeOK'
    BY DEF TypeOK
  <1>2. RowsTellTheTruth'
    BY <1>0 DEF RowsTellTheTruth, Settled, Stages, TypeOK
  <1>3. EdgesReflectCallers'
    BY <1>0 DEF EdgesReflectCallers, Settled, Stages, TypeOK
  <1>4. ChunksAreCurrent'
    BY <1>0 DEF ChunksAreCurrent, Settled, Stages, TypeOK
  <1>5. Stages'
    BY <1>0 DEF Stages, TypeOK
  <1>6. Recorded'
    BY <1>0 DEF Recorded, SuccessMeansRecorded, Pending, TypeOK
  <1> QED
    BY <1>1, <1>2, <1>3, <1>4, <1>5, <1>6

LEMMA InvChunks == Inv /\ (StoreChunks \/ SkipChunks) => Inv'
  <1> SUFFICES ASSUME Inv, StoreChunks \/ SkipChunks PROVE Inv'
    OBVIOUS
  <1> USE DEF Inv, StoreChunks, SkipChunks, progress, database
  <1>1. TypeOK'
    BY DEF TypeOK
  <1>2. RowsTellTheTruth' /\ EdgesReflectCallers'
    BY DEF RowsTellTheTruth, EdgesReflectCallers, Settled
  <1>3. ChunksAreCurrent'
    BY DEF ChunksAreCurrent, Settled, Stages, TypeOK
  <1>4. Stages'
    BY DEF Stages
  <1>5. Recorded'
    BY DEF Recorded, SuccessMeansRecorded, Pending
  <1> QED
    BY <1>1, <1>2, <1>3, <1>4, <1>5

LEMMA InvEnd == Inv /\ (FinishRun \/ Abort) => Inv'
  <1> SUFFICES ASSUME Inv, FinishRun \/ Abort PROVE Inv'
    OBVIOUS
  <1> USE DEF Inv, FinishRun, Abort, Outcome, progress, database, history
  <1>1. TypeOK'
    BY DEF TypeOK
  <1>2. RowsTellTheTruth' /\ EdgesReflectCallers' /\ ChunksAreCurrent'
    BY DEF RowsTellTheTruth, EdgesReflectCallers, ChunksAreCurrent, Settled
  <1>3. Stages'
    BY DEF Stages
  <1>4. Recorded'
    BY DEF Recorded, SuccessMeansRecorded, Pending, TypeOK
  <1> QED
    BY <1>1, <1>2, <1>3, <1>4

LEMMA InvStutter == Inv /\ UNCHANGED vars => Inv'
  <1> SUFFICES ASSUME Inv, UNCHANGED vars PROVE Inv'
    OBVIOUS
  <1> USE DEF Inv, vars, database, progress, history
  <1>1. TypeOK' /\ RowsTellTheTruth' /\ EdgesReflectCallers' /\ ChunksAreCurrent'
    BY DEF TypeOK, RowsTellTheTruth, EdgesReflectCallers, ChunksAreCurrent, Settled
  <1>2. Stages' /\ Recorded'
    BY DEF Stages, Recorded, SuccessMeansRecorded, Pending
  <1> QED
    BY <1>1, <1>2

LEMMA Invariance == Spec => []Inv
  <1>1. Inv /\ [Next]_vars => Inv'
    BY InvEdit, InvStart, InvRemoval, InvBegin, InvSymbols, InvEdges, InvRecord,
       InvChunks, InvEnd, InvStutter DEF Next
  <1> QED
    BY <1>1, InvInit, PTL DEF Spec

-----------------------------------------------------------------------------
\* The tables are of their types, and an edge joins two stored symbols, at every statement.
THEOREM TypeCorrect == Spec => []TypeOK
  BY Invariance, PTL DEF Inv

\* Wherever runs stopped, a row is there exactly when the symbols of its content are.
THEOREM RowsAreTrue == Spec => []RowsTellTheTruth
  BY Invariance, PTL DEF Inv

\* No edge outlives the call in its caller's file.
THEOREM EdgesAreCurrent == Spec => []EdgesReflectCallers
  BY Invariance, PTL DEF Inv

\* No chunk is of an older content than the row, unless its deletion failed.
THEOREM ChunksNeverOlder == Spec => []ChunksAreCurrent
  BY Invariance, PTL DEF Inv

\* A run that reports success has recorded what it scanned.
THEOREM SuccessIsRecorded == Spec => []SuccessMeansRecorded
  BY Invariance, PTL DEF Inv, Recorded
=============================================================================
