------------------------------- MODULE Indexer -------------------------------
(***************************************************************************)
(* The incremental indexer (internal/intelligence/indexer, Run) over       *)
(* several runs on one repository.  A run compares the tree with the       *)
(* `files` rows and rewrites symbols, edges, the row and the chunks of     *)
(* what differs, one SQL statement after another and in no transaction.    *)
(* It may stop at any of them: an error is returned, the context is        *)
(* cancelled, the process dies.  Developers edit the tree at any time, a   *)
(* run included, and may bring an old content back (git checkout).         *)
(*                                                                         *)
(* A content of a file is a version.  What is derived from a file is       *)
(* stored as the set of versions it was derived from, so that a mixture    *)
(* shows.  An edge is a call from a symbol of one file to one of another;  *)
(* every version of a file declares the symbol the others call.  The row   *)
(* of index_runs, churn history, degrees and the trace edges derived from  *)
(* the whole table at the end of a run are left out.                       *)
(***************************************************************************)
EXTENDS Naturals, FiniteSets

CONSTANTS
    Files,     \* paths of the repository
    Versions,  \* contents a file may have
    Stubs,     \* contents in which the parser finds a MODULE and nothing else
    Calls,     \* Calls[f][v]: the files that version v of file f calls
    None,      \* no file, no row, no content
    MaxRuns,   \* bound of the model: runs of the indexer
    MaxEdits   \* bound of the model: edits of the tree

ASSUME IndexerAssumption ==
    /\ Stubs \subseteq Versions
    /\ Calls \in [Files -> [Versions -> SUBSET Files]]
    /\ None \notin Files \cup Versions
    /\ MaxRuns \in Nat /\ MaxEdits \in Nat

VARIABLES
    tree,        \* the content of each file on disk
    row,         \* table files: the content its SHA was taken from
    symbols,     \* table symbols: the contents a file's rows were taken from
    edges,       \* table edges: caller's file, callee's file
    chunks,      \* table chunks: the contents a file's rows were taken from
    pc,          \* the statement the run is about to execute
    runs,        \* rows of index_runs
    scan,        \* the contents the caller of Run scanned
    todo, gone,  \* files still to index, files still to remove
    cur, source, \* the file in progress, and the content read from it
    rowFailed,   \* fileUpsertErrors > 0
    edits,       \* edits made so far
    half,        \* history: files whose statements were not all carried out
    stale,       \* history: files whose chunks could not be deleted
    passedOver   \* history: files this run decided, or failed, not to record

database == <<row, symbols, edges, chunks>>
progress == <<todo, gone, cur, source, rowFailed>>
history  == <<half, stale, passedOver>>
vars == <<tree, edits, database, pc, runs, scan, progress, history>>

Removing == {"removeSymbols", "removeRow"}
Writing  == {"insertSymbols", "prune", "clearEdges", "flushEdges", "recordFile", "storeChunks"}
Busy     == Removing \cup Writing
Resting  == {"idle", "done", "failed"}

\* From its first statement on symbols until its row is written, a file is in between.
InBetween == {"prune", "clearEdges", "flushEdges", "recordFile", "removeRow"}

Init ==
    /\ tree \in [Files -> Versions]
    /\ row = [f \in Files |-> None]
    /\ symbols = [f \in Files |-> {}]
    /\ edges = {}
    /\ chunks = [f \in Files |-> {}]
    /\ pc = "idle"
    /\ runs = 0
    /\ scan = [f \in Files |-> None]
    /\ todo = {} /\ gone = {}
    /\ cur = None /\ source = None
    /\ rowFailed = FALSE
    /\ edits = 0
    /\ half = {} /\ stale = {} /\ passedOver = {}

-----------------------------------------------------------------------------
\* A developer writes, deletes, creates or restores a file.
Edit ==
    /\ edits < MaxEdits
    /\ edits' = edits + 1
    /\ \E f \in Files, v \in Versions \cup {None} :
           /\ v # tree[f]
           /\ tree' = [tree EXCEPT ![f] = v]
    /\ UNCHANGED <<database, pc, runs, scan, progress, history>>

(***************************************************************************)
(* DetectChanges, and the override of an empty verdict: the first run of a *)
(* repository, an empty chunk store, and a failed count of either index    *)
(* every file again.                                                       *)
(***************************************************************************)
Current == {f \in Files : tree[f] # None}
Differing == {f \in Current : row[f] # tree[f]}
Removed == {f \in Files \ Current : row[f] # None}

ForceReindex(countFails) ==
    /\ Differing = {} /\ Removed = {}
    /\ \/ countFails
       \/ runs = 0
       \/ \A f \in Files : chunks[f] = {}

StartRun ==
    /\ pc \in Resting /\ runs < MaxRuns
    /\ runs' = runs + 1
    /\ scan' = tree
    /\ \E countFails \in BOOLEAN :
           todo' = IF ForceReindex(countFails) THEN Current ELSE Differing
    /\ gone' = Removed
    /\ cur' = None /\ source' = None
    /\ rowFailed' = FALSE
    /\ passedOver' = {}
    /\ pc' = "next"
    /\ UNCHANGED <<tree, edits, database, half, stale>>

\* The row of index_runs or the rows of files cannot be had: nothing is touched.
CannotStart ==
    /\ pc \in Resting /\ runs < MaxRuns
    /\ runs' = runs + 1
    /\ pc' = "failed"
    /\ UNCHANGED <<tree, edits, database, scan, progress, history>>

-----------------------------------------------------------------------------
(***************************************************************************)
(* A file that is gone loses its chunks, then its symbols with all edges   *)
(* that touch them, then its row.  None of the three errors is looked at.  *)
(***************************************************************************)
DeleteChunks(f) ==
    \/ /\ chunks' = [chunks EXCEPT ![f] = {}]
       /\ stale' = stale \ {f}
    \/ /\ UNCHANGED chunks
       /\ stale' = stale \cup {f}

RemoveChunks ==
    /\ pc = "next"
    /\ \E f \in gone :
           /\ gone' = gone \ {f}
           /\ cur' = f
           /\ DeleteChunks(f)
    /\ pc' = "removeSymbols"
    /\ UNCHANGED <<tree, edits, row, symbols, edges, runs, scan, todo, source, rowFailed,
                   half, passedOver>>

\* mutant: edges are not deleted with their symbols
MutantCascade(f) == edges

Cascade(f) == {e \in edges : f \notin {e[1], e[2]}}

RemoveSymbols ==
    /\ pc = "removeSymbols"
    /\ \/ /\ symbols' = [symbols EXCEPT ![cur] = {}]
          /\ edges' = Cascade(cur)
          /\ half' = half \ {cur}
       \/ /\ UNCHANGED <<symbols, edges>>
          /\ half' = half \cup {cur}
    /\ pc' = "removeRow"
    /\ UNCHANGED <<tree, edits, row, chunks, runs, scan, progress, stale, passedOver>>

RemoveRow ==
    /\ pc = "removeRow"
    /\ \/ /\ row' = [row EXCEPT ![cur] = None]
          /\ UNCHANGED <<half, passedOver>>
       \/ /\ UNCHANGED row
          /\ half' = half \cup {cur}
          /\ passedOver' = passedOver \cup {cur}
    /\ pc' = "next"
    /\ UNCHANGED <<tree, edits, symbols, edges, chunks, runs, scan, progress, stale>>

-----------------------------------------------------------------------------
(***************************************************************************)
(* The next file, once all removals are done.  It is read now, not when it *)
(* was scanned.  A stub is left alone, row and all; a file that was stored *)
(* in an earlier version keeps what was derived from that.  Otherwise its  *)
(* chunks are deleted, and the error of that is not looked at.             *)
(***************************************************************************)
SkipStub ==
    /\ pc = "next" /\ gone = {}
    /\ \E f \in todo :
           /\ tree[f] \in Stubs
           /\ todo' = todo \ {f}
           /\ passedOver' = passedOver \cup {f}
    /\ UNCHANGED <<tree, edits, database, pc, runs, scan, gone, cur, source, rowFailed,
                   half, stale>>

\* mutant: the chunks of the earlier version are left where they are
MutantBeginFile ==
    /\ pc = "next" /\ gone = {}
    /\ \E f \in todo :
           /\ tree[f] \in Versions \ Stubs
           /\ todo' = todo \ {f}
           /\ cur' = f /\ source' = tree[f]
    /\ pc' = "insertSymbols"
    /\ UNCHANGED <<tree, edits, database, runs, scan, gone, rowFailed, history>>

BeginFile ==
    /\ pc = "next" /\ gone = {}
    /\ \E f \in todo :
           /\ tree[f] \in Versions \ Stubs
           /\ todo' = todo \ {f}
           /\ cur' = f /\ source' = tree[f]
           /\ DeleteChunks(f)
    /\ pc' = "insertSymbols"
    /\ UNCHANGED <<tree, edits, row, symbols, edges, runs, scan, gone, rowFailed,
                   half, passedOver>>

\* Symbols keep their ids: the new ones are upserted, then the others are pruned.
InsertSymbols ==
    /\ pc = "insertSymbols"
    /\ symbols' = [symbols EXCEPT ![cur] = @ \cup {source}]
    /\ pc' = "prune"
    /\ UNCHANGED <<tree, edits, row, edges, chunks, runs, scan, progress, history>>

\* mutant: what the file no longer declares stays
MutantPrune ==
    /\ pc = "prune"
    /\ pc' = "clearEdges"
    /\ UNCHANGED <<tree, edits, database, runs, scan, progress, history>>

Prune ==
    /\ pc = "prune"
    /\ symbols' = [symbols EXCEPT ![cur] = {source}]
    /\ pc' = "clearEdges"
    /\ UNCHANGED <<tree, edits, row, edges, chunks, runs, scan, progress, history>>

\* mutant: inbound edges are deleted in place of outbound ones
MutantInherited == {e \in edges : e[2] # cur}

Inherited == {e \in edges : e[1] # cur}

ClearEdges ==
    /\ pc = "clearEdges"
    /\ edges' = Inherited
    /\ pc' = "flushEdges"
    /\ UNCHANGED <<tree, edits, row, symbols, chunks, runs, scan, progress, history>>

(***************************************************************************)
(* A call is resolved against the symbols that are stored by now; one to a *)
(* file not indexed yet is dropped, and so is an edge whose insert fails.  *)
(***************************************************************************)
Resolved == {<<cur, g>> : g \in {h \in Calls[cur][source] : symbols[h] # {}}}

FlushEdges ==
    /\ pc = "flushEdges"
    /\ \E stored \in SUBSET Resolved : edges' = edges \cup stored
    /\ pc' = "recordFile"
    /\ UNCHANGED <<tree, edits, row, symbols, chunks, runs, scan, progress, history>>

\* The row gets the SHA of the scan.  A failure is counted, and the pass over the file goes on.
RecordFile ==
    /\ pc = "recordFile"
    /\ \/ /\ row' = [row EXCEPT ![cur] = scan[cur]]
          /\ half' = IF source = scan[cur] THEN half \ {cur} ELSE half \cup {cur}
          /\ UNCHANGED rowFailed
       \/ /\ rowFailed' = TRUE
          /\ half' = half \cup {cur}
          /\ UNCHANGED row
    /\ pc' = "storeChunks"
    /\ UNCHANGED <<tree, edits, symbols, edges, chunks, runs, scan, todo, gone, cur, source,
                   stale, passedOver>>

\* The chunks of one file are embedded, then copied in one statement.
StoreChunks ==
    /\ pc = "storeChunks"
    /\ chunks' = [chunks EXCEPT ![cur] = @ \cup {source}]
    /\ pc' = "next"
    /\ UNCHANGED <<tree, edits, row, symbols, edges, runs, scan, progress, half, stale, passedOver>>

\* A recoverable error of the embedder, or no segment it accepts: the file goes without chunks.
SkipChunks ==
    /\ pc = "storeChunks"
    /\ pc' = "next"
    /\ UNCHANGED <<tree, edits, database, runs, scan, progress, half, stale, passedOver>>

-----------------------------------------------------------------------------
\* a row that could not be written fails the run
Outcome == IF rowFailed THEN "failed" ELSE "done"

FinishRun ==
    /\ pc = "next" /\ gone = {} /\ todo = {}
    /\ pc' = Outcome
    /\ UNCHANGED <<tree, edits, database, runs, scan, progress, history>>

(***************************************************************************)
(* Any other way a run ends: a read, parse, statement or embedder error is *)
(* returned, or the process is killed before the statement pc names.       *)
(***************************************************************************)
Abort ==
    /\ pc \notin Resting
    /\ half' = IF pc \in InBetween THEN half \cup {cur} ELSE half
    /\ pc' = "failed"
    /\ UNCHANGED <<tree, edits, database, runs, scan, progress, stale, passedOver>>

Next ==
    \/ Edit \/ StartRun \/ CannotStart
    \/ RemoveChunks \/ RemoveSymbols \/ RemoveRow
    \/ SkipStub \/ BeginFile \/ InsertSymbols \/ Prune \/ ClearEdges \/ FlushEdges
    \/ RecordFile \/ StoreChunks \/ SkipChunks
    \/ FinishRun \/ Abort

Spec == Init /\ [][Next]_vars

-----------------------------------------------------------------------------
(***************************************************************************)
(* Types, and the foreign keys of edges: both ends are stored symbols.     *)
(***************************************************************************)
TypeOK ==
    /\ tree \in [Files -> Versions \cup {None}]
    /\ row \in [Files -> Versions \cup {None}]
    /\ symbols \in [Files -> SUBSET Versions]
    /\ edges \subseteq Files \X Files
    /\ \A e \in edges : symbols[e[1]] # {} /\ symbols[e[2]] # {}
    /\ chunks \in [Files -> SUBSET Versions]
    /\ pc \in {"next"} \cup Busy \cup Resting
    /\ runs \in 0 .. MaxRuns /\ edits \in 0 .. MaxEdits
    /\ scan \in [Files -> Versions \cup {None}]
    /\ todo \subseteq Files /\ gone \subseteq Files
    /\ cur \in Files \cup {None} /\ (pc \in Busy => cur \in Files)
    /\ source \in Versions \cup {None} /\ (pc \in Writing => source \in Versions)
    /\ rowFailed \in BOOLEAN
    /\ half \subseteq Files /\ stale \subseteq Files
    /\ passedOver \subseteq Files

\* Every statement of the last pass over f was carried out, on the content that was scanned.
Settled(f) == f \notin half /\ ~(f = cur /\ pc \in InBetween)

(***************************************************************************)
(* Change detection trusts the row.  The statements are ordered so that it *)
(* may: wherever a run stopped, a row is there exactly when the symbols of *)
(* its content, and of no other, are.  Excepted is only a file whose       *)
(* statements were cut short or which changed between scan and read.       *)
(***************************************************************************)
RowsTellTheTruth ==
    \A f \in Files : Settled(f) =>
        symbols[f] = IF row[f] = None THEN {} ELSE {row[f]}

(***************************************************************************)
(* run.go on stale edges: "a call that was removed from the source lingers *)
(* as an edge forever".  No edge outlives the call it stands for, although *)
(* ids, and with them edges, survive the reindexing of a file.             *)
(***************************************************************************)
EdgesReflectCallers ==
    \A e \in edges : Settled(e[1]) => row[e[1]] # None /\ e[2] \in Calls[e[1]][row[e[1]]]

(***************************************************************************)
(* Retrieval answers from chunks without a look at the rows: they are      *)
(* those of the recorded content or they are missing, never of an older    *)
(* one, unless their deletion failed.                                      *)
(***************************************************************************)
ChunksAreCurrent ==
    \A f \in Files : Settled(f) /\ f \notin stale => chunks[f] \subseteq {row[f]}

(***************************************************************************)
(* A run that reports success has recorded every file of its scan and      *)
(* forgotten every other, although a failed row does not stop the pass:    *)
(* "A swallowed write error is indistinguishable from an empty             *)
(* repository" (run.go).  A stub, and a row that would not be deleted,     *)
(* are passed over.                                                        *)
(***************************************************************************)
SuccessMeansRecorded ==
    pc = "done" => \A f \in Files \ passedOver : row[f] = scan[f]
=============================================================================
