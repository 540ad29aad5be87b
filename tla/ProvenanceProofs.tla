--------------------------- MODULE ProvenanceProofs ---------------------------
(***************************************************************************)
(* Provenance for any duplicate group, any tests and any number of runs:   *)
(* its type invariant, that reconciliation deletes only files at paths     *)
(* some run wrote to, that it never deletes the file it merges into, and   *)
(* that it loses no test unless a file operation fails.                    *)
(***************************************************************************)
EXTENDS Provenance, TLAPS

ReconType == [canonical : SUBSET Paths, todo : SUBSET Paths,
              merged : SUBSET Tests, any : BOOLEAN]

(***************************************************************************)
(* The manifest, and what reconciliation has yet to remove on its          *)
(* strength, name only paths a run wrote to; and the canonical file is     *)
(* none of those to remove.  No reconciliation is under way outside its    *)
(* phase, in which the run has created nothing yet.                        *)
(***************************************************************************)
Authored ==
    /\ manifest \subseteq written
    /\ recon.todo \subseteq written
    /\ recon.canonical \cap recon.todo = {}
    /\ recon.canonical \cup recon.todo \subseteq Disk
    /\ pc = "reconcile" => created = {}
    /\ pc # "reconcile" => recon = NoRecon

Inv == TypeOK /\ Authored

-----------------------------------------------------------------------------
LEMMA PutFacts ==
    ASSUME TypeOK, NEW p \in Paths, NEW file \in File
    PROVE  /\ DOMAIN Put(p, file) = Disk \cup {p}
           /\ Disk \cup {p} \subseteq Paths
           /\ \A q \in Disk \cup {p} : Put(p, file)[q] \in File
  <1>1. \A q \in Disk \cup {p} : Put(p, file)[q] = IF q = p THEN file ELSE tree[q]
    BY DEF Put
  <1> QED
    BY <1>1 DEF Put, TypeOK

LEMMA DeleteFacts ==
    ASSUME TypeOK, NEW S
    PROVE  /\ DOMAIN Delete(S) = Disk \ S
           /\ Disk \ S \subseteq Paths
           /\ \A q \in Disk \ S : Delete(S)[q] \in File
  <1>1. \A q \in Disk \ S : Delete(S)[q] = tree[q]
    BY DEF Delete, Restrict
  <1> QED
    BY <1>1 DEF Delete, Restrict, TypeOK

\* What a write of test t to path p puts there is a file.
LEMMA GrownFile ==
    ASSUME TypeOK, NEW p \in Paths, NEW t \in Tests, NEW b \in BOOLEAN
    PROVE  (IF p \in Disk THEN [tree[p] EXCEPT !.tests = @ \cup {t}]
                          ELSE [human |-> b, tests |-> {t}]) \in File
  <1>1. CASE p \in Disk
    <2>1. tree[p] \in File
      BY <1>1 DEF TypeOK
    <2> QED
      BY <1>1, <2>1 DEF File
  <1>2. CASE p \notin Disk
    BY <1>2 DEF File
  <1> QED
    BY <1>1, <1>2

LEMMA CanonicalOnDisk ==
    ASSUME NEW m \in SUBSET Disk, NEW c \in Canonicals(m)
    PROVE  c \in Disk
  BY DEF Canonicals, MostTests, Prefer

-----------------------------------------------------------------------------
LEMMA InvInit == Init => Inv
  <1> SUFFICES ASSUME Init PROVE Inv
    OBVIOUS
  <1>1. Disk = {}
    BY DEF Init, Disk
  <1>2. runs \in 0 .. MaxRuns
    BY ProvenanceAssumption DEF Init
  <1>3. recon \in ReconType /\ recon.canonical = {} /\ recon.todo = {}
    BY DEF Init, NoRecon, ReconType
  <1>4. TypeOK
    BY <1>1, <1>2, <1>3 DEF Init, TypeOK, ReconType
  <1>5. Authored
    BY <1>1, <1>3 DEF Init, Authored
  <1> QED
    BY <1>4, <1>5 DEF Inv

LEMMA InvDevelopers ==
    ASSUME Inv, DeveloperWrites \/ DeveloperDeletes
    PROVE  Inv'
  <1> USE DEF Inv
  <1>1. CASE DeveloperWrites
    <2>1. PICK p \in Paths, t \in Unused :
             /\ tree' = Put(p, IF p \in Disk
                               THEN [tree[p] EXCEPT !.tests = @ \cup {t}]
                               ELSE [human |-> TRUE, tests |-> {t}])
             /\ owed' = owed \cup {t}
      BY <1>1 DEF DeveloperWrites
    <2>2. t \in Tests
      BY DEF Unused
    <2>3. /\ Disk' = Disk \cup {p} /\ Disk' \subseteq Paths
          /\ \A q \in Disk' : tree'[q] \in File
      BY <2>1, <2>2, PutFacts, GrownFile DEF Disk
    <2>4. owed' \subseteq Tests
      BY <2>1, <2>2 DEF TypeOK
    <2>5. UNCHANGED <<pc, runs, manifest, recon, created, written, clean>> /\ pc = "idle"
      BY <1>1 DEF DeveloperWrites
    <2>6. TypeOK'
      BY <2>3, <2>4, <2>5 DEF TypeOK
    <2>7. Authored'
      BY <2>3, <2>5 DEF Authored
    <2> QED
      BY <2>6, <2>7
  <1>2. CASE DeveloperDeletes
    <2>1. PICK p \in Disk : tree' = Delete({p}) /\ owed' = owed \ tree[p].tests
      BY <1>2 DEF DeveloperDeletes
    <2>2. /\ Disk' = Disk \ {p} /\ Disk' \subseteq Paths
          /\ \A q \in Disk' : tree'[q] \in File
      BY <2>1, DeleteFacts DEF Disk
    <2>3. UNCHANGED <<pc, runs, manifest, recon, created, written, clean>> /\ pc = "idle"
      BY <1>2 DEF DeveloperDeletes
    <2>4. TypeOK'
      BY <2>1, <2>2, <2>3 DEF TypeOK
    <2>5. recon.canonical = {} /\ recon.todo = {}
      BY <2>3 DEF Authored, NoRecon
    <2>6. Authored'
      BY <2>2, <2>3, <2>5 DEF Authored
    <2> QED
      BY <2>4, <2>6
  <1> QED
    BY <1>1, <1>2

LEMMA InvStartRun == Inv /\ StartRun => Inv'
  <1> SUFFICES ASSUME Inv, StartRun PROVE Inv'
    OBVIOUS
  <1> USE DEF Inv
  <1>1. /\ runs' \in 0 .. MaxRuns
        /\ created' = {}
        /\ pc = "idle"
        /\ UNCHANGED <<tree, manifest, written, owed, clean>>
    BY ProvenanceAssumption DEF StartRun, FreshArtifacts, TypeOK
  <1>2. Disk' = Disk
    BY <1>1 DEF Disk
  <1>3. CASE pc' = "generate" /\ UNCHANGED recon
    <2>1. TypeOK'
      BY <1>1, <1>2, <1>3 DEF TypeOK
    <2>2. Authored'
      BY <1>1, <1>2, <1>3 DEF Authored, NoRecon
    <2> QED
      BY <2>1, <2>2
  <1>4. ASSUME NEW m \in SUBSET Disk, NEW c \in Canonicals(m),
               Reconcilable(Redundant(c)), pc' = "reconcile",
               recon' = [canonical |-> {c}, todo |-> Redundant(c),
                         merged |-> tree[c].tests, any |-> FALSE]
        PROVE  Inv'
    <2>1. c \in Disk
      BY CanonicalOnDisk
    <2>2. tree[c] \in File
      BY <2>1 DEF TypeOK
    <2>3. tree[c].tests \subseteq Tests
      BY <2>2 DEF File
    <2>4. /\ Redundant(c) \subseteq Disk /\ Disk \subseteq Paths
          /\ Redundant(c) \subseteq manifest /\ c \notin Redundant(c)
      BY <1>4, <2>1 DEF Redundant, Reconcilable, TypeOK
    <2>5. recon' \in ReconType
      <3>1. {c} \subseteq Paths /\ Redundant(c) \subseteq Paths
        BY <2>1, <2>4
      <3> QED
        BY <1>4, <2>3, <3>1 DEF ReconType
    <2>6. TypeOK'
      BY <1>1, <1>2, <1>4, <2>5 DEF TypeOK, ReconType
    <2>7. recon'.canonical = {c} /\ recon'.todo = Redundant(c)
      BY <1>4
    <2>8. Authored'
      BY <1>1, <1>2, <1>4, <2>1, <2>4, <2>7 DEF Authored
    <2> QED
      BY <2>6, <2>8
  <1> QED
    BY <1>3, <1>4 DEF StartRun

LEMMA InvReconcile == Inv /\ Reconcile => Inv'
  <1> SUFFICES ASSUME Inv, Reconcile PROVE Inv'
    OBVIOUS
  <1> USE DEF Inv
  <1>0. recon \in ReconType /\ pc = "reconcile"
    BY DEF TypeOK, ReconType, Reconcile, LeaveMember, MergeMember, WriteCanonical
  <1>1. CASE LeaveMember
    <2>1. /\ recon' \in ReconType
          /\ recon'.todo \subseteq recon.todo /\ recon'.canonical = recon.canonical
      BY <1>0, <1>1 DEF LeaveMember, ReconType
    <2>2. UNCHANGED <<pc, runs, tree, manifest, created, written, owed, clean>> /\ Disk' = Disk
      BY <1>1 DEF LeaveMember, Disk
    <2>3. TypeOK'
      BY <2>1, <2>2 DEF TypeOK, ReconType
    <2>4. Authored'
      BY <1>0, <2>1, <2>2 DEF Authored
    <2> QED
      BY <2>3, <2>4
  <1>2. CASE MergeMember
    <2>1. PICK p \in recon.todo, removed \in BOOLEAN :
             /\ recon' = [recon EXCEPT !.todo = @ \ {p}, !.any = TRUE, !.merged = Merged(p)]
             /\ tree' = Delete(IF removed THEN {p} ELSE {})
             /\ clean' = (clean /\ removed)
      BY <1>2 DEF MergeMember
    <2>2. UNCHANGED <<pc, runs, manifest, created, written, owed>>
      BY <1>2 DEF MergeMember
    <2>3. /\ Disk' \subseteq Disk /\ Disk \ {p} \subseteq Disk' /\ Disk' \subseteq Paths
          /\ \A q \in Disk' : tree'[q] \in File
      BY <2>1, DeleteFacts DEF Disk
    <2>4. /\ recon'.todo = recon.todo \ {p} /\ recon'.canonical = recon.canonical
          /\ recon'.merged = Merged(p) /\ recon'.any = TRUE
          /\ recon' = [canonical |-> recon'.canonical, todo |-> recon'.todo,
                        merged |-> recon'.merged, any |-> recon'.any]
      BY <1>0, <2>1 DEF ReconType
    <2>5. recon' \in ReconType
      <3>1. tree[p] \in File
        BY DEF Authored, TypeOK
      <3>2. Merged(p) \subseteq Tests
        BY <1>0, <3>1 DEF Merged, File, ReconType
      <3> QED
        BY <1>0, <2>4, <3>2 DEF ReconType
    <2>6. TypeOK'
      BY <1>0, <2>1, <2>2, <2>3, <2>5 DEF TypeOK, ReconType
    <2>7. Authored'
      BY <1>0, <2>2, <2>3, <2>4 DEF Authored
    <2> QED
      BY <2>6, <2>7
  <1>3. CASE WriteCanonical
    <2>1. recon' = NoRecon /\ pc' = "generate" /\ recon.todo = {}
          /\ UNCHANGED <<runs, manifest, created, written, owed>>
      BY <1>3 DEF WriteCanonical
    <2>2. PICK ok \in BOOLEAN, c \in recon.canonical :
             /\ IF recon.any
                THEN tree' \in IF ok THEN {Put(c, [tree[c] EXCEPT !.tests = recon.merged])}
                               ELSE {tree, Put(c, [tree[c] EXCEPT !.tests = {}])}
                ELSE tree' = tree
             /\ clean' = (clean /\ (recon.any => ok))
      BY <1>3 DEF WriteCanonical
    <2>3. c \in Disk /\ c \in Paths /\ tree[c] \in File /\ recon.merged \subseteq Tests
      BY <1>0 DEF Authored, TypeOK, ReconType
    <2>4. /\ [tree[c] EXCEPT !.tests = recon.merged] \in File
          /\ [tree[c] EXCEPT !.tests = {}] \in File
      BY <2>3 DEF File
    <2>5. \/ tree' = tree
          \/ tree' = Put(c, [tree[c] EXCEPT !.tests = recon.merged])
          \/ tree' = Put(c, [tree[c] EXCEPT !.tests = {}])
      BY <2>2
    <2>6. Disk' \subseteq Paths /\ \A q \in Disk' : tree'[q] \in File
      <3>1. CASE tree' = tree
        BY <3>1 DEF Disk, TypeOK
      <3>2. CASE tree' # tree
        BY <2>3, <2>4, <2>5, <3>2, PutFacts DEF Disk
      <3> QED
        BY <3>1, <3>2
    <2>7. created' = {} /\ clean' \in BOOLEAN
      BY <1>0, <2>1, <2>2 DEF Authored, TypeOK
    <2>8. recon' \in ReconType /\ recon'.canonical = {} /\ recon'.todo = {}
      BY <2>1 DEF NoRecon, ReconType
    <2>9. TypeOK'
      BY <2>1, <2>6, <2>7, <2>8 DEF TypeOK, ReconType
    <2>10. Authored'
      BY <2>1, <2>8 DEF Authored
    <2> QED
      BY <2>9, <2>10
  <1> QED
    BY <1>1, <1>2, <1>3 DEF Reconcile

LEMMA InvGenerate == Inv /\ GenerateTest => Inv'
  <1> SUFFICES ASSUME Inv, GenerateTest PROVE Inv'
    OBVIOUS
  <1> USE DEF Inv
  <1>1. PICK p \in Paths, t \in Unused :
           /\ tree' = Put(p, IF p \in Disk
                             THEN [tree[p] EXCEPT !.tests = @ \cup {t}]
                             ELSE [human |-> FALSE, tests |-> {t}])
           /\ created' = IF p \in Disk THEN created ELSE created \cup {p}
           /\ written' = written \cup {p}
           /\ owed' = owed \cup {t}
           /\ Record(p)
    BY DEF GenerateTest
  <1>2. UNCHANGED <<pc, runs, recon, clean>> /\ pc = "generate"
    BY DEF GenerateTest
  <1>3. t \in Tests
    BY DEF Unused
  <1>4. /\ Disk' = Disk \cup {p} /\ Disk' \subseteq Paths
        /\ \A q \in Disk' : tree'[q] \in File
    BY <1>1, <1>3, PutFacts, GrownFile DEF Disk
  <1>5. manifest' \subseteq manifest \cup {p}
    BY <1>1 DEF Record
  <1>6. created' \subseteq created \cup {p}
    BY <1>1
  <1>7. TypeOK'
    BY <1>1, <1>2, <1>3, <1>4, <1>5, <1>6 DEF TypeOK
  <1>8. Authored'
    BY <1>1, <1>2, <1>4, <1>5 DEF Authored
  <1> QED
    BY <1>7, <1>8

LEMMA InvEnds == Inv /\ (EndRun \/ Killed) => Inv'
  <1> SUFFICES ASSUME Inv, EndRun \/ Killed PROVE Inv'
    OBVIOUS
  <1> USE DEF Inv
  <1>1. CASE EndRun
    <2>1. PICK gone \in SUBSET created, ships \in BOOLEAN :
             /\ tree' = Delete(gone)
             /\ owed' = owed \ UNION {tree[p].tests : p \in gone}
             /\ manifest' = IF ships THEN {} ELSE manifest
      BY <1>1 DEF EndRun
    <2>2. /\ UNCHANGED <<runs, recon, created, written, clean>>
          /\ pc' = "idle" /\ pc = "generate"
      BY <1>1 DEF EndRun
    <2>3. Disk' \subseteq Paths /\ \A q \in Disk' : tree'[q] \in File
      BY <2>1, DeleteFacts DEF Disk
    <2>4. manifest' \subseteq manifest
      BY <2>1
    <2>5. owed' \subseteq Tests
      BY <2>1 DEF TypeOK
    <2>6. TypeOK'
      BY <2>2, <2>3, <2>4, <2>5 DEF TypeOK
    <2>7. recon.canonical = {} /\ recon.todo = {}
      BY <2>2 DEF Authored, NoRecon
    <2>8. Authored'
      BY <2>2, <2>4, <2>7 DEF Authored
    <2> QED
      BY <2>6, <2>8
  <1>2. CASE Killed
    <2>1. /\ UNCHANGED <<runs, tree, manifest, created, written, owed>> /\ Disk' = Disk
          /\ pc' = "idle" /\ recon' = NoRecon /\ clean' = FALSE
      BY <1>2 DEF Killed, Disk
    <2>2. recon' \in ReconType /\ recon'.canonical = {} /\ recon'.todo = {}
      BY <2>1 DEF NoRecon, ReconType
    <2>3. TypeOK'
      BY <2>1, <2>2 DEF TypeOK, ReconType
    <2>4. Authored'
      BY <2>1, <2>2 DEF Authored
    <2> QED
      BY <2>3, <2>4
  <1> QED
    BY <1>1, <1>2

LEMMA InvStep == Inv /\ [Next]_vars => Inv'
  <1> SUFFICES ASSUME Inv, [Next]_vars PROVE Inv'
    OBVIOUS
  <1>1. CASE UNCHANGED vars
    BY <1>1 DEF vars, Inv, TypeOK, Authored, Disk
  <1>2. CASE Next
    BY <1>2, InvDevelopers, InvStartRun, InvReconcile, InvGenerate, InvEnds
       DEF Next, Reconcile
  <1> QED
    BY <1>1, <1>2

-----------------------------------------------------------------------------
(***************************************************************************)
(* Type correctness, for any number of runs.                               *)
(***************************************************************************)
THEOREM TypeCorrect == Spec => []TypeOK
  <1>1. Inv => TypeOK
    BY DEF Inv
  <1> QED
    BY <1>1, InvInit, InvStep, PTL DEF Spec

(***************************************************************************)
(* The file the others are merged into is never deleted by reconciliation. *)
(***************************************************************************)
THEOREM CanonicalIsKept == Spec => []CanonicalStays
  <1>1. Inv => CanonicalStays
    BY DEF Inv, Authored, CanonicalStays
  <1> QED
    BY <1>1, InvInit, InvStep, PTL DEF Spec

(***************************************************************************)
(* Reconciliation deletes only files at paths some run wrote to.           *)
(***************************************************************************)
THEOREM DeletesAreAuthored == Spec => DeletesOnlyWhatItWrote
  <1>1. ASSUME Inv, Reconcile PROVE Disk \ DOMAIN tree' \subseteq written
    <2>1. CASE LeaveMember
      BY <2>1 DEF LeaveMember, Disk
    <2>2. CASE MergeMember
      <3>1. PICK p \in recon.todo, removed \in BOOLEAN :
               tree' = Delete(IF removed THEN {p} ELSE {})
        BY <2>2 DEF MergeMember
      <3>2. \A S : DOMAIN Delete(S) = Disk \ S
        BY DeleteFacts, <1>1 DEF Inv
      <3>3. DOMAIN tree' = Disk \/ DOMAIN tree' = Disk \ {p}
        <4>1. CASE removed
          BY <3>1, <3>2, <4>1
        <4>2. CASE ~removed
          BY <3>1, <3>2, <4>2
        <4> QED
          BY <4>1, <4>2
      <3>4. p \in written
        BY <1>1, <3>1 DEF Inv, Authored
      <3> QED
        BY <3>3, <3>4
    <2>3. CASE WriteCanonical
      <3>1. PICK ok \in BOOLEAN, c \in recon.canonical :
               IF recon.any
               THEN tree' \in IF ok THEN {Put(c, [tree[c] EXCEPT !.tests = recon.merged])}
                              ELSE {tree, Put(c, [tree[c] EXCEPT !.tests = {}])}
               ELSE tree' = tree
        BY <2>3 DEF WriteCanonical
      <3>2. \/ tree' = tree
            \/ tree' = Put(c, [tree[c] EXCEPT !.tests = recon.merged])
            \/ tree' = Put(c, [tree[c] EXCEPT !.tests = {}])
        BY <3>1
      <3>3. \A file : Disk \subseteq DOMAIN Put(c, file)
        BY DEF Put
      <3>4. Disk \subseteq DOMAIN tree'
        BY <3>2, <3>3 DEF Disk
      <3> QED
        BY <3>4
    <2> QED
      BY <1>1, <2>1, <2>2, <2>3 DEF Reconcile
  <1>2. Inv /\ [Next]_vars => [Reconcile => Disk \ DOMAIN tree' \subseteq written]_vars
    BY <1>1
  <1> QED
    BY <1>2, InvInit, InvStep, PTL DEF Spec, DeletesOnlyWhatItWrote
-----------------------------------------------------------------------------
(***************************************************************************)
(* While reconciliation is under way a test may be in memory only, in the  *)
(* text merged so far.  That text has at least the tests of the canonical  *)
(* file, and only those until something was merged, so that the one write  *)
(* at the end returns to the tree everything that was taken from it.       *)
(***************************************************************************)
Held ==
    clean => /\ owed \subseteq Present \cup recon.merged
             /\ pc # "reconcile" => owed \subseteq Present
             /\ \A c \in recon.canonical :
                    /\ tree[c].tests \subseteq recon.merged
                    /\ ~recon.any => recon.merged \subseteq tree[c].tests

LEMMA PutPresent ==
    ASSUME NEW p, NEW file, tree' = Put(p, file)
    PROVE  Present' = file.tests \cup UNION {tree[q].tests : q \in Disk \ {p}}
  <1>1. Disk' = Disk \cup {p}
    BY DEF Put, Disk
  <1>2. \A q \in Disk' : tree'[q] = IF q = p THEN file ELSE tree[q]
    BY <1>1 DEF Put
  <1> QED
    BY <1>1, <1>2 DEF Present

LEMMA DeletePresent ==
    ASSUME NEW S, tree' = Delete(S)
    PROVE  Present' = UNION {tree[q].tests : q \in Disk \ S}
  <1>1. Disk' = Disk \ S
    BY DEF Delete, Restrict, Disk
  <1>2. \A q \in Disk' : tree'[q] = tree[q]
    BY <1>1 DEF Delete, Restrict
  <1> QED
    BY <1>1, <1>2 DEF Present

\* A test added to a file, or to a new one, takes nothing from the tree.
LEMMA GrowthKeeps ==
    ASSUME TypeOK, NEW p \in Paths, NEW t \in Tests, NEW b \in BOOLEAN,
           tree' = Put(p, IF p \in Disk THEN [tree[p] EXCEPT !.tests = @ \cup {t}]
                                        ELSE [human |-> b, tests |-> {t}])
    PROVE  Present \cup {t} \subseteq Present'
  <1> DEFINE file == IF p \in Disk THEN [tree[p] EXCEPT !.tests = @ \cup {t}]
                                   ELSE [human |-> b, tests |-> {t}]
  <1>1. t \in file.tests /\ (p \in Disk => tree[p].tests \subseteq file.tests)
    <2>1. p \in Disk => tree[p] \in File
      BY DEF TypeOK
    <2> QED
      BY <2>1 DEF File
  <1>2. Present' = file.tests \cup UNION {tree[q].tests : q \in Disk \ {p}}
    BY PutPresent
  <1> HIDE DEF file
  <1> QED
    BY <1>1, <1>2 DEF Present

LEMMA HeldInMerge ==
    ASSUME Inv, Held, MergeMember
    PROVE  Held'
  <1>1. PICK p \in recon.todo, removed \in BOOLEAN :
           /\ recon' = [recon EXCEPT !.todo = @ \ {p}, !.any = TRUE, !.merged = Merged(p)]
           /\ tree' = Delete(IF removed THEN {p} ELSE {})
           /\ clean' = (clean /\ removed)
    BY DEF MergeMember
  <1>2. recon \in ReconType
    BY DEF Inv, TypeOK, ReconType
  <1>3. /\ recon'.canonical = recon.canonical /\ recon'.any = TRUE
        /\ recon'.merged = recon.merged \cup tree[p].tests
    BY <1>1, <1>2 DEF ReconType, Merged
  <1>4. pc = "reconcile" /\ pc' = pc /\ owed' = owed
    BY DEF MergeMember
  <1> SUFFICES ASSUME clean, removed, tree' = Delete({p}) PROVE Held'
    BY <1>1 DEF Held
  <1>5. Present' = UNION {tree[q].tests : q \in Disk \ {p}}
    BY DeletePresent
  <1>6. owed' \subseteq Present' \cup recon'.merged
    BY <1>3, <1>4, <1>5 DEF Held, Present
  <1>7. \A c \in recon'.canonical : c \in Disk \ {p}
    BY <1>3 DEF Inv, Authored
  <1>8. \A c \in Disk \ {p} : tree'[c] = tree[c]
    BY DEF Delete, Restrict
  <1>9. \A c \in recon'.canonical : tree'[c].tests \subseteq recon'.merged
    BY <1>3, <1>7, <1>8 DEF Held
  <1> QED
    BY <1>3, <1>4, <1>6, <1>9 DEF Held

LEMMA HeldInWrite ==
    ASSUME Inv, Held, WriteCanonical
    PROVE  Held'
  <1>1. PICK ok \in BOOLEAN, c \in recon.canonical :
           /\ IF recon.any
              THEN tree' \in IF ok THEN {Put(c, [tree[c] EXCEPT !.tests = recon.merged])}
                             ELSE {tree, Put(c, [tree[c] EXCEPT !.tests = {}])}
              ELSE tree' = tree
           /\ clean' = (clean /\ (recon.any => ok))
    BY DEF WriteCanonical
  <1>2. /\ recon'.canonical = {} /\ owed' = owed
    BY DEF WriteCanonical, NoRecon
  <1>3. c \in Disk /\ tree[c] \in File
    BY DEF Inv, Authored, TypeOK
  <1> SUFFICES ASSUME clean' PROVE owed' \subseteq Present'
    BY <1>2 DEF Held
  <1>4. CASE ~recon.any
    <2>1. Present' = Present
      BY <1>1, <1>4 DEF Present, Disk
    <2>2. tree[c].tests \subseteq Present
      BY <1>3 DEF Present
    <2> QED
      BY <1>1, <1>2, <1>4, <2>1, <2>2 DEF Held
  <1>5. CASE recon.any
    <2> DEFINE file == [tree[c] EXCEPT !.tests = recon.merged]
    <2>1. tree' = Put(c, file)
      BY <1>1, <1>5
    <2>2. file.tests = recon.merged
      BY <1>3 DEF File
    <2>3. Present' = file.tests \cup UNION {tree[q].tests : q \in Disk \ {c}}
      BY <2>1, PutPresent
    <2> HIDE DEF file
    <2>4. Present \subseteq tree[c].tests \cup UNION {tree[q].tests : q \in Disk \ {c}}
      BY DEF Present
    <2> QED
      BY <1>1, <1>2, <2>2, <2>3, <2>4 DEF Held
  <1> QED
    BY <1>4, <1>5

LEMMA HeldStep ==
    ASSUME Inv, Held, [Next]_vars
    PROVE  Held'
  <1>1. CASE DeveloperWrites
    <2>1. PICK p \in Paths, t \in Unused :
             /\ tree' = Put(p, IF p \in Disk THEN [tree[p] EXCEPT !.tests = @ \cup {t}]
                                             ELSE [human |-> TRUE, tests |-> {t}])
             /\ owed' = owed \cup {t}
      BY <1>1 DEF DeveloperWrites
    <2>2. Present \cup {t} \subseteq Present'
      BY <2>1, GrowthKeeps DEF Inv, Unused
    <2>3. recon.canonical = {} /\ pc # "reconcile" /\ UNCHANGED <<pc, recon, clean>>
      BY <1>1 DEF DeveloperWrites, Inv, Authored, NoRecon
    <2> QED
      BY <2>1, <2>2, <2>3 DEF Held
  <1>2. CASE DeveloperDeletes
    <2>1. PICK p \in Disk : tree' = Delete({p}) /\ owed' = owed \ tree[p].tests
      BY <1>2 DEF DeveloperDeletes
    <2>2. Present' = UNION {tree[q].tests : q \in Disk \ {p}}
      BY <2>1, DeletePresent
    <2>3. Present \ tree[p].tests \subseteq Present'
      BY <2>2 DEF Present
    <2>4. recon.canonical = {} /\ pc # "reconcile" /\ UNCHANGED <<pc, recon, clean>>
      BY <1>2 DEF DeveloperDeletes, Inv, Authored, NoRecon
    <2> QED
      BY <2>1, <2>3, <2>4 DEF Held
  <1>3. CASE StartRun
    <2>1. pc = "idle" /\ UNCHANGED <<tree, owed, clean>>
      BY <1>3 DEF StartRun
    <2>2. Present' = Present
      BY <2>1 DEF Present, Disk
    <2>3. recon.canonical = {}
      BY <2>1 DEF Inv, Authored, NoRecon
    <2>4. \A c \in recon'.canonical : recon'.merged = tree'[c].tests
      BY <1>3, <2>1, <2>3 DEF StartRun
    <2> QED
      BY <2>1, <2>2, <2>4 DEF Held
  <1>4. CASE LeaveMember
    <2>1. recon'.canonical = recon.canonical /\ recon'.merged = recon.merged
          /\ recon'.any = recon.any
      BY <1>4 DEF LeaveMember, Inv, TypeOK
    <2>2. UNCHANGED <<pc, tree, owed, clean>>
      BY <1>4 DEF LeaveMember
    <2>3. Present' = Present
      BY <2>2 DEF Present, Disk
    <2> QED
      BY <2>1, <2>2, <2>3 DEF Held
  <1>5. CASE MergeMember
    BY <1>5, HeldInMerge
  <1>6. CASE WriteCanonical
    BY <1>6, HeldInWrite
  <1>7. CASE GenerateTest
    <2>1. PICK p \in Paths, t \in Unused :
             /\ tree' = Put(p, IF p \in Disk THEN [tree[p] EXCEPT !.tests = @ \cup {t}]
                                             ELSE [human |-> FALSE, tests |-> {t}])
             /\ owed' = owed \cup {t}
      BY <1>7 DEF GenerateTest
    <2>2. Present \cup {t} \subseteq Present'
      BY <2>1, GrowthKeeps DEF Inv, Unused
    <2>3. recon.canonical = {} /\ pc # "reconcile" /\ UNCHANGED <<pc, recon, clean>>
      BY <1>7 DEF GenerateTest, Inv, Authored, NoRecon
    <2> QED
      BY <2>1, <2>2, <2>3 DEF Held
  <1>8. CASE EndRun
    <2>1. PICK gone \in SUBSET created :
             /\ tree' = Delete(gone)
             /\ owed' = owed \ UNION {tree[p].tests : p \in gone}
      BY <1>8 DEF EndRun
    <2>2. Present' = UNION {tree[q].tests : q \in Disk \ gone}
      BY <2>1, DeletePresent
    <2>3. Present \ UNION {tree[p].tests : p \in gone} \subseteq Present'
      BY <2>2 DEF Present
    <2>4. recon.canonical = {} /\ pc # "reconcile" /\ pc' = "idle" /\ UNCHANGED <<recon, clean>>
      BY <1>8 DEF EndRun, Inv, Authored, NoRecon
    <2> QED
      BY <2>1, <2>3, <2>4 DEF Held
  <1>9. CASE Killed
    BY <1>9 DEF Killed, Held
  <1>10. CASE UNCHANGED vars
    BY <1>10 DEF vars, Held, Present, Disk
  <1> QED
    BY <1>1, <1>2, <1>3, <1>4, <1>5, <1>6, <1>7, <1>8, <1>9, <1>10 DEF Next

(***************************************************************************)
(* As long as no file operation fails and no run is killed, folding        *)
(* duplicates together loses no test, for any group and any number of      *)
(* runs.                                                                   *)
(***************************************************************************)
THEOREM NothingIsLost == Spec => []NothingLostWithoutFailure
  <1>1. Init => Held
    BY DEF Init, Held, NoRecon
  <1>2. Inv /\ Held /\ [Next]_vars => Held'
    BY HeldStep
  <1>3. Held => NothingLostWithoutFailure
    BY DEF Held, NothingLostWithoutFailure
  <1> QED
    BY <1>1, <1>2, <1>3, InvInit, InvStep, PTL DEF Spec
=============================================================================
