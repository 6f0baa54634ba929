-------------------------- MODULE ArtifactCasProofs --------------------------
(***************************************************************************)
(* Proofs about ArtifactCas, for every set of artifacts, runs and columns, *)
(* any number of backups, and a crash after any step.                      *)
(*                                                                         *)
(* The properties are not inductive: a put writes its row on the strength  *)
(* of what its earlier steps did to the file, and a collection deletes on  *)
(* the strength of a list made before its first step.  PutInv and GcInv    *)
(* say what each step may rely on; SavedInv says it of the backups.        *)
(***************************************************************************)
EXTENDS ArtifactCas, TLAPS

PutInv ==
    op.kind = "put" =>
        /\ op.art \in Artifacts
        /\ op.meta \in Metas
        /\ op.at \in {"link", "unlink", "row"} /\ row[op.art] # None => ~row[op.art].quarantined
        /\ op.at \in {"unlink", "row"} => file[op.art] # "none"
        /\ op.at = "reference" => row[op.art] # None /\ op.run \in Runs

GcInv ==
    op.kind = "gc" =>
        /\ op.at \in {"delete", "release"} => op.art \in op.rest
        /\ op.at = "release" => row[op.art] = None
        /\ \A a \in op.rest : (op.at = "release" => a # op.art) => is_candidate(a)

SavedInv == \A b \in saved : \A a \in Artifacts : b[2][a] # {} => b[1][a] # None

Inv == TypeOK /\ PutInv /\ GcInv /\ SavedInv /\ ReferencedHasRow /\ RowKeepsContent

USE MetasAssumption, NoRowAssumption

USE DEF TypeOK, PutInv, GcInv, SavedInv, ReferencedHasRow, RowKeepsContent,
        Usable, At, Goes, Row, NoOp, is_candidate, may_collect, db, disk

\* The rows that put_artifact writes and that reconcile_artifacts quarantines
\* are rows.
LEMMA RowsAreRows ==
    /\ \A r \in Row : r # None /\ [r EXCEPT !.quarantined = TRUE] \in Row
    /\ \A meta \in Metas, pinned \in BOOLEAN :
          [meta |-> meta, pinned |-> pinned, quarantined |-> FALSE] \in Row
OBVIOUS

\* The invariant holds of an empty store.
LEMMA InitInv == Init => Inv
BY DEF Init, Inv

\* put_artifact starts on a row that is absent or not quarantined.
LEMMA PutTemporaryInv ==
    ASSUME Inv, NEW a \in Artifacts, NEW meta \in Metas, NEW pinned \in BOOLEAN,
           NEW run \in Runs \cup {None}, put_temporary(a, meta, pinned, run)
    PROVE Inv'
<1>1. TypeOK' BY DEF Inv, put_temporary, may_put
<1>2. PutInv' BY DEF Inv, put_temporary, may_put
<1>3. GcInv' BY DEF Inv, put_temporary, may_put
<1>4. SavedInv' BY DEF Inv, put_temporary, may_put
<1>5. ReferencedHasRow' BY DEF Inv, put_temporary, may_put
<1>6. RowKeepsContent' BY DEF Inv, put_temporary, may_put
<1>7. QED BY <1>1, <1>2, <1>3, <1>4, <1>5, <1>6 DEF Inv

\* The file is linked or verified before the row is written.
LEMMA PutLinkInv ==
    ASSUME Inv, put_link
    PROVE Inv'
<1>1. TypeOK'
  <2>1. CASE file[op.art] = "none" BY <2>1 DEF Inv, put_link, write_cas_file
  <2>2. CASE file[op.art] = "whole" BY <2>2 DEF Inv, put_link, write_cas_file
  <2>3. CASE file[op.art] = "damaged"
    <3>1. op' = NoOp /\ UNCHANGED <<row, refs, file, held, saved>>
      BY <2>3 DEF put_link, write_cas_file
    <3>2. tmps' \subseteq Artifacts BY <2>3 DEF Inv, put_link, write_cas_file
    <3>3. QED BY <3>1, <3>2 DEF Inv
  <2>4. QED BY <2>1, <2>2, <2>3 DEF Inv, put_link
<1>2. PutInv' BY DEF Inv, put_link, write_cas_file
<1>3. GcInv' BY DEF Inv, put_link, write_cas_file
<1>4. SavedInv' BY DEF Inv, put_link, write_cas_file
<1>5. ReferencedHasRow' BY DEF Inv, put_link, write_cas_file
<1>6. RowKeepsContent' BY DEF Inv, put_link, write_cas_file
<1>7. QED BY <1>1, <1>2, <1>3, <1>4, <1>5, <1>6 DEF Inv

\* The temporary file is not what a row relies on.
LEMMA PutUnlinkInv ==
    ASSUME Inv, put_unlink_temporary
    PROVE Inv'
<1>1. TypeOK' BY DEF Inv, put_unlink_temporary
<1>2. PutInv' BY DEF Inv, put_unlink_temporary
<1>3. GcInv' BY DEF Inv, put_unlink_temporary
<1>4. SavedInv' BY DEF Inv, put_unlink_temporary
<1>5. ReferencedHasRow' BY DEF Inv, put_unlink_temporary
<1>6. RowKeepsContent' BY DEF Inv, put_unlink_temporary
<1>7. QED BY <1>1, <1>2, <1>3, <1>4, <1>5, <1>6 DEF Inv

\* The artifact has a row once put_artifact has written it.
LEMMA PutRowWrites ==
    ASSUME Inv, put_row
    PROVE row'[op.art] # None
<1> DEFINE new == [meta |-> op.meta, pinned |-> op.pinned, quarantined |-> FALSE]
<1>1. op.art \in Artifacts /\ op.meta \in Metas /\ op.pinned \in BOOLEAN BY DEF Inv, put_row
<1>2. new \in Row BY <1>1, RowsAreRows
<1>3. row'[op.art] = new BY <1>1 DEF Inv, put_row
<1>4. QED BY <1>2, <1>3, RowsAreRows

\* The row is written over a file that is there.
LEMMA PutRowInv ==
    ASSUME Inv, put_row
    PROVE Inv'
<1>1. TypeOK' BY DEF Inv, put_row
<1>2. PutInv'
  <2>1. row'[op.art] # None BY PutRowWrites
  <2>2. QED BY <2>1 DEF Inv, put_row
<1>3. GcInv' BY DEF Inv, put_row
<1>4. SavedInv' BY DEF Inv, put_row
<1>5. ReferencedHasRow'
  <2>1. row'[op.art] # None BY PutRowWrites
  <2>2. QED BY <2>1 DEF Inv, put_row
<1>6. RowKeepsContent' BY DEF Inv, put_row
<1>7. QED BY <1>1, <1>2, <1>3, <1>4, <1>5, <1>6 DEF Inv

\* The reference of put_run_artifact follows its row.
LEMMA PutReferenceInv ==
    ASSUME Inv, put_reference
    PROVE Inv'
<1>1. TypeOK' BY DEF Inv, put_reference
<1>2. PutInv' BY DEF Inv, put_reference
<1>3. GcInv' BY DEF Inv, put_reference
<1>4. SavedInv' BY DEF Inv, put_reference
<1>5. ReferencedHasRow' BY DEF Inv, put_reference
<1>6. RowKeepsContent' BY DEF Inv, put_reference
<1>7. QED BY <1>1, <1>2, <1>3, <1>4, <1>5, <1>6 DEF Inv

\* link_artifact_to_run asks for the row.
LEMMA LinkInv ==
    ASSUME Inv, NEW a \in Artifacts, NEW r \in Runs, link_artifact_to_run(a, r)
    PROVE Inv'
<1>1. TypeOK' BY DEF Inv, link_artifact_to_run
<1>2. PutInv' BY DEF Inv, link_artifact_to_run
<1>3. GcInv' BY DEF Inv, link_artifact_to_run
<1>4. SavedInv' BY DEF Inv, link_artifact_to_run
<1>5. ReferencedHasRow' BY DEF Inv, link_artifact_to_run
<1>6. RowKeepsContent' BY DEF Inv, link_artifact_to_run
<1>7. QED BY <1>1, <1>2, <1>3, <1>4, <1>5, <1>6 DEF Inv

\* The candidates are unreferenced rows.
LEMMA GcBeginInv ==
    ASSUME Inv, gc_begin
    PROVE Inv'
<1>1. TypeOK' BY DEF Inv, gc_begin
<1>2. PutInv' BY DEF Inv, gc_begin
<1>3. GcInv' BY DEF Inv, gc_begin
<1>4. SavedInv' BY DEF Inv, gc_begin
<1>5. ReferencedHasRow' BY DEF Inv, gc_begin
<1>6. RowKeepsContent' BY DEF Inv, gc_begin
<1>7. QED BY <1>1, <1>2, <1>3, <1>4, <1>5, <1>6 DEF Inv

\* Holding a file keeps its content.
LEMMA GcHoldInv ==
    ASSUME Inv, NEW a \in Artifacts, gc_hold(a)
    PROVE Inv'
<1>1. TypeOK' BY DEF Inv, gc_hold
<1>2. PutInv' BY DEF Inv, gc_hold
<1>3. GcInv' BY DEF Inv, gc_hold
<1>4. SavedInv' BY DEF Inv, gc_hold
<1>5. ReferencedHasRow' BY DEF Inv, gc_hold
<1>6. RowKeepsContent' BY DEF Inv, gc_hold
<1>7. QED BY <1>1, <1>2, <1>3, <1>4, <1>5, <1>6 DEF Inv

\* Only an unreferenced row goes.
LEMMA GcDeleteInv ==
    ASSUME Inv, gc_delete_row
    PROVE Inv'
<1>1. TypeOK' BY DEF Inv, gc_delete_row
<1>2. PutInv' BY DEF Inv, gc_delete_row
<1>3. GcInv' BY DEF Inv, gc_delete_row
<1>4. SavedInv' BY DEF Inv, gc_delete_row
<1>5. ReferencedHasRow' BY DEF Inv, gc_delete_row
<1>6. RowKeepsContent' BY DEF Inv, gc_delete_row
<1>7. QED BY <1>1, <1>2, <1>3, <1>4, <1>5, <1>6 DEF Inv

\* The held file goes after its row.
LEMMA GcReleaseInv ==
    ASSUME Inv, gc_release
    PROVE Inv'
<1>1. TypeOK' BY DEF Inv, gc_release
<1>2. PutInv' BY DEF Inv, gc_release
<1>3. GcInv' BY DEF Inv, gc_release
<1>4. SavedInv' BY DEF Inv, gc_release
<1>5. ReferencedHasRow' BY DEF Inv, gc_release
<1>6. RowKeepsContent' BY DEF Inv, gc_release
<1>7. QED BY <1>1, <1>2, <1>3, <1>4, <1>5, <1>6 DEF Inv

\* Quarantining removes no row.
LEMMA ReconcileInv ==
    ASSUME Inv, reconcile_artifacts
    PROVE Inv'
<1>0. \A a \in Artifacts :
         /\ row'[a] \in Row \cup {None}
         /\ row'[a] = None <=> row[a] = None
  <2>1. SUFFICES ASSUME NEW a \in Artifacts
                 PROVE row'[a] \in Row \cup {None} /\ (row'[a] = None <=> row[a] = None)
    OBVIOUS
  <2>2. CASE row[a] # None /\ file[a] # "whole"
    <3>1. row[a] \in Row BY <2>2 DEF Inv
    <3>2. row'[a] = [row[a] EXCEPT !.quarantined = TRUE]
      BY <2>2 DEF reconcile_artifacts
    <3>3. row'[a] \in Row /\ row'[a] # None BY <3>1, <3>2, RowsAreRows
    <3>4. QED BY <2>2, <3>3
  <2>3. CASE ~(row[a] # None /\ file[a] # "whole")
    BY <2>3 DEF Inv, reconcile_artifacts
  <2>4. QED BY <2>2, <2>3
<1>1. TypeOK' BY <1>0 DEF Inv, reconcile_artifacts
<1>2. PutInv' BY DEF Inv, reconcile_artifacts
<1>3. GcInv' BY DEF Inv, reconcile_artifacts
<1>4. SavedInv' BY DEF Inv, reconcile_artifacts
<1>5. ReferencedHasRow' BY <1>0 DEF Inv, reconcile_artifacts
<1>6. RowKeepsContent' BY DEF Inv, reconcile_artifacts
<1>7. QED BY <1>1, <1>2, <1>3, <1>4, <1>5, <1>6 DEF Inv

\* A backup is a database without dangling references.
LEMMA BackupInv ==
    ASSUME Inv, backup
    PROVE Inv'
<1>1. TypeOK' BY DEF Inv, backup
<1>2. PutInv' BY DEF Inv, backup
<1>3. GcInv' BY DEF Inv, backup
<1>4. SavedInv' BY DEF Inv, backup
<1>5. ReferencedHasRow' BY DEF Inv, backup
<1>6. RowKeepsContent' BY DEF Inv, backup
<1>7. QED BY <1>1, <1>2, <1>3, <1>4, <1>5, <1>6 DEF Inv

\* So is what an import installs.
LEMMA ImportInv ==
    ASSUME Inv, NEW b \in saved, import_backup(b)
    PROVE Inv'
<1>1. TypeOK' BY DEF Inv, import_backup
<1>2. PutInv' BY DEF Inv, import_backup
<1>3. GcInv' BY DEF Inv, import_backup
<1>4. SavedInv' BY DEF Inv, import_backup
<1>5. ReferencedHasRow' BY DEF Inv, import_backup
<1>6. RowKeepsContent' BY DEF Inv, import_backup
<1>7. QED BY <1>1, <1>2, <1>3, <1>4, <1>5, <1>6 DEF Inv

\* Damage leaves the file under its name.
LEMMA DamageInv ==
    ASSUME Inv, NEW a \in Artifacts, damage(a)
    PROVE Inv'
<1>1. TypeOK' BY DEF Inv, damage
<1>2. PutInv' BY DEF Inv, damage
<1>3. GcInv' BY DEF Inv, damage
<1>4. SavedInv' BY DEF Inv, damage
<1>5. ReferencedHasRow' BY DEF Inv, damage
<1>6. RowKeepsContent' BY DEF Inv, damage
<1>7. QED BY <1>1, <1>2, <1>3, <1>4, <1>5, <1>6 DEF Inv

\* A crash at any step leaves nothing that a row relies on.
LEMMA CrashInv ==
    ASSUME Inv, crash
    PROVE Inv'
<1>1. TypeOK' BY DEF Inv, crash
<1>2. PutInv' BY DEF Inv, crash
<1>3. GcInv' BY DEF Inv, crash
<1>4. SavedInv' BY DEF Inv, crash
<1>5. ReferencedHasRow' BY DEF Inv, crash
<1>6. RowKeepsContent' BY DEF Inv, crash
<1>7. QED BY <1>1, <1>2, <1>3, <1>4, <1>5, <1>6 DEF Inv

\* A step that changes nothing keeps it.
LEMMA StutterInv ==
    ASSUME Inv, UNCHANGED vars
    PROVE Inv'
BY DEF Inv, vars

\* Every step keeps it.
LEMMA NextInv ==
    ASSUME Inv, [Next]_vars
    PROVE Inv'
<1>1. CASE UNCHANGED vars BY <1>1, StutterInv
<1>2. CASE Next
  BY <1>2, PutTemporaryInv, PutLinkInv, PutUnlinkInv, PutRowInv, PutReferenceInv, LinkInv, GcBeginInv, GcHoldInv, GcDeleteInv, GcReleaseInv, ReconcileInv, BackupInv, ImportInv, DamageInv, CrashInv DEF Next
<1>3. QED BY <1>1, <1>2

\* Inv holds in every state the store can reach, whatever steps crashes fall on.
THEOREM Invariance == Spec => []Inv
<1>1. Init => Inv BY InitInv
<1>2. Inv /\ [Next]_vars => Inv' BY NextInv
<1>3. QED BY <1>1, <1>2, PTL DEF Spec

\* garbage_collect and import_backup never leave a reference without its row.
THEOREM ReferencesNeverDangle == Spec => []ReferencedHasRow
<1>1. Inv => ReferencedHasRow BY DEF Inv
<1>2. QED BY <1>1, Invariance, PTL

\* No crash of put_artifact or garbage_collect leaves a usable row whose content is
\* neither under its name nor held, and of the artifacts no import does either,
\* except those that a backup has a usable row of.
THEOREM ContentIsKept == Spec => []RowKeepsContent
<1>1. Inv => RowKeepsContent BY DEF Inv
<1>2. QED BY <1>1, Invariance, PTL

\* The step behind QuarantineIsKept: from a state of the invariant, no step but
\* an import takes a row out of quarantine.
LEMMA QuarantineStep ==
    ASSUME Inv, [Next]_vars,
           NEW a \in Artifacts, row[a] # None, row'[a] # None, row[a].quarantined,
           <<row', refs'>> \notin saved
    PROVE row'[a].quarantined
<1>1. CASE row' = row BY <1>1
<1>2. CASE put_row BY <1>2 DEF Inv, put_row
<1>3. CASE gc_delete_row BY <1>3 DEF Inv, gc_delete_row
<1>4. CASE reconcile_artifacts
  <2>1. row[a] \in Row BY DEF Inv
  <2>2. CASE file[a] # "whole"
    <3>1. row'[a] = [row[a] EXCEPT !.quarantined = TRUE] BY <1>4, <2>2 DEF reconcile_artifacts
    <3>2. QED BY <2>1, <3>1
  <2>3. CASE file[a] = "whole" BY <1>4, <2>3 DEF reconcile_artifacts
  <2>4. QED BY <2>2, <2>3
<1>5. ASSUME NEW b \in saved, import_backup(b) PROVE FALSE
  <2>1. b = <<b[1], b[2]>> BY DEF Inv
  <2>2. row' = b[1] /\ refs' = b[2] BY <1>5 DEF import_backup
  <2>3. QED BY <2>1, <2>2
<1>6. CASE UNCHANGED vars BY <1>1, <1>6 DEF vars
<1>7. CASE Next
  BY <1>1, <1>2, <1>3, <1>4, <1>5, <1>7 DEF Next, put_temporary, put_link, put_unlink_temporary,
     put_reference, link_artifact_to_run, gc_begin, gc_hold, gc_release, backup, damage, crash
<1>8. QED BY <1>6, <1>7

\* An artifact that reconcile_artifacts quarantined stays quarantined until a
\* backup is imported.
THEOREM QuarantineHolds == Spec => QuarantineIsKept
<1>1. Inv /\ [Next]_vars =>
        [\A a \in Artifacts :
            /\ row[a] # None /\ row'[a] # None
            /\ row[a].quarantined
            /\ <<row', refs'>> \notin saved
            => row'[a].quarantined]_vars
  BY QuarantineStep
<1>2. QED BY <1>1, Invariance, PTL DEF Spec, QuarantineIsKept

\* Rows, files and the operation in flight keep their shapes.
THEOREM TypeCorrect == Spec => []TypeOK
<1>1. Inv => TypeOK BY DEF Inv
<1>2. QED BY <1>1, Invariance, PTL
=============================================================================
