----------------------------- MODULE ArtifactCas -----------------------------
(***************************************************************************)
(* The core's content-addressed artifact store: files under cas/sha256,    *)
(* rows of the artifacts and artifact_refs tables, garbage collection,     *)
(* reconciliation, and the backup and restore of the database beside files *)
(* that are neither backed up nor restored.                                *)
(*                                                                         *)
(* The writer lock and &mut self give one operation at a time; op is the   *)
(* one in flight.  A file step and a row step are separate durable steps,  *)
(* and the process may die between them.                                   *)
(*                                                                         *)
(* Abstractions:                                                           *)
(*  - an artifact id is the digest of its bytes, so a file under it is     *)
(*    absent, whole, or damaged from outside;                              *)
(*  - the columns a put must repeat (class, media type, creator, policy,   *)
(*    length) are one value of Metas; the collectable ones have class safe *)
(*    or diagnostic; rows are always complete;                             *)
(*  - put_run_artifact and link_artifact_to_run also need the run's        *)
(*    authority, which is in CoreStore; purposes are left out;             *)
(*  - no operation of the core sets a retention time (only the import of a *)
(*    Python state does), so retention is left out.                        *)
(***************************************************************************)
EXTENDS Naturals, FiniteSets

CONSTANTS
    Artifacts,   \* artifact ids
    Runs,        \* runs that artifacts are linked to
    Metas,       \* the immutable columns of a row
    Collectable, \* the Metas garbage collection may take
    None,        \* no row, no run, no artifact
    Damages,     \* whether the disk may damage a file
    MaxBackups   \* bound: database backups kept

ASSUME MetasAssumption == Collectable \subseteq Metas

ASSUME BoundsAssumption == Damages \in BOOLEAN /\ MaxBackups \in Nat

Row == [meta : Metas, pinned : BOOLEAN, quarantined : BOOLEAN]

ASSUME NoRowAssumption == None \notin Row \cup Runs \cup Metas \cup Artifacts

VARIABLES
    row,     \* the artifacts table
    refs,    \* the artifact_refs table
    file,    \* the file of each artifact under cas/sha256
    tmps,    \* artifacts with a temporary file under tmp/
    held,    \* artifacts whose file garbage collection holds under quarantine/
    saved,   \* the database backups
    op       \* the operation in flight

db == <<row, refs>>
disk == <<file, tmps, held>>
vars == <<row, refs, file, tmps, held, saved, op>>

NoOp == [kind |-> "idle", art |-> None, at |-> "idle", meta |-> None, pinned |-> FALSE,
         run |-> None, rest |-> {}, fresh |-> FALSE]

At(kind, at) == op.kind = kind /\ op.at = at

Goes(at) == op' = [op EXCEPT !.at = at]

-----------------------------------------------------------------------------
(* put_artifact, and put_run_artifact when a run is given *)

\* Mutant: a quarantined row does not stop a put.
may_put_quarantined(a, meta) == row[a] # None => row[a].meta = meta

\* What put_artifact asks of a row that is there already.
may_put(a, meta) == row[a] # None => row[a].meta = meta /\ ~row[a].quarantined

put_temporary(a, meta, pinned, run) ==
    /\ op = NoOp
    /\ may_put(a, meta)
    /\ tmps' = tmps \cup {a}
    /\ op' = [kind |-> "put", art |-> a, at |-> "link", meta |-> meta, pinned |-> pinned,
              run |-> run, rest |-> {}, fresh |-> FALSE]
    /\ UNCHANGED <<db, file, held, saved>>

\* Mutant: the bytes are written under the final name, no temporary is linked.
write_cas_file_in_place ==
    /\ file' = [file EXCEPT ![op.art] = "partial"]
    /\ Goes("unlink")
    /\ UNCHANGED tmps

\* A file that is there already is verified instead of replaced.
write_cas_file ==
    \/ /\ file[op.art] = "none"
       /\ file' = [file EXCEPT ![op.art] = "whole"]
       /\ Goes("unlink")
       /\ UNCHANGED tmps
    \/ /\ file[op.art] = "whole"
       /\ tmps' = tmps \ {op.art}
       /\ Goes("row")
       /\ UNCHANGED file
    \/ /\ file[op.art] = "damaged"
       /\ tmps' = tmps \ {op.art}
       /\ op' = NoOp
       /\ UNCHANGED file

put_link ==
    /\ At("put", "link")
    /\ write_cas_file
    /\ UNCHANGED <<db, held, saved>>

put_unlink_temporary ==
    /\ At("put", "unlink")
    /\ tmps' = tmps \ {op.art}
    /\ Goes("row")
    /\ UNCHANGED <<db, file, held, saved>>

put_row ==
    /\ At("put", "row")
    /\ row' = [row EXCEPT ![op.art] =
                  [meta |-> op.meta, pinned |-> op.pinned, quarantined |-> FALSE]]
    /\ op' = IF op.run = None THEN NoOp ELSE [op EXCEPT !.at = "reference"]
    /\ UNCHANGED <<refs, disk, saved>>

put_reference ==
    /\ At("put", "reference")
    /\ refs' = [refs EXCEPT ![op.art] = @ \cup {op.run}]
    /\ op' = NoOp
    /\ UNCHANGED <<row, disk, saved>>

link_artifact_to_run(a, r) ==
    /\ op = NoOp
    /\ row[a] # None
    /\ refs' = [refs EXCEPT ![a] = @ \cup {r}]
    /\ UNCHANGED <<row, disk, saved, op>>

-----------------------------------------------------------------------------
(* garbage_collect; a dry run only lists the candidates *)

\* Mutant: references do not protect an artifact.
may_collect_referenced(a) == ~row[a].pinned /\ row[a].meta \in Collectable

\* The conditions that the SELECT and the DELETE have in common.
may_collect(a) == ~row[a].pinned /\ row[a].meta \in Collectable /\ refs[a] = {}

is_candidate(a) == row[a] # None /\ ~row[a].quarantined /\ may_collect(a)

gc_begin ==
    /\ op = NoOp
    /\ \E a \in Artifacts : is_candidate(a)
    /\ op' = [kind |-> "gc", art |-> None, at |-> "hold", meta |-> None, pinned |-> FALSE,
              run |-> None, rest |-> {a \in Artifacts : is_candidate(a)}, fresh |-> FALSE]
    /\ UNCHANGED <<db, disk, saved>>

\* Mutant: the file is unlinked at once instead of being held.
gc_hold_unlinks(a) ==
    /\ At("gc", "hold") /\ a \in op.rest
    /\ file' = [file EXCEPT ![a] = "none"]
    /\ op' = [op EXCEPT !.art = a, !.at = "delete", !.fresh = FALSE]
    /\ UNCHANGED <<db, tmps, held, saved>>

\* A file that is not there (an interrupted collection took it) is no obstacle.
\* Each collection holds it under a new name, so one left over from an
\* interrupted collection stays; fresh says that this one is the only one.
gc_hold(a) ==
    /\ At("gc", "hold") /\ a \in op.rest
    /\ file' = [file EXCEPT ![a] = "none"]
    /\ held' = IF file[a] = "none" THEN held ELSE held \cup {a}
    /\ op' = [op EXCEPT !.art = a, !.at = "delete",
                        !.fresh = file[a] # "none" /\ a \notin held]
    /\ UNCHANGED <<db, tmps, saved>>

\* The DELETE repeats conditions of the candidates, which nothing can have
\* changed meanwhile: the branch that puts the file back and fails when it
\* finds no row is never reached (ArtifactCasProofs has this in GcInv).
gc_delete_row ==
    /\ At("gc", "delete")
    /\ may_collect(op.art)
    /\ row' = [row EXCEPT ![op.art] = None]
    /\ Goes("release")
    /\ UNCHANGED <<refs, disk, saved>>

\* Only the file this collection moved is removed.
gc_release ==
    /\ At("gc", "release")
    /\ held' = IF op.fresh THEN held \ {op.art} ELSE held
    /\ op' = IF op.rest = {op.art} THEN NoOp
             ELSE [op EXCEPT !.at = "hold", !.rest = @ \ {op.art}]
    /\ UNCHANGED <<db, file, tmps, saved>>

-----------------------------------------------------------------------------
(* reconcile_artifacts, backups, faults *)

reconcile_artifacts ==
    /\ op = NoOp
    /\ row' = [a \in Artifacts |->
                  IF row[a] # None /\ file[a] # "whole"
                  THEN [row[a] EXCEPT !.quarantined = TRUE] ELSE row[a]]
    /\ UNCHANGED <<refs, disk, saved, op>>

backup ==
    /\ op = NoOp
    /\ Cardinality(saved \cup {db}) <= MaxBackups
    /\ saved' = saved \cup {db}
    /\ UNCHANGED <<db, disk, op>>

\* import_backup backs the database up and replaces it by one rename; the
\* files stay.  Past the bound, the copy it makes is one nobody imports.
import_backup(b) ==
    /\ op = NoOp
    /\ saved' = IF Cardinality(saved \cup {db}) <= MaxBackups THEN saved \cup {db} ELSE saved
    /\ row' = b[1]
    /\ refs' = b[2]
    /\ UNCHANGED <<disk, op>>

damage(a) ==
    /\ Damages
    /\ file[a] = "whole"
    /\ file' = [file EXCEPT ![a] = "damaged"]
    /\ UNCHANGED <<db, tmps, held, saved, op>>

\* The process dies, or a step of the operation returns an error.
crash ==
    /\ op # NoOp
    /\ op' = NoOp
    /\ UNCHANGED <<db, disk, saved>>

-----------------------------------------------------------------------------
Init ==
    /\ row = [a \in Artifacts |-> None]
    /\ refs = [a \in Artifacts |-> {}]
    /\ file = [a \in Artifacts |-> "none"]
    /\ tmps = {}
    /\ held = {}
    /\ saved = {}
    /\ op = NoOp

Next ==
    \/ \E a \in Artifacts, meta \in Metas, pinned \in BOOLEAN, run \in Runs \cup {None} :
          put_temporary(a, meta, pinned, run)
    \/ put_link \/ put_unlink_temporary \/ put_row \/ put_reference
    \/ \E a \in Artifacts, r \in Runs : link_artifact_to_run(a, r)
    \/ gc_begin \/ (\E a \in Artifacts : gc_hold(a)) \/ gc_delete_row \/ gc_release
    \/ reconcile_artifacts
    \/ backup \/ (\E b \in saved : import_backup(b))
    \/ \E a \in Artifacts : damage(a)
    \/ crash

Spec == Init /\ [][Next]_vars

-----------------------------------------------------------------------------
(* Properties *)

\* Rows, references, files and the operation in flight have the shapes the
\* schema and the code give them; in particular a file appears under its digest
\* only whole.
TypeOK ==
    /\ row \in [Artifacts -> Row \cup {None}]
    /\ refs \in [Artifacts -> SUBSET Runs]
    /\ file \in [Artifacts -> {"none", "whole", "damaged"}]
    /\ tmps \subseteq Artifacts
    /\ held \subseteq Artifacts
    /\ saved \subseteq [Artifacts -> Row \cup {None}] \X [Artifacts -> SUBSET Runs]
    /\ op \in [kind : {"idle", "put", "gc"},
              art : Artifacts \cup {None},
              at : {"idle", "link", "unlink", "row", "reference", "hold", "delete", "release"},
              meta : Metas \cup {None}, pinned : BOOLEAN, run : Runs \cup {None},
              rest : SUBSET Artifacts, fresh : BOOLEAN]

\* A reference never dangles: garbage collection, however often interrupted, and
\* the import of an older database leave every referenced artifact its row.
ReferencedHasRow == \A a \in Artifacts : refs[a] # {} => row[a] # None

\* A row that promises content: it is there and not quarantined.
Usable(rows, a) == rows[a] # None /\ ~rows[a].quarantined

\* The order of the steps of put_artifact and of garbage_collect: whatever step a
\* crash falls on, the content of a usable row is under its name or still held.
\* Only a backup that has the row usable can bring it back without its file:
\* no import makes up a promise for an artifact no backup promised.
RowKeepsContent ==
    \A a \in Artifacts :
        Usable(row, a) /\ (\A b \in saved : ~Usable(b[1], a)) =>
            file[a] # "none" \/ a \in held

\* What reconcile_artifacts quarantined does not come back into use: no put of
\* the same bytes, not even one that has to write the file anew, takes the row
\* out of quarantine; only the import of a backup does.
QuarantineIsKept ==
    [][\A a \in Artifacts :
          /\ row[a] # None /\ row'[a] # None
          /\ row[a].quarantined
          /\ <<row', refs'>> \notin saved
          => row'[a].quarantined]_vars

\* ADR 0005: incomplete artifacts are never referenced as complete, and garbage
\* collection is transactional: with no damage from outside, a referenced
\* artifact that is not quarantined has its file.
ReferencedHasContent ==
    \A a \in Artifacts :
        refs[a] # {} /\ row[a] # None /\ ~row[a].quarantined => file[a] = "whole"
=============================================================================
