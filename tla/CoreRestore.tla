----------------------------- MODULE CoreRestore -----------------------------
(***************************************************************************)
(* The run store with the backups of its database (backup, import_backup): *)
(* an import replaces every table at once by those of an earlier time,     *)
(* while the clock and the workers go on.                                  *)
(*                                                                         *)
(* Abstractions:                                                           *)
(*  - a backup is the tables it holds; only the store's own backups are    *)
(*    imported, and one that fails its checks is refused and changes       *)
(*    nothing;                                                             *)
(*  - the database is replaced by one rename, so that a crash leaves the   *)
(*    old one or the new one.                                              *)
(***************************************************************************)
EXTENDS CoreStore

CONSTANT MaxBackups   \* bound: database backups kept

ASSUME BackupsAssumption == MaxBackups \in Nat

VARIABLE backups      \* the databases under backups/

restoreVars == <<vars, backups>>

Database == [runs |-> runs, stages |-> stages, quarantined |-> quarantined, idem |-> idem]

HasRoom == Cardinality(backups \cup {Database}) <= MaxBackups

backup ==
    /\ HasRoom
    /\ backups' = backups \cup {Database}
    /\ UNCHANGED vars

\* The database is backed up first; past the bound that copy is one nobody imports.  One
\* that cannot be installed is replaced by the copy, and all is as before.
import_backup(b) ==
    /\ backups' = IF HasRoom THEN backups \cup {Database} ELSE backups
    /\ \/ /\ runs' = b.runs
          /\ stages' = b.stages
          /\ quarantined' = b.quarantined
          /\ idem' = b.idem
          /\ emitted' = {}
          /\ UNCHANGED clock
       \/ UNCHANGED vars

Imports == \E b \in backups : import_backup(b)

RestoreInit == Init /\ backups = {}

RestoreNext ==
    \/ Next /\ UNCHANGED backups
    \/ backup
    \/ Imports

RestoreSpec == RestoreInit /\ [][RestoreNext]_restoreVars
-----------------------------------------------------------------------------
(* Properties *)

\* acquire_lease never replaces a lease that is still live, and a new lease always comes
\* with a new attempt number: two workers that both believe they own a stage are told
\* apart by the attempt, until a backup of the time before is imported.
AttemptFencesLease == [][LeaseIsFenced \/ Imports]_restoreVars

\* A closed run or stage stays as it is (interrupted runs may be queued again), and
\* recorded spend, receipts and revocation are never taken back, but by an import.
ClosedStaysClosed == [][NothingReopens \/ Imports]_restoreVars

\* ADR 0005: every change of a run's status, counters, cleanup or receipt appends an event
\* of that run in the same transaction, and every change of a stage one that names the
\* stage or tells of its whole run; only an import changes rows without one.
EveryChangeHasEvent == [][ChangeHasEvent \/ Imports]_restoreVars
=============================================================================
