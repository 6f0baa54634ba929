---------------------------- MODULE ProtectedStore ----------------------------
(***************************************************************************)
(* The protected blob store (rust/crates/promptectomy-protected-store):    *)
(* how an encrypted envelope is put, read, backed up and deleted together  *)
(* with the wrapping key it was sealed under, when the process may die or  *)
(* a call may fail between any two durable steps.                          *)
(*                                                                         *)
(* One lock (a mutex and a flock on the root) is held by one operation at  *)
(* a time, so op is the single operation in flight and every action of an  *)
(* operation is one durable step of it.  The key store is outside the      *)
(* lock: keys are stored and envelopes sealed while an operation runs.     *)
(*                                                                         *)
(* Abstractions:                                                           *)
(*  - an envelope digest is a member of Envelopes; records are written by  *)
(*    rename and are whole or absent (write_record_at), a pending blob is  *)
(*    written in place and may be torn (create_file_at);                   *)
(*  - the store has one installation, and a digest fixes every field the   *)
(*    checks compare, so the mismatch errors of foreign records are absent;*)
(*  - a backup manifest is its set of envelopes, which fixes its digest;   *)
(*  - execute_deletion takes its plan from the caller and refuses one with *)
(*    references, so a plan is an envelope; planning changes what a read   *)
(*    changes, as verifying a backup does;                                 *)
(*  - a key stored again under its id is the same key, so store is not     *)
(*    told apart from a retry of it.                                       *)
(***************************************************************************)
EXTENDS Naturals, FiniteSets

CONSTANTS
    Envelopes,   \* envelope digests
    WrappingKeys,\* wrapping key ids
    KeyOf,       \* the key each envelope is sealed under
    Manifests,   \* the backup manifests callers ask for
    None         \* no envelope

ASSUME KeyOfAssumption == KeyOf \in [Envelopes -> WrappingKeys]

ASSUME ManifestsAssumption == Manifests \subseteq (SUBSET Envelopes) \ {{}}

ASSUME NoEnvelopeAssumption == None \notin Envelopes

VARIABLES
    keys,        \* the wrapping keys the key store holds
    sealed,      \* the envelopes that have been sealed
    journal,     \* transactions/: the put journal of each envelope
    final,       \* sha256/<digest>.json exists
    pending,     \* sha256/.<digest>.pending
    indexed,     \* key-references/: the envelopes in their key's index
    deletion,    \* deletions/<digest>.pending.json: the deletion journal
    receipts,    \* deletions/<digest>.json exists
    pins,        \* backup-references/: the manifests that pin each envelope
    ack,         \* backup-acknowledgments/: the record of each manifest
    handed,      \* manifests returned to a caller and not acknowledged since
    op           \* the operation that holds the lock

blobs == <<journal, final, pending, indexed>>
backups == <<pins, ack, handed>>
vars == <<keys, sealed, journal, final, pending, indexed, deletion, receipts, pins, ack, handed, op>>

-----------------------------------------------------------------------------
(* Records and the operation in flight *)

PutState == {"none", "pending", "committed"}

PendingBlob == {"none", "torn", "whole"}

\* The states of a deletion journal that say a step of the deletion is done,
\* by step, from the last step to the first.
KeyDeleted == {"key_deleted"}

ReferenceRemoved == KeyDeleted \cup {"reference_removed"}

TransactionUnlinked == ReferenceRemoved \cup {"transaction_unlinked"}

BlobUnlinked == TransactionUnlinked \cup {"blob_unlinked"}

DeletionState == BlobUnlinked \cup {"none", "prepared"}

BackupAcknowledgmentState == {"none", "prepared", "committed"}

\* The steps at which an operation can be found, by the part of the code.
PutOnlySteps == {"blob", "writing"}

ReadSteps == {"reference", "publish", "unlink", "commit", "cleanup"}

DeleteSteps == {"prepare", "check", "destroy", "unlink_pending", "checkpoint", "forget"}

BackupOnlySteps == {"next", "pins"}

Operation == [kind : {"idle", "put", "read", "delete", "backup", "acknowledge"},
              env : Envelopes \cup {None},
              at : PutOnlySteps \cup ReadSteps \cup DeleteSteps \cup BackupOnlySteps
                      \cup {"idle", "commit_acknowledgment"},
              manifest : SUBSET Envelopes,
              rest : SUBSET Envelopes]

NoOp == [kind |-> "idle", env |-> None, at |-> "idle", manifest |-> {}, rest |-> {}]

\* The operation takes the lock, moves on, or returns and lets the lock go.
Starts(kind, e, at) ==
    op' = [kind |-> kind, env |-> e, at |-> at, manifest |-> {}, rest |-> {}]

StartsOn(kind, at, m, rest) ==
    op' = [kind |-> kind, env |-> None, at |-> at, manifest |-> m, rest |-> rest]

Goes(at) == op' = [op EXCEPT !.at = at]

At(kind, at) == op.kind = kind /\ op.at = at

\* Mutant: an entry counts only once its put is committed.
key_reference_index_committed(k) == {f \in indexed : KeyOf[f] = k /\ journal[f] = "committed"}

key_reference_index(k) == {f \in indexed : KeyOf[f] = k}

\* A pin counts until the acknowledgment of its manifest is committed.
backup_reference_is_active(m) == ack[m] # "committed"

backup_references(e) == {m \in pins[e] : backup_reference_is_active(m)}

-----------------------------------------------------------------------------
(* The key store, which the operation lock does not cover *)

store_key(k) ==
    /\ k \notin keys
    /\ keys' = keys \cup {k}
    /\ UNCHANGED <<sealed, blobs, deletion, receipts, backups, op>>

\* seal, and rewrap, which makes another envelope under another key.
seal(e) ==
    /\ e \notin sealed
    /\ KeyOf[e] \in keys
    /\ sealed' = sealed \cup {e}
    /\ UNCHANGED <<keys, blobs, deletion, receipts, backups, op>>

-----------------------------------------------------------------------------
(* put, and the tail of it that a read repeats to recover a put *)

put_journal(e) ==
    /\ op = NoOp
    /\ e \in sealed
    /\ journal' = [journal EXCEPT ![e] = IF @ = "none" THEN "pending" ELSE @]
    /\ Starts("put", e, "blob")
    /\ UNCHANGED <<keys, sealed, final, pending, indexed, deletion, receipts, backups>>

put_blob(e) ==
    /\ At("put", "blob") /\ op.env = e
    /\ \/ /\ final[e] /\ pending[e] # "torn"
          /\ pending' = [pending EXCEPT ![e] = "none"]
          /\ Goes("reference")
       \/ /\ ~final[e] /\ pending[e] = "none"
          /\ pending' = [pending EXCEPT ![e] = "torn"]
          /\ Goes("writing")
       \/ /\ ~final[e] /\ pending[e] = "whole"
          /\ Goes("reference")
          /\ UNCHANGED pending
    /\ UNCHANGED <<keys, sealed, journal, final, indexed, deletion, receipts, backups>>

create_file_at(e) ==
    /\ At("put", "writing") /\ op.env = e
    /\ pending' = [pending EXCEPT ![e] = "whole"]
    /\ Goes("reference")
    /\ UNCHANGED <<keys, sealed, journal, final, indexed, deletion, receipts, backups>>

write_key_reference(e) ==
    /\ op.at = "reference" /\ op.env = e
    /\ indexed' = indexed \cup {e}
    /\ Goes("publish")
    /\ UNCHANGED <<keys, sealed, journal, final, pending, deletion, receipts, backups>>

\* publish_pending links the pending blob under its final name ...
publish_link(e) ==
    /\ op.at = "publish" /\ op.env = e
    /\ final' = [final EXCEPT ![e] = TRUE]
    /\ Goes(IF final[e] THEN "commit" ELSE "unlink")
    /\ UNCHANGED <<keys, sealed, journal, pending, indexed, deletion, receipts, backups>>

\* ... and then drops the pending name.
publish_unlink(e) ==
    /\ op.at = "unlink" /\ op.env = e
    /\ pending' = [pending EXCEPT ![e] = "none"]
    /\ Goes("commit")
    /\ UNCHANGED <<keys, sealed, journal, final, indexed, deletion, receipts, backups>>

commit_journal(e) ==
    /\ op.at = "commit" /\ op.env = e
    /\ journal' = [journal EXCEPT ![e] = "committed"]
    /\ Goes("cleanup")
    /\ UNCHANGED <<keys, sealed, final, pending, indexed, deletion, receipts, backups>>

\* What the operation does when its read, or its put, is complete.
after_read ==
    \/ op.kind = "delete" /\ Goes("prepare")
    \/ op.kind = "backup" /\ Goes("next")
    \/ op.kind \in {"put", "read"} /\ op' = NoOp

finish_read(e) ==
    /\ op.at = "cleanup" /\ op.env = e
    /\ pending' = [pending EXCEPT ![e] = "none"]
    /\ after_read
    /\ UNCHANGED <<keys, sealed, journal, final, indexed, deletion, receipts, backups>>

-----------------------------------------------------------------------------
(* read *)

\* Mutants: a read that needs no blob, and one that trusts a committed journal.
readable_without_blob(e) == journal[e] = "committed" => final[e] /\ e \in indexed

readable_when_committed(e) ==
    \/ journal[e] = "committed"
    \/ journal[e] = "pending" /\ (final[e] \/ pending[e] = "whole")

\* read_encoded_unix refuses what neither a put nor its recovery left behind.
readable(e) ==
    /\ journal[e] # "none"
    /\ journal[e] = "committed" => final[e] /\ e \in indexed
    /\ final[e] \/ pending[e] = "whole"

\* Mutant: recovery forgets to index the envelope.
first_step_unindexed(e) == IF journal[e] = "committed" THEN "cleanup" ELSE "publish"

first_step(e) == IF journal[e] = "committed" THEN "cleanup" ELSE "reference"

read(e) ==
    /\ op = NoOp
    /\ readable(e)
    /\ Starts("read", e, first_step(e))
    /\ UNCHANGED <<keys, sealed, blobs, deletion, receipts, backups>>

-----------------------------------------------------------------------------
(* Backups *)

create_backup_manifest(m) ==
    /\ op = NoOp
    /\ StartsOn("backup", "next", m, m)
    /\ UNCHANGED <<keys, sealed, blobs, deletion, receipts, backups>>

prepare_backup_manifest(e) ==
    /\ At("backup", "next") /\ e \in op.rest
    /\ readable(e)
    /\ op' = [op EXCEPT !.env = e, !.at = first_step(e), !.rest = @ \ {e}]
    /\ UNCHANGED <<keys, sealed, blobs, deletion, receipts, backups>>

\* Mutant: an old acknowledgment survives a new backup.
reset_keeps_acknowledgment ==
    /\ At("backup", "next") /\ op.rest = {}
    /\ op' = [op EXCEPT !.env = None, !.at = "pins", !.rest = op.manifest]
    /\ UNCHANGED <<keys, sealed, blobs, deletion, receipts, backups>>

reset_backup_acknowledgment ==
    /\ At("backup", "next") /\ op.rest = {}
    /\ ack' = [ack EXCEPT ![op.manifest] = "none"]
    /\ op' = [op EXCEPT !.env = None, !.at = "pins", !.rest = op.manifest]
    /\ UNCHANGED <<keys, sealed, blobs, deletion, receipts, pins, handed>>

write_pin(e) ==
    /\ At("backup", "pins") /\ e \in op.rest
    /\ pins' = [pins EXCEPT ![e] = @ \cup {op.manifest}]
    /\ \/ /\ op.rest = {e}
          /\ handed' = handed \cup {op.manifest}
          /\ op' = NoOp
       \/ /\ op.rest # {e}
          /\ op' = [op EXCEPT !.rest = @ \ {e}]
          /\ UNCHANGED handed
    /\ UNCHANGED <<keys, sealed, blobs, deletion, receipts, ack>>

acknowledge_backup_removal(m) ==
    /\ op = NoOp
    /\ ack[m] # "committed"
    /\ \A e \in m : m \in pins[e]
    /\ ack' = [ack EXCEPT ![m] = "prepared"]
    /\ StartsOn("acknowledge", "commit_acknowledgment", m, {})
    /\ UNCHANGED <<keys, sealed, blobs, deletion, receipts, pins, handed>>

\* A commit whose fsync fails is rolled back to "prepared", as if interrupted.
commit_backup_acknowledgment ==
    /\ At("acknowledge", "commit_acknowledgment")
    /\ ack' = [ack EXCEPT ![op.manifest] = "committed"]
    /\ handed' = handed \ {op.manifest}
    /\ op' = NoOp
    /\ UNCHANGED <<keys, sealed, blobs, deletion, receipts, pins>>

-----------------------------------------------------------------------------
(* Deletion *)

\* ensure_deletion_reference_safety: no other envelope is under the key.
reference_safe(e, allow_missing) ==
    /\ key_reference_index(KeyOf[e]) \subseteq {e}
    /\ e \in indexed \/ allow_missing

\* verify_deleted_state: what a receipt says of the store and the key store.
deleted_state(e) ==
    /\ KeyOf[e] \notin keys
    /\ ~final[e] /\ pending[e] = "none"
    /\ journal[e] = "none"
    /\ backup_references(e) = {}
    /\ key_reference_index(KeyOf[e]) = {}

\* The verify_* branches: what earlier attempts destroyed is still gone.
still_destroyed(e) ==
    /\ deletion[e] \in BlobUnlinked => ~final[e] /\ pending[e] = "none"
    /\ deletion[e] \in TransactionUnlinked => journal[e] = "none"
    /\ deletion[e] \in ReferenceRemoved => key_reference_index(KeyOf[e]) = {}
    /\ deletion[e] \in KeyDeleted => KeyOf[e] \notin keys

\* execute_deletion replays a receipt, resumes a journal or starts afresh.
replay_receipt(e) ==
    /\ op = NoOp
    /\ backup_references(e) = {}
    /\ e \in receipts
    /\ deleted_state(e)
    /\ deletion' = [deletion EXCEPT ![e] = "none"]
    /\ UNCHANGED <<keys, sealed, blobs, receipts, backups, op>>

resume_deletion(e) ==
    /\ op = NoOp
    /\ backup_references(e) = {}
    /\ e \notin receipts /\ deletion[e] # "none"
    /\ Starts("delete", e, "check")
    /\ UNCHANGED <<keys, sealed, blobs, deletion, receipts, backups>>

begin_deletion(e) ==
    /\ op = NoOp
    /\ backup_references(e) = {}
    /\ e \notin receipts /\ deletion[e] = "none"
    /\ reference_safe(e, FALSE)
    /\ readable(e)
    /\ Starts("delete", e, first_step(e))
    /\ UNCHANGED <<keys, sealed, blobs, deletion, receipts, backups>>

execute_deletion(e) == replay_receipt(e) \/ resume_deletion(e) \/ begin_deletion(e)

prepare_deletion(e) ==
    /\ At("delete", "prepare") /\ op.env = e
    /\ deletion' = [deletion EXCEPT ![e] = "prepared"]
    /\ Goes("check")
    /\ UNCHANGED <<keys, sealed, blobs, receipts, backups>>

\* Mutant: the index entry may be missing only once its removal is journalled.
may_destroy_late(e) ==
    /\ backup_references(e) = {}
    /\ reference_safe(e, deletion[e] \in ReferenceRemoved)
    /\ still_destroyed(e)

may_destroy(e) ==
    /\ backup_references(e) = {}
    /\ reference_safe(e, deletion[e] \in TransactionUnlinked)
    /\ still_destroyed(e)

check_deletion(e) ==
    /\ At("delete", "check") /\ op.env = e
    /\ may_destroy(e)
    /\ Goes("destroy")
    /\ UNCHANGED <<keys, sealed, blobs, deletion, receipts, backups>>

\* The next destructive step of a deletion is the one its journal lacks.
Destroys(e, state) == At("delete", "destroy") /\ op.env = e /\ deletion[e] = state

unlink_final_blob(e) ==
    /\ Destroys(e, "prepared")
    /\ final' = [final EXCEPT ![e] = FALSE]
    /\ Goes("unlink_pending")
    /\ UNCHANGED <<keys, sealed, journal, pending, indexed, deletion, receipts, backups>>

unlink_pending_blob(e) ==
    /\ At("delete", "unlink_pending") /\ op.env = e
    /\ pending[e] # "torn"
    /\ pending' = [pending EXCEPT ![e] = "none"]
    /\ Goes("checkpoint")
    /\ UNCHANGED <<keys, sealed, journal, final, indexed, deletion, receipts, backups>>

unlink_put_transaction(e) ==
    /\ Destroys(e, "blob_unlinked")
    /\ journal' = [journal EXCEPT ![e] = "none"]
    /\ Goes("checkpoint")
    /\ UNCHANGED <<keys, sealed, final, pending, indexed, deletion, receipts, backups>>

remove_key_reference(e) ==
    /\ Destroys(e, "transaction_unlinked")
    /\ key_reference_index(KeyOf[e]) \in {{}, {e}}
    /\ indexed' = indexed \ {e}
    /\ Goes("checkpoint")
    /\ UNCHANGED <<keys, sealed, journal, final, pending, deletion, receipts, backups>>

delete_wrapping_key(e) ==
    /\ Destroys(e, "reference_removed")
    /\ keys' = keys \ {KeyOf[e]}
    /\ Goes("checkpoint")
    /\ UNCHANGED <<sealed, blobs, deletion, receipts, backups>>

checkpoint_deletion(e) ==
    /\ At("delete", "checkpoint") /\ op.env = e
    /\ \/ deletion[e] = "prepared" /\ deletion' = [deletion EXCEPT ![e] = "blob_unlinked"]
       \/ deletion[e] = "blob_unlinked" /\ deletion' = [deletion EXCEPT ![e] = "transaction_unlinked"]
       \/ deletion[e] = "transaction_unlinked" /\ deletion' = [deletion EXCEPT ![e] = "reference_removed"]
       \/ deletion[e] = "reference_removed" /\ deletion' = [deletion EXCEPT ![e] = "key_deleted"]
    /\ Goes("destroy")
    /\ UNCHANGED <<keys, sealed, blobs, receipts, backups>>

write_receipt(e) ==
    /\ Destroys(e, "key_deleted")
    /\ deleted_state(e)
    /\ receipts' = receipts \cup {e}
    /\ Goes("forget")
    /\ UNCHANGED <<keys, sealed, blobs, deletion, backups>>

unlink_deletion_journal(e) ==
    /\ At("delete", "forget") /\ op.env = e
    /\ deletion' = [deletion EXCEPT ![e] = "none"]
    /\ op' = NoOp
    /\ UNCHANGED <<keys, sealed, blobs, receipts, backups>>

-----------------------------------------------------------------------------
(* Failure *)

\* The checks that make an operation return an error after it has begun.
refused ==
    \/ At("put", "blob") /\ pending[op.env] = "torn"
    \/ At("backup", "next") /\ \E e \in op.rest : ~readable(e)
    \/ At("delete", "check") /\ ~may_destroy(op.env)
    \/ At("delete", "unlink_pending") /\ pending[op.env] = "torn"
    \/ At("delete", "destroy") /\ deletion[op.env] = "key_deleted" /\ ~deleted_state(op.env)

return_error ==
    /\ refused
    /\ op' = NoOp
    /\ UNCHANGED <<keys, sealed, blobs, deletion, receipts, backups>>

\* The process dies, or a call to the file system or the key store fails.
interrupt ==
    /\ op # NoOp
    /\ op' = NoOp
    /\ UNCHANGED <<keys, sealed, blobs, deletion, receipts, backups>>

-----------------------------------------------------------------------------
Init ==
    /\ keys = {}
    /\ sealed = {}
    /\ journal = [e \in Envelopes |-> "none"]
    /\ final = [e \in Envelopes |-> FALSE]
    /\ pending = [e \in Envelopes |-> "none"]
    /\ indexed = {}
    /\ deletion = [e \in Envelopes |-> "none"]
    /\ receipts = {}
    /\ pins = [e \in Envelopes |-> {}]
    /\ ack = [m \in Manifests |-> "none"]
    /\ handed = {}
    /\ op = NoOp

PutSteps(e) ==
    \/ put_journal(e) \/ put_blob(e) \/ create_file_at(e)
    \/ write_key_reference(e) \/ publish_link(e) \/ publish_unlink(e)
    \/ commit_journal(e) \/ finish_read(e)

BackupSteps ==
    \/ \E m \in Manifests : create_backup_manifest(m) \/ acknowledge_backup_removal(m)
    \/ \E e \in Envelopes : prepare_backup_manifest(e) \/ write_pin(e)
    \/ reset_backup_acknowledgment \/ commit_backup_acknowledgment

DeletionSteps(e) ==
    \/ execute_deletion(e) \/ prepare_deletion(e) \/ check_deletion(e)
    \/ unlink_final_blob(e) \/ unlink_pending_blob(e) \/ unlink_put_transaction(e)
    \/ remove_key_reference(e) \/ delete_wrapping_key(e) \/ checkpoint_deletion(e)
    \/ write_receipt(e) \/ unlink_deletion_journal(e)

Next ==
    \/ \E k \in WrappingKeys : store_key(k)
    \/ \E e \in Envelopes : seal(e) \/ PutSteps(e) \/ read(e) \/ DeletionSteps(e)
    \/ BackupSteps
    \/ return_error
    \/ interrupt

Spec == Init /\ [][Next]_vars

(***************************************************************************)
(* Fairness.  An operation that has taken the lock goes on until it        *)
(* returns; a caller that wants an envelope gone retries execute_deletion, *)
(* and the lock is granted to a caller that asks for it again and again;   *)
(* deletions are not interrupted for ever.                                 *)
(***************************************************************************)
InFlight ==
    /\ op # NoOp
    /\ (\E e \in Envelopes : PutSteps(e) \/ DeletionSteps(e)) \/ BackupSteps \/ return_error

DeletionNotInterrupted ==
    op.kind = "delete" /\ op' = NoOp => refused \/ deletion' # deletion

FairSpec ==
    /\ Spec
    /\ WF_vars(InFlight)
    /\ \A e \in Envelopes : SF_vars(execute_deletion(e))
    /\ <>[][DeletionNotInterrupted]_vars

-----------------------------------------------------------------------------
(* Properties *)

\* The store's files, journals and credentials are well formed, only an envelope that was
\* sealed is indexed, receipted or worked on.
TypeOK ==
    /\ keys \subseteq WrappingKeys
    /\ sealed \subseteq Envelopes
    /\ journal \in [Envelopes -> PutState]
    /\ final \in [Envelopes -> BOOLEAN]
    /\ pending \in [Envelopes -> PendingBlob]
    /\ indexed \subseteq sealed
    /\ deletion \in [Envelopes -> DeletionState]
    /\ receipts \subseteq sealed
    /\ pins \in [Envelopes -> SUBSET Manifests]
    /\ ack \in [Manifests -> BackupAcknowledgmentState]
    /\ handed \subseteq Manifests
    /\ op \in Operation
    /\ op.env \in sealed \cup {None}

\* Whatever step put, recovery or deletion was interrupted at, a blob has its
\* put journal (without one every operation on it fails) and an envelope that
\* a reader can be given is in its key's index (which is what keeps a deletion
\* of another envelope from destroying the key).
StoredIsAccountedFor ==
    \A e \in Envelopes :
        /\ final[e] \/ pending[e] # "none" => journal[e] # "none"
        /\ final[e] \/ journal[e] = "committed" => e \in indexed

\* An envelope that an unacknowledged backup pins stays whole: its blob, its
\* committed journal and its index entry are there, also when a deletion of it
\* was under way when the backup was made.
PinnedIsStored ==
    \A e \in Envelopes :
        backup_references(e) # {} => final[e] /\ journal[e] = "committed" /\ e \in indexed

\* A manifest handed to a caller pins every one of its envelopes until its
\* removal is acknowledged.
HandedManifestPins ==
    \A m \in handed : \A e \in m : m \in backup_references(e)

\* A wrapping key is destroyed only when nothing readable needs it: no blob, no
\* committed put and no live backup pin of any envelope sealed under it.
KeyDestroyedWhenUnused ==
    [][\A e \in Envelopes :
          KeyOf[e] \in keys \ keys' =>
              ~final[e] /\ journal[e] # "committed" /\ backup_references(e) = {}]_vars

\* An interrupted deletion can always be resumed by retrying it, from whichever
\* step it stopped at, unless the store has changed under it: the envelope was
\* put again, another envelope was put under its key, a backup pinned it, or
\* the key was stored again.
Disturbed(e) ==
    \/ pending[e] = "torn"
    \/ deletion[e] \in BlobUnlinked /\ (final[e] \/ pending[e] # "none")
    \/ deletion[e] \in TransactionUnlinked /\ journal[e] # "none"
    \/ deletion[e] \in ReferenceRemoved /\ e \in indexed
    \/ deletion[e] \in KeyDeleted /\ KeyOf[e] \in keys
    \/ \E f \in indexed \ {e} : KeyOf[f] = KeyOf[e]
    \/ \E m \in pins[e] : ack[m] # "committed"

InterruptedDeletionResumes ==
    \A e \in Envelopes : deletion[e] # "none" ~> deletion[e] = "none" \/ Disturbed(e)

(***************************************************************************)
(* What the repository says of the store and the code does not do          *)
(***************************************************************************)

\* tests.rs names it: "recovered_put_preserves_shared_key_deletion_safety".  A
\* key is not destroyed while an interrupted put of another envelope under it
\* has a durable journal, from which the put is to be recovered.
InterruptedPutKeepsKey ==
    [][\A e \in Envelopes :
          KeyOf[e] \in keys \ keys' /\ e # op.env => journal[e] = "none"]_vars
=============================================================================
