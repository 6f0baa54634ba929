------------------------ MODULE ProtectedStoreProofs ------------------------
(***************************************************************************)
(* Proofs about ProtectedStore, for every set of envelopes, keys and       *)
(* manifests, and every number of crashes.                                 *)
(*                                                                         *)
(* What a crash leaves behind is safe because of how far the operation in  *)
(* flight had come, so the inductive invariant adds to the properties what *)
(* each step of an operation may rely on: OpShape (which steps belong to   *)
(* which operation), PutProgress, DeletionProgress and BackupProgress      *)
(* (what is durable by then), and two facts about the records themselves.  *)
(***************************************************************************)
EXTENDS ProtectedStore, TLAPS

Stored(e) == final[e] /\ journal[e] = "committed" /\ e \in indexed

SealedFirst ==
    \A e \in Envelopes : journal[e] # "none" \/ deletion[e] # "none" => e \in sealed

PinsMatch == \A e \in Envelopes : \A m \in pins[e] : e \in m

OpShape ==
    /\ op.kind = "idle" => op = NoOp
    /\ op.at = "idle" => op = NoOp
    /\ op.at \in PutOnlySteps => op.kind = "put"
    /\ op.at \in ReadSteps => op.kind \in {"put", "read", "delete", "backup"}
    /\ op.at \in DeleteSteps => op.kind = "delete"
    /\ op.at \in BackupOnlySteps => op.kind = "backup"
    /\ op.at = "commit_acknowledgment" => op.kind = "acknowledge"
    /\ op.kind \in {"put", "read", "delete"} => op.env \in sealed
    /\ op.kind \in {"backup", "acknowledge"} => op.manifest \in Manifests
    /\ op.kind = "backup" => op.rest \subseteq op.manifest
    /\ op.kind = "backup" /\ op.at \in ReadSteps => op.env \in op.manifest

PutProgress ==
    /\ op.at \in PutOnlySteps \cup ReadSteps => journal[op.env] # "none"
    /\ op.at \in {"publish", "unlink", "commit"} => op.env \in indexed
    /\ op.at \in {"unlink", "commit"} => final[op.env]
    /\ op.at \in {"cleanup", "prepare"} => Stored(op.env)

DeletionProgress ==
    op.at \in {"destroy", "unlink_pending", "checkpoint"} =>
        /\ backup_references(op.env) = {}
        /\ key_reference_index(KeyOf[op.env]) \subseteq {op.env}
        /\ op.at = "unlink_pending" => deletion[op.env] = "prepared" /\ ~final[op.env]
        /\ op.at = "checkpoint" \/ deletion[op.env] \in BlobUnlinked =>
              ~final[op.env] /\ pending[op.env] = "none"
        /\ op.at = "checkpoint" /\ deletion[op.env] = "blob_unlinked" => journal[op.env] = "none"
        /\ deletion[op.env] \in TransactionUnlinked => journal[op.env] = "none"
        /\ op.at = "checkpoint" /\ deletion[op.env] = "transaction_unlinked" =>
              key_reference_index(KeyOf[op.env]) = {}
        /\ deletion[op.env] \in ReferenceRemoved => key_reference_index(KeyOf[op.env]) = {}

BackupProgress ==
    op.kind = "backup" =>
        /\ op.at = "next" => \A f \in op.manifest \ op.rest : Stored(f)
        /\ op.at \in ReadSteps => \A f \in op.manifest \ (op.rest \cup {op.env}) : Stored(f)
        /\ op.at = "pins" =>
              /\ ack[op.manifest] = "none"
              /\ \A f \in op.manifest : Stored(f)
              /\ \A f \in op.manifest \ op.rest : op.manifest \in pins[f]

Records == SealedFirst /\ PinsMatch /\ StoredIsAccountedFor /\ PinnedIsStored /\ HandedManifestPins

InFlightInv == OpShape /\ PutProgress /\ DeletionProgress /\ BackupProgress

Inv == TypeOK /\ Records /\ InFlightInv
-----------------------------------------------------------------------------
(* Preservation, one lemma per action *)

USE KeyOfAssumption, ManifestsAssumption, NoEnvelopeAssumption
    DEF PutOnlySteps, ReadSteps, DeleteSteps, BackupOnlySteps, PutState, PendingBlob,
        DeletionState, BlobUnlinked, TransactionUnlinked, ReferenceRemoved, KeyDeleted,
        BackupAcknowledgmentState, blobs, backups

\* An operation that turns to another envelope is still an operation.
LEMMA MovedOperation ==
    ASSUME op \in Operation, NEW e \in Envelopes \cup {None}, NEW at \in ReadSteps \cup BackupOnlySteps,
           NEW rest \in SUBSET Envelopes
    PROVE  [op EXCEPT !.env = e, !.at = at, !.rest = rest] \in Operation
BY DEF Operation

\* The key store: a key stored or an envelope sealed disturbs no operation.
LEMMA StoreKeyInv == ASSUME NEW k \in WrappingKeys, Inv, store_key(k) PROVE Inv'
<1> USE DEF Inv, Records, InFlightInv, store_key
<1>1. TypeOK' BY DEF TypeOK, Operation, OpShape, SealedFirst
<1>2. Records' BY SMTT(30) DEF TypeOK, Operation, SealedFirst, PinsMatch,
      StoredIsAccountedFor, PinnedIsStored, HandedManifestPins, Stored, OpShape,
      backup_references, backup_reference_is_active
<1>3. OpShape' BY SMTT(30) DEF TypeOK, Operation, OpShape, SealedFirst
<1>4. (PutProgress /\ DeletionProgress /\ BackupProgress)' BY SMTT(30) DEF TypeOK,
      Operation, OpShape, PutProgress, DeletionProgress, BackupProgress, Stored,
      StoredIsAccountedFor, key_reference_index, backup_references,
      backup_reference_is_active
<1> QED BY <1>1, <1>2, <1>3, <1>4

\* seal: an envelope comes into being under a key that is stored.
LEMMA SealInv == ASSUME NEW e \in Envelopes, Inv, seal(e) PROVE Inv'
<1> USE DEF Inv, Records, InFlightInv, seal
<1>1. TypeOK' BY DEF TypeOK, Operation, OpShape, SealedFirst
<1>2. Records' BY SMTT(30) DEF TypeOK, Operation, SealedFirst, PinsMatch,
      StoredIsAccountedFor, PinnedIsStored, HandedManifestPins, Stored, OpShape,
      backup_references, backup_reference_is_active
<1>3. OpShape' BY SMTT(30) DEF TypeOK, Operation, OpShape, SealedFirst
<1>4. (PutProgress /\ DeletionProgress /\ BackupProgress)' BY SMTT(30) DEF TypeOK,
      Operation, OpShape, PutProgress, DeletionProgress, BackupProgress, Stored,
      StoredIsAccountedFor, key_reference_index, backup_references,
      backup_reference_is_active
<1> QED BY <1>1, <1>2, <1>3, <1>4

\* put and the recovery of a put: PutProgress says what is durable at each step.
LEMMA PutJournalInv == ASSUME NEW e \in Envelopes, Inv, put_journal(e) PROVE Inv'
<1> USE DEF Inv, Records, InFlightInv, put_journal, Starts, NoOp
<1>1. TypeOK' BY DEF TypeOK, Operation, OpShape, SealedFirst
<1>2. Records' BY SMTT(30) DEF TypeOK, Operation, SealedFirst, PinsMatch,
      StoredIsAccountedFor, PinnedIsStored, HandedManifestPins, Stored, OpShape,
      PutProgress, backup_references, backup_reference_is_active
<1>3. OpShape' BY SMTT(30) DEF TypeOK, Operation, OpShape, SealedFirst
<1>4. (PutProgress /\ DeletionProgress /\ BackupProgress)' BY SMTT(30) DEF TypeOK,
      Operation, OpShape, PutProgress, DeletionProgress, BackupProgress, Stored,
      StoredIsAccountedFor, key_reference_index, backup_references,
      backup_reference_is_active
<1> QED BY <1>1, <1>2, <1>3, <1>4

\* put_blob: a put finds its blob published, keeps it pending or begins to write it.
LEMMA PutBlobInv == ASSUME NEW e \in Envelopes, Inv, put_blob(e) PROVE Inv'
<1> USE DEF Inv, Records, InFlightInv, put_blob, At, Goes
<1>1. TypeOK' BY DEF TypeOK, Operation, OpShape, SealedFirst
<1>2. Records' BY SMTT(30) DEF TypeOK, Operation, SealedFirst, PinsMatch,
      StoredIsAccountedFor, PinnedIsStored, HandedManifestPins, Stored, OpShape,
      PutProgress, backup_references, backup_reference_is_active
<1>3. OpShape' BY SMTT(30) DEF TypeOK, Operation, OpShape, SealedFirst
<1>4. (PutProgress /\ DeletionProgress /\ BackupProgress)' BY SMTT(30) DEF TypeOK,
      Operation, OpShape, PutProgress, DeletionProgress, BackupProgress, Stored,
      StoredIsAccountedFor, key_reference_index, backup_references,
      backup_reference_is_active
<1> QED BY <1>1, <1>2, <1>3, <1>4

\* create_file_at: the pending blob becomes whole under the put's journal.
LEMMA CreateFileAtInv == ASSUME NEW e \in Envelopes, Inv, create_file_at(e) PROVE Inv'
<1> USE DEF Inv, Records, InFlightInv, create_file_at, At, Goes
<1>1. TypeOK' BY DEF TypeOK, Operation, OpShape, SealedFirst
<1>2. Records' BY SMTT(30) DEF TypeOK, Operation, SealedFirst, PinsMatch,
      StoredIsAccountedFor, PinnedIsStored, HandedManifestPins, Stored, OpShape,
      PutProgress, backup_references, backup_reference_is_active
<1>3. OpShape' BY SMTT(30) DEF TypeOK, Operation, OpShape, SealedFirst
<1>4. (PutProgress /\ DeletionProgress /\ BackupProgress)' BY SMTT(30) DEF TypeOK,
      Operation, OpShape, PutProgress, DeletionProgress, BackupProgress, Stored,
      StoredIsAccountedFor, key_reference_index, backup_references,
      backup_reference_is_active
<1> QED BY <1>1, <1>2, <1>3, <1>4

\* write_key_reference: the envelope is indexed before its blob is published.
LEMMA WriteKeyReferenceInv == ASSUME NEW e \in Envelopes, Inv, write_key_reference(e) PROVE Inv'
<1> USE DEF Inv, Records, InFlightInv, write_key_reference, Goes
<1>1. TypeOK' BY DEF TypeOK, Operation, OpShape, SealedFirst
<1>2. Records' BY SMTT(30) DEF TypeOK, Operation, SealedFirst, PinsMatch,
      StoredIsAccountedFor, PinnedIsStored, HandedManifestPins, Stored, OpShape,
      PutProgress, backup_references, backup_reference_is_active
<1>3. OpShape' BY SMTT(30) DEF TypeOK, Operation, OpShape, SealedFirst
<1>4. (PutProgress /\ DeletionProgress /\ BackupProgress)' BY SMTT(30) DEF TypeOK,
      Operation, OpShape, PutProgress, DeletionProgress, BackupProgress, Stored,
      StoredIsAccountedFor, key_reference_index, backup_references,
      backup_reference_is_active
<1> QED BY <1>1, <1>2, <1>3, <1>4

\* publish_link: the blob gets its final name and keeps the pending one.
LEMMA PublishLinkInv == ASSUME NEW e \in Envelopes, Inv, publish_link(e) PROVE Inv'
<1> USE DEF Inv, Records, InFlightInv, publish_link, Goes
<1>1. TypeOK' BY DEF TypeOK, Operation, OpShape, SealedFirst
<1>2. Records' BY SMTT(30) DEF TypeOK, Operation, SealedFirst, PinsMatch,
      StoredIsAccountedFor, PinnedIsStored, HandedManifestPins, Stored, OpShape,
      PutProgress, backup_references, backup_reference_is_active
<1>3. OpShape' BY SMTT(30) DEF TypeOK, Operation, OpShape, SealedFirst
<1>4. (PutProgress /\ DeletionProgress /\ BackupProgress)' BY SMTT(30) DEF TypeOK,
      Operation, OpShape, PutProgress, DeletionProgress, BackupProgress, Stored,
      StoredIsAccountedFor, key_reference_index, backup_references,
      backup_reference_is_active
<1> QED BY <1>1, <1>2, <1>3, <1>4

\* publish_unlink: the pending name goes, the final one is there.
LEMMA PublishUnlinkInv == ASSUME NEW e \in Envelopes, Inv, publish_unlink(e) PROVE Inv'
<1> USE DEF Inv, Records, InFlightInv, publish_unlink, Goes
<1>1. TypeOK' BY DEF TypeOK, Operation, OpShape, SealedFirst
<1>2. Records' BY SMTT(30) DEF TypeOK, Operation, SealedFirst, PinsMatch,
      StoredIsAccountedFor, PinnedIsStored, HandedManifestPins, Stored, OpShape,
      PutProgress, backup_references, backup_reference_is_active
<1>3. OpShape' BY SMTT(30) DEF TypeOK, Operation, OpShape, SealedFirst
<1>4. (PutProgress /\ DeletionProgress /\ BackupProgress)' BY SMTT(30) DEF TypeOK,
      Operation, OpShape, PutProgress, DeletionProgress, BackupProgress, Stored,
      StoredIsAccountedFor, key_reference_index, backup_references,
      backup_reference_is_active
<1> QED BY <1>1, <1>2, <1>3, <1>4

\* commit_journal: blob and index entry are there when the put commits.
LEMMA CommitJournalInv == ASSUME NEW e \in Envelopes, Inv, commit_journal(e) PROVE Inv'
<1> USE DEF Inv, Records, InFlightInv, commit_journal, Goes
<1>1. TypeOK' BY DEF TypeOK, Operation, OpShape, SealedFirst
<1>2. Records' BY SMTT(30) DEF TypeOK, Operation, SealedFirst, PinsMatch,
      StoredIsAccountedFor, PinnedIsStored, HandedManifestPins, Stored, OpShape,
      PutProgress, backup_references, backup_reference_is_active
<1>3. OpShape' BY SMTT(30) DEF TypeOK, Operation, OpShape, SealedFirst
<1>4. (PutProgress /\ DeletionProgress /\ BackupProgress)' BY SMTT(30) DEF TypeOK,
      Operation, OpShape, PutProgress, DeletionProgress, BackupProgress, Stored,
      StoredIsAccountedFor, key_reference_index, backup_references,
      backup_reference_is_active
<1> QED BY <1>1, <1>2, <1>3, <1>4

\* finish_read: a read hands over to the deletion or backup it serves.
LEMMA FinishReadInv == ASSUME NEW e \in Envelopes, Inv, finish_read(e) PROVE Inv'
<1> USE DEF Inv, Records, InFlightInv, finish_read, Goes, after_read, NoOp
<1>1. TypeOK' BY DEF TypeOK, Operation, OpShape, SealedFirst
<1>2. Records' BY SMTT(30) DEF TypeOK, Operation, SealedFirst, PinsMatch,
      StoredIsAccountedFor, PinnedIsStored, HandedManifestPins, Stored, OpShape,
      PutProgress, backup_references, backup_reference_is_active
<1>3. OpShape' BY SMTT(30) DEF TypeOK, Operation, OpShape, SealedFirst
<1>4. (PutProgress /\ DeletionProgress /\ BackupProgress)' BY SMTT(30) DEF TypeOK,
      Operation, OpShape, PutProgress, DeletionProgress, BackupProgress, Stored,
      StoredIsAccountedFor, key_reference_index, backup_references,
      backup_reference_is_active
<1> QED BY <1>1, <1>2, <1>3, <1>4

\* read: a read starts only on records that it can complete.
LEMMA ReadInv == ASSUME NEW e \in Envelopes, Inv, read(e) PROVE Inv'
<1> USE DEF Inv, Records, InFlightInv, read, Starts, NoOp, readable, first_step
<1>1. TypeOK' BY DEF TypeOK, Operation, OpShape, SealedFirst
<1>2. Records' BY SMTT(30) DEF TypeOK, Operation, SealedFirst, PinsMatch,
      StoredIsAccountedFor, PinnedIsStored, HandedManifestPins, Stored, OpShape,
      PutProgress, backup_references, backup_reference_is_active
<1>3. OpShape' BY SMTT(30) DEF TypeOK, Operation, OpShape, SealedFirst
<1>4. (PutProgress /\ DeletionProgress /\ BackupProgress)' BY SMTT(30) DEF TypeOK,
      Operation, OpShape, PutProgress, DeletionProgress, BackupProgress, Stored,
      StoredIsAccountedFor, key_reference_index, backup_references,
      backup_reference_is_active
<1> QED BY <1>1, <1>2, <1>3, <1>4

\* Backups: BackupProgress says that what is read stays stored until it is pinned.
LEMMA CreateBackupManifestInv == ASSUME NEW m \in Manifests, Inv, create_backup_manifest(m) PROVE Inv'
<1> USE DEF Inv, Records, InFlightInv, create_backup_manifest, StartsOn, NoOp
<1>1. TypeOK' BY DEF TypeOK, Operation, OpShape, SealedFirst
<1>2. Records' BY SMTT(30) DEF TypeOK, Operation, SealedFirst, PinsMatch,
      StoredIsAccountedFor, PinnedIsStored, HandedManifestPins, Stored, OpShape,
      BackupProgress, backup_references, backup_reference_is_active
<1>3. OpShape' BY SMTT(30) DEF TypeOK, Operation, OpShape, SealedFirst
<1>4. (PutProgress /\ DeletionProgress /\ BackupProgress)' BY SMTT(30) DEF TypeOK,
      Operation, OpShape, PutProgress, DeletionProgress, BackupProgress, Stored,
      StoredIsAccountedFor, key_reference_index, backup_references,
      backup_reference_is_active
<1> QED BY <1>1, <1>2, <1>3, <1>4

\* prepare_backup_manifest: every envelope is read, and recovered, before any is pinned.
LEMMA PrepareBackupManifestInv == ASSUME NEW e \in Envelopes, Inv, prepare_backup_manifest(e) PROVE Inv'
<1> USE DEF Inv, Records, InFlightInv, prepare_backup_manifest, At, readable, first_step
<1>1. TypeOK'
  <2>1. op.rest \ {e} \in SUBSET Envelopes BY DEF TypeOK, Operation
  <2>2. first_step(e) \in ReadSteps BY DEF first_step
  <2> HIDE DEF first_step
  <2>3. op' \in Operation BY <2>1, <2>2, MovedOperation DEF TypeOK
  <2>4. op'.env = e BY DEF TypeOK, Operation
  <2> QED BY <2>3, <2>4 DEF TypeOK, SealedFirst
<1>2. Records' BY SMTT(30) DEF TypeOK, Operation, SealedFirst, PinsMatch,
      StoredIsAccountedFor, PinnedIsStored, HandedManifestPins, Stored, OpShape,
      BackupProgress, backup_references, backup_reference_is_active
<1>3. OpShape' BY SMTT(30) DEF TypeOK, Operation, OpShape, SealedFirst
<1>4. (PutProgress /\ DeletionProgress /\ BackupProgress)' BY SMTT(30) DEF TypeOK,
      Operation, OpShape, PutProgress, DeletionProgress, BackupProgress, Stored,
      StoredIsAccountedFor, key_reference_index, backup_references,
      backup_reference_is_active
<1> QED BY <1>1, <1>2, <1>3, <1>4

\* reset_backup_acknowledgment: the pins to be written count again.
LEMMA ResetBackupAcknowledgmentInv == ASSUME Inv, reset_backup_acknowledgment PROVE Inv'
<1> USE DEF Inv, Records, InFlightInv, reset_backup_acknowledgment, At
<1>1. TypeOK'
  <2>1. op.manifest \in SUBSET Envelopes BY DEF TypeOK, Operation
  <2>2. op' \in Operation BY <2>1, MovedOperation DEF TypeOK
  <2>3. op'.env = None BY DEF TypeOK, Operation
  <2>4. ack' \in [Manifests -> BackupAcknowledgmentState] BY DEF TypeOK
  <2> QED BY <2>2, <2>3, <2>4 DEF TypeOK
<1>2. Records' BY SMTT(30) DEF TypeOK, Operation, SealedFirst, PinsMatch,
      StoredIsAccountedFor, PinnedIsStored, HandedManifestPins, Stored, OpShape,
      BackupProgress, backup_references, backup_reference_is_active
<1>3. OpShape' BY SMTT(30) DEF TypeOK, Operation, OpShape, SealedFirst
<1>4. (PutProgress /\ DeletionProgress /\ BackupProgress)' BY SMTT(30) DEF TypeOK,
      Operation, OpShape, PutProgress, DeletionProgress, BackupProgress, Stored,
      StoredIsAccountedFor, key_reference_index, backup_references,
      backup_reference_is_active
<1> QED BY <1>1, <1>2, <1>3, <1>4

\* write_pin: the manifest is handed out with its last pin.
LEMMA WritePinInv == ASSUME NEW e \in Envelopes, Inv, write_pin(e) PROVE Inv'
<1> USE DEF Inv, Records, InFlightInv, write_pin, At, NoOp
<1>1. TypeOK' BY DEF TypeOK, Operation, OpShape, SealedFirst
<1>2. Records' BY SMTT(30) DEF TypeOK, Operation, SealedFirst, PinsMatch,
      StoredIsAccountedFor, PinnedIsStored, HandedManifestPins, Stored, OpShape,
      BackupProgress, backup_references, backup_reference_is_active
<1>3. OpShape' BY SMTT(30) DEF TypeOK, Operation, OpShape, SealedFirst
<1>4. (PutProgress /\ DeletionProgress /\ BackupProgress)' BY SMTT(30) DEF TypeOK,
      Operation, OpShape, PutProgress, DeletionProgress, BackupProgress, Stored,
      StoredIsAccountedFor, key_reference_index, backup_references,
      backup_reference_is_active
<1> QED BY <1>1, <1>2, <1>3, <1>4

\* acknowledge_backup_removal: all pins of the manifest are there.
LEMMA AcknowledgeBackupRemovalInv == ASSUME NEW m \in Manifests, Inv, acknowledge_backup_removal(m) PROVE Inv'
<1> USE DEF Inv, Records, InFlightInv, acknowledge_backup_removal, StartsOn, NoOp
<1>1. TypeOK' BY DEF TypeOK, Operation, OpShape, SealedFirst
<1>2. Records' BY SMTT(30) DEF TypeOK, Operation, SealedFirst, PinsMatch,
      StoredIsAccountedFor, PinnedIsStored, HandedManifestPins, Stored, OpShape,
      BackupProgress, backup_references, backup_reference_is_active
<1>3. OpShape' BY SMTT(30) DEF TypeOK, Operation, OpShape, SealedFirst
<1>4. (PutProgress /\ DeletionProgress /\ BackupProgress)' BY SMTT(30) DEF TypeOK,
      Operation, OpShape, PutProgress, DeletionProgress, BackupProgress, Stored,
      StoredIsAccountedFor, key_reference_index, backup_references,
      backup_reference_is_active
<1> QED BY <1>1, <1>2, <1>3, <1>4

\* commit_backup_acknowledgment: the manifest is taken back, its pins count no longer.
LEMMA CommitBackupAcknowledgmentInv == ASSUME Inv, commit_backup_acknowledgment PROVE Inv'
<1> USE DEF Inv, Records, InFlightInv, commit_backup_acknowledgment, At, NoOp
<1>1. TypeOK' BY DEF TypeOK, Operation, OpShape, SealedFirst
<1>2. Records' BY SMTT(30) DEF TypeOK, Operation, SealedFirst, PinsMatch,
      StoredIsAccountedFor, PinnedIsStored, HandedManifestPins, Stored, OpShape,
      BackupProgress, backup_references, backup_reference_is_active
<1>3. OpShape' BY SMTT(30) DEF TypeOK, Operation, OpShape, SealedFirst
<1>4. (PutProgress /\ DeletionProgress /\ BackupProgress)' BY SMTT(30) DEF TypeOK,
      Operation, OpShape, PutProgress, DeletionProgress, BackupProgress, Stored,
      StoredIsAccountedFor, key_reference_index, backup_references,
      backup_reference_is_active
<1> QED BY <1>1, <1>2, <1>3, <1>4

\* Deletion: DeletionProgress says that nothing but the envelope itself needs what goes.
LEMMA ReplayReceiptInv == ASSUME NEW e \in Envelopes, Inv, replay_receipt(e) PROVE Inv'
<1> USE DEF Inv, Records, InFlightInv, replay_receipt, NoOp
<1>1. TypeOK' BY DEF TypeOK, Operation, OpShape, SealedFirst
<1>2. Records' BY SMTT(30) DEF TypeOK, Operation, SealedFirst, PinsMatch,
      StoredIsAccountedFor, PinnedIsStored, HandedManifestPins, Stored, OpShape,
      DeletionProgress, key_reference_index, backup_references, backup_reference_is_active
<1>3. OpShape' BY SMTT(30) DEF TypeOK, Operation, OpShape, SealedFirst
<1>4. (PutProgress /\ DeletionProgress /\ BackupProgress)' BY SMTT(30) DEF TypeOK,
      Operation, OpShape, PutProgress, DeletionProgress, BackupProgress, Stored,
      StoredIsAccountedFor, key_reference_index, backup_references,
      backup_reference_is_active
<1> QED BY <1>1, <1>2, <1>3, <1>4

\* resume_deletion: a deletion goes on from what its journal says.
LEMMA ResumeDeletionInv == ASSUME NEW e \in Envelopes, Inv, resume_deletion(e) PROVE Inv'
<1> USE DEF Inv, Records, InFlightInv, resume_deletion, Starts, NoOp
<1>1. TypeOK' BY DEF TypeOK, Operation, OpShape, SealedFirst
<1>2. Records' BY SMTT(30) DEF TypeOK, Operation, SealedFirst, PinsMatch,
      StoredIsAccountedFor, PinnedIsStored, HandedManifestPins, Stored, OpShape,
      DeletionProgress, key_reference_index, backup_references, backup_reference_is_active
<1>3. OpShape' BY SMTT(30) DEF TypeOK, Operation, OpShape, SealedFirst
<1>4. (PutProgress /\ DeletionProgress /\ BackupProgress)' BY SMTT(30) DEF TypeOK,
      Operation, OpShape, PutProgress, DeletionProgress, BackupProgress, Stored,
      StoredIsAccountedFor, key_reference_index, backup_references,
      backup_reference_is_active
<1> QED BY <1>1, <1>2, <1>3, <1>4

\* begin_deletion: an unpinned envelope, alone under its key, is read first.
LEMMA BeginDeletionInv == ASSUME NEW e \in Envelopes, Inv, begin_deletion(e) PROVE Inv'
<1> USE DEF Inv, Records, InFlightInv, begin_deletion, Starts, NoOp, readable, first_step
<1>1. TypeOK' BY DEF TypeOK, Operation, OpShape, SealedFirst
<1>2. Records' BY SMTT(30) DEF TypeOK, Operation, SealedFirst, PinsMatch,
      StoredIsAccountedFor, PinnedIsStored, HandedManifestPins, Stored, OpShape,
      DeletionProgress, key_reference_index, backup_references, backup_reference_is_active
<1>3. OpShape' BY SMTT(30) DEF TypeOK, Operation, OpShape, SealedFirst
<1>4. (PutProgress /\ DeletionProgress /\ BackupProgress)' BY SMTT(30) DEF TypeOK,
      Operation, OpShape, PutProgress, DeletionProgress, BackupProgress, Stored,
      StoredIsAccountedFor, key_reference_index, backup_references,
      backup_reference_is_active
<1> QED BY <1>1, <1>2, <1>3, <1>4

\* prepare_deletion: the journal is there before anything is destroyed.
LEMMA PrepareDeletionInv == ASSUME NEW e \in Envelopes, Inv, prepare_deletion(e) PROVE Inv'
<1> USE DEF Inv, Records, InFlightInv, prepare_deletion, At, Goes
<1>1. TypeOK' BY DEF TypeOK, Operation, OpShape, SealedFirst
<1>2. Records' BY SMTT(30) DEF TypeOK, Operation, SealedFirst, PinsMatch,
      StoredIsAccountedFor, PinnedIsStored, HandedManifestPins, Stored, OpShape,
      DeletionProgress, key_reference_index, backup_references, backup_reference_is_active
<1>3. OpShape' BY SMTT(30) DEF TypeOK, Operation, OpShape, SealedFirst
<1>4. (PutProgress /\ DeletionProgress /\ BackupProgress)' BY SMTT(30) DEF TypeOK,
      Operation, OpShape, PutProgress, DeletionProgress, BackupProgress, Stored,
      StoredIsAccountedFor, key_reference_index, backup_references,
      backup_reference_is_active
<1> QED BY <1>1, <1>2, <1>3, <1>4

\* check_deletion: pins, index and what was destroyed are looked at once more.
LEMMA CheckDeletionInv == ASSUME NEW e \in Envelopes, Inv, check_deletion(e) PROVE Inv'
<1> USE DEF Inv, Records, InFlightInv, check_deletion, At, Goes, may_destroy,
    reference_safe, still_destroyed
<1>1. TypeOK' BY DEF TypeOK, Operation, OpShape, SealedFirst
<1>2. Records' BY SMTT(30) DEF TypeOK, Operation, SealedFirst, PinsMatch,
      StoredIsAccountedFor, PinnedIsStored, HandedManifestPins, Stored, OpShape,
      DeletionProgress, key_reference_index, backup_references, backup_reference_is_active
<1>3. OpShape' BY SMTT(30) DEF TypeOK, Operation, OpShape, SealedFirst
<1>4. (PutProgress /\ DeletionProgress /\ BackupProgress)' BY SMTT(30) DEF TypeOK,
      Operation, OpShape, PutProgress, DeletionProgress, BackupProgress, Stored,
      StoredIsAccountedFor, key_reference_index, backup_references,
      backup_reference_is_active
<1> QED BY <1>1, <1>2, <1>3, <1>4

\* unlink_final_blob: the blob goes under the deletion's journal.
LEMMA UnlinkFinalBlobInv == ASSUME NEW e \in Envelopes, Inv, unlink_final_blob(e) PROVE Inv'
<1> USE DEF Inv, Records, InFlightInv, unlink_final_blob, At, Goes, Destroys
<1>1. TypeOK' BY DEF TypeOK, Operation, OpShape, SealedFirst
<1>2. Records' BY SMTT(30) DEF TypeOK, Operation, SealedFirst, PinsMatch,
      StoredIsAccountedFor, PinnedIsStored, HandedManifestPins, Stored, OpShape,
      DeletionProgress, key_reference_index, backup_references, backup_reference_is_active
<1>3. OpShape' BY SMTT(30) DEF TypeOK, Operation, OpShape, SealedFirst
<1>4. (PutProgress /\ DeletionProgress /\ BackupProgress)' BY SMTT(30) DEF TypeOK,
      Operation, OpShape, PutProgress, DeletionProgress, BackupProgress, Stored,
      StoredIsAccountedFor, key_reference_index, backup_references,
      backup_reference_is_active
<1> QED BY <1>1, <1>2, <1>3, <1>4

\* unlink_pending_blob: and so does a pending name left by a put.
LEMMA UnlinkPendingBlobInv == ASSUME NEW e \in Envelopes, Inv, unlink_pending_blob(e) PROVE Inv'
<1> USE DEF Inv, Records, InFlightInv, unlink_pending_blob, At, Goes
<1>1. TypeOK' BY DEF TypeOK, Operation, OpShape, SealedFirst
<1>2. Records' BY SMTT(30) DEF TypeOK, Operation, SealedFirst, PinsMatch,
      StoredIsAccountedFor, PinnedIsStored, HandedManifestPins, Stored, OpShape,
      DeletionProgress, key_reference_index, backup_references, backup_reference_is_active
<1>3. OpShape' BY SMTT(30) DEF TypeOK, Operation, OpShape, SealedFirst
<1>4. (PutProgress /\ DeletionProgress /\ BackupProgress)' BY SMTT(30) DEF TypeOK,
      Operation, OpShape, PutProgress, DeletionProgress, BackupProgress, Stored,
      StoredIsAccountedFor, key_reference_index, backup_references,
      backup_reference_is_active
<1> QED BY <1>1, <1>2, <1>3, <1>4

\* unlink_put_transaction: the put's journal goes after the blob.
LEMMA UnlinkPutTransactionInv == ASSUME NEW e \in Envelopes, Inv, unlink_put_transaction(e) PROVE Inv'
<1> USE DEF Inv, Records, InFlightInv, unlink_put_transaction, At, Goes, Destroys
<1>1. TypeOK' BY DEF TypeOK, Operation, OpShape, SealedFirst
<1>2. Records' BY SMTT(30) DEF TypeOK, Operation, SealedFirst, PinsMatch,
      StoredIsAccountedFor, PinnedIsStored, HandedManifestPins, Stored, OpShape,
      DeletionProgress, key_reference_index, backup_references, backup_reference_is_active
<1>3. OpShape' BY SMTT(30) DEF TypeOK, Operation, OpShape, SealedFirst
<1>4. (PutProgress /\ DeletionProgress /\ BackupProgress)' BY SMTT(30) DEF TypeOK,
      Operation, OpShape, PutProgress, DeletionProgress, BackupProgress, Stored,
      StoredIsAccountedFor, key_reference_index, backup_references,
      backup_reference_is_active
<1> QED BY <1>1, <1>2, <1>3, <1>4

\* remove_key_reference: the index entry goes after the put's journal.
LEMMA RemoveKeyReferenceInv == ASSUME NEW e \in Envelopes, Inv, remove_key_reference(e) PROVE Inv'
<1> USE DEF Inv, Records, InFlightInv, remove_key_reference, At, Goes, Destroys
<1>1. TypeOK' BY DEF TypeOK, Operation, OpShape, SealedFirst
<1>2. Records' BY SMTT(30) DEF TypeOK, Operation, SealedFirst, PinsMatch,
      StoredIsAccountedFor, PinnedIsStored, HandedManifestPins, Stored, OpShape,
      DeletionProgress, key_reference_index, backup_references, backup_reference_is_active
<1>3. OpShape' BY SMTT(30) DEF TypeOK, Operation, OpShape, SealedFirst
<1>4. (PutProgress /\ DeletionProgress /\ BackupProgress)' BY SMTT(30) DEF TypeOK,
      Operation, OpShape, PutProgress, DeletionProgress, BackupProgress, Stored,
      StoredIsAccountedFor, key_reference_index, backup_references,
      backup_reference_is_active
<1> QED BY <1>1, <1>2, <1>3, <1>4

\* delete_wrapping_key: no envelope is indexed under the key any more.
LEMMA DeleteWrappingKeyInv == ASSUME NEW e \in Envelopes, Inv, delete_wrapping_key(e) PROVE Inv'
<1> USE DEF Inv, Records, InFlightInv, delete_wrapping_key, At, Goes, Destroys
<1>1. TypeOK' BY DEF TypeOK, Operation, OpShape, SealedFirst
<1>2. Records' BY SMTT(30) DEF TypeOK, Operation, SealedFirst, PinsMatch,
      StoredIsAccountedFor, PinnedIsStored, HandedManifestPins, Stored, OpShape,
      DeletionProgress, key_reference_index, backup_references, backup_reference_is_active
<1>3. OpShape' BY SMTT(30) DEF TypeOK, Operation, OpShape, SealedFirst
<1>4. (PutProgress /\ DeletionProgress /\ BackupProgress)' BY SMTT(30) DEF TypeOK,
      Operation, OpShape, PutProgress, DeletionProgress, BackupProgress, Stored,
      StoredIsAccountedFor, key_reference_index, backup_references,
      backup_reference_is_active
<1> QED BY <1>1, <1>2, <1>3, <1>4

\* checkpoint_deletion: the journal records a step that has been taken.
LEMMA CheckpointDeletionInv == ASSUME NEW e \in Envelopes, Inv, checkpoint_deletion(e) PROVE Inv'
<1> USE DEF Inv, Records, InFlightInv, checkpoint_deletion, At, Goes
<1>1. TypeOK' BY DEF TypeOK, Operation, OpShape, SealedFirst
<1>2. Records' BY SMTT(30) DEF TypeOK, Operation, SealedFirst, PinsMatch,
      StoredIsAccountedFor, PinnedIsStored, HandedManifestPins, Stored, OpShape,
      DeletionProgress, key_reference_index, backup_references, backup_reference_is_active
<1>3. OpShape' BY SMTT(30) DEF TypeOK, Operation, OpShape, SealedFirst
<1>4. (PutProgress /\ DeletionProgress /\ BackupProgress)' BY SMTT(30) DEF TypeOK,
      Operation, OpShape, PutProgress, DeletionProgress, BackupProgress, Stored,
      StoredIsAccountedFor, key_reference_index, backup_references,
      backup_reference_is_active
<1> QED BY <1>1, <1>2, <1>3, <1>4

\* write_receipt: the receipt is written when all of it is gone.
LEMMA WriteReceiptInv == ASSUME NEW e \in Envelopes, Inv, write_receipt(e) PROVE Inv'
<1> USE DEF Inv, Records, InFlightInv, write_receipt, At, Goes, Destroys
<1>1. TypeOK' BY DEF TypeOK, Operation, OpShape, SealedFirst
<1>2. Records' BY SMTT(30) DEF TypeOK, Operation, SealedFirst, PinsMatch,
      StoredIsAccountedFor, PinnedIsStored, HandedManifestPins, Stored, OpShape,
      DeletionProgress, key_reference_index, backup_references, backup_reference_is_active
<1>3. OpShape' BY SMTT(30) DEF TypeOK, Operation, OpShape, SealedFirst
<1>4. (PutProgress /\ DeletionProgress /\ BackupProgress)' BY SMTT(30) DEF TypeOK,
      Operation, OpShape, PutProgress, DeletionProgress, BackupProgress, Stored,
      StoredIsAccountedFor, key_reference_index, backup_references,
      backup_reference_is_active
<1> QED BY <1>1, <1>2, <1>3, <1>4

\* unlink_deletion_journal: the journal goes after the receipt.
LEMMA UnlinkDeletionJournalInv == ASSUME NEW e \in Envelopes, Inv, unlink_deletion_journal(e) PROVE Inv'
<1> USE DEF Inv, Records, InFlightInv, unlink_deletion_journal, At, NoOp
<1>1. TypeOK' BY DEF TypeOK, Operation, OpShape, SealedFirst
<1>2. Records' BY SMTT(30) DEF TypeOK, Operation, SealedFirst, PinsMatch,
      StoredIsAccountedFor, PinnedIsStored, HandedManifestPins, Stored, OpShape,
      DeletionProgress, key_reference_index, backup_references, backup_reference_is_active
<1>3. OpShape' BY SMTT(30) DEF TypeOK, Operation, OpShape, SealedFirst
<1>4. (PutProgress /\ DeletionProgress /\ BackupProgress)' BY SMTT(30) DEF TypeOK,
      Operation, OpShape, PutProgress, DeletionProgress, BackupProgress, Stored,
      StoredIsAccountedFor, key_reference_index, backup_references,
      backup_reference_is_active
<1> QED BY <1>1, <1>2, <1>3, <1>4

\* Failure: a crash lets the lock go, and the records alone must be safe.
LEMMA InterruptInv == ASSUME Inv, interrupt PROVE Inv'
<1> USE DEF Inv, Records, InFlightInv, interrupt, NoOp
<1>1. TypeOK' BY DEF TypeOK, Operation, OpShape, SealedFirst
<1>2. Records' BY SMTT(30) DEF TypeOK, Operation, SealedFirst, PinsMatch,
      StoredIsAccountedFor, PinnedIsStored, HandedManifestPins, Stored, OpShape,
      backup_references, backup_reference_is_active
<1>3. OpShape' BY SMTT(30) DEF TypeOK, Operation, OpShape, SealedFirst
<1>4. (PutProgress /\ DeletionProgress /\ BackupProgress)' BY SMTT(30) DEF TypeOK,
      Operation, OpShape, PutProgress, DeletionProgress, BackupProgress, Stored,
      StoredIsAccountedFor, key_reference_index, backup_references,
      backup_reference_is_active
<1> QED BY <1>1, <1>2, <1>3, <1>4

\* An operation that refuses to go on changes what an interrupted one changes.
LEMMA ReturnErrorInv == ASSUME Inv, return_error PROVE Inv'
<1>1. CASE op = NoOp BY <1>1 DEF refused, At, return_error, NoOp
<1>2. CASE op # NoOp BY <1>2, InterruptInv DEF return_error, interrupt
<1> QED BY <1>1, <1>2

\* An empty store satisfies the inductive invariant.
LEMMA InitInv == Init => Inv
<1> SUFFICES ASSUME Init PROVE Inv OBVIOUS
<1> USE DEF Init, NoOp
<1>1. TypeOK BY DEF TypeOK, Operation
<1>2. Records
  BY DEF Records, SealedFirst, PinsMatch, StoredIsAccountedFor, PinnedIsStored,
      HandedManifestPins, backup_references
<1>3. InFlightInv BY DEF InFlightInv, OpShape, PutProgress, DeletionProgress, BackupProgress
<1> QED BY <1>1, <1>2, <1>3 DEF Inv

\* A step that changes nothing preserves it.
LEMMA StutterInv == ASSUME Inv, UNCHANGED vars PROVE Inv'
BY DEF vars, Inv, TypeOK, Records, SealedFirst, PinsMatch, StoredIsAccountedFor, PinnedIsStored,
    HandedManifestPins, InFlightInv, OpShape, PutProgress, DeletionProgress, BackupProgress, Stored,
    backup_references, backup_reference_is_active, key_reference_index

\* Every step, errors and interruptions included, preserves the inductive invariant.
LEMMA NextInv == Inv /\ [Next]_vars => Inv'
<1> SUFFICES ASSUME Inv, [Next]_vars PROVE Inv' OBVIOUS
<1>1. CASE \E k \in WrappingKeys : store_key(k) BY <1>1, StoreKeyInv
<1>2. ASSUME NEW e \in Envelopes, seal(e) \/ read(e) PROVE Inv' BY <1>2, SealInv, ReadInv
<1>3. ASSUME NEW e \in Envelopes, PutSteps(e) PROVE Inv'
  BY <1>3, PutJournalInv, PutBlobInv, CreateFileAtInv, WriteKeyReferenceInv, PublishLinkInv,
      PublishUnlinkInv, CommitJournalInv, FinishReadInv DEF PutSteps
<1>4. ASSUME NEW e \in Envelopes, execute_deletion(e) PROVE Inv'
  BY <1>4, ReplayReceiptInv, ResumeDeletionInv, BeginDeletionInv DEF execute_deletion
<1>5. ASSUME NEW e \in Envelopes, DeletionSteps(e) PROVE Inv'
  BY <1>4, <1>5, PrepareDeletionInv, CheckDeletionInv, UnlinkFinalBlobInv, UnlinkPendingBlobInv,
      UnlinkPutTransactionInv, RemoveKeyReferenceInv, DeleteWrappingKeyInv, CheckpointDeletionInv,
      WriteReceiptInv, UnlinkDeletionJournalInv DEF DeletionSteps
<1>6. CASE BackupSteps
  BY <1>6, CreateBackupManifestInv, PrepareBackupManifestInv, ResetBackupAcknowledgmentInv,
      WritePinInv, AcknowledgeBackupRemovalInv, CommitBackupAcknowledgmentInv DEF BackupSteps
<1>7. CASE return_error BY <1>7, ReturnErrorInv
<1>8. CASE interrupt BY <1>8, InterruptInv
<1>9. CASE UNCHANGED vars BY <1>9, StutterInv
<1> QED BY <1>1, <1>2, <1>3, <1>5, <1>6, <1>7, <1>8, <1>9 DEF Next

-----------------------------------------------------------------------------
(* Theorems *)

\* The inductive invariant holds in every reachable state.
THEOREM Invariance == Spec => []Inv
BY InitInv, NextInv, PTL DEF Spec

\* Every record and the operation in flight keep their types.
THEOREM TypeCorrect == Spec => []TypeOK
<1>1. Inv => TypeOK BY DEF Inv
<1> QED BY <1>1, Invariance, PTL

\* However often put, recovery and deletion are interrupted, a blob keeps its
\* put journal and what can be read is in its key's index.
THEOREM StoredStaysAccountedFor == Spec => []StoredIsAccountedFor
<1>1. Inv => StoredIsAccountedFor BY DEF Inv, Records
<1> QED BY <1>1, Invariance, PTL

\* What an unacknowledged backup pins stays whole.
THEOREM PinnedStaysStored == Spec => []PinnedIsStored
<1>1. Inv => PinnedIsStored BY DEF Inv, Records
<1> QED BY <1>1, Invariance, PTL

\* A manifest that was handed out pins all its envelopes until acknowledged.
THEOREM HandedManifestsPin == Spec => []HandedManifestPins
<1>1. Inv => HandedManifestPins BY DEF Inv, Records
<1> QED BY <1>1, Invariance, PTL

\* Only delete_wrapping_key takes a key out of the key store.
LEMMA OnlyDeletionDestroysKeys ==
    ASSUME [Next]_vars
    PROVE  keys \subseteq keys' \/ \E e \in Envelopes : delete_wrapping_key(e)
<1>1. CASE \E k \in WrappingKeys : store_key(k) BY <1>1 DEF store_key
<1>2. ASSUME NEW e \in Envelopes, seal(e) \/ read(e) PROVE keys' = keys BY <1>2 DEF seal, read
<1>3. ASSUME NEW e \in Envelopes, PutSteps(e) PROVE keys' = keys
  BY <1>3 DEF PutSteps, put_journal, put_blob, create_file_at, write_key_reference, publish_link,
      publish_unlink, commit_journal, finish_read
<1>4. ASSUME NEW e \in Envelopes, DeletionSteps(e) PROVE keys' = keys \/ delete_wrapping_key(e)
  BY <1>4 DEF DeletionSteps, execute_deletion, replay_receipt, resume_deletion, begin_deletion,
      prepare_deletion, check_deletion, unlink_final_blob, unlink_pending_blob,
      unlink_put_transaction, remove_key_reference, checkpoint_deletion, write_receipt,
      unlink_deletion_journal
<1>5. CASE BackupSteps
  BY <1>5 DEF BackupSteps, create_backup_manifest, prepare_backup_manifest,
      reset_backup_acknowledgment, write_pin, acknowledge_backup_removal,
      commit_backup_acknowledgment
<1>6. CASE return_error \/ interrupt \/ UNCHANGED vars BY <1>6 DEF return_error, interrupt, vars
<1> QED BY <1>1, <1>2, <1>3, <1>4, <1>5, <1>6 DEF Next

\* A wrapping key is destroyed only when no blob, no committed put and no live
\* pin of any envelope needs it: by then its index is empty, what is stored is
\* indexed and what is pinned is stored.
THEOREM KeysAreDestroyedUnused == Spec => KeyDestroyedWhenUnused
<1> DEFINE Unused(e) == ~final[e] /\ journal[e] # "committed" /\ backup_references(e) = {}
<1>1. ASSUME Inv, [Next]_vars, NEW e \in Envelopes, KeyOf[e] \in keys \ keys' PROVE Unused(e)
  <2>1. PICK f \in Envelopes : delete_wrapping_key(f) BY <1>1, OnlyDeletionDestroysKeys
  <2>2. KeyOf[e] = KeyOf[f] BY <1>1, <2>1 DEF delete_wrapping_key
  <2>3. key_reference_index(KeyOf[f]) = {}
    BY <1>1, <2>1 DEF delete_wrapping_key, Destroys, At, Inv, InFlightInv, DeletionProgress
  <2>4. e \notin indexed BY <2>2, <2>3 DEF key_reference_index
  <2> QED BY <1>1, <2>4 DEF Inv, Records, StoredIsAccountedFor, PinnedIsStored
<1>2. Inv /\ [Next]_vars =>
         [\A e \in Envelopes : KeyOf[e] \in keys \ keys' =>
              ~final[e] /\ journal[e] # "committed" /\ backup_references(e) = {}]_vars
  BY <1>1
<1> QED BY <1>2, Invariance, PTL DEF Spec, KeyDestroyedWhenUnused
=============================================================================
