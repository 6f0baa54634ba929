---------------------------- MODULE MCCoreRestore ----------------------------
(* Small instances of CoreRestore for TLC. *)
EXTENDS CoreRestore, MCCoreStore

\* One stage in full; or artifacts with one stage, one attempt and time to 1; or two stages
\* with one worker, one attempt and time to 1.
InUse == {s \in Stages : stages[s].state # "absent"}

NoArtifacts == quarantined = {} /\ \A r \in Runs : runs[r].linked = {}

Short == clock <= 1 /\ \A s \in InUse : stages[s].max = 1

OneStageOrShort ==
    \/ Cardinality(InUse) <= 1 /\ (NoArtifacts \/ Short)
    \/ /\ NoArtifacts /\ Short
       /\ \A r \in Runs : runs[r].authority.expires = None
       /\ Cardinality({stages[s].lease.owner :
                         s \in {t \in InUse : stages[t].lease # None}}) <= 1

\* A backup is kept of a run with a stage at work, and the rest of the store is small then.
BackupOfWork ==
    backups # {} =>
      /\ NoArtifacts /\ Short
      /\ Cardinality(InUse) <= 1
      /\ \A b \in backups, r \in Runs, s \in Stages :
           /\ b.runs[r].cleanup = "pending" /\ b.runs[r].status = "running"
           /\ b.stages[s].state \in {"absent", "running"}
           /\ b.runs[r].authority.expires = None

Explored == OneStageOrShort /\ BackupOfWork

Symmetric == Permutations(Stages) \cup Permutations(Owners)
=============================================================================
