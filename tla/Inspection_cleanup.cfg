\* A remote and a local inspection compete for the daemon's one permit while a caller of
\* the library publishes the same snapshot as the local one.
CONSTANTS
    remote = remote
    local1 = local1
    local2 = local2
    relayed = relayed
    None = None
    Tasks = {remote, local1, local2}
    Direct = {local2}
    SourceOf <- MCSourceOf
    SnapshotOf <- MCSnapshotOf
    MaxInspections = 1
    MaxConnections = 2
    MaxCrashes = 1
SPECIFICATION Spec
CHECK_DEADLOCK FALSE
INVARIANTS
    TypeOK
    PermitsFollowThreads
    ReturnedLeavesNothing
    AttestedIsClean
PROPERTIES
    SnapshotIsImmutable
