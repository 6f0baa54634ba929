\* A brokered call of the library, with the relay and its volume, next to a local
\* inspection of the daemon: both end, whatever docker does.
CONSTANTS
    remote = remote
    local1 = local1
    local2 = local2
    relayed = relayed
    None = None
    Tasks = {relayed, local1}
    Direct = {relayed}
    SourceOf <- MCSourceOf
    SnapshotOf <- MCSnapshotOf
    MaxInspections = 1
    MaxConnections = 1
    MaxCrashes = 1
SPECIFICATION FairSpec
CHECK_DEADLOCK FALSE
PROPERTY
    InspectionEnds
