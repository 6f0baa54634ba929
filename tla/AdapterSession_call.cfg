\* One call with every kind of refusal, an adapter that may send anything, fork, escape,
\* exit or stay silent, a caller that may cancel and a deadline that may strike anywhere.
CONSTANTS
    None = None
    Dimensions = {"frame", "depth"}
    Floor <- MCFloor
    Ceiling <- MCCeiling
    MaxBudget = 1
    MaxPoll = 1
    Configs <- MCConfigs
    Requests <- MCRequests
    PeerFrames <- MCPeerFrames
    MaxStderr = 1
    MaxFrames = 3
    MaxUnread = 1
SPECIFICATION FairSpec
CHECK_DEADLOCK FALSE
INVARIANTS
    TypeOK
    AnnouncedLimitsHold
PROPERTIES
    CallKeepsPromise
    StartedCallReturns
