\* A fetch over https with two connections, or over ssh with one and the agent relay:
\* every process may fail, every wait may end, at any step.
CONSTANTS
    None = None
    NoTree = NoTree
    Site = Site
    Elsewhere = Elsewhere
    Public = Public
    Private = Private
    Pinned = Pinned
    OtherHost = OtherHost
    Chosen = Chosen
    OtherKey = OtherKey
    Connections = {1, 2}
    MaxConnections = 2
    MaxTunnel = 3
    MaxHeaders = 2
    Destination = Site
    Global = {Public}
    ConnectRequests <- MCConnectRequests
    Answers <- MCAnswers
    MaxSignatures = 2
    HostKey = Pinned
    SelectedKey = Chosen
    ClientFrames <- MCClientFrames
    Trees <- MCTrees
    MaxFiles = 3
    MaxFileBytes = 2
    MaxTotal = 3
    MaxBundle = 16
    Frame = 3
SPECIFICATION FairSpec
CHECK_DEADLOCK FALSE
INVARIANTS
    TypeOK
    TrafficIsAccountedFor
    SignaturesAreGranted
    BundleIsSelection
    AcceptedIsVouchedFor
PROPERTIES
    DoneIsAnswered
