\* Two starts at one endpoint with a socket directory of its own, and a client that takes
\* three events in pages of two and tries each request twice.
CONSTANTS
    MaxStarts = 2
    ShortPath = TRUE
    None = None
    MaxEvents = 3
    PageLimit = 2
    Attempts = 2
SPECIFICATION FairSpec
CHECK_DEADLOCK FALSE
INVARIANTS
    ServingIsReachable
    LoneStartServes
    WatchSkipsNothing
PROPERTY
    RequestIsConcluded
