\* One run with one stage and a client that repeats its calls: any one of the operations with an
\* idempotency key, again and again in every later state and among all calls without a key;
\* and a cancellation that is driven to its end.
CONSTANTS
    Runs = {r1}
    Stages = {s1}
    Owners = {w1}
    Artifacts = {}
    Keys = {k1}
    None = None
    Resources <- MCResources
    Budgets <- MCBudgets
    Deltas <- MCDeltas
    Authorities <- MCAuthorities
    AttemptCaps = {2}
    Ttls = {1}
    U64Max = 3
    MaxClock = 1
    MaxIdem = 1
SPECIFICATION FairSpec
CHECK_DEADLOCK FALSE
PROPERTIES
    KeyTakesEffectOnce
    RequestedCancelCompletes
