\* CompletedHasEvidence as the documents state it, against the code.
CONSTANTS
    Runs = {r1}
    Stages = {s1}
    Owners = {w1}
    Artifacts = {}
    Keys = {}
    None = None
    Resources <- MCResources
    Budgets <- MCBudgets
    Deltas <- MCDeltas
    Authorities <- MCAuthorities
    AttemptCaps = {2}
    Ttls = {1}
    U64Max = 3
    MaxClock = 1
    MaxIdem = 0
SPECIFICATION Spec
CHECK_DEADLOCK FALSE
INVARIANT
    CompletedHasEvidence
