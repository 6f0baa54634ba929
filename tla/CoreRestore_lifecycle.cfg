\* One run with one stage and two workers in full, or with artifacts, a second stage or a
\* backup for a short time: leases, attempts, budgets and the receipt, cancellation,
\* recovery and imports.
CONSTANTS
    Runs = {r1}
    Stages = {s1, s2}
    Owners = {w1, w2}
    Artifacts = {x1}
    Keys = {}
    None = None
    Resources <- MCResources
    Budgets <- MCBudgets
    Deltas <- MCDeltas
    Authorities <- MCAuthorities
    AttemptCaps = {1, 2}
    Ttls = {1}
    U64Max = 2
    MaxClock = 2
    MaxIdem = 0
    MaxBackups = 1
SPECIFICATION RestoreSpec
CHECK_DEADLOCK FALSE
CONSTRAINT Explored
SYMMETRY Symmetric
INVARIANTS
    TypeOK
    SpendWithinApproval
    ReceiptSound
    LeaseDiscipline
    RevokedIsQuiesced
PROPERTIES
    ClosedStaysClosed
    EveryChangeHasEvent
    AttemptFencesLease
