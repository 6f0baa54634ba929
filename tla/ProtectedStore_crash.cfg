SPECIFICATION FairSpec
CONSTANTS
    e1 = e1
    e2 = e2
    k1 = k1
    None = None
    Envelopes = {e1, e2}
    WrappingKeys = {k1}
    KeyOf <- SharedKey
    Manifests <- SingleAndPair
INVARIANTS
    TypeOK
    StoredIsAccountedFor
    PinnedIsStored
    HandedManifestPins
PROPERTIES
    KeyDestroyedWhenUnused
    InterruptedDeletionResumes
