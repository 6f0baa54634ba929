SPECIFICATION Spec
CONSTANTS
    a1 = a1
    a2 = a2
    r1 = r1
    safe = safe
    source = source
    None = None
    Artifacts <- TheArtifacts
    Runs <- TheRuns
    Metas <- TheMetas
    Collectable <- TheCollectable
    Damages = TRUE
    MaxBackups = 1
SYMMETRY ArtifactSymmetry
INVARIANTS
    TypeOK
    ReferencedHasRow
    RowKeepsContent
PROPERTIES
    QuarantineIsKept
