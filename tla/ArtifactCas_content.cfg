SPECIFICATION Spec
CONSTANTS
    a1 = a1
    a2 = a2
    r1 = r1
    safe = safe
    source = source
    None = None
    Artifacts <- TheArtifacts
    Runs <- TheRuns
    Metas <- TheMetas
    Collectable <- TheCollectable
    Damages = FALSE
    MaxBackups = 0
INVARIANT
    ReferencedHasContent
