SPECIFICATION FairSpec
CONSTANTS
    FbIds = {f1, f2}
    SilIds = {s1, s2}
    NoId = NoId
    CanFallback = FALSE
    HasAudio = TRUE
    CanRebuild = TRUE
    FallbackFails = TRUE
    SlowSteps = TRUE
INVARIANTS
    OneVideoSource
    OneAudioSource
PROPERTIES
    SessionEnds
