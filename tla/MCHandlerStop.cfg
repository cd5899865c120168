SPECIFICATION FairSpec
CONSTANTS
    FbIds = {f1, f2}
    SilIds = {s1}
    NoId = NoId
    CanFallback = TRUE
    HasAudio = FALSE
    CanRebuild = TRUE
    FallbackFails = FALSE
    SlowSteps = FALSE
PROPERTIES
    StopReturns
    RebuildCompletes
