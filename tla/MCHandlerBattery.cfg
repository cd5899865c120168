SPECIFICATION Spec
CONSTANTS
    FbIds = {f1, f2, f3}
    SilIds = {s1, s2}
    NoId = NoId
    CanFallback = TRUE
    HasAudio = TRUE
    CanRebuild = TRUE
    FallbackFails = FALSE
    SlowSteps = TRUE
SYMMETRY Symmetry
INVARIANTS
    TypeOK
    AsleepHasFallback
    AtMostTwoWriters
    RecordedIsLive
    StatusFollowsLoop
    SilenceReachable
    NoWriterDuringRebuild
    StopJoinsAll
