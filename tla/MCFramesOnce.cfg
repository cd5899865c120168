SPECIFICATION Spec
CONSTANTS
    Sets264 = {p, q}
    Sets265 = {}
    Announces = {TRUE}
    MidSession = FALSE
    Battery = TRUE
    Configs <- OneConfig
    FFmpegFails = FALSE
    Outrun = FALSE
    SetupRaces = FALSE
    None = None
INVARIANTS
    ReplayOnceStreamed
