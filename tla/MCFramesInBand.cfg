SPECIFICATION Spec
CONSTANTS
    Sets264 = {p}
    Sets265 = {}
    Announces = {FALSE}
    MidSession = FALSE
    Battery = TRUE
    Configs <- OneConfig
    FFmpegFails = FALSE
    Outrun = FALSE
    SetupRaces = FALSE
    None = None
INVARIANTS
    ReplayFits
