SPECIFICATION Spec
CONSTANTS
    Sets264 = {p, q}
    Sets265 = {r}
    Announces = {TRUE}
    MidSession = FALSE
    Battery = TRUE
    Configs <- AnyConfig
    FFmpegFails = TRUE
    Outrun = FALSE
    SetupRaces = FALSE
    None = None
INVARIANTS
    TypeOK
    ReplayFits
    OwnSetsFit
    SdpDescribesCamera
    KindTells
    NeutralFollowsCamera
PROPERTIES
    FollowsPolicy
