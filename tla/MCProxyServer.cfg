SPECIFICATION FairSpec
CONSTANTS
    Names = {"cam", "low_cam"}
    Low <- LowName
    Streams = {s1, s2, s3, s4, s5}
    Consumers = {v}
    None = None
INVARIANTS
    TypeOK
    WritesReachConsumers
    ReadersAreFed
PROPERTIES
    ShutsDown
