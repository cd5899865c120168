SPECIFICATION FairSpec
CONSTANTS
    main = main
    sub = sub
    other = other
    cam = cam
    cam2 = cam2
    Streams = {main, sub, other}
    Gates = {cam, cam2}
    GateOf <- Hosts
    Free = Free
    Pause = Pause
INVARIANTS
    TypeOK
    OneHandshakePerGate
PROPERTIES
    TakesTurns
    WaitEnds
