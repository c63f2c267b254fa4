SPECIFICATION FairSpec
CONSTANTS
    Openings <- Lines
    Frames <- FramesOfClients
    Sizes = {126}
    AckSizes = {4}
    MaxFrames = 2
    MaxData = 2
    Window = 3
    BufSize = 3
INVARIANTS
    FramesWhole
    AckFirst
PROPERTIES
    Implements
    Relayed
CHECK_DEADLOCK FALSE
