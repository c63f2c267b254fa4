SPECIFICATION FairSpec
CONSTANTS
    short = short
    long = long
    Nodes = {n1, n2}
    NoNode = NoNode
    Msgs = {short, long}
    Size <- Lengths
    HDR = 2
    CAPACITY = 8
    Bufs = {b1, b2, b3}
    NoBuf = NoBuf
INVARIANTS
    TypeOK
    PartialIsLast
PROPERTIES
    Implements
    PacketsLeave
