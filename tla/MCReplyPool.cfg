SPECIFICATION Spec
CONSTANTS
    t1 = t1
    t2 = t2
    p1 = p1
    NoPid = NoPid
    Tasks = {t1, t2}
    Pid <- OneProcess
    Port <- OnePort
    RpyIds = {1, 2}
    Nodes = {n1}
    ReqIds = {q1, q2}
    Clnts = {c1}
    MaxPending = 1
    KilledNodes = {n1}
    Kinds <- ManyKinds
    NoRpy = NoRpy
SYMMETRY SameTasks
INVARIANTS
    TypeOK
    OwnersListen
    OwnershipAgrees
    MapSound
PROPERTIES
    RequesterAnswered
    OwnerTold
    FinalMeansEnd
