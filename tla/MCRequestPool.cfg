SPECIFICATION Spec
CONSTANTS
    t1 = t1
    t2 = t2
    p1 = p1
    NoPid = NoPid
    Tasks = {t1, t2}
    Pid <- OneProcess
    Port <- OnePort
    ReqIds = {1, 2}
    Nodes = {n1, m1}
    McNodes = {m1}
    Senders = {n1, n2}
    Names = {name}
    AskedTmos = {0, 3}
    MinTmo = 1
    MaxTmo = 2
    KilledNodes = {n1}
    NoReq = NoReq
SYMMETRY SameTasks
INVARIANTS
    TypeOK
    OwnershipAgrees
PROPERTIES
    RequesterTold
    ReplierTold
    HeaderTellsTruth
