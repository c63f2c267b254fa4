SPECIFICATION FairSpec
CONSTANTS
    t1 = t1
    t2 = t2
    p1 = p1
    NoPid = NoPid
    Tasks = {t1}
    Pid <- OnlyT1HasPid
    Port <- OnePort
    ReqIds = {1, 2, 3}
    Nodes = {n1}
    McNodes = {}
    Senders = {n1, n2}
    Names = {name}
    AskedTmos = {0, 3}
    MinTmo = 1
    MaxTmo = 2
    KilledNodes = {}
    NoReq = NoReq
INVARIANTS
    TimersExact
PROPERTIES
    NeverSleepsOverdue
    TimersTerminate
    SingleEnds
