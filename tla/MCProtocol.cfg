SPECIFICATION FairSpec
CONSTANTS
    Asker = asker
    Server = server
    ReqIds = {1, 2}
    RpyIds = {1, 2}
    MaxPending = 2
    MaxNet = 2
    MaxCrashes = 1
    Reuse = FALSE
    NoPid = NoPid
    NoReq = NoReq
    NoRpy = NoRpy
INVARIANTS
    PendingCoversUnacked
PROPERTIES
    OrphansEnd
