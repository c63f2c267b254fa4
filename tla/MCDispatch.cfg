SPECIFICATION FairSpec
CONSTANTS
    Nodes = {1, 2, 3, 4, 5}
    McNode = 1
    Names = {"HOST", "VIRT", "FAR", "MCAST", "%%%%%%"}
    HostName = "HOST"
    TempName = "%%%%%%"
    Addrs = {"me", "mc", "a", "b"}
    MyAddr = "me"
    McAddr = "mc"
    Fallback = TRUE
    ReqIds = {1}
    Slots = {1, 2}
    Packets <- FromFar
    Answers <- FarAnswers
    Asked = {4}
    Writes <- Tables
    Changes <- Added
INVARIANTS
    CancelFindsReply
    MyNodeIsMine
PROPERTIES
    MoveEndsWork
    TableArrives
CHECK_DEADLOCK FALSE
