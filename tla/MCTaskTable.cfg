SPECIFICATION Spec
CONSTANTS
    Tasks = {x1, x2, x3}
    NoTask = NoTask
    NoInfo = NoInfo
    ShortIds = {1}
    ExtIds = {2, 3}
    Names = {"a", "b", "group"}
    Ports = {1, 2}
    PidOf <- Processes
    p1 = p1
    NoPid = NoPid
    Rank <- Order
    Groups = {group}
    group = group
    NoGroup = NoGroup
    GroupOf <- OneGroup
SYMMETRY SameAddresses
INVARIANTS
    TypeOK
    TablesAgree
    DeletedOnce
    GroupsCounted
PROPERTIES
    LeavesForCause
    Implements
