SPECIFICATION Spec
CONSTANTS
    Tasks = {x1, x2}
    NoTask = NoTask
    NoInfo = NoInfo
    ShortIds = {1}
    ExtIds = {2}
    Names = {"a", "b"}
    Ports = {1, 2}
    PidOf <- Processes
    p1 = p1
    NoPid = NoPid
    Rank <- Order
    Groups = {group}
    group = group
    NoGroup = NoGroup
    GroupOf <- OneGroup
SYMMETRY SameAddresses
PROPERTIES
    UsmStaysInName
