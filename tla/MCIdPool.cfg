SPECIFICATION Spec
CONSTANTS
    SIZE = 4
    IdSpace = 16
INVARIANTS
    TypeOK
    FreeListExact
    LookupIsExact
PROPERTIES
    Implements
