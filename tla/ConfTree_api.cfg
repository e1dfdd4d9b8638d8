SPECIFICATION Spec
CONSTANTS
    Nodes = {n1, n2, n3, n4, n5}
    Paths <- MCPaths
    Values = {v1, v2}
    NULL = NULL
SYMMETRY MCSymmetry
CHECK_DEADLOCK FALSE
INVARIANTS
    NoDangling
    ParentsAgree
    SiblingsDiffer
    NothingLost
PROPERTIES
    ImplementsDb
