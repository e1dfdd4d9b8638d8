SPECIFICATION LoaderSpec
CONSTANTS
    Nodes = {n1, n2, n3, n4}
    Paths <- MCPlain
    Values = {"v"}
    NULL = NULL
    Scalars <- MCScalars
    Mangle <- MCMangle
    Index <- MCIndex
    Unmangled = {}
    MaxEvents = 9
SYMMETRY MCSymmetry
CHECK_DEADLOCK FALSE
INVARIANTS
    OneCallEach
    AllInTree
    FileUnderstood
PROPERTIES
    SetForGood
