SPECIFICATION Spec
CONSTANTS
    Workers = {w1, w2}
    Main = main
    Nodes = {n1, n2, n3}
    NULL = NULL
    HEAD = HEAD
    MaxFile = 4
CHECK_DEADLOCK FALSE
INVARIANTS
    TypeOK
    WellLinked
    SizeIsLength
    OnePlace
    NothingLeaked
PROPERTIES
    ImplementsFifo
    LockReleased
