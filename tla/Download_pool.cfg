SPECIFICATION Spec
CONSTANTS
    None = None
    Workers = {w1, w2}
    Hosts = {ha, ip}
    Numeric = {ip}
    Descs <- MCDescs
    Retries = 1
    MaxPages = 2
    MaxChunks = 1
CHECK_DEADLOCK FALSE
INVARIANTS
    TypeOK
    OpenIsAccounted
    OwnDescriptor
PROPERTIES
    PageEnds
