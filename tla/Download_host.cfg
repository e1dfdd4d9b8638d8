SPECIFICATION Spec
CONSTANTS
    None = None
    Workers = {w1, w2}
    Hosts = {ha, hb}
    Numeric = {}
    Descs <- MCDescs
    Retries = 0
    MaxPages = 2
    MaxChunks = 0
CHECK_DEADLOCK FALSE
INVARIANTS
    RightHost
