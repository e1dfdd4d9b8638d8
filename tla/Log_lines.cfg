SPECIFICATION Spec
CONSTANTS
    Threads = {t1, t2}
    DayLength = 2
    LastTick = 3
    MaxLines = 3
CHECK_DEADLOCK FALSE
INVARIANTS
    LinesWhole
