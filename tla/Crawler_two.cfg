SPECIFICATION Spec
CONSTANTS
    Workers = {w1, w2}
    a = a
    none = none
    rel = rel
    css = css
    Urls <- MCUrls
    Root = a
    NoHost = none
    Relative <- MCRelative
    Filtered <- MCFiltered
    Page <- MCPage
    StalePages <- MCStale
    Known <- MCKnown
    TimeOut = 1
    MaxFaults = 1
    MaxOffline = 2
CHECK_DEADLOCK FALSE
INVARIANTS
    TypeOK
    AddedOnce
    RecordedIsQueued
    NothingLeftBehind
    OneMoreAfterSignal
    TearDownAlone
PROPERTIES
    Terminates
