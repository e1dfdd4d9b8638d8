SPECIFICATION Spec
CONSTANTS
    DBKeys <- MCDBKeys
    TopKeys <- MCTopKeys
    SystemKeys <- MCSystemKeys
    Required <- MCRequired
    NULL = NULL
CHECK_DEADLOCK FALSE
INVARIANTS
    MissingKeyIsError
