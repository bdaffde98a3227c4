SPECIFICATION Spec
CONSTANTS
    NULL = NULL
    MaxIntercepts = 2
INVARIANTS
    TypeOK
PROPERTIES
    DoneOnlyOnSuccess
    DisposalSettles
CHECK_DEADLOCK FALSE
