SPECIFICATION Spec
CONSTANTS
    NULL = NULL
    MaxIntercepts = 2
INVARIANT FailedFinishSurfaces
CHECK_DEADLOCK FALSE
