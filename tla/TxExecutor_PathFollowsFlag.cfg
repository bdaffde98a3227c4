SPECIFICATION Spec
CONSTANTS
    NULL = NULL
    MaxIntercepts = 2
INVARIANT PathFollowsFlag
CHECK_DEADLOCK FALSE
