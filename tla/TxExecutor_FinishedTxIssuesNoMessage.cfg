SPECIFICATION Spec
CONSTANTS
    NULL = NULL
    MaxIntercepts = 2
INVARIANT FinishedTxIssuesNoMessage
CHECK_DEADLOCK FALSE
