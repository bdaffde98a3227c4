SPECIFICATION Spec
CONSTANTS
    NULL = NULL
    MaxIntercepts = 1
    Sqls <- MCSqls
    Capacity = 1
    MaxPending = 1
    MaxStatementId = 1
    MaxCancels = 1
    Lossy = TRUE
INVARIANTS
    FinishedMeansIdle
PROPERTIES
    ImplementsTxExecutor
    DisposalSettles
CHECK_DEADLOCK FALSE
