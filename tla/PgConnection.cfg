SPECIFICATION Spec
CONSTANTS
    Sqls <- MCSqls
    Capacity = 1
    MaxPending = 2
    MaxStatementId = 2
    MaxCancels = 1
    Lossy = TRUE
INVARIANTS
    TypeOK
    PipelineAccounting
    ReadyIsSynchronised
    ResultsBelongToRequest
    CachedStatementsArePrepared
    NoStatementLeak
    NoProtocolError
PROPERTIES
    CallReturns
    ImplementsStatementCache
    EvictionSettledBeforeAdmit
CHECK_DEADLOCK FALSE
