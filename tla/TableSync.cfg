SPECIFICATION Spec
CONSTANTS
    Procs <- MCProcs
    Fields <- MCFields
    Tables0 <- MCTables0
    NoTable = NoTable
INVARIANTS
    TypeOK
    OkMeansSynced
    ResyncSucceeds
