SPECIFICATION Spec
CONSTANTS
    NULL = NULL
    MaxIntercepts = 2
PROPERTY TxLeavesGuardOnlyByHandoff
CHECK_DEADLOCK FALSE
