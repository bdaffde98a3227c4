SPECIFICATION Spec
CONSTANTS
    NULL = NULL
    Err = Err
    Leaves <- MCLeaves
    Bits <- MCBits
    to_array_element <- MCArrayElement
    Names = {"DateTime"}
    Keys = {"id"}
    MaxDepth = 4
    MaxLen = 2
INVARIANT BorrowsFromArgument
CHECK_DEADLOCK FALSE
