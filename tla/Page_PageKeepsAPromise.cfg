SPECIFICATION Spec
CONSTANTS
    Width = 3
    DEFAULT_PAGE_SIZE = 2
    MaxRecords = 1
INVARIANT PageKeepsAPromise
CHECK_DEADLOCK FALSE
