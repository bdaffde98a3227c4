SPECIFICATION MCSpec
CONSTANTS
    Bytes <- MCBytes
    MaxLen = 7
    Lexemes <- MCLexemes
    Params <- MCParams
    rbatis_name = "rb"
    MaxSql = 4
    MaxParams = 3
    None = None
    Error = Error
    Res = 2
    Local = 4
    Offsets <- MCOffsets
    Clock <- MCClock
    MaxTimestamp = 2
INVARIANTS
    TypeOK
    FindsThePlaceholders
    UnpackingUndoesQuoting
    FetchesOnlyQueries
    ArgsAreTheParameters
    PageTypeOK
    GetPagesIsCeiling
    PagesCoverTotal
    ChronoTypeOK
    RoundTrip
    TextIsItsInstant
    JulianDayWithinASecond
CHECK_DEADLOCK FALSE
