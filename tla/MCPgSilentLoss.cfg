\* Native cursors: the transaction end sends CLOSE for cursors that are not open.
SPECIFICATION PgSpec
CONSTANTS
    Names = {"DEFAULT2"}
    NoName = ""
    MaxConnId = 2
    DefaultName <- MCDefaultName
    NorecCode = 100
    ConnectNames = {}
    AtNames = {""}
    HostIds = {FALSE}
    MaxVars = 1
    DriverCodes <- MCDriverCodes
    LibraryMissing = FALSE
    NoStmt = "-"
    MaxRows = 2
    CursorNames = {"C1"}
    StmtNames = {}
    Statements = {"COMMIT", "INSERT"}
    NativeCursors = TRUE
    OffModes = {TRUE}
PROPERTIES
    NoSilentLoss
