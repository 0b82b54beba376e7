\* Emulated cursors, with autocommit Off and Native.
\* A FETCH after COMMIT ends the process: no deadlock check.
SPECIFICATION PgSpec
VIEW PgView
CHECK_DEADLOCK FALSE
CONSTANTS
    Names = {"DEFAULT2"}
    NoName = ""
    MaxConnId = 2
    DefaultName <- MCDefaultName
    NorecCode = 100
    ConnectNames = {}
    AtNames = {""}
    HostIds = {FALSE}
    MaxVars = 1
    DriverCodes <- MCDriverCodes
    LibraryMissing = FALSE
    NoStmt = "-"
    MaxRows = 2
    CursorNames = {"C1"}
    StmtNames = {"S1"}
    Statements = {"COMMIT", "INSERT", "SELECT"}
    NativeCursors = FALSE
    OffModes = {TRUE, FALSE}
INVARIANTS
    PgTypeOK
    OpenCursorsHaveResults
PROPERTIES
    NoSilentLoss
    ImplementsAbstractCursor
