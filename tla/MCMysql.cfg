\* One cursor, one prepared statement, a table of two keys.  WHERE CURRENT OF may
\* end the process: no deadlock check.
SPECIFICATION MySpec
VIEW MyView
CHECK_DEADLOCK FALSE
CONSTANTS
    Names = {"DEFAULT2"}
    NoName = ""
    MaxConnId = 2
    DefaultName <- MCDefaultName
    NorecCode = 100
    ConnectNames = {}
    AtNames = {""}
    HostIds = {FALSE}
    MaxVars = 1
    DriverCodes <- MCDriverCodes
    LibraryMissing = FALSE
    NoStmt = "-"
    MaxKey = 2
    UniqueIndex = TRUE
    CursorNames = {"C1"}
    StmtNames = {"S1"}
    Statements = {"COMMIT", "ROLLBACK", "INSERT", "UPDATE", "SELECT"}
    OffModes = {TRUE}
INVARIANTS
    OpenCursorsHaveStatements
PROPERTIES
    PositionedHitsFetchedRow
    NorecMeansEndOfData
    ImplementsAbstractCursor
