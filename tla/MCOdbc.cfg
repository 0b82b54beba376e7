\* One cursor, one prepared statement, with autocommit Off.
SPECIFICATION OdSpec
VIEW OdView
CONSTANTS
    Names = {"DEFAULT2"}
    NoName = ""
    MaxConnId = 2
    DefaultName <- MCDefaultName
    NorecCode = 100
    ConnectNames = {}
    AtNames = {""}
    HostIds = {FALSE}
    MaxVars = 1
    DriverCodes <- MCDriverCodes
    LibraryMissing = FALSE
    NoStmt = "-"
    MaxRows = 2
    InfoCodes = {7}
    CursorNames = {"C1"}
    StmtNames = {"S1"}
    Statements = {"COMMIT", "ROLLBACK", "INSERT", "UPDATE", "UPDATE_CURRENT", "SELECT"}
    OffModes = {TRUE, FALSE}
INVARIANTS
    LostSessionRefused
    OpenCursorsHaveStatements
PROPERTIES
    NorecMeansEndOfData
    ErrorsChangeNothing
    ImplementsAbstractCursor
