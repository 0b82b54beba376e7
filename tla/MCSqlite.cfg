\* One cursor, one prepared statement, a table of two keys.  WHERE CURRENT OF may
\* end the process: no deadlock check.
SPECIFICATION SqSpec
VIEW SqView
CHECK_DEADLOCK FALSE
CONSTANTS
    Names = {"DEFAULT2"}
    NoName = ""
    MaxConnId = 2
    DefaultName <- MCDefaultName
    NorecCode = 100
    ConnectNames = {}
    AtNames = {""}
    HostIds = {FALSE}
    MaxVars = 1
    DriverCodes <- MCDriverCodes
    LibraryMissing = FALSE
    NoStmt = "-"
    MaxKey = 2
    CursorNames = {"C1"}
    StmtNames = {"S1"}
    Statements = {"BEGIN", "COMMIT", "ROLLBACK", "INSERT", "SELECT"}
    OffModes = {TRUE}
    Styles = {"none", "anonymous", "dollar"}
INVARIANTS
    OpenCursorsHaveStatements
PROPERTIES
    NoRowSkipped
    PositionedTouchesOnlyFetched
    TransactionEndsTruthful
    FailuresAreErrors
