\* The parameters of a positioned statement written $1, $2...: the default of gixpp.
\* WHERE CURRENT OF may end the process: no deadlock check.
SPECIFICATION SqSpec
VIEW SqView
CHECK_DEADLOCK FALSE
CONSTANTS
    Names = {"DEFAULT2"}
    NoName = ""
    MaxConnId = 2
    DefaultName <- MCDefaultName
    NorecCode = 100
    ConnectNames = {}
    AtNames = {""}
    HostIds = {FALSE}
    MaxVars = 1
    DriverCodes <- MCDriverCodes
    LibraryMissing = FALSE
    NoStmt = "-"
    MaxKey = 2
    CursorNames = {"C1"}
    StmtNames = {}
    Statements = {"COMMIT", "INSERT"}
    OffModes = {TRUE}
    Styles = {"dollar"}
PROPERTIES
    PositionedHitsFetchedRow
