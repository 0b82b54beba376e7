\* Native cursors.
SPECIFICATION PgSpec
SYMMETRY CursorSymmetry
VIEW PgCursorView
CONSTANTS
    C1 = C1
    C2 = C2
    NoStmt = NoStmt
    Names = {"DEFAULT2"}
    NoName = ""
    MaxConnId = 2
    DefaultName <- MCDefaultName
    NorecCode = 100
    ConnectNames = {}
    AtNames = {""}
    HostIds = {FALSE}
    MaxVars = 1
    DriverCodes <- MCDriverCodes
    LibraryMissing = FALSE
    MaxRows = 2
    CursorNames = {C1, C2}
    StmtNames = {}
    Statements = {"COMMIT", "COMMIT_WORK", "ROLLBACK", "UPDATE"}
    NativeCursors = TRUE
    OffModes = {TRUE}
PROPERTIES
    TransactionRestarted
    HeldCursorsStay
    NorecMeansEndOfData
    ImplementsAbstractCursor
