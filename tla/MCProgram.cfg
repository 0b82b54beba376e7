\* One program, reconnecting once, with every kind of WHENEVER action.
SPECIFICATION ProgSpec
VIEW ProgView
CONSTANTS
    Names <- MCNames
    NoName = ""
    MaxConnId = 3
    DefaultName <- MCDefaultName
    CursorNames = {"C1", "C2"}
    NorecCode = 100
    ConnectNames = {}
    AtNames = {""}
    HostIds = {FALSE}
    MaxVars = 1
    DriverCodes = {7}
    LibraryMissing = FALSE
    Program <- MCProgram
    Declaration <- MCDeclaration
    Handlers = {"CONTINUE", "GO_TO", "PERFORM"}
INVARIANTS
    ProgTypeOK
    FlagsAgree
    OpenIsTruthful
    OwnVariables
    RefusedIsReported
PROPERTIES
    DroppedForGood
