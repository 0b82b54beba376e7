\* Two cursors over a named and a default connection.
SPECIFICATION Spec
SYMMETRY CursorSymmetry
VIEW StateView
CONSTANTS
    C1 = C1
    C2 = C2
    Names <- MCNames
    NoName = ""
    MaxConnId = 3
    DefaultName <- MCDefaultName
    CursorNames = {C1, C2}
    NorecCode = 100
    ConnectNames = {"CONN1"}
    AtNames = {"", "CONN1"}
    HostIds = {TRUE, FALSE}
    MaxVars = 0
    DriverCodes = {0, 7, 100}
    LibraryMissing = FALSE
INVARIANTS
    NoNullInterface
    CursorStateAgreement
PROPERTIES
    OneConnectionPerCall
    DefinitionsOutliveTransactions
    SqlcodeMatchesResult
