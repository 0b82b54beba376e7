\* Up to three connections whose names can meet: the program may call one
\* DEFAULT3.  Host variables, and a driver library that may be missing: then the
\* process dies and nothing follows, hence no deadlock check.  The loop of
\* DISCONNECT ALL is fair.
SPECIFICATION FairSpec
CHECK_DEADLOCK FALSE
CONSTANTS
    Names <- MCNames
    NoName = ""
    MaxConnId = 4
    DefaultName <- MCDefaultName
    CursorNames = {}
    NorecCode = 100
    ConnectNames = {"CONN1", "DEFAULT3"}
    AtNames = {"", "DEFAULT3"}
    HostIds = {FALSE}
    MaxVars = 1
    DriverCodes = {0, 7}
    LibraryMissing = TRUE
INVARIANTS
    TypeOK
    RegistryConsistent
    ResetAllComplete
PROPERTIES
    ResetAllEnds
    SqlcodeMatchesResult
