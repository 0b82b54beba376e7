--------------------------- MODULE GixSqlRuntime ---------------------------
(***************************************************************************)
(* The entry points of libgixsql (gixsql.cpp) over the connection and the  *)
(* cursor registry.  A preprocessed COBOL program is one thread that makes *)
(* these calls one after the other, in any order and with any arguments;   *)
(* each call is one action, DISCONNECT ALL one action per connection of    *)
(* its loop.  The driver behind IDbInterface is abstract: it may fail any  *)
(* call, with an error code of its own or with none, and it cannot succeed *)
(* on a session whose handle it has lost.                                  *)
(***************************************************************************)
EXTENDS CursorManager, Sqlca

CONSTANTS
    ConnectNames,   \* the names the program uses in CONNECT ... AS
    AtNames,        \* the connection ids it uses in AT, DISCONNECT and host variables
    HostIds,        \* how it gives a cursor's connection id: TRUE, in a host variable
    MaxVars,        \* bound on the host variables of one statement
    DriverCodes,    \* the values of a driver's get_error_code()
    LibraryMissing  \* whether a driver library may be absent from the host

ASSUME RuntimeAssumption ==
    /\ ConnectNames \subseteq Names
    /\ AtNames \subseteq Names \cup {NoName}
    /\ HostIds \subseteq BOOLEAN
    /\ MaxVars \in Nat
    /\ DriverCodes \subseteq Int
    /\ DriverCodes \cap (Int \ {0}) # {}
    /\ LibraryMissing \in BOOLEAN

VARIABLES
    alive,      \* the process has not died
    cur_vars,   \* _current_sql_var_list.size()
    res_vars,   \* _res_sql_var_list.size()
    resetting,  \* the loop of GIXSQLConnectReset("*") is running
    pending,    \* the connections of its copy of the list still to be reset
    sqlcode,    \* what SQLCODE in the SQLCA tells the program
    ret         \* the last call: which, on what connection, with what result

varLists == <<cur_vars, res_vars>>
loopVars == <<resetting, pending>>
vars == <<connVars, curVars, varLists, loopVars, alive, sqlcode, ret>>

\* The calls the properties tell apart; "cursor" is DECLARE, OPEN, FETCH, CLOSE,
\* "first_row" a SELECT INTO that returns because move_to_first_record() failed.
Calls == {"none", "connect", "reset", "resetall", "disconnect", "exec",
          "first_row", "prepare", "cursor", "varlist"}
Results == {"SUCCESS", "FAILED", "FETCH_ROW_FAILED"}

TypeOK ==
    /\ ConnTypeOK
    /\ CurTypeOK
    /\ alive \in BOOLEAN
    /\ cur_vars \in 0..MaxVars
    /\ res_vars \in 0..MaxVars
    /\ resetting \in BOOLEAN
    /\ pending \subseteq ConnIds
    /\ sqlcode \in Outcomes
    /\ ret \in [call : Calls, conn : ConnIds \cup {NoConn}, rc : Results]

Init ==
    /\ ConnInit
    /\ CurInit
    /\ alive = TRUE
    /\ cur_vars = 0
    /\ res_vars = 0
    /\ resetting = FALSE
    /\ pending = {}
    /\ sqlcode = "zero"
    /\ ret = [call |-> "none", conn |-> NoConn, rc |-> "SUCCESS"]

---------------------------------------------------------------------------
(* What every call shares.                                                 *)

\* The program is between two calls.
Ready == alive /\ ~resetting

\* What setStatus(st, dbi, err) leaves for the program to see.
Status(code, err) == Outcome(setStatus(code, err))

\* The call returns rc and leaves outcome in SQLCODE.
Return(call, c, rc, outcome) ==
    /\ ret' = [call |-> call, conn |-> c, rc |-> rc]
    /\ sqlcode' = outcome

Succeed(call, c) == Return(call, c, "SUCCESS", Status(NoDbi, DBERR_NO_ERROR))

Fail(call, c, err) == Return(call, c, "FAILED", Status(NoDbi, err))

\* FAIL_ON_ERROR with the driver's own error code, if it has one.
DriverFail(call, c, err) ==
    \E code \in DriverCodes : Return(call, c, "FAILED", Status(code, err))

\* What a driver call on connection c can return.  On a session that was terminated
\* a call may still succeed: SQLite runs what was prepared before sqlite3_close_v2().
DriverResults(c) == IF conn[c].session \in {"live", "closed"} THEN BOOLEAN ELSE {FALSE}

StateUnchanged == UNCHANGED <<connVars, curVars, varLists, loopVars, alive>>

---------------------------------------------------------------------------
(* CONNECT.                                                                *)

ConnectDuplicate(n) ==
    /\ n # NoName
    /\ exists(n)
    /\ Return("connect", name_map[n], "FAILED", Status(NoDbi, DBERR_NO_ERROR))
    /\ StateUnchanged

\* The data source does not parse, the type is unknown, or connect() fails.
ConnectFails(n) ==
    /\ n # NoName => ~exists(n)
    /\ \/ Fail("connect", NoConn, DBERR_CONN_INIT_ERROR)
       \/ Fail("connect", NoConn, DBERR_CONN_INVALID_DBTYPE)
       \/ DriverFail("connect", NoConn, DBERR_CONNECTION_FAILED)
    /\ StateUnchanged

\* load_dblib() stores the handle through the null interface it could not load.
ConnectNoLibrary(n) ==
    /\ LibraryMissing
    /\ n # NoName => ~exists(n)
    /\ alive' = FALSE
    /\ UNCHANGED <<connVars, curVars, varLists, loopVars, sqlcode, ret>>

(***************************************************************************)
(* The old default connection object dies with its last reference.  Its    *)
(* driver refers to the cursors declared on it and they to the connection, *)
(* so with one declared cursor it is never destroyed and its session stays *)
(* open.  The destructor of the ODBC driver frees the handle of a session  *)
(* it has not closed; the others close it.                                 *)
(***************************************************************************)
Destroyed(old) == ~conn[old].pinned /\ CursorsOf(old) = {}

SessionsAfterReplacing(old) ==
    IF old # NoConn /\ Destroyed(old) /\ conn[old].session = "live"
    THEN {"closed", "lost"}
    ELSE IF old # NoConn THEN {conn[old].session} ELSE {"none"}

ConnectOk(n) ==
    LET id  == next_conn_id + 1
        old == Replaced(n)
        new == [name |-> NameFor(n, id), dbi |-> TRUE,
                pinned |-> FALSE, session |-> "live"]
    IN  /\ n # NoName => ~exists(n)
        /\ next_conn_id < MaxConnId
        /\ add(n)
        /\ \E s \in SessionsAfterReplacing(old) :
              conn' = [i \in ConnIds |->
                          IF i = id THEN new
                          ELSE IF i = old THEN [conn[i] EXCEPT !.session = s]
                          ELSE conn[i]]
        /\ Succeed("connect", id)
        /\ UNCHANGED <<curVars, varLists, loopVars, alive>>

GIXSQLConnect(n) ==
    /\ Ready
    /\ \/ ConnectDuplicate(n)
       \/ ConnectFails(n)
       \/ ConnectNoLibrary(n)
       \/ ConnectOk(n)

---------------------------------------------------------------------------
(* DISCONNECT and CONNECT RESET.                                           *)

(***************************************************************************)
(* _gixsqlConnectReset on the connection c it found: its cursors leave the *)
(* registry first; then dbi->reset() fails (only ODBC's does: the handle   *)
(* of the session is dropped all the same) or the connection lets go of    *)
(* the driver and leaves the registry.                                     *)
(***************************************************************************)
ResetFails(call, c) ==
    /\ conn[c].session = "live"
    /\ clearConnectionCursors(c)
    /\ conn' = [conn EXCEPT ![c].session = "lost", ![c].pinned = FALSE]
    /\ DriverFail(call, c, DBERR_CONN_RESET_FAILED)
    /\ UNCHANGED registry

ResetOk(call, c) ==
    /\ clearConnectionCursors(c)
    /\ conn' = [conn EXCEPT ![c].dbi = FALSE, ![c].pinned = FALSE,
                            ![c].session = IF @ = "live" THEN "closed" ELSE @]
    /\ remove(c)
    /\ Succeed(call, c)
    /\ UNCHANGED next_conn_id

ResetNotFound(call) ==
    /\ Fail(call, NoConn, DBERR_CONN_NOT_FOUND)
    /\ UNCHANGED <<connVars, curVars>>

\* GIXSQLConnectReset with one connection id.
GIXSQLConnectReset(n) ==
    /\ Ready
    /\ \/ get(n) = NoConn /\ ResetNotFound("reset")
       \/ get(n) # NoConn /\ ResetFails("reset", get(n))
       \/ get(n) # NoConn /\ ResetOk("reset", get(n))
    /\ UNCHANGED <<varLists, loopVars, alive>>

\* GIXSQLConnectReset("*"): the loop takes a copy of the list.
ResetAllBegin ==
    /\ Ready
    /\ resetting' = TRUE
    /\ pending' = connections
    /\ UNCHANGED <<connVars, curVars, varLists, alive, sqlcode, ret>>

\* A loop that goes on with the same connection after a failure.
ResetAllStep_Retries ==
    /\ resetting
    /\ \E c \in pending :
          LET t == get(conn[c].name)
          IN  /\ \A d \in pending : c <= d
              /\ resetting' = TRUE
              /\ \/ t = NoConn /\ ResetNotFound("resetall") /\ pending' = pending
                 \/ t # NoConn /\ ResetFails("resetall", t) /\ pending' = pending
                 \/ t # NoConn /\ ResetOk("resetall", t) /\ pending' = pending \ {c}
    /\ UNCHANGED <<varLists, alive>>

\* One round resets whatever goes by the name of the next connection.
ResetAllStep ==
    /\ resetting
    /\ \E c \in pending :
          LET t == get(conn[c].name)
          IN  /\ \A d \in pending : c <= d
              /\ \/ /\ t = NoConn
                    /\ ResetNotFound("resetall")
                    /\ resetting' = FALSE
                    /\ pending' = {}
                 \/ /\ t # NoConn
                    /\ ResetFails("resetall", t)
                    /\ resetting' = FALSE
                    /\ pending' = {}
                 \/ /\ t # NoConn
                    /\ ResetOk("resetall", t)
                    /\ resetting' = TRUE
                    /\ pending' = pending \ {c}
    /\ UNCHANGED <<varLists, alive>>

ResetAllEnd ==
    /\ resetting
    /\ pending = {}
    /\ resetting' = FALSE
    /\ Succeed("resetall", NoConn)
    /\ UNCHANGED <<connVars, curVars, varLists, pending, alive>>

(***************************************************************************)
(* GIXSQLDisconnect, exported but not emitted by the preprocessor: the     *)
(* session ends, the connection stays registered.  ODBC's driver, the only *)
(* one whose terminate_connection() can fail, also lets go of its cursors. *)
(* An unknown connection leaves the SQLCA as it was.                       *)
(***************************************************************************)
TerminateFails(c) ==
    /\ conn[c].session = "live"
    /\ conn' = [conn EXCEPT ![c].session = "lost", ![c].pinned = FALSE]
    /\ DriverFail("disconnect", c, DBERR_DISCONNECT_FAILED)

TerminateOk(c) ==
    /\ \E pinned \in {conn[c].pinned, FALSE} :
          conn' = [conn EXCEPT ![c].pinned = pinned,
                               ![c].session = IF @ = "live" THEN "closed" ELSE @]
    /\ Succeed("disconnect", c)

GIXSQLDisconnect(n) ==
    /\ Ready
    /\ \/ /\ get(n) = NoConn
          /\ Return("disconnect", NoConn, "FAILED", sqlcode)
          /\ UNCHANGED <<connVars, curVars>>
       \/ /\ get(n) # NoConn
          /\ clearConnectionCursors(get(n))
          /\ TerminateFails(get(n)) \/ TerminateOk(get(n))
          /\ UNCHANGED registry
    /\ UNCHANGED <<varLists, loopVars, alive>>

---------------------------------------------------------------------------
(* Statements.  Of a query only its kind matters here: no text at all, the *)
(* text COMMIT or ROLLBACK, or anything else.                              *)

Queries == {"empty", "tx_end", "other"}

is_commit_or_rollback_statement(q) == q = "tx_end"

\* A size check that lets a statement go with variables missing.
ParamError_TooManyOnly(n) ==
    IF cur_vars > n THEN DBERR_TOO_MANY_ARGUMENTS ELSE DBERR_NO_ERROR

\* The size check of ExecParams, ExecPrepared and CursorDeclareParams.
ParamError(n) ==
    IF cur_vars > n THEN DBERR_TOO_MANY_ARGUMENTS
    ELSE IF cur_vars < n THEN DBERR_TOO_FEW_ARGUMENTS
    ELSE DBERR_NO_ERROR

\* The calls that look up the connection and the text before they do anything.
StatementRejected(call, c, q, err) ==
    /\ \/ c = NoConn /\ Fail(call, NoConn, DBERR_CONN_NOT_FOUND)
       \/ c # NoConn /\ q = "empty" /\ Fail(call, c, DBERR_EMPTY_QUERY)
       \/ c # NoConn /\ q # "empty" /\ err # DBERR_NO_ERROR /\ Fail(call, c, err)
    /\ StateUnchanged

\* COMMIT and ROLLBACK reach the driver's cursors before the statement does.
CursorsAtExec(c, q) ==
    IF is_commit_or_rollback_statement(q) THEN closeConnectionCursors(c) ELSE cursor

StatementAccepted(c, q, err) == c # NoConn /\ q # "empty" /\ err = DBERR_NO_ERROR

\* A COMMIT that removes the cursor definitions (the regression of issue #119).
Run_RemovesCursors(c, q, err) ==
    /\ StatementAccepted(c, q, err)
    /\ IF is_commit_or_rollback_statement(q) THEN clearConnectionCursors(c)
                                             ELSE UNCHANGED curVars
    /\ \/ TRUE \in DriverResults(c) /\ Succeed("exec", c)
       \/ DriverFail("exec", c, DBERR_SQL_ERROR)
    /\ UNCHANGED <<connVars, varLists, loopVars, alive>>

\* _gixsqlExec, _gixsqlExecParams and _gixsqlExecPrepared.
Run(c, q, err) ==
    /\ StatementAccepted(c, q, err)
    /\ cursor' = CursorsAtExec(c, q)
    /\ \/ TRUE \in DriverResults(c) /\ Succeed("exec", c)
       \/ DriverFail("exec", c, DBERR_SQL_ERROR)
    /\ UNCHANGED <<connVars, cursors, varLists, loopVars, alive>>

\* GIXSQLExec and GIXSQLExecImmediate.
GIXSQLExec(n, q) ==
    /\ Ready
    /\ \/ StatementRejected("exec", get(n), q, DBERR_NO_ERROR)
       \/ Run(get(n), q, DBERR_NO_ERROR)

GIXSQLExecParams(n, q, nParams) ==
    /\ Ready
    /\ \/ StatementRejected("exec", get(n), q, ParamError(nParams))
       \/ Run(get(n), q, ParamError(nParams))

\* A prepared statement never counts as COMMIT or ROLLBACK.
GIXSQLExecPrepared(n, q, nParams) ==
    /\ Ready
    /\ q # "tx_end"
    /\ \/ StatementRejected("exec", get(n), q, ParamError(nParams))
       \/ Run(get(n), q, ParamError(nParams))

(***************************************************************************)
(* The second half of a SELECT ... INTO: one row, as many columns as host  *)
(* variables, and every value fits its field; the last column that does    *)
(* not decides SQLCODE.  codes are the driver codes setStatus sees when    *)
(* there are too many rows.  When move_to_first_record() fails the error   *)
(* handed to setStatus is the driver's own code, be it zero.               *)
(***************************************************************************)
IntoResult(c, nRes, codes) ==
    \/ Return("exec", c, "FAILED", Status(DBERR_NO_DATA, DBERR_NO_DATA))
    \/ \E code \in DriverCodes :
          Return("first_row", c, "FAILED", Status(code, code))
    \/ \E nfields \in 0..MaxVars :
          nfields # nRes /\ Fail("exec", c, DBERR_FIELD_COUNT_MISMATCH)
    \/ \E code \in codes :
          Return("exec", c, "FAILED", Status(code, DBERR_TOO_MUCH_DATA))
    \/ res_vars > 0 /\ DriverFail("exec", c, DBERR_INVALID_COLUMN_DATA)
    \/ res_vars > 0 /\ DriverFail("exec", c, DBERR_NUM_OUT_OF_RANGE)
    \/ Succeed("exec", c)

RunInto(c, q, err, nRes, codes) ==
    /\ StatementAccepted(c, q, err)
    /\ cursor' = CursorsAtExec(c, q)
    /\ \/ DriverFail("exec", c, DBERR_SQL_ERROR)
       \/ TRUE \in DriverResults(c) /\ IntoResult(c, nRes, codes)
    /\ UNCHANGED <<connVars, cursors, varLists, loopVars, alive>>

\* The number of parameters is not checked against the list.
GIXSQLExecSelectIntoOne(n, q, nRes) ==
    /\ Ready
    /\ \/ StatementRejected("exec", get(n), q, DBERR_NO_ERROR)
       \/ RunInto(get(n), q, DBERR_NO_ERROR, nRes, DriverCodes)

GIXSQLExecPreparedInto(n, q, nParams, nRes) ==
    /\ Ready
    /\ q # "tx_end"
    /\ \/ StatementRejected("exec", get(n), q, ParamError(nParams))
       \/ RunInto(get(n), q, ParamError(nParams), nRes, {NoDbi})

\* On success PREPARE writes nothing to the SQLCA.
GIXSQLPrepareStatement(n, q) ==
    /\ Ready
    /\ \/ StatementRejected("prepare", get(n), q, DBERR_NO_ERROR)
       \/ /\ StatementAccepted(get(n), q, DBERR_NO_ERROR)
          /\ \/ DriverFail("prepare", get(n), DBERR_SQL_ERROR)
             \/ /\ TRUE \in DriverResults(get(n))
                /\ Return("prepare", get(n), "SUCCESS", sqlcode)
          /\ StateUnchanged

---------------------------------------------------------------------------
(* Cursors.                                                                *)

NewCursor(c, n, host, hold) ==
    [conn |-> c, at |-> n, ref |-> host /\ c = NoConn, hold |-> hold,
     open |-> FALSE, drv |-> IF c = NoConn THEN "undeclared" ELSE "declared"]

\* The driver of c, if there is one, has the cursor in _declared_cursors.
DeclaredOn(c) == IF c = NoConn THEN conn ELSE [conn EXCEPT ![c].pinned = TRUE]

(***************************************************************************)
(* _gixsqlCursorDeclare.  Without a connection the declaration stands and  *)
(* is completed by the first OPEN; a connection id given in a host         *)
(* variable is then kept by reference.                                     *)
(***************************************************************************)
Declare(x, n, host, hold) ==
    \/ /\ x \in cursors
       /\ Fail("cursor", get(n), DBERR_CURSOR_EXISTS)
       /\ UNCHANGED <<conn, curVars>>
    \/ /\ x \notin cursors
       /\ get(n) # NoConn
       /\ Fail("cursor", get(n), DBERR_DECLARE_CURSOR_FAILED)
       /\ UNCHANGED <<conn, curVars>>
    \/ /\ x \notin cursors
       /\ cursors' = cursors \cup {x}
       /\ cursor' = [cursor EXCEPT ![x] = NewCursor(get(n), n, host, hold)]
       /\ conn' = DeclaredOn(get(n))
       /\ Succeed("cursor", get(n))

DeclareRejected(n, err) ==
    /\ err # DBERR_NO_ERROR
    /\ Fail("cursor", get(n), err)
    /\ UNCHANGED <<conn, curVars>>

GIXSQLCursorDeclare(x, n, host, hold, q) ==
    /\ Ready
    /\ \/ q = "empty" /\ DeclareRejected(n, DBERR_EMPTY_QUERY)
       \/ q # "empty" /\ Declare(x, n, host, hold)
    /\ UNCHANGED <<registry, varLists, loopVars, alive>>

GIXSQLCursorDeclareParams(x, n, host, hold, q, nParams) ==
    /\ Ready
    /\ \/ q = "empty" /\ DeclareRejected(n, DBERR_EMPTY_QUERY)
       \/ q # "empty" /\ nParams = 0 /\ DeclareRejected(n, DBERR_NO_PARAMETERS)
       \/ q # "empty" /\ nParams # 0 /\ DeclareRejected(n, ParamError(nParams))
       \/ /\ q # "empty"
          /\ nParams # 0
          /\ ParamError(nParams) = DBERR_NO_ERROR
          /\ Declare(x, n, host, hold)
    /\ UNCHANGED <<registry, varLists, loopVars, alive>>

\* An order that asks the host variable, or the default, before the name.
OpenConnection_VariableFirst(x, hv) ==
    IF cursor[x].conn # NoConn THEN cursor[x].conn
    ELSE IF get(IF cursor[x].ref THEN hv ELSE NoName) # NoConn
    THEN get(IF cursor[x].ref THEN hv ELSE NoName)
    ELSE get(cursor[x].at)

(***************************************************************************)
(* The connection OPEN works on: the one the cursor has, else the one its  *)
(* connection_name finds, else the one the saved host variable names.  hv  *)
(* is what that variable holds now; with no variable saved the lookup is   *)
(* made with an empty name.                                                *)
(***************************************************************************)
OpenConnection(x, hv) ==
    IF cursor[x].conn # NoConn THEN cursor[x].conn
    ELSE IF get(cursor[x].at) # NoConn THEN get(cursor[x].at)
    ELSE get(IF cursor[x].ref THEN hv ELSE NoName)

\* Cursor x once OPEN has bound it to c and, if need be, declared it.
Bound(x, c) ==
    [cursor[x] EXCEPT !.conn = c,
                      !.drv = IF cursor[x].conn = NoConn THEN "declared" ELSE @]

\* Cursor x after cursor_close() on an open cursor and setOpened(false).
Reclosed(x, c) == [DriverClosed(Bound(x, c)) EXCEPT !.open = FALSE]

OpenDeclareFails(x, c) ==
    /\ cursor[x].conn = NoConn
    /\ cursor' = [cursor EXCEPT ![x].conn = c]
    /\ Fail("cursor", c, DBERR_DECLARE_CURSOR_FAILED)
    /\ UNCHANGED conn

OpenCloseFails(x, c) ==
    /\ cursor[x].open
    /\ cursor' = [cursor EXCEPT ![x] = Reclosed(x, c)]
    /\ DriverFail("cursor", c, DBERR_CLOSE_CURSOR_FAILED)
    /\ UNCHANGED conn

OpenFails(x, c) ==
    /\ cursor' = [cursor EXCEPT ![x] = Reclosed(x, c)]
    /\ conn' = IF cursor[x].conn = NoConn THEN DeclaredOn(c) ELSE conn
    /\ DriverFail("cursor", c, DBERR_OPEN_CURSOR_FAILED)

OpenOk(x, c) ==
    /\ TRUE \in DriverResults(c)
    /\ cursor' = [cursor EXCEPT ![x] = [Bound(x, c) EXCEPT !.open = TRUE,
                                                           !.drv = "open"]]
    /\ conn' = IF cursor[x].conn = NoConn THEN DeclaredOn(c) ELSE conn
    /\ Succeed("cursor", c)

NoSuchCursor(x) ==
    /\ x \notin cursors
    /\ Fail("cursor", NoConn, DBERR_NO_SUCH_CURSOR)
    /\ StateUnchanged

\* An empty cursor name or query is refused like an unknown cursor; DECLARE
\* registers neither.
GIXSQLCursorOpen(x, hv) ==
    /\ Ready
    /\ \/ NoSuchCursor(x)
       \/ /\ x \in cursors
          /\ OpenConnection(x, hv) = NoConn
          /\ Fail("cursor", NoConn, DBERR_CONN_NOT_FOUND)
          /\ StateUnchanged
       \/ /\ x \in cursors
          /\ LET c == OpenConnection(x, hv)
             IN  /\ c # NoConn
                 /\ \/ OpenDeclareFails(x, c)
                    \/ OpenCloseFails(x, c)
                    \/ OpenFails(x, c)
                    \/ OpenOk(x, c)
          /\ UNCHANGED <<registry, cursors, varLists, loopVars, alive>>

\* The outcomes of a FETCH that reaches the driver.
FetchResult(c) ==
    \/ Return("cursor", c, "FETCH_ROW_FAILED", Status(NoDbi, DBERR_NO_DATA))
    \/ DriverFail("cursor", c, DBERR_FETCH_ROW_FAILED)
    \/ /\ TRUE \in DriverResults(c)
       /\ \/ \E nfields \in 0..MaxVars :
                nfields # res_vars /\ DriverFail("cursor", c, DBERR_FIELD_COUNT_MISMATCH)
          \/ res_vars > 0 /\ DriverFail("cursor", c, DBERR_INVALID_COLUMN_DATA)
          \/ res_vars > 0 /\ DriverFail("cursor", c, DBERR_NUM_OUT_OF_RANGE)
          \/ Succeed("cursor", c)

GIXSQLCursorFetchOne(x) ==
    /\ Ready
    /\ \/ NoSuchCursor(x)
       \/ /\ x \in cursors
          /\ ~cursor[x].open
          /\ Fail("cursor", cursor[x].conn, DBERR_CURSOR_CLOSED)
          /\ StateUnchanged
       \/ /\ x \in cursors
          /\ cursor[x].open
          /\ FetchResult(cursor[x].conn)
          /\ StateUnchanged

GIXSQLCursorClose(x) ==
    /\ Ready
    /\ \/ NoSuchCursor(x)
       \/ /\ x \in cursors
          /\ ~cursor[x].open
          /\ Succeed("cursor", cursor[x].conn)
          /\ StateUnchanged
       \/ /\ x \in cursors
          /\ cursor[x].open
          /\ cursor' = [cursor EXCEPT ![x] = Reclosed(x, cursor[x].conn)]
          /\ \/ Succeed("cursor", cursor[x].conn)
             \/ DriverFail("cursor", cursor[x].conn, DBERR_CLOSE_CURSOR_FAILED)
          /\ UNCHANGED <<connVars, cursors, varLists, loopVars, alive>>

---------------------------------------------------------------------------
(* The host variable lists of the statement being executed.  These calls   *)
(* do not touch the SQLCA.                                                 *)

VarListCall(rc) ==
    /\ Return("varlist", NoConn, rc, sqlcode)
    /\ UNCHANGED <<connVars, curVars, loopVars, alive>>

\* GIXSQLStartSQL and GIXSQLEndSQL both clear the two lists.
GIXSQLStartSQL ==
    /\ Ready
    /\ cur_vars' = 0
    /\ res_vars' = 0
    /\ VarListCall("SUCCESS")

GIXSQLSetSQLParams ==
    /\ Ready
    /\ \/ /\ cur_vars < MaxVars
          /\ cur_vars' = cur_vars + 1
          /\ VarListCall("SUCCESS")
       \/ /\ UNCHANGED cur_vars  \* bad type, negative length or no address
          /\ VarListCall("FAILED")
    /\ UNCHANGED res_vars

GIXSQLSetResultParams ==
    /\ Ready
    /\ \/ /\ res_vars < MaxVars
          /\ res_vars' = res_vars + 1
          /\ VarListCall("SUCCESS")
       \/ /\ UNCHANGED res_vars
          /\ VarListCall("FAILED")
    /\ UNCHANGED cur_vars

---------------------------------------------------------------------------
Next ==
    \/ \E n \in ConnectNames \cup {NoName} : GIXSQLConnect(n)
    \/ ResetAllBegin
    \/ ResetAllStep
    \/ ResetAllEnd
    \/ \E n \in AtNames :
          \/ GIXSQLConnectReset(n)
          \/ GIXSQLDisconnect(n)
          \/ \E q \in Queries :
                \/ GIXSQLExec(n, q)
                \/ GIXSQLPrepareStatement(n, q)
                \/ \E nRes \in 0..MaxVars : GIXSQLExecSelectIntoOne(n, q, nRes)
                \/ \E nParams \in 0..MaxVars :
                      \/ GIXSQLExecParams(n, q, nParams)
                      \/ GIXSQLExecPrepared(n, q, nParams)
                      \/ \E nRes \in 0..MaxVars :
                            GIXSQLExecPreparedInto(n, q, nParams, nRes)
                \/ \E x \in CursorNames, host \in HostIds, hold \in BOOLEAN :
                      \/ GIXSQLCursorDeclare(x, n, host, hold, q)
                      \/ \E nParams \in 0..MaxVars :
                            GIXSQLCursorDeclareParams(x, n, host, hold, q, nParams)
    \/ \E x \in CursorNames :
          \/ \E hv \in AtNames : GIXSQLCursorOpen(x, hv)
          \/ GIXSQLCursorFetchOne(x)
          \/ GIXSQLCursorClose(x)
    \/ GIXSQLStartSQL
    \/ GIXSQLSetSQLParams
    \/ GIXSQLSetResultParams

Spec == Init /\ [][Next]_vars

\* The loop of DISCONNECT ALL runs to its end once entered.
FairSpec == Spec /\ WF_vars(ResetAllStep) /\ WF_vars(ResetAllEnd)

---------------------------------------------------------------------------
(* Properties.                                                             *)

(***************************************************************************)
(* What the name map finds is in the list and carries that name, and the   *)
(* default connection is found under its own generated name.  remove() is  *)
(* by object in one place and by name in the other; this is why the two    *)
(* never drift apart, also when a program calls a connection DEFAULT<n>.   *)
(***************************************************************************)
RegistryConsistent ==
    /\ \A n \in Names : name_map[n] # NoConn =>
          /\ name_map[n] \in connections
          /\ conn[name_map[n]].name = n
    /\ default_connection # NoConn =>
          /\ default_connection \in connections
          /\ conn[default_connection].name \in DefaultNames
          /\ name_map[conn[default_connection].name] = default_connection

(***************************************************************************)
(* No call dereferences a null driver interface: every connection a name   *)
(* can find has one, and so has the connection of every registered cursor; *)
(* an open cursor has a connection.  gixsql.cpp calls dbi->exec(),         *)
(* dbi->reset(), dbi->cursor_open()... without looking.                    *)
(***************************************************************************)
NoNullInterface ==
    /\ \A c \in connections : conn[c].dbi
    /\ \A x \in cursors :
          /\ cursor[x].conn # NoConn => conn[cursor[x].conn].dbi
          /\ cursor[x].open => cursor[x].conn # NoConn

(***************************************************************************)
(* The runtime's idea of an open cursor and the driver's differ in one way *)
(* only: a cursor not WITH HOLD whose transaction ended.  A cursor the     *)
(* driver has open is open for the runtime too, so CLOSE reaches it.       *)
(***************************************************************************)
CursorStateAgreement ==
    \A x \in cursors :
        /\ cursor[x].drv = "open" => cursor[x].open
        /\ cursor[x].open /\ cursor[x].hold => cursor[x].drv = "open"
        /\ cursor[x].drv # "undeclared" => cursor[x].conn # NoConn

\* The calls that are known to return without telling the program the truth.
Silent ==
    \/ ret.call = "varlist"
    \/ ret.call = "connect" /\ ret.rc = "FAILED" /\ ret.conn # NoConn
    \/ ret.call = "disconnect" /\ ret.conn = NoConn
    \/ ret.call = "prepare" /\ ret.rc = "SUCCESS"
    \/ ret.call = "first_row"

(***************************************************************************)
(* SQLCODE is all a COBOL program sees of a call: a call that returns      *)
(* leaves it zero exactly when it succeeded, whatever code the driver      *)
(* reports, outside the five cases of Silent.                              *)
(***************************************************************************)
SqlcodeMatchesResult ==
    [][alive' /\ ~resetting' /\ ~Silent' =>
          (sqlcode' = "zero" <=> ret'.rc = "SUCCESS")]_vars

(***************************************************************************)
(* DISCONNECT ALL that reports success has emptied the connection registry *)
(* and no registered cursor is left on a connection it reset.              *)
(***************************************************************************)
ResetAllComplete ==
    (~resetting /\ ret.call = "resetall" /\ ret.rc = "SUCCESS") =>
        /\ connections = {}
        /\ default_connection = NoConn
        /\ \A n \in Names : name_map[n] = NoConn
        /\ \A x \in cursors : cursor[x].conn # NoConn => conn[cursor[x].conn].dbi

(***************************************************************************)
(* The connection a cursor is bound to late is a registered one, and the   *)
(* one the cursor was declared for whenever its connection id finds one:   *)
(* the connection of that name, or the default one.  When the id finds     *)
(* none, OPEN asks the saved host variable, or takes the default.          *)
(***************************************************************************)
BoundAsDeclared(x) ==
    cursor'[x].conn # cursor[x].conn =>
        /\ cursor[x].conn = NoConn
        /\ cursor'[x].conn \in connections
        /\ IF cursor[x].at = NoName
           THEN default_connection # NoConn => cursor'[x].conn = default_connection
           ELSE exists(cursor[x].at) => conn[cursor'[x].conn].name = cursor[x].at

(***************************************************************************)
(* A call works on one connection: no cursor of another connection is      *)
(* closed, rebound or removed by it, and a cursor declared before its      *)
(* connection existed is bound to the connection it was declared for.      *)
(***************************************************************************)
OneConnectionPerCall ==
    [][\A x \in cursors :
          /\ (x \notin cursors' \/ cursor'[x] # cursor[x]) =>
                /\ ret'.conn # NoConn
                /\ ret'.conn \in {cursor[x].conn, cursor'[x].conn}
          /\ x \in cursors' => BoundAsDeclared(x)]_vars

(***************************************************************************)
(* A cursor definition disappears only with its connection: never by       *)
(* COMMIT, ROLLBACK, CLOSE or a failing statement (issue #119).            *)
(***************************************************************************)
DefinitionsOutliveTransactions ==
    [][\A x \in cursors \ cursors' :
          /\ ret'.call \in {"reset", "resetall", "disconnect"}
          /\ conn'[cursor[x].conn].session # "live"]_vars

\* The loop of DISCONNECT ALL comes to an end.
ResetAllEnds == resetting ~> ~resetting

---------------------------------------------------------------------------
(* The inductive invariant behind the safety properties.                   *)

\* Ids are handed out in order and every registered connection has a name.
ConnectionsNamed ==
    /\ \A c \in connections : c <= next_conn_id
    /\ \A c \in connections \cup pending : conn[c].name \in Names

(***************************************************************************)
(* Inside the loop of DISCONNECT ALL a registered connection that is no    *)
(* longer to be reset has lost its name to one that still is and that was  *)
(* reset in its place: the loop is then bound to fail on that one.         *)
(***************************************************************************)
LoopProgress ==
    /\ resetting \/ pending = {}
    /\ \A d \in connections \ pending : resetting =>
          \E e \in pending : /\ conn[e].name = conn[d].name
                             /\ name_map[conn[e].name] = NoConn

(***************************************************************************)
(* The state of the runtime is consistent after every call and in every    *)
(* round of DISCONNECT ALL.  Each part needs the others: remove() by name  *)
(* is right only while the name map is, a driver call is safe only while   *)
(* cursors leave with their connection, and DISCONNECT ALL ends with an    *)
(* empty registry because of what LoopProgress says about name clashes.    *)
(***************************************************************************)
StateInv ==
    /\ ConnTypeOK
    /\ CurTypeOK
    /\ RegistryConsistent
    /\ NoNullInterface
    /\ CursorStateAgreement
    /\ ConnectionsNamed
    /\ LoopProgress
    /\ pending \subseteq ConnIds
    /\ resetting \in BOOLEAN

=============================================================================
