----------------------------- MODULE OdbcDriver -----------------------------
(***************************************************************************)
(* DbInterfaceODBC.cpp over an ODBC data source.  Every method is an       *)
(* operator from the state of driver and data source to the set of its     *)
(* possible results, [p |-> new state, rc |-> return value].  The          *)
(* rows of a table are not modelled: a SELECT has any number of them.      *)
(***************************************************************************)
EXTENDS Sqlca, CursorNaming

CONSTANTS
    StmtNames,      \* names of prepared statements
    NoStmt,
    Statements,     \* the statements the program executes or prepares
    MaxRows,        \* bound on the rows of a result
    InfoCodes       \* the native codes that come with SQL_SUCCESS_WITH_INFO

\* UPDATE CURRENT is an UPDATE ... WHERE CURRENT OF a cursor, for any cursor.
AllStatements == {"COMMIT", "ROLLBACK", "INSERT", "UPDATE", "UPDATE_CURRENT", "SELECT"}

ASSUME OdbcAssumption ==
    /\ NoStmt \notin StmtNames \cup CursorNames \cup AllStatements \cup {"named"}
    /\ StmtNames \cap CursorNames = {}
    /\ Statements \subseteq AllStatements
    /\ MaxRows \in Nat
    /\ InfoCodes \subseteq Nat \ {NorecCode}

SQL_INVALID_HANDLE == -2
SQL_ERROR    == -1
SQL_SUCCESS  == 0
SQL_SUCCESS_WITH_INFO == 1
SQL_NO_DATA  == 100

Native == 7     \* stands for every native error code of the data source

(***************************************************************************)
(* An ODBCStatementData with its handle: the statement, whether            *)
(* SQLSetCursorName() gave it a name, whether a result is open on it, its  *)
(* rows and the last one fetched.  No object and an object without a       *)
(* handle are treated alike by every method that looks.                    *)
(***************************************************************************)
Stmt == [text : AllStatements \cup {NoStmt, "named"}, open : BOOLEAN,
         rows : 0..MaxRows, at : 0..MaxRows]
NoStatement == [text |-> NoStmt, open |-> FALSE, rows |-> 0, at |-> 0]

NewStatement(text) == [NoStatement EXCEPT !.text = text]

\* A statement belongs to the cursor that prepared it or to _prepared_stmts.
Handles == CursorNames \cup StmtNames

(***************************************************************************)
(* conn_handle  the session's handle is there   cur   current_statement_data*)
(* off          autocommit is Off               stmt  the other statements *)
(* done         the last call changed the data  priv  private data of each *)
(*              or ended a transaction                cursor               *)
(* declared     _declared_cursors               last_rc                    *)
(***************************************************************************)
Driver == [conn_handle : BOOLEAN, off : BOOLEAN, done : BOOLEAN,
           cur : Stmt, stmt : [Handles -> Stmt],
           priv : [CursorNames -> Handles \cup {NoStmt}],
           declared : SUBSET CursorNames, last_rc : Int]

NullDriver == [conn_handle |-> FALSE, off |-> FALSE, done |-> FALSE,
               cur |-> NoStatement, stmt |-> [h \in Handles |-> NoStatement],
               priv |-> [x \in CursorNames |-> NoStmt],
               declared |-> {}, last_rc |-> 0]

---------------------------------------------------------------------------
(* The data source.                                                        *)

Shut(st) == [st EXCEPT !.open = FALSE, !.rows = 0, !.at = 0]

WithResult(st, n) == [st EXCEPT !.open = TRUE, !.rows = n]

\* The end of a transaction keeps the results that are open or closes them all
\* (SQL_CURSOR_COMMIT_BEHAVIOR).
EndTransaction(p) == {p, [p EXCEPT !.stmt = [h \in Handles |-> Shut(@[h])]]}

Wrote(p) == {[q EXCEPT !.done = TRUE] : q \in IF p.off THEN {p} ELSE EndTransaction(p)}

Executed(p, st, affected, rc) == [p |-> p, st |-> st, affected |-> affected, rc |-> rc]

Worked == {SQL_SUCCESS, SQL_SUCCESS_WITH_INFO}

\* SQLExecute(): refused while a result of the statement is open.  An UPDATE of no
\* row is SQL_NO_DATA, or SQL_SUCCESS with the drivers that say so; SQLRowCount()
\* gives -1 for a number the driver does not know, and may fail, which comes to the same.
Execute(p, st) ==
    {Executed(p, st, 0, SQL_ERROR)} \cup
    (IF st.open THEN {}
     ELSE CASE st.text = "SELECT" ->
                 {Executed(p, WithResult(st, n), 0, rc)
                     : n \in 0..MaxRows, rc \in Worked}
            [] st.text = "INSERT" ->
                 {Executed(q, st, 1, rc) : q \in Wrote(p), rc \in Worked}
            [] st.text = "UPDATE" ->
                 {Executed(q, st, n, rc) : q \in Wrote(p), n \in {1, -1}, rc \in Worked}
                     \cup {Executed(p, st, 0, rc) : rc \in {SQL_SUCCESS, SQL_NO_DATA}}
            [] st.text = "UPDATE_CURRENT" ->
                 IF \E x \in CursorNames : p.stmt[x].text = "named" /\ p.stmt[x].open
                 THEN {Executed(q, st, n, rc) : q \in Wrote(p), n \in {1, -1}, rc \in Worked}
                 ELSE {}
            [] st.text \in {"COMMIT", "ROLLBACK"} ->
                 {Executed([q EXCEPT !.done = TRUE], st, 0, rc)
                     : q \in EndTransaction(p), rc \in Worked})

---------------------------------------------------------------------------
(* The driver.                                                             *)

Returns(p, rc) == [p |-> p, rc |-> rc]

odbcClearError(p) == [p EXCEPT !.last_rc = DBERR_NO_ERROR]

\* An odbcRetrieveError that gives the codes of warnings the sign of an error.
odbcRetrieveError_Negative(p, rc) ==
    CASE rc \in {SQL_SUCCESS, SQL_NO_DATA} -> {odbcClearError(p)}
      [] rc = SQL_SUCCESS_WITH_INFO -> {[p EXCEPT !.last_rc = -code] : code \in InfoCodes}
      [] rc = SQL_ERROR -> {[p EXCEPT !.last_rc = -code] : code \in {0, Native}}

\* What a return code leaves in last_rc: the native code of the first diagnostic,
\* positive for a warning; zero when there is none, as with SQL_NO_DATA.
odbcRetrieveError(p, rc) ==
    CASE rc \in {SQL_SUCCESS, SQL_NO_DATA} -> {odbcClearError(p)}
      [] rc = SQL_SUCCESS_WITH_INFO -> {[p EXCEPT !.last_rc = code] : code \in InfoCodes}
      [] rc = SQL_ERROR -> {[p EXCEPT !.last_rc = -code] : code \in {0, Native}}

\* The same without a handle to ask for diagnostics.
NoDiagnostics(p, rc) == [p EXCEPT !.last_rc = rc]

\* An ODBC call that ends in an error, or in a warning that is taken for one.
Refused(p, err) ==
    {Returns(q, err) : q \in odbcRetrieveError(p, SQL_ERROR)
                             \cup odbcRetrieveError(p, SQL_SUCCESS_WITH_INFO)}

is_update_or_delete_statement(op) == op \in {"UPDATE", "UPDATE_CURRENT"}

\* The statement goes to the cursor, or becomes the current one.
Keep(p, x, st) == IF x \in CursorNames THEN [p EXCEPT !.stmt[x] = st, !.priv[x] = x]
                                       ELSE [p EXCEPT !.cur = st]

\* The end of _odbc_exec and _odbc_exec_params: anything but SQL_SUCCESS is an
\* error, and so is an UPDATE that is not known to have changed a row, with code 100.
AfterExecute(a, x) ==
    IF a.rc # SQL_SUCCESS
    THEN {Returns(q, DBERR_SQL_ERROR) : q \in odbcRetrieveError(a.p, a.rc)}
    ELSE IF is_update_or_delete_statement(a.st.text) /\ a.affected <= 0
    THEN {Returns([a.p EXCEPT !.last_rc = 100], DBERR_SQL_ERROR)}
    ELSE {Returns(Keep(odbcClearError(a.p), x, a.st), DBERR_NO_ERROR)}

\* Without a cursor the current statement is dropped first.
Dropped(p, x) == IF x \in CursorNames THEN p ELSE [p EXCEPT !.cur = NoStatement]

(***************************************************************************)
(* _odbc_exec and _odbc_exec_params; x is the cursor or NoStmt.  Without a *)
(* session there is no statement handle, and _odbc_exec_params leaves the  *)
(* code of an earlier call.                                                *)
(***************************************************************************)
odbc_exec(p, op, x) ==
    LET q == Dropped(p, x)
    IN  IF ~q.conn_handle
        THEN {Returns(r, DBERR_SQL_ERROR) : r \in {NoDiagnostics(q, SQL_ERROR), q}}
        ELSE Refused(q, DBERR_SQL_ERROR) \cup
             UNION {AfterExecute(a, x) : a \in Execute(q, NewStatement(op))}

exec(p, op) == odbc_exec(p, op, NoStmt)

connect(off) == [NullDriver EXCEPT !.conn_handle = TRUE, !.off = off]

\* A terminate_connection that does not clear _prepared_stmts.
terminate_connection_KeepsPrepared(p) ==
    LET q == [NullDriver EXCEPT !.off = p.off, !.last_rc = p.last_rc, !.stmt = p.stmt]
    IN  IF ~p.conn_handle THEN {Returns(q, DBERR_NO_ERROR)}
        ELSE {Returns(odbcClearError(q), DBERR_NO_ERROR)} \cup
             {Returns(NoDiagnostics(q, rc), DBERR_DISCONNECT_FAILED)
                 : rc \in {SQL_ERROR, SQL_SUCCESS_WITH_INFO}}

(***************************************************************************)
(* terminate_connection(): all statements are freed first.  The handle is  *)
(* dropped before the result of SQLDisconnect() is looked at, so there is  *)
(* nothing left to ask for diagnostics, and a second call succeeds.        *)
(***************************************************************************)
terminate_connection(p) ==
    LET q == [NullDriver EXCEPT !.off = p.off, !.last_rc = p.last_rc]
    IN  IF ~p.conn_handle THEN {Returns(q, DBERR_NO_ERROR)}
        ELSE {Returns(odbcClearError(q), DBERR_NO_ERROR)} \cup
             {Returns(NoDiagnostics(q, rc), DBERR_DISCONNECT_FAILED)
                 : rc \in {SQL_ERROR, SQL_SUCCESS_WITH_INFO}}

reset(p) ==
    {Returns(r.p, IF r.rc = DBERR_NO_ERROR THEN r.rc ELSE DBERR_CONN_RESET_FAILED)
        : r \in terminate_connection(p)}

\* A name in use leaves the code of an earlier call.  A warning is not an error here.
prepare(p, s, op) ==
    IF p.stmt[s] # NoStatement THEN {Returns(p, DBERR_PREPARE_FAILED)}
    ELSE IF ~p.conn_handle
    THEN {Returns(NoDiagnostics(p, SQL_INVALID_HANDLE), DBERR_PREPARE_FAILED)}
    ELSE {Returns(q, DBERR_PREPARE_FAILED) : q \in odbcRetrieveError(p, SQL_ERROR)} \cup
         {Returns([odbcClearError(p) EXCEPT !.stmt[s] = NewStatement(op)], DBERR_NO_ERROR)}

\* The rows are not counted here.
exec_prepared(p, s) ==
    IF p.stmt[s] = NoStatement THEN {Returns(p, DBERR_SQL_ERROR)}
    ELSE UNION {{Returns(q, IF a.rc = SQL_SUCCESS THEN DBERR_NO_ERROR ELSE DBERR_SQL_ERROR)
                    : q \in odbcRetrieveError([a.p EXCEPT !.stmt[s] = a.st], a.rc)}
                  : a \in Execute(p, p.stmt[s])}

\* The cursor gets a statement of its own with its name, which OPEN replaces.
cursor_declare(p, x) ==
    {Returns(p, DBERR_DECLARE_CURSOR_FAILED)} \cup
    (IF ~p.conn_handle THEN {}
     ELSE Refused(p, DBERR_DECLARE_CURSOR_FAILED) \cup
          {Returns([odbcClearError(p) EXCEPT !.stmt[x] = NewStatement("named"),
                                             !.priv[x] = x,
                                             !.declared = @ \cup {x}], DBERR_NO_ERROR)})

HasStatement(p, x) == p.priv[x] # NoStmt /\ p.stmt[p.priv[x]] # NoStatement

is_cursor_from_prepared_statement(p, s) == s # NoStmt /\ p.stmt[s] # NoStatement

(***************************************************************************)
(* A prepared statement keeps its result open.  Otherwise the cursor loses *)
(* its statement, also when SQLCloseCursor() refuses because no result is  *)
(* open on it.                                                             *)
(***************************************************************************)
cursor_close(p, x, s) ==
    LET q == [p EXCEPT !.priv[x] = NoStmt]
        freed == [q EXCEPT !.stmt[p.priv[x]] = NoStatement]
    IN  IF is_cursor_from_prepared_statement(p, s) THEN {Returns(q, DBERR_NO_ERROR)}
        ELSE IF ~HasStatement(p, x) THEN {Returns(p, DBERR_CLOSE_CURSOR_FAILED)}
        ELSE Refused(freed, DBERR_CLOSE_CURSOR_FAILED) \cup
             (IF p.stmt[p.priv[x]].open
              THEN {Returns(odbcClearError(freed), DBERR_NO_ERROR)} ELSE {})

Opened(r) == IF r.rc = DBERR_NO_ERROR THEN r ELSE Returns(r.p, DBERR_OPEN_CURSOR_FAILED)

\* The cursor uses the prepared statement s; the one of its own is dropped.
Shares(p, x, s) == [p EXCEPT !.priv[x] = s, !.stmt[x] = NoStatement]

\* cursor_open(): s names the prepared statement of the cursor, if any.  It is
\* executed and shared by all who use it.
cursor_open(p, x, s) ==
    IF s = NoStmt THEN {Opened(r) : r \in odbc_exec(p, "SELECT", x)}
    ELSE IF p.stmt[s] = NoStatement THEN {Returns(p, DBERR_OPEN_CURSOR_FAILED)}
    ELSE {Opened(IF r.rc = DBERR_NO_ERROR THEN Returns(Shares(r.p, x, s), r.rc) ELSE r)
            : r \in exec_prepared(p, s)}

\* SQLFetch() on a statement: where it is afterwards and the return code.
Fetch(st) ==
    {[st |-> st, rc |-> SQL_ERROR]} \cup
    (IF ~st.open THEN {}
     ELSE IF st.at = st.rows THEN {[st |-> st, rc |-> SQL_NO_DATA]}
     ELSE {[st |-> [st EXCEPT !.at = @ + 1], rc |-> rc] : rc \in Worked})

\* A fetch that does not know SQL_NO_DATA.
FetchFrom_PastEnd(p, h) ==
    UNION {{Returns([q EXCEPT !.stmt[h].at = IF f.rc = SQL_NO_DATA THEN @ + 1 ELSE f.st.at],
                    IF f.rc \in {SQL_SUCCESS, SQL_NO_DATA} THEN DBERR_NO_ERROR
                    ELSE DBERR_FETCH_ROW_FAILED)
               : q \in odbcRetrieveError(p, f.rc)}
             : f \in Fetch(p.stmt[h])}

\* A fetch that leaves the code of an earlier call when it succeeds.
FetchFrom_Stale(p, h) ==
    UNION {IF f.rc = SQL_NO_DATA THEN {Returns(p, DBERR_NO_DATA)}
           ELSE IF f.rc = SQL_SUCCESS
           THEN {Returns([p EXCEPT !.stmt[h] = f.st], DBERR_NO_ERROR)}
           ELSE {Returns(q, DBERR_FETCH_ROW_FAILED)
                   : q \in odbcRetrieveError([p EXCEPT !.stmt[h] = f.st], f.rc)}
             : f \in Fetch(p.stmt[h])}

\* A row that comes with a warning is lost.
FetchFrom(p, h) ==
    UNION {IF f.rc = SQL_NO_DATA THEN {Returns(p, DBERR_NO_DATA)}
           ELSE {Returns(q, IF f.rc = SQL_SUCCESS THEN DBERR_NO_ERROR
                            ELSE DBERR_FETCH_ROW_FAILED)
                   : q \in odbcRetrieveError([p EXCEPT !.stmt[h] = f.st], f.rc)}
             : f \in Fetch(p.stmt[h])}

\* A closed cursor leaves the code of an earlier call.
cursor_fetch_one(p, x) ==
    IF ~HasStatement(p, x) THEN {Returns(p, DBERR_FETCH_ROW_FAILED)}
    ELSE FetchFrom(p, p.priv[x])

\* move_to_first_record(): one fetch, of the current statement or of a prepared one.
move_to_first_record(p, s) ==
    LET st == IF s = NoStmt THEN p.cur ELSE p.stmt[s]
        Moved(f) == IF s = NoStmt THEN [p EXCEPT !.cur = f.st] ELSE [p EXCEPT !.stmt[s] = f.st]
        Sets(q, err) == Returns([q EXCEPT !.last_rc = err], err)
    IN  IF st = NoStatement THEN {Sets(p, DBERR_MOVE_TO_FIRST_FAILED)}
        ELSE {CASE f.rc = SQL_NO_DATA -> Sets(p, DBERR_NO_DATA)
                [] f.rc = SQL_SUCCESS -> Returns(odbcClearError(Moved(f)), DBERR_NO_ERROR)
                [] f.rc \in {SQL_ERROR, SQL_SUCCESS_WITH_INFO} ->
                       Sets(Moved(f), DBERR_MOVE_TO_FIRST_FAILED)
                : f \in Fetch(st)}

Columns(st) == IF st.text = "SELECT" THEN 1 ELSE 0

\* get_num_fields(nullptr): of the current statement.
get_num_fields(p) == IF p.cur = NoStatement THEN -1 ELSE Columns(p.cur)

=============================================================================
