--------------------------- MODULE RuntimeOnOdbc ---------------------------
(***************************************************************************)
(* The runtime with the ODBC driver behind its connections.  Each action   *)
(* is the action of GixSqlRuntime for that entry point together with the   *)
(* driver calls it makes.  GIXSQLDisconnect, which the preprocessor never  *)
(* emits, is left out.  Statements have no parameters; a SELECT has one    *)
(* column.                                                                 *)
(***************************************************************************)
EXTENDS GixSqlRuntime, OdbcDriver, FiniteSetsExt

CONSTANT OffModes   \* TRUE: autocommit may be Off; FALSE: it may be On or Native

ASSUME OdbcCompositionAssumption == OffModes \subseteq BOOLEAN

VARIABLES
    od,         \* the driver of each connection
    source,     \* the prepared statement each cursor was declared for, if any
    answer      \* what the last FETCH told: kind, cursor, row

odVars == <<vars, od, source, answer>>

NoAnswer == [kind |-> "none", x |-> NoStmt, row |-> 0]

\* Types of what the composition adds.
OdTypeOK ==
    /\ od \in [ConnIds -> Driver]
    /\ source \in [CursorNames -> StmtNames \cup {NoStmt}]
    /\ answer \in [kind : {"none", "error", "nodata", "row"},
                   x : CursorNames \cup {NoStmt}, row : 0..MaxRows]

OdInit ==
    /\ Init
    /\ od = [c \in ConnIds |-> NullDriver]
    /\ source = [x \in CursorNames |-> NoStmt]
    /\ answer = NoAnswer

---------------------------------------------------------------------------
(* How a driver call and the runtime's step fit together.                  *)

\* The driver as the call finds it.
Fresh(c) == [od[c] EXCEPT !.done = FALSE]

\* What a call that does not come to a driver leaves of them.
Untouched == [c \in ConnIds |-> Fresh(c)]

Becomes(c, p) == od' = [Untouched EXCEPT ![c] = p]

\* FAIL_ON_ERROR(rc, st, dbi, err).
Reports(r, err) ==
    IF r.rc = DBERR_NO_ERROR THEN ret'.rc = "SUCCESS"
    ELSE ret'.rc = "FAILED" /\ sqlcode' = Status(r.p.last_rc, err)

---------------------------------------------------------------------------
(* Connections.                                                            *)

\* A warning of SQLConnect() makes the CONNECT fail with a positive code.
OdConnect(n) ==
    /\ GIXSQLConnect(n)
    /\ IF next_conn_id' = next_conn_id
       THEN od' = Untouched
       ELSE \E off \in OffModes :
              od' = [c \in ConnIds |-> IF c = next_conn_id' THEN connect(off)
                                       ELSE IF conn'[c].session = conn[c].session THEN Fresh(c)
                                       ELSE NullDriver]
    /\ \A c \in ConnIds : conn'[c].session = "closed" => conn[c].session = "closed"
    /\ sqlcode' # "norec"
    /\ UNCHANGED source
    /\ answer' = NoAnswer

\* reset() on connection c.  A connection that is left keeps its driver.
Terminated(c) ==
    IF c = NoConn THEN od' = Untouched
    ELSE \E r \in reset(Fresh(c)) : Reports(r, DBERR_CONN_RESET_FAILED) /\ Becomes(c, r.p)

OdConnectReset(n) ==
    /\ GIXSQLConnectReset(n)
    /\ Terminated(get(n))
    /\ UNCHANGED source
    /\ answer' = NoAnswer

OdResetAll ==
    /\ \/ ResetAllBegin /\ od' = Untouched
       \/ ResetAllStep /\ Terminated(ret'.conn)
       \/ ResetAllEnd /\ od' = Untouched
    /\ UNCHANGED source
    /\ answer' = NoAnswer

---------------------------------------------------------------------------
(* Statements.                                                             *)

QueryKind(s) == IF s \in {"COMMIT", "ROLLBACK"} THEN "tx_end" ELSE "other"

\* A closeConnectionCursors() that does not look at WITH HOLD.
Swept_AlsoHeld(c, s) ==
    IF is_commit_or_rollback_statement(QueryKind(s))
    THEN FoldSet(LAMBDA x, ps : UNION {{r.p : r \in cursor_close(p, x, source[x])} : p \in ps},
                 {Fresh(c)}, CursorsOf(c))
    ELSE {Fresh(c)}

\* closeConnectionCursors(): one cursor_close() after the other, results ignored.
Swept(c, s) ==
    IF is_commit_or_rollback_statement(QueryKind(s))
    THEN FoldSet(LAMBDA x, ps : UNION {{r.p : r \in cursor_close(p, x, source[x])} : p \in ps},
                 {Fresh(c)}, {x \in CursorsOf(c) : ~cursor[x].hold})
    ELSE {Fresh(c)}

OdExec(n, s) ==
    LET c == get(n)
    IN  /\ GIXSQLExec(n, QueryKind(s))
        /\ IF c = NoConn THEN od' = Untouched
           ELSE \E p \in Swept(c, s) : \E r \in exec(p, s) :
                   Reports(r, DBERR_SQL_ERROR) /\ Becomes(c, r.p)
        /\ UNCHANGED source
        /\ answer' = NoAnswer

OdPrepare(n, s, text) ==
    LET c == get(n)
    IN  /\ GIXSQLPrepareStatement(n, "other")
        /\ IF c = NoConn THEN od' = Untouched
           ELSE \E r \in prepare(Fresh(c), s, text) :
                   Reports(r, DBERR_SQL_ERROR) /\ Becomes(c, r.p)
        /\ UNCHANGED source
        /\ answer' = NoAnswer

OdExecPrepared(n, s) ==
    LET c == get(n)
    IN  /\ GIXSQLExecPrepared(n, "other", 0)
        /\ IF c = NoConn THEN od' = Untouched
           ELSE \E r \in exec_prepared(Fresh(c), s) :
                   Reports(r, DBERR_SQL_ERROR) /\ Becomes(c, r.p)
        /\ UNCHANGED source
        /\ answer' = NoAnswer

\* The driver after get_resultset_value() was called for every column.
AfterColumns(p) == {p} \cup {e.p : e \in Refused(p, DBERR_INVALID_COLUMN_DATA)}

(***************************************************************************)
(* The columns of a row: the last one that fails is reported, and q is the *)
(* driver they leave.  A column that cannot be read comes with the code of *)
(* its own error, which a later column that can be read clears; a number   *)
(* out of range with the code of a column that was read.                   *)
(***************************************************************************)
ColumnsFail(p, q) ==
    /\ res_vars > 0
    /\ ret'.rc = "FAILED"
    /\ \/ sqlcode' = Status(p.last_rc, DBERR_NUM_OUT_OF_RANGE) /\ q = p
       \/ \E e \in Refused(p, DBERR_INVALID_COLUMN_DATA) :
             /\ sqlcode' = Status(e.p.last_rc, e.rc)
             /\ q = e.p \/ (res_vars > 1 /\ q = p)

(***************************************************************************)
(* SELECT INTO and EXECUTE INTO, after the statement ran.  The driver does *)
(* not count rows (no ResultSetRowCount): the first one is taken.  s is    *)
(* the prepared statement, NoStmt for SELECT INTO.                         *)
(***************************************************************************)
IntoReports(p, nRes, q) ==
    IF get_num_fields(p) # nRes
    THEN ret'.rc = "FAILED" /\ sqlcode' = Status(NoDbi, DBERR_FIELD_COUNT_MISMATCH) /\ q = p
    ELSE (ret'.rc = "SUCCESS" /\ q = p) \/ ColumnsFail(p, q)

Into(c, r, s, nRes) ==
    IF r.rc # DBERR_NO_ERROR THEN Reports(r, DBERR_SQL_ERROR) /\ Becomes(c, r.p)
    ELSE \E m \in move_to_first_record(r.p, s) :
            IF m.rc # DBERR_NO_ERROR
            THEN /\ ret'.call = "first_row" /\ sqlcode' = Status(m.rc, m.rc)
                 /\ Becomes(c, m.p)
            ELSE /\ ret'.call = "exec"
                 /\ \E q \in AfterColumns(m.p) : IntoReports(m.p, nRes, q) /\ Becomes(c, q)

OdSelectInto(n, nRes) ==
    LET c == get(n)
    IN  /\ GIXSQLExecSelectIntoOne(n, "other", nRes)
        /\ IF c = NoConn THEN od' = Untouched
           ELSE \E r \in exec(Fresh(c), "SELECT") : Into(c, r, NoStmt, nRes)
        /\ UNCHANGED source
        /\ answer' = NoAnswer

OdExecPreparedInto(n, s, nRes) ==
    LET c == get(n)
    IN  /\ GIXSQLExecPreparedInto(n, "other", 0, nRes)
        /\ IF c = NoConn THEN od' = Untouched
           ELSE \E r \in exec_prepared(Fresh(c), s) : Into(c, r, s, nRes)
        /\ UNCHANGED source
        /\ answer' = NoAnswer

---------------------------------------------------------------------------
(* Cursors.                                                                *)

OdDeclare(x, n, host, hold, s) ==
    LET c == get(n)
    IN  /\ GIXSQLCursorDeclare(x, n, host, hold, "other")
        /\ source' = IF x \in cursors' \ cursors THEN [source EXCEPT ![x] = s] ELSE source
        /\ IF x \in cursors \/ c = NoConn THEN od' = Untouched
           ELSE \E r \in cursor_declare(Fresh(c), x) :
                   /\ (r.rc = DBERR_NO_ERROR) <=> (ret'.rc = "SUCCESS")
                   /\ Becomes(c, r.p)
        /\ answer' = NoAnswer

\* The driver after OPEN has declared the cursor and closed it, if need be.
Declared(c, x) == IF cursor[x].conn = NoConn THEN cursor_declare(Fresh(c), x)
                  ELSE {Returns(Fresh(c), DBERR_NO_ERROR)}

Closings(p, x) == IF cursor[x].open THEN cursor_close(p, x, source[x])
                  ELSE {Returns(p, DBERR_NO_ERROR)}

OdOpen(x, hv) ==
    LET c == IF x \in cursors THEN OpenConnection(x, hv) ELSE NoConn
    IN  /\ GIXSQLCursorOpen(x, hv)
        /\ IF c = NoConn THEN od' = Untouched
           ELSE \E d \in Declared(c, x) :
                   IF d.rc # DBERR_NO_ERROR
                   THEN cursor'[x].drv = "undeclared" /\ ret'.rc = "FAILED" /\ Becomes(c, d.p)
                   ELSE /\ cursor[x].conn = NoConn => cursor'[x].drv # "undeclared"
                        /\ \E q \in Closings(d.p, x) :
                              IF q.rc # DBERR_NO_ERROR
                              THEN Reports(q, DBERR_CLOSE_CURSOR_FAILED) /\ Becomes(c, q.p)
                              ELSE \E r \in cursor_open(q.p, x, source[x]) :
                                      Reports(r, DBERR_OPEN_CURSOR_FAILED) /\ Becomes(c, r.p)
        /\ UNCHANGED source
        /\ answer' = NoAnswer

\* The end of GIXSQLCursorFetchOne, after the driver's cursor_fetch_one().
FetchReports(r, x, q) ==
    LET Failed(err) == ret'.rc = "FAILED" /\ sqlcode' = Status(r.p.last_rc, err) /\ q = r.p
    IN  IF r.rc = DBERR_NO_DATA THEN ret'.rc = "FETCH_ROW_FAILED" /\ q = r.p
        ELSE IF r.rc # DBERR_NO_ERROR THEN Failed(DBERR_FETCH_ROW_FAILED)
        ELSE IF Columns(r.p.stmt[r.p.priv[x]]) # res_vars
        THEN Failed(DBERR_FIELD_COUNT_MISMATCH)
        ELSE (ret'.rc = "SUCCESS" /\ q = r.p) \/ ColumnsFail(r.p, q)

FetchAnswer(x, p) ==
    [kind |-> CASE ret'.rc = "SUCCESS" -> "row"
                [] ret'.rc = "FETCH_ROW_FAILED" -> "nodata"
                [] ret'.rc = "FAILED" -> "error",
     x |-> x,
     row |-> IF ret'.rc = "SUCCESS" THEN p.stmt[p.priv[x]].at ELSE 0]

OdFetch(x) ==
    LET c == cursor[x].conn
    IN  /\ GIXSQLCursorFetchOne(x)
        /\ IF x \notin cursors \/ ~cursor[x].open
           THEN od' = Untouched /\ answer' = FetchAnswer(x, NullDriver)
           ELSE \E r \in cursor_fetch_one(Fresh(c), x) : \E q \in AfterColumns(r.p) :
                   /\ FetchReports(r, x, q)
                   /\ Becomes(c, q)
                   /\ answer' = FetchAnswer(x, q)
        /\ UNCHANGED source

OdClose(x) ==
    LET c == cursor[x].conn
    IN  /\ GIXSQLCursorClose(x)
        /\ IF x \in cursors /\ cursor[x].open
           THEN \E r \in cursor_close(Fresh(c), x, source[x]) :
                   Reports(r, DBERR_CLOSE_CURSOR_FAILED) /\ Becomes(c, r.p)
           ELSE od' = Untouched
        /\ UNCHANGED source
        /\ answer' = NoAnswer

OdVarLists ==
    /\ GIXSQLStartSQL \/ GIXSQLSetResultParams
    /\ od' = Untouched
    /\ UNCHANGED source
    /\ answer' = NoAnswer

---------------------------------------------------------------------------
OdNext ==
    \/ \E n \in ConnectNames \cup {NoName} : OdConnect(n)
    \/ OdResetAll
    \/ OdVarLists
    \/ \E n \in AtNames :
          \/ OdConnectReset(n)
          \/ \E s \in Statements :
                \/ OdExec(n, s)
                \/ \E name \in StmtNames : OdPrepare(n, name, s)
          \/ \E nRes \in 0..MaxVars : OdSelectInto(n, nRes)
          \/ \E s \in StmtNames :
                \/ OdExecPrepared(n, s)
                \/ \E nRes \in 0..MaxVars : OdExecPreparedInto(n, s, nRes)
          \/ \E y \in CursorNames, host \in HostIds, hold \in BOOLEAN,
                s \in StmtNames \cup {NoStmt} : OdDeclare(y, n, host, hold, s)
    \/ \E x \in CursorNames :
          \/ \E hv \in AtNames : OdOpen(x, hv)
          \/ OdFetch(x)
          \/ OdClose(x)

OdSpec == OdInit /\ [][OdNext]_odVars

---------------------------------------------------------------------------
(* Properties.                                                             *)

(***************************************************************************)
(* A DISCONNECT that fails leaves the connection registered with a driver  *)
(* that has dropped its session: no later call of the driver succeeds on   *)
(* it, whatever was prepared or declared before, so that no statement      *)
(* handle of the lost session is used again (terminate_connection).        *)
(***************************************************************************)
LostSessionRefused ==
    LET Fails(results) == \A r \in results : r.rc # DBERR_NO_ERROR
    IN  \A c \in connections :
            conn[c].session # "live" =>
                /\ \A op \in Statements : Fails(exec(od[c], op))
                /\ \A s \in StmtNames :
                      Fails(prepare(od[c], s, "SELECT")) /\ Fails(exec_prepared(od[c], s))
                /\ \A x \in CursorNames :
                      /\ Fails(cursor_declare(od[c], x))
                      /\ \A s \in StmtNames \cup {NoStmt} : Fails(cursor_open(od[c], x, s))
                      /\ Fails(cursor_fetch_one(od[c], x))

(***************************************************************************)
(* A cursor that the driver has opened and nothing has closed since has a  *)
(* statement to fetch from, and a WITH HOLD cursor that is open for the    *)
(* program always has: neither the sweep of a COMMIT or ROLLBACK nor a     *)
(* failing OPEN or DECLARE nor another user of the same prepared statement *)
(* takes it away.                                                          *)
(***************************************************************************)
OpenCursorsHaveStatements ==
    \A x \in cursors :
        (cursor[x].drv = "open" \/ (cursor[x].open /\ cursor[x].hold)) =>
            HasStatement(od[cursor[x].conn], x)

(***************************************************************************)
(* A FETCH that fails on a cursor the driver has open is not taken for the *)
(* end of the data, whatever an earlier statement left in last_rc.         *)
(***************************************************************************)
NorecMeansEndOfData ==
    [][answer'.kind = "error" /\ cursor[answer'.x].drv = "open" => sqlcode' # "norec"]_odVars

(***************************************************************************)
(* A negative SQLCODE means that the statement changed nothing.  The       *)
(* driver reports work done with a warning as a failure; what the program  *)
(* sees is then the positive code of the warning, if it has one            *)
(* (InfoCodes without zero).                                               *)
(***************************************************************************)
ErrorsChangeNothing ==
    [][(ret'.call \in {"exec", "prepare", "cursor"} /\ ret'.rc = "FAILED"
            /\ sqlcode' = "error" /\ 0 \notin InfoCodes) =>
          \A c \in ConnIds : ~(od'[c].done /\ ret'.conn = c)]_odVars

---------------------------------------------------------------------------
(* The driver implements AbstractCursor for the cursors that have their    *)
(* statement to themselves.                                                *)

CursorView(x) ==
    LET c == cursor[x].conn
        st == od[c].stmt[od[c].priv[x]]
        Closed == [open |-> FALSE, rows |-> 0, at |-> 0]
    IN  IF c = NoConn \/ source[x] # NoStmt THEN Closed
        ELSE IF ~HasStatement(od[c], x) THEN Closed
        ELSE IF ~st.open THEN Closed
        ELSE [open |-> TRUE, rows |-> st.rows, at |-> st.at]

Abstract == INSTANCE AbstractCursor WITH
                Cursors <- CursorNames, NoCursor <- NoStmt, Rows <- MaxRows,
                view <- [x \in CursorNames |-> CursorView(x)],
                answer <- IF answer.x # NoStmt /\ source[answer.x] = NoStmt
                          THEN answer ELSE NoAnswer

(***************************************************************************)
(* Rows are delivered in order, none twice and none left out without an    *)
(* error, and "no data" is answered exactly at the end.  The end of a      *)
(* transaction may close a cursor; it does not move one that stays open.   *)
(***************************************************************************)
ImplementsAbstractCursor == Abstract!Spec

=============================================================================
