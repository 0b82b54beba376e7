--------------------------- MODULE RuntimeOnMysql ---------------------------
(***************************************************************************)
(* The runtime with the MySQL driver behind its connections.  Each action  *)
(* is the action of GixSqlRuntime for that entry point together with the   *)
(* driver calls it makes.  GIXSQLDisconnect, which the preprocessor never  *)
(* emits, is left out.  Statements have no parameters; a SELECT has one    *)
(* column.                                                                 *)
(***************************************************************************)
EXTENDS GixSqlRuntime, MysqlDriver, FiniteSetsExt

CONSTANT OffModes   \* TRUE: autocommit may be Off; FALSE: it may be On or Native

ASSUME MysqlCompositionAssumption == OffModes \subseteq BOOLEAN

VARIABLES
    my,         \* the driver of each connection
    source,     \* the prepared statement each cursor was declared for, if any
    sent,       \* the positioned statement of the last call: its cursor
    answer,     \* what the last FETCH told: kind, cursor, row
    reached     \* per cursor: the key of the row the last FETCH moved to

myVars == <<vars, my, source, sent, answer, reached>>

NoAnswer == [kind |-> "none", x |-> NoStmt, row |-> 0]

\* Types of what the composition adds.
MyTypeOK ==
    /\ my \in [ConnIds -> Driver]
    /\ source \in [CursorNames -> StmtNames \cup {NoStmt}]
    /\ sent \in CursorNames \cup {NoStmt}
    /\ answer \in [kind : {"none", "error", "nodata", "row"},
                   x : CursorNames \cup {NoStmt}, row : 0..MaxKey]
    /\ reached \in [CursorNames -> Keys \cup {0}]

MyInit ==
    /\ Init
    /\ my = [c \in ConnIds |-> NullDriver]
    /\ source = [x \in CursorNames |-> NoStmt]
    /\ sent = NoStmt
    /\ answer = NoAnswer
    /\ reached = [x \in CursorNames |-> 0]

---------------------------------------------------------------------------
(* How a driver call and the runtime's step fit together.                  *)

\* The driver as the call finds it.
Fresh(c) == [my[c] EXCEPT !.hit = {}]

Becomes(c, p) == my' = [my EXCEPT ![c] = p]

\* FAIL_ON_ERROR(rc, st, dbi, err).
Reports(r, err) ==
    IF r.rc = DBERR_NO_ERROR THEN ret'.rc = "SUCCESS"
    ELSE ret'.rc = "FAILED" /\ sqlcode' = Status(r.p.last_rc, err)

\* A call that is not about rows; y is the cursor of a positioned statement.
Other(y) ==
    /\ sent' = y
    /\ answer' = NoAnswer
    /\ reached' = [x \in CursorNames |-> IF cursor'[x].open THEN reached[x] ELSE 0]

---------------------------------------------------------------------------
(* Connections.                                                            *)

MyConnect(n) ==
    /\ GIXSQLConnect(n)
    /\ IF next_conn_id' = next_conn_id
       THEN UNCHANGED my
       ELSE \E off \in OffModes, rows \in SUBSET Keys :
              my' = [c \in ConnIds |->
                        IF c = next_conn_id' THEN connect(off, rows)
                        ELSE IF conn'[c].session = conn[c].session THEN my[c]
                        ELSE NullDriver]
    /\ \A c \in ConnIds : conn'[c].session # "lost"
    /\ sqlcode' \in {"zero", "error"}
    /\ UNCHANGED source
    /\ Other(NoStmt)

\* reset() cannot fail in this driver.
Terminated(c) ==
    IF c = NoConn THEN UNCHANGED my
    ELSE ret'.rc = "SUCCESS" /\ Becomes(c, NullDriver)

MyConnectReset(n) ==
    /\ GIXSQLConnectReset(n)
    /\ Terminated(get(n))
    /\ UNCHANGED source
    /\ Other(NoStmt)

MyResetAll ==
    /\ \/ ResetAllBegin /\ UNCHANGED my
       \/ ResetAllStep /\ Terminated(ret'.conn)
       \/ ResetAllEnd /\ UNCHANGED my
    /\ UNCHANGED source
    /\ Other(NoStmt)

---------------------------------------------------------------------------
(* Statements.                                                             *)

QueryKind(s) == IF s \in {"COMMIT", "ROLLBACK"} THEN "tx_end" ELSE "other"

\* A closeConnectionCursors() that does not look at WITH HOLD.
Swept_AlsoHeld(c, s) ==
    IF is_commit_or_rollback_statement(QueryKind(s))
    THEN FoldSet(LAMBDA x, ps : UNION {{r.p : r \in cursor_close(p, x, source[x])} : p \in ps},
                 {Fresh(c)}, CursorsOf(c))
    ELSE {Fresh(c)}

\* closeConnectionCursors(): one cursor_close() after the other, results ignored.
Swept(c, s) ==
    IF is_commit_or_rollback_statement(QueryKind(s))
    THEN FoldSet(LAMBDA x, ps : UNION {{r.p : r \in cursor_close(p, x, source[x])} : p \in ps},
                 {Fresh(c)}, {x \in CursorsOf(c) : ~cursor[x].hold})
    ELSE {Fresh(c)}

MyExec(n, s) ==
    LET c == get(n)
    IN  /\ GIXSQLExec(n, QueryKind(s))
        /\ IF c = NoConn THEN UNCHANGED my
           ELSE \E p \in Swept(c, s) : \E r \in exec(p, s) :
                   Reports(r, DBERR_SQL_ERROR) /\ Becomes(c, r.p)
        /\ UNCHANGED source
        /\ Other(NoStmt)

\* UPDATE or DELETE WHERE CURRENT OF y.
MyPositioned(n, op, y) ==
    LET c == get(n)
    IN  /\ GIXSQLExec(n, "other")
        /\ IF c = NoConn THEN UNCHANGED my
           ELSE \E r \in positioned(Fresh(c), op, y) :
                   Reports(r, DBERR_SQL_ERROR) /\ Becomes(c, r.p)
        /\ UNCHANGED source
        /\ Other(y)

\* The process dies while the statement is rewritten.
MyPositionedCrash(n, y) ==
    /\ Ready
    /\ get(n) # NoConn
    /\ PositionedCrashes(my[get(n)], y)
    /\ alive' = FALSE
    /\ UNCHANGED <<connVars, curVars, varLists, loopVars, sqlcode, ret, my, source,
                   sent, answer, reached>>

MyPrepare(n, s, text) ==
    LET c == get(n)
    IN  /\ GIXSQLPrepareStatement(n, "other")
        /\ IF c = NoConn THEN UNCHANGED my
           ELSE \E r \in prepare(Fresh(c), s, text) :
                   Reports(r, DBERR_SQL_ERROR) /\ Becomes(c, r.p)
        /\ UNCHANGED source
        /\ Other(NoStmt)

MyExecPrepared(n, s) ==
    LET c == get(n)
    IN  /\ GIXSQLExecPrepared(n, "other", 0)
        /\ IF c = NoConn THEN UNCHANGED my
           ELSE \E r \in exec_prepared(Fresh(c), s) :
                   Reports(r, DBERR_SQL_ERROR) /\ Becomes(c, r.p)
        /\ UNCHANGED source
        /\ Other(NoStmt)

(***************************************************************************)
(* The second half of a SELECT INTO or an EXECUTE INTO, after the driver   *)
(* ran the statement: p is the driver after move_to_first_record(), code   *)
(* the driver code that "too much data" is reported with.                  *)
(***************************************************************************)
IntoReports(p, nRes, code) ==
    LET Failed(st) == ret'.rc = "FAILED" /\ sqlcode' = st
    IN  IF get_num_fields(p) # nRes THEN Failed(Status(NoDbi, DBERR_FIELD_COUNT_MISMATCH))
        ELSE IF get_num_rows(p) < 1 THEN Failed(Status(NoDbi, DBERR_NO_DATA))
        ELSE IF get_num_rows(p) > 1 THEN Failed(Status(code, DBERR_TOO_MUCH_DATA))
        ELSE \/ ret'.rc = "SUCCESS"
             \/ res_vars > 0 /\ \E err \in {DBERR_INVALID_COLUMN_DATA, DBERR_NUM_OUT_OF_RANGE} :
                                    Failed(Status(p.last_rc, err))

\* s is the prepared statement, NoStmt for a SELECT INTO.
Into(c, r, s, nRes) ==
    IF r.rc # DBERR_NO_ERROR THEN Reports(r, DBERR_SQL_ERROR) /\ Becomes(c, r.p)
    ELSE \E m \in move_to_first_record(r.p, s) :
            /\ Becomes(c, m.p)
            /\ IF m.rc # DBERR_NO_ERROR
               THEN ret'.call = "first_row" /\ sqlcode' = Status(m.p.last_rc, m.p.last_rc)
               ELSE /\ ret'.call = "exec"
                    /\ IntoReports(m.p, nRes, IF s = NoStmt THEN m.p.last_rc ELSE NoDbi)

MySelectInto(n, nRes) ==
    LET c == get(n)
    IN  /\ GIXSQLExecSelectIntoOne(n, "other", nRes)
        /\ IF c = NoConn THEN UNCHANGED my
           ELSE \E r \in exec(Fresh(c), "SELECT") : Into(c, r, NoStmt, nRes)
        /\ UNCHANGED source
        /\ Other(NoStmt)

MyExecPreparedInto(n, s, nRes) ==
    LET c == get(n)
    IN  /\ GIXSQLExecPreparedInto(n, "other", 0, nRes)
        /\ IF c = NoConn THEN UNCHANGED my
           ELSE \E r \in exec_prepared(Fresh(c), s) : Into(c, r, s, nRes)
        /\ UNCHANGED source
        /\ Other(NoStmt)

---------------------------------------------------------------------------
(* Cursors.                                                                *)

\* cursor_declare() cannot fail.
MyDeclare(x, n, host, hold, s) ==
    LET c == get(n)
    IN  /\ GIXSQLCursorDeclare(x, n, host, hold, "other")
        /\ x \notin cursors => ret'.rc = "SUCCESS"
        /\ source' = IF x \in cursors THEN source ELSE [source EXCEPT ![x] = s]
        /\ IF x \in cursors \/ c = NoConn THEN UNCHANGED my
           ELSE Becomes(c, cursor_declare(Fresh(c), x))
        /\ Other(NoStmt)

\* OPEN declares and closes the cursor first if need be; a CLOSE that fails ends it.
MyOpen(x, hv) ==
    LET c == IF x \in cursors THEN OpenConnection(x, hv) ELSE NoConn
        p == IF cursor[x].conn = NoConn THEN cursor_declare(Fresh(c), x) ELSE Fresh(c)
        closings == IF cursor[x].open THEN cursor_close(p, x, source[x])
                                      ELSE {Returns(p, DBERR_NO_ERROR)}
    IN  /\ GIXSQLCursorOpen(x, hv)
        /\ IF c = NoConn THEN UNCHANGED my
           ELSE /\ cursor'[x].drv # "undeclared"
                /\ \E q \in closings :
                      IF q.rc # DBERR_NO_ERROR
                      THEN Reports(q, DBERR_CLOSE_CURSOR_FAILED) /\ Becomes(c, q.p)
                      ELSE \E r \in cursor_open(q.p, x, source[x]) :
                              Reports(r, DBERR_OPEN_CURSOR_FAILED) /\ Becomes(c, r.p)
        /\ UNCHANGED <<source>>
        /\ sent' = NoStmt
        /\ answer' = NoAnswer
        /\ reached' = IF c = NoConn THEN reached ELSE [reached EXCEPT ![x] = 0]

\* The end of GIXSQLCursorFetchOne, after the driver's cursor_fetch_one().
FetchReports(r, x) ==
    LET Failed(err) == ret'.rc = "FAILED" /\ sqlcode' = Status(r.p.last_rc, err)
    IN  IF r.rc = DBERR_NO_DATA THEN ret'.rc = "FETCH_ROW_FAILED"
        ELSE IF r.rc # DBERR_NO_ERROR THEN Failed(DBERR_FETCH_ROW_FAILED)
        ELSE IF Columns(r.p.stmt[r.p.priv[x]]) # res_vars
        THEN Failed(DBERR_FIELD_COUNT_MISMATCH)
        ELSE \/ ret'.rc = "SUCCESS"
             \/ res_vars > 0 /\ Failed(DBERR_INVALID_COLUMN_DATA)
             \/ res_vars > 0 /\ Failed(DBERR_NUM_OUT_OF_RANGE)

\* How many rows of a statement have been passed.
Passed(st) == Cardinality({k \in st.rows : k <= st.pos})

FetchAnswer(x, p) ==
    [kind |-> CASE ret'.rc = "SUCCESS" -> "row"
                [] ret'.rc = "FETCH_ROW_FAILED" -> "nodata"
                [] ret'.rc = "FAILED" -> "error",
     x |-> x,
     row |-> IF ret'.rc = "SUCCESS" THEN Passed(p.stmt[p.priv[x]]) ELSE 0]

MyFetch(x) ==
    LET c == cursor[x].conn
    IN  /\ GIXSQLCursorFetchOne(x)
        /\ IF x \notin cursors \/ ~cursor[x].open
           THEN UNCHANGED <<my, reached>> /\ answer' = FetchAnswer(x, NullDriver)
           ELSE \E r \in cursor_fetch_one(Fresh(c), x) :
                   /\ FetchReports(r, x)
                   /\ Becomes(c, r.p)
                   /\ answer' = FetchAnswer(x, r.p)
                   /\ reached' = IF r.rc = DBERR_NO_ERROR
                                 THEN [reached EXCEPT ![x] = r.p.stmt[r.p.priv[x]].pos]
                                 ELSE reached
        /\ sent' = NoStmt
        /\ UNCHANGED source

MyClose(x) ==
    LET c == cursor[x].conn
    IN  /\ GIXSQLCursorClose(x)
        /\ IF x \in cursors /\ cursor[x].open
           THEN \E r \in cursor_close(Fresh(c), x, source[x]) :
                   Reports(r, DBERR_CLOSE_CURSOR_FAILED) /\ Becomes(c, r.p)
           ELSE UNCHANGED my
        /\ UNCHANGED source
        /\ Other(NoStmt)

MyVarLists ==
    /\ GIXSQLStartSQL \/ GIXSQLSetResultParams
    /\ UNCHANGED <<my, source>>
    /\ Other(NoStmt)

---------------------------------------------------------------------------
MyNext ==
    \/ \E n \in ConnectNames \cup {NoName} : MyConnect(n)
    \/ MyResetAll
    \/ MyVarLists
    \/ \E n \in AtNames :
          \/ MyConnectReset(n)
          \/ \E s \in Statements :
                \/ MyExec(n, s)
                \/ \E name \in StmtNames : MyPrepare(n, name, s)
          \/ \E nRes \in 0..MaxVars : MySelectInto(n, nRes)
          \/ \E s \in StmtNames :
                \/ MyExecPrepared(n, s)
                \/ \E nRes \in 0..MaxVars : MyExecPreparedInto(n, s, nRes)
          \/ \E y \in CursorNames :
                \/ \E op \in {"UPDATE", "DELETE"} : MyPositioned(n, op, y)
                \/ MyPositionedCrash(n, y)
                \/ \E host \in HostIds, hold \in BOOLEAN, s \in StmtNames \cup {NoStmt} :
                      MyDeclare(y, n, host, hold, s)
    \/ \E x \in CursorNames :
          \/ \E hv \in AtNames : MyOpen(x, hv)
          \/ MyFetch(x)
          \/ MyClose(x)

MySpec == MyInit /\ [][MyNext]_myVars

---------------------------------------------------------------------------
(* Properties.                                                             *)

(***************************************************************************)
(* A cursor that the driver has opened and nothing has closed since has a  *)
(* statement to fetch from, and a WITH HOLD cursor that is open for the    *)
(* program always has: the sweep of a COMMIT or ROLLBACK, a failing OPEN   *)
(* or another cursor of the same prepared statement do not take it away.   *)
(***************************************************************************)
OpenCursorsHaveStatements ==
    \A x \in cursors :
        (cursor[x].drv = "open" \/ (cursor[x].open /\ cursor[x].hold)) =>
            HasStatement(my[cursor[x].conn], x)

(***************************************************************************)
(* WHERE CURRENT OF that reports success has changed one row, the one the  *)
(* last FETCH of that cursor moved to since OPEN, and the driver still has *)
(* the cursor open, if the index it found is a unique one.                 *)
(***************************************************************************)
PositionedHitsFetchedRow ==
    [][\A y \in CursorNames :
          (/\ alive'
           /\ sent' = y
           /\ ret'.rc = "SUCCESS"
           /\ UniqueIndex
           /\ cursor[y].open
           /\ source[y] = NoStmt) =>
                /\ cursor[y].drv = "open"
                /\ reached[y] # 0
                /\ my'[ret'.conn].hit = {reached[y]}]_myVars

(***************************************************************************)
(* A FETCH that fails on a cursor the driver has open is not taken for the *)
(* end of the data, whatever an earlier statement left in last_rc.  On one *)
(* that a COMMIT has closed it is, after an UPDATE of no row.              *)
(***************************************************************************)
NorecMeansEndOfData ==
    [][answer'.kind = "error" /\ cursor[answer'.x].drv = "open" => sqlcode' # "norec"]_myVars

---------------------------------------------------------------------------
(* The driver implements AbstractCursor for the cursors that have their    *)
(* statement to themselves.                                                *)

CursorView(x) ==
    LET c == cursor[x].conn
        st == my[c].stmt[my[c].priv[x]]
        Closed == [open |-> FALSE, rows |-> 0, at |-> 0]
    IN  IF c = NoConn \/ source[x] # NoStmt THEN Closed
        ELSE IF ~HasStatement(my[c], x) THEN Closed
        ELSE [open |-> TRUE, rows |-> Cardinality(st.rows), at |-> Passed(st)]

Abstract == INSTANCE AbstractCursor WITH
                Cursors <- CursorNames, NoCursor <- NoStmt, Rows <- MaxKey,
                view <- [x \in CursorNames |-> CursorView(x)],
                answer <- IF answer.x # NoStmt /\ source[answer.x] = NoStmt
                          THEN answer ELSE NoAnswer

(***************************************************************************)
(* Rows are delivered in order, none twice and none left out without an    *)
(* error, and "no data" is answered exactly at the end: what other         *)
(* statements do to the table, and the end of the transaction, do not move *)
(* a cursor that stays open.                                               *)
(***************************************************************************)
ImplementsAbstractCursor == Abstract!Spec

=============================================================================
