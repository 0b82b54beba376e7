-------------------------- MODULE RuntimeOnSqlite --------------------------
(***************************************************************************)
(* The runtime with the SQLite driver behind its connections.  Each action *)
(* is the action of GixSqlRuntime for that entry point together with the   *)
(* driver calls it makes.  GIXSQLDisconnect, which the preprocessor never  *)
(* emits, is left out.  A SELECT has one column; only UPDATE ... WHERE     *)
(* CURRENT OF has parameters, written in one of Styles.                    *)
(***************************************************************************)
EXTENDS GixSqlRuntime, SqliteDriver

CONSTANTS
    OffModes,   \* TRUE: autocommit may be Off; FALSE: it may be Native
    Styles      \* how the parameters of a positioned UPDATE are written

ASSUME SqliteCompositionAssumption ==
    /\ OffModes \subseteq BOOLEAN
    /\ Styles \subseteq {"none", "anonymous", "dollar"}

VARIABLES
    sq,         \* the driver of each connection
    source,     \* the prepared statement each cursor was declared for, if any
    sent,       \* the statement of the last call, how it was given, its cursor
    answer,     \* what the last FETCH told: kind, cursor, row
    owed,       \* per cursor: rows there since OPEN and not passed by a FETCH
    reached,    \* per cursor: the row the last FETCH moved to, 0 for none
    mark        \* per connection: the rows when its last transaction ended or began

observers == <<sent, answer, owed, reached, mark>>
sqVars == <<vars, sq, source, observers>>

NoAnswer == [kind |-> "none", x |-> NoStmt, row |-> 0]
NothingSent == [by |-> "none", stmt |-> NoStmt, x |-> NoStmt]

\* A positioned statement, its own parameters written $1, $2... or not.
Positioned == {"positioned", "positioned_dollar"}
PositionedBy(style) == IF style = "dollar" THEN "positioned_dollar" ELSE "positioned"

Ways == {"none", "exec", "select_into", "prepared", "prepared_into"} \cup Positioned

\* Types of what the composition adds.
SqTypeOK ==
    /\ sq \in [ConnIds -> Driver]
    /\ source \in [CursorNames -> StmtNames \cup {NoStmt}]
    /\ sent \in [by : Ways, stmt : AllStatements \cup {"UPDATE", NoStmt},
                 x : CursorNames \cup {NoStmt}]
    /\ answer \in [kind : {"none", "error", "nodata", "row"},
                   x : CursorNames \cup {NoStmt}, row : Keys \cup {0}]
    /\ owed \in [CursorNames -> SUBSET Keys]
    /\ reached \in [CursorNames -> Keys \cup {0}]
    /\ mark \in [ConnIds -> SUBSET Keys]

SqInit ==
    /\ Init
    /\ sq = [c \in ConnIds |-> NullDriver]
    /\ source = [x \in CursorNames |-> NoStmt]
    /\ sent = NothingSent
    /\ answer = NoAnswer
    /\ owed = [x \in CursorNames |-> {}]
    /\ reached = [x \in CursorNames |-> 0]
    /\ mark = [c \in ConnIds |-> {}]

---------------------------------------------------------------------------
(* How a driver call and the runtime's step fit together.                  *)

\* The driver as the call finds it.
Fresh(c) == [sq[c] EXCEPT !.hit = {}]

Becomes(c, p) == sq' = [sq EXCEPT ![c] = p]

\* FAIL_ON_ERROR(rc, st, dbi, err).
Reports(r, err) ==
    IF r.rc = DBERR_NO_ERROR THEN ret'.rc = "SUCCESS"
    ELSE ret'.rc = "FAILED" /\ sqlcode' = Status(r.p.last_rc, err)

\* What an observer of the calls remembers: the rows of each open cursor that are
\* still in the table, the rows at the last start of a transaction.
StillThere(x, rows) ==
    IF cursor'[x].conn = NoConn THEN {} ELSE rows \cap sq'[cursor'[x].conn].table

Watch(by, stmt, x) ==
    /\ sent' = [by |-> by, stmt |-> stmt, x |-> x]
    /\ mark' = [c \in ConnIds |->
                   IF \/ sq'[c].tx # sq[c].tx \/ ~sq[c].connaddr
                      \/ /\ stmt \in {"BEGIN", "COMMIT", "ROLLBACK"}
                         /\ ret'.rc = "SUCCESS" /\ ret'.conn = c
                   THEN sq'[c].table ELSE mark[c]]

WatchCall(by, stmt, x) ==
    /\ Watch(by, stmt, x)
    /\ answer' = NoAnswer
    /\ owed' = [y \in CursorNames |-> StillThere(y, owed[y])]
    /\ reached' = [y \in CursorNames |-> IF cursor'[y].conn = NoConn THEN 0 ELSE reached[y]]

WatchOther == WatchCall("none", NoStmt, NoStmt)

---------------------------------------------------------------------------
(* Connections.                                                            *)

SqConnect(n) ==
    /\ GIXSQLConnect(n)
    /\ IF next_conn_id' = next_conn_id
       THEN UNCHANGED sq
       ELSE \E off \in OffModes, rows \in SUBSET Keys :
              sq' = [c \in ConnIds |->
                        IF c = next_conn_id' THEN connect(off, rows)
                        ELSE IF conn'[c].session = conn[c].session THEN sq[c]
                        ELSE NullDriver]
    /\ \A c \in ConnIds : conn'[c].session # "lost"
    /\ sqlcode' # "warning" /\ sqlcode' # "norec"
    /\ UNCHANGED source
    /\ WatchOther

\* The driver and all its statements go; the database rolls back.  reset() cannot
\* fail in this driver.
Terminated(c) ==
    IF c = NoConn THEN UNCHANGED sq
    ELSE ret'.rc = "SUCCESS" /\ Becomes(c, NullDriver)

SqConnectReset(n) ==
    /\ GIXSQLConnectReset(n)
    /\ Terminated(get(n))
    /\ UNCHANGED source
    /\ WatchOther

SqResetAll ==
    /\ \/ ResetAllBegin /\ UNCHANGED sq
       \/ ResetAllStep /\ Terminated(ret'.conn)
       \/ ResetAllEnd /\ UNCHANGED sq
    /\ UNCHANGED source
    /\ WatchOther

---------------------------------------------------------------------------
(* Statements.  The driver's cursor_close(), which COMMIT and ROLLBACK     *)
(* call for every cursor first, does nothing.                              *)

QueryKind(s) == IF s \in {"COMMIT", "ROLLBACK"} THEN "tx_end" ELSE "other"

SqExec(n, s) ==
    LET c == get(n)
    IN  /\ GIXSQLExec(n, QueryKind(s))
        /\ IF c = NoConn THEN UNCHANGED sq
           ELSE \E r \in exec(Fresh(c), s) : Reports(r, DBERR_SQL_ERROR) /\ Becomes(c, r.p)
        /\ UNCHANGED source
        /\ WatchCall("exec", s, NoStmt)

\* UPDATE or DELETE WHERE CURRENT OF y, with GIXSQLExec or GIXSQLExecParams.
SqPositioned(n, op, y, style) ==
    LET c == get(n)
    IN  /\ GIXSQLExec(n, "other")
        /\ IF c = NoConn THEN UNCHANGED sq
           ELSE \E r \in positioned(Fresh(c), op, y, style) :
                   Reports(r, DBERR_SQL_ERROR) /\ Becomes(c, r.p)
        /\ UNCHANGED source
        /\ WatchCall(PositionedBy(style), op, y)

\* The process dies while the statement is rewritten.
SqPositionedCrash(n, y) ==
    /\ Ready
    /\ get(n) # NoConn
    /\ PositionedCrashes(sq[get(n)], y)
    /\ alive' = FALSE
    /\ UNCHANGED <<connVars, curVars, varLists, loopVars, sqlcode, ret, sq, source,
                   observers>>

SqPrepare(n, s, text) ==
    LET c == get(n)
    IN  /\ GIXSQLPrepareStatement(n, "other")
        /\ IF c = NoConn THEN UNCHANGED sq
           ELSE \E r \in prepare(Fresh(c), s, text) :
                   Reports(r, DBERR_SQL_ERROR) /\ Becomes(c, r.p)
        /\ UNCHANGED source
        /\ WatchOther

SqExecPrepared(n, s) ==
    LET c == get(n)
    IN  /\ GIXSQLExecPrepared(n, "other", 0)
        /\ IF c = NoConn THEN UNCHANGED sq
           ELSE \E r \in exec_prepared(Fresh(c), s) :
                   Reports(r, DBERR_SQL_ERROR) /\ Becomes(c, r.p)
        /\ UNCHANGED source
        /\ WatchCall("prepared", IF c = NoConn THEN NoStmt ELSE sq[c].stmt[s].text, NoStmt)

(***************************************************************************)
(* SELECT INTO and EXECUTE INTO, after the statement ran.  The driver does *)
(* not count rows (no ResultSetRowCount): the first one is taken.  s is    *)
(* the prepared statement, NoStmt for SELECT INTO.                         *)
(***************************************************************************)
IntoReports(p, nRes) ==
    LET Failed(st) == ret'.rc = "FAILED" /\ sqlcode' = st
    IN  IF get_num_fields(p) # nRes THEN Failed(Status(NoDbi, DBERR_FIELD_COUNT_MISMATCH))
        ELSE \/ ret'.rc = "SUCCESS"
             \/ res_vars > 0 /\ \E err \in {DBERR_INVALID_COLUMN_DATA, DBERR_NUM_OUT_OF_RANGE} :
                                    Failed(Status(p.last_rc, err))

Into(c, r, s, nRes) ==
    IF r.rc # DBERR_NO_ERROR THEN Reports(r, DBERR_SQL_ERROR) /\ Becomes(c, r.p)
    ELSE LET m == move_to_first_record(r.p, s)
         IN  /\ Becomes(c, m.p)
             /\ IF m.rc # DBERR_NO_ERROR
                THEN ret'.call = "first_row" /\ sqlcode' = Status(m.rc, m.rc)
                ELSE ret'.call = "exec" /\ IntoReports(m.p, nRes)

SqSelectInto(n, nRes) ==
    LET c == get(n)
    IN  /\ GIXSQLExecSelectIntoOne(n, "other", nRes)
        /\ IF c = NoConn THEN UNCHANGED sq
           ELSE \E r \in exec(Fresh(c), "SELECT") : Into(c, r, NoStmt, nRes)
        /\ UNCHANGED source
        /\ WatchCall("select_into", "SELECT", NoStmt)

SqExecPreparedInto(n, s, nRes) ==
    LET c == get(n)
    IN  /\ GIXSQLExecPreparedInto(n, "other", 0, nRes)
        /\ IF c = NoConn THEN UNCHANGED sq
           ELSE \E r \in exec_prepared(Fresh(c), s) : Into(c, r, s, nRes)
        /\ UNCHANGED source
        /\ WatchCall("prepared_into", IF c = NoConn THEN NoStmt ELSE sq[c].stmt[s].text, NoStmt)

---------------------------------------------------------------------------
(* Cursors.                                                                *)

\* cursor_declare() cannot fail.
SqDeclare(x, n, host, hold, s) ==
    LET c == get(n)
    IN  /\ GIXSQLCursorDeclare(x, n, host, hold, "other")
        /\ x \notin cursors => ret'.rc = "SUCCESS"
        /\ source' = IF x \in cursors THEN source ELSE [source EXCEPT ![x] = s]
        /\ IF x \in cursors \/ c = NoConn THEN UNCHANGED sq
           ELSE Becomes(c, cursor_declare(Fresh(c), x))
        /\ WatchOther

\* The driver as OPEN finds it: the cursor is declared and closed first if need be.
Prepared(c, x) ==
    LET p == IF cursor[x].conn = NoConn THEN cursor_declare(Fresh(c), x) ELSE Fresh(c)
    IN  IF cursor[x].open THEN cursor_close(p, x) ELSE p

SqOpen(x, hv) ==
    LET c == IF x \in cursors THEN OpenConnection(x, hv) ELSE NoConn
    IN  /\ GIXSQLCursorOpen(x, hv)
        /\ IF c = NoConn THEN UNCHANGED sq
           ELSE /\ cursor'[x].drv # "undeclared"
                /\ \E r \in cursor_open(Prepared(c, x), x, source[x]) :
                      Reports(r, DBERR_OPEN_CURSOR_FAILED) /\ Becomes(c, r.p)
        /\ UNCHANGED source
        /\ Watch("none", NoStmt, NoStmt)
        /\ answer' = NoAnswer
        /\ LET opened == c # NoConn /\ ret'.rc = "SUCCESS"
           IN  /\ owed' = [y \in CursorNames |->
                              StillThere(y, IF y = x /\ opened THEN Keys ELSE owed[y])]
               /\ reached' = IF opened THEN [reached EXCEPT ![x] = 0] ELSE reached

\* The end of GIXSQLCursorFetchOne, after the driver's cursor_fetch_one().
FetchReports(r, x) ==
    LET Failed(err) == ret'.rc = "FAILED" /\ sqlcode' = Status(r.p.last_rc, err)
    IN  IF r.rc = DBERR_NO_DATA THEN ret'.rc = "FETCH_ROW_FAILED"
        ELSE IF r.rc # DBERR_NO_ERROR THEN Failed(DBERR_FETCH_ROW_FAILED)
        ELSE IF Columns(r.p.stmt[r.p.priv[x]]) # res_vars
        THEN Failed(DBERR_FIELD_COUNT_MISMATCH)
        ELSE \/ ret'.rc = "SUCCESS"
             \/ res_vars > 0 /\ Failed(DBERR_INVALID_COLUMN_DATA)
             \/ res_vars > 0 /\ Failed(DBERR_NUM_OUT_OF_RANGE)

AnswerKind == [rc \in Results |-> CASE rc = "SUCCESS" -> "row"
                                    [] rc = "FETCH_ROW_FAILED" -> "nodata"
                                    [] rc = "FAILED" -> "error"]

SqFetch(x) ==
    LET c == cursor[x].conn
    IN  /\ GIXSQLCursorFetchOne(x)
        /\ IF x \notin cursors \/ ~cursor[x].open
           THEN UNCHANGED sq /\ WatchOther
           ELSE \E r \in cursor_fetch_one(Fresh(c), x) :
                   LET row == IF r.rc = DBERR_NO_ERROR THEN CurrentRow(r.p, x) ELSE 0
                   IN  /\ FetchReports(r, x)
                       /\ Becomes(c, r.p)
                       /\ Watch("none", NoStmt, NoStmt)
                       /\ answer' = [kind |-> AnswerKind[ret'.rc], x |-> x,
                                     row |-> IF ret'.rc = "SUCCESS" THEN row ELSE 0]
                       /\ owed' = [y \in CursorNames |->
                                      StillThere(y, owed[y] \ IF y = x THEN {row} ELSE {})]
                       /\ reached' = [reached EXCEPT ![x] = row]
        /\ UNCHANGED source

SqClose(x) ==
    LET c == cursor[x].conn
    IN  /\ GIXSQLCursorClose(x)
        /\ IF x \in cursors /\ cursor[x].open
           THEN ret'.rc = "SUCCESS" /\ Becomes(c, cursor_close(Fresh(c), x))
           ELSE UNCHANGED sq
        /\ UNCHANGED source
        /\ WatchOther

SqVarLists ==
    /\ GIXSQLStartSQL \/ GIXSQLSetResultParams
    /\ UNCHANGED <<sq, source>>
    /\ WatchOther

---------------------------------------------------------------------------
SqNext ==
    \/ \E n \in ConnectNames \cup {NoName} : SqConnect(n)
    \/ SqResetAll
    \/ SqVarLists
    \/ \E n \in AtNames :
          \/ SqConnectReset(n)
          \/ \E s \in Statements :
                \/ SqExec(n, s)
                \/ \E name \in StmtNames : SqPrepare(n, name, s)
          \/ \E nRes \in 0..MaxVars : SqSelectInto(n, nRes)
          \/ \E s \in StmtNames :
                \/ SqExecPrepared(n, s)
                \/ \E nRes \in 0..MaxVars : SqExecPreparedInto(n, s, nRes)
          \/ \E y \in CursorNames :
                \/ \E style \in Styles : SqPositioned(n, "UPDATE", y, style)
                \/ SqPositioned(n, "DELETE", y, "none")
                \/ SqPositionedCrash(n, y)
                \/ \E host \in HostIds, hold \in BOOLEAN, s \in StmtNames \cup {NoStmt} :
                      SqDeclare(y, n, host, hold, s)
    \/ \E x \in CursorNames :
          \/ \E hv \in AtNames : SqOpen(x, hv)
          \/ SqFetch(x)
          \/ SqClose(x)

SqSpec == SqInit /\ [][SqNext]_sqVars

---------------------------------------------------------------------------
(* Properties.                                                             *)

(***************************************************************************)
(* A cursor that is open for the runtime is declared with the driver of    *)
(* its connection and has a statement there: neither FETCH nor             *)
(* get_num_fields(), which does not look, reads through a null pointer,    *)
(* also after the sweeps of COMMIT and ROLLBACK.                           *)
(***************************************************************************)
OpenCursorsHaveStatements ==
    \A x \in cursors :
        cursor[x].open =>
            LET p == sq[cursor[x].conn]
            IN  /\ x \in p.declared
                /\ p.priv[x] # NoStmt
                /\ p.stmt[p.priv[x]] # NoStatement

(***************************************************************************)
(* FETCH passes over no row that has been in the table since OPEN: SQLite  *)
(* is on the first row when OPEN returns, and the first FETCH must not     *)
(* move.  Rows come and go, transactions end and statements fail between.  *)
(* A cursor on a prepared statement shares its statement and is excepted.  *)
(***************************************************************************)
NoRowSkipped ==
    [][\A x \in CursorNames :
          answer'.x = x /\ source[x] = NoStmt =>
              /\ answer'.kind = "nodata" => owed[x] = {}
              /\ answer'.kind = "row" /\ answer'.row = 0 => owed[x] = {}
              /\ answer'.kind = "row" => \A k \in owed[x] : answer'.row <= k]_sqVars

\* The last call was WHERE CURRENT OF y and reached a driver; y, a cursor with a
\* query of its own, had been fetched from since its OPEN.
PositionedOn(y) ==
    /\ alive'
    /\ sent'.by \in Positioned
    /\ sent'.x = y
    /\ ret'.conn # NoConn
    /\ source[y] = NoStmt
    /\ reached[y] # 0

\* What it may have made of the rows, from driver p to q, with y on row k.
TouchesOnly(p, q, k) ==
    /\ q.hit \subseteq {k}
    /\ q.table = IF sent'.stmt = "DELETE" THEN p.table \ q.hit ELSE p.table
    /\ ret'.rc # "SUCCESS" => q.hit = {}
    /\ ret'.rc = "SUCCESS" /\ sent'.by = "positioned" => q.hit = {k}

(***************************************************************************)
(* WHERE CURRENT OF changes no row but the one the last FETCH of that      *)
(* cursor moved to: that row when it reports success, none when it reports *)
(* an error.  With parameters written $1, $2... success promises nothing:  *)
(* PositionedHitsFetchedRow is what the program then has to do without.    *)
(***************************************************************************)
PositionedTouchesOnlyFetched ==
    [][\A y \in CursorNames :
          PositionedOn(y) => TouchesOnly(sq[ret'.conn], sq'[ret'.conn], reached[y])]_sqVars

(***************************************************************************)
(* WHERE CURRENT OF that reports success has changed the row the last      *)
(* FETCH of that cursor moved to, however its parameters are written: what *)
(* the README says of updatable cursors.                                   *)
(***************************************************************************)
PositionedHitsFetchedRow ==
    [][\A y \in CursorNames :
          PositionedOn(y) /\ ret'.rc = "SUCCESS" =>
              sq'[ret'.conn].hit = {reached[y]}]_sqVars

(***************************************************************************)
(* A COMMIT that reports success has committed all there is, a ROLLBACK    *)
(* that does has undone everything since the transaction began, also when  *)
(* the driver has not begun a transaction after an earlier COMMIT: SQLite  *)
(* refuses the statement then and the program is told.                     *)
(***************************************************************************)
TransactionEndsTruthful ==
    [][(alive' /\ sent'.by \in {"exec", "prepared"} /\ ret'.rc = "SUCCESS") =>
          /\ sent'.stmt = "COMMIT" => sq'[ret'.conn].base = sq[ret'.conn].table
          /\ sent'.stmt = "ROLLBACK" => sq'[ret'.conn].table = mark[ret'.conn]]_sqVars

(***************************************************************************)
(* The engine's codes are positive, and 100 among them means a row: a call *)
(* that fails leaves a negative SQLCODE all the same, except where there   *)
(* is no row.                                                              *)
(***************************************************************************)
FailuresAreErrors ==
    [][ret'.rc = "FAILED" /\ ret'.call \in {"exec", "prepare", "cursor"} =>
          sqlcode' = "error"]_sqVars

=============================================================================
