-------------------------- MODULE RuntimeOnPgsql --------------------------
(***************************************************************************)
(* The runtime with the PostgreSQL driver behind its connections.  Each    *)
(* action is the action of GixSqlRuntime for that entry point together     *)
(* with the driver calls it makes: what GixSqlRuntime leaves open, the     *)
(* result of a driver call and its error code, is here what PgsqlDriver    *)
(* returns.  Statements have no parameters; a SELECT has one column.       *)
(***************************************************************************)
EXTENDS GixSqlRuntime, PgsqlDriver, FiniteSetsExt

CONSTANT OffModes   \* TRUE: autocommit may be Off; FALSE: it may be Native

ASSUME CompositionAssumption == OffModes \subseteq BOOLEAN

VARIABLES
    pg,         \* the driver of each connection
    source,     \* the prepared statement each cursor was declared for, if any
    sent,       \* the statement of the last call and how it was given
    answer,     \* what the last call told about a cursor's row
    warned      \* of each connection: an error was reported since the open transaction wrote

pgVars == <<vars, pg, source, sent, answer, warned>>

NoAnswer == [kind |-> "none", x |-> NoStmt, row |-> 0]

Ways == {"none", "exec", "select_into", "prepared", "prepared_into"}

\* Types of what the composition adds.
PgTypeOK ==
    /\ pg \in [ConnIds -> Driver]
    /\ source \in [CursorNames -> StmtNames \cup {NoStmt}]
    /\ sent.by \in Ways /\ sent.stmt \in AllStatements \cup {NoStmt}
    /\ answer.kind \in {"none", "error", "nodata", "row"}
    /\ answer.x \in CursorNames \cup {NoStmt} /\ answer.row \in 0..MaxRows
    /\ warned \in [ConnIds -> BOOLEAN]

PgInit ==
    /\ Init
    /\ pg = [c \in ConnIds |-> NullDriver]
    /\ source = [x \in CursorNames |-> NoStmt]
    /\ sent = [by |-> "none", stmt |-> NoStmt]
    /\ answer = NoAnswer
    /\ warned = [c \in ConnIds |-> FALSE]

---------------------------------------------------------------------------
(* How a driver call and the runtime's step fit together.                  *)

\* The driver as the call finds it.
Fresh(c) == [pg[c] EXCEPT !.fate = "none"]

Becomes(c, p) == pg' = [pg EXCEPT ![c] = p]

\* FAIL_ON_ERROR(rc, st, dbi, err).
Reports(r) ==
    IF r.rc = DBERR_NO_ERROR THEN ret'.rc = "SUCCESS"
    ELSE ret'.rc = "FAILED" /\ sqlcode' = Status(r.p.last_rc, DBERR_SQL_ERROR)

\* What an observer of the program's calls remembers.
Observe(by, stmt) ==
    /\ sent' = [by |-> by, stmt |-> stmt]
    /\ warned' = [c \in ConnIds |->
                     /\ pg'[c].dirty
                     /\ \/ warned[c]
                        \/ /\ ret'.conn = c
                           /\ ret'.rc = "FAILED"
                           /\ sqlcode' \in {"warning", "error"}]

ObserveOther == Observe("none", NoStmt) /\ answer' = NoAnswer

---------------------------------------------------------------------------
(* Connections.                                                            *)

\* A failing connect() leaves a PQstatus or a PQresultStatus in last_rc.
ConnectCodes == {NoDbi, PGRES_COMMAND_OK, PGRES_FATAL_ERROR}

PgConnect(n) ==
    /\ GIXSQLConnect(n)
    /\ IF next_conn_id' = next_conn_id
       THEN /\ UNCHANGED pg
            /\ \/ sqlcode' = "zero"
               \/ \E code \in ConnectCodes : sqlcode' = Status(code, DBERR_CONNECTION_FAILED)
       ELSE \E off \in OffModes :
              pg' = [c \in ConnIds |->
                        IF c = next_conn_id' THEN connect(off)
                        ELSE IF conn'[c].session = conn[c].session THEN pg[c]
                        ELSE terminate_connection(pg[c])]
    /\ \A c \in ConnIds : conn'[c].session # "lost"
    /\ UNCHANGED source
    /\ ObserveOther

\* reset() and terminate_connection() cannot fail in this driver.
Terminated(c) ==
    IF c = NoConn THEN UNCHANGED pg
    ELSE /\ ret'.rc = "SUCCESS"
         /\ Becomes(c, terminate_connection(pg[c]))

PgConnectReset(n) ==
    /\ GIXSQLConnectReset(n)
    /\ Terminated(get(n))
    /\ UNCHANGED source
    /\ ObserveOther

PgDisconnect(n) ==
    /\ GIXSQLDisconnect(n)
    /\ get(n) # NoConn => conn'[get(n)].pinned = conn[get(n)].pinned
    /\ Terminated(get(n))
    /\ UNCHANGED source
    /\ ObserveOther

PgResetAll ==
    /\ \/ ResetAllBegin /\ UNCHANGED pg
       \/ ResetAllStep /\ Terminated(ret'.conn)
       \/ ResetAllEnd /\ UNCHANGED pg
    /\ UNCHANGED source
    /\ ObserveOther

---------------------------------------------------------------------------
(* Statements.                                                             *)

\* The runtime compares the whole text, the driver the first word.
QueryKind(s) == IF s \in {"COMMIT", "ROLLBACK"} THEN "tx_end" ELSE "other"

\* A closeConnectionCursors() that does not look at WITH HOLD.
Swept_AlsoHeld(c, s) ==
    IF is_commit_or_rollback_statement(QueryKind(s))
    THEN FoldSet(LAMBDA x, p : cursor_close(p, x), Fresh(c), CursorsOf(c))
    ELSE Fresh(c)

\* closeConnectionCursors(): one cursor_close() after the other.
Swept(c, s) ==
    IF is_commit_or_rollback_statement(QueryKind(s))
    THEN FoldSet(LAMBDA x, p : cursor_close(p, x), Fresh(c),
                 {x \in CursorsOf(c) : ~cursor[x].hold})
    ELSE Fresh(c)

PgExec(n, s) ==
    LET c == get(n)
    IN  /\ GIXSQLExec(n, QueryKind(s))
        /\ IF c = NoConn THEN UNCHANGED pg
           ELSE \E r \in exec(Swept(c, s), s) : Reports(r) /\ Becomes(c, r.p)
        /\ UNCHANGED source
        /\ Observe("exec", s) /\ answer' = NoAnswer

PgPrepare(n, s, text) ==
    LET c == get(n)
    IN  /\ GIXSQLPrepareStatement(n, "other")
        /\ IF c = NoConn THEN UNCHANGED pg
           ELSE \E r \in prepare(Fresh(c), s, text) : Reports(r) /\ Becomes(c, r.p)
        /\ UNCHANGED source
        /\ ObserveOther

PgExecPrepared(n, s) ==
    LET c == get(n)
    IN  /\ GIXSQLExecPrepared(n, "other", 0)
        /\ IF c = NoConn THEN UNCHANGED pg
           ELSE \E r \in exec_prepared(Fresh(c), s) : Reports(r) /\ Becomes(c, r.p)
        /\ UNCHANGED source
        /\ Observe("prepared", IF c = NoConn THEN NoStmt ELSE pg[c].text[s])
        /\ answer' = NoAnswer

(***************************************************************************)
(* The second half of a SELECT INTO or an EXECUTE INTO, after the driver   *)
(* ran the statement: p is the driver after move_to_first_record(), code   *)
(* the driver code that "too much data" is reported with.                  *)
(***************************************************************************)
IntoReports(p, nRes, code) ==
    LET Failed(st) == ret'.rc = "FAILED" /\ sqlcode' = st
    IN  IF get_num_fields(p) # nRes THEN Failed(Status(NoDbi, DBERR_FIELD_COUNT_MISMATCH))
        ELSE IF get_num_rows(p) < 1 THEN Failed(Status(NoDbi, DBERR_NO_DATA))
        ELSE IF get_num_rows(p) > 1 THEN Failed(Status(code, DBERR_TOO_MUCH_DATA))
        ELSE \/ ret'.rc = "SUCCESS"
             \/ res_vars > 0 /\ \E err \in {DBERR_INVALID_COLUMN_DATA, DBERR_NUM_OUT_OF_RANGE} :
                                    Failed(Status(p.last_rc, err))

\* s is the prepared statement, NoStmt for a SELECT INTO.
Into(c, r, s, nRes) ==
    IF r.rc # DBERR_NO_ERROR THEN Reports(r) /\ Becomes(c, r.p)
    ELSE LET m == move_to_first_record(r.p, s)
         IN  /\ Becomes(c, m.p)
             /\ IF m.rc # DBERR_NO_ERROR
                THEN ret'.call = "first_row" /\ sqlcode' = Status(m.rc, m.rc)
                ELSE /\ ret'.call = "exec"
                     /\ IntoReports(m.p, nRes, IF s = NoStmt THEN m.p.last_rc ELSE NoDbi)

PgSelectInto(n, s, nRes) ==
    LET c == get(n)
    IN  /\ GIXSQLExecSelectIntoOne(n, QueryKind(s), nRes)
        /\ IF c = NoConn THEN UNCHANGED pg
           ELSE \E r \in exec(Swept(c, s), s) : Into(c, r, NoStmt, nRes)
        /\ UNCHANGED source
        /\ Observe("select_into", s) /\ answer' = NoAnswer

PgExecPreparedInto(n, s, nRes) ==
    LET c == get(n)
    IN  /\ GIXSQLExecPreparedInto(n, "other", 0, nRes)
        /\ IF c = NoConn THEN UNCHANGED pg
           ELSE \E r \in exec_prepared(Fresh(c), s) : Into(c, r, s, nRes)
        /\ UNCHANGED source
        /\ Observe("prepared_into", IF c = NoConn THEN NoStmt ELSE pg[c].text[s])
        /\ answer' = NoAnswer

---------------------------------------------------------------------------
(* Cursors.                                                                *)

\* cursor_declare() only notes the cursor and cannot fail.
PgDeclare(x, n, host, hold, s) ==
    /\ GIXSQLCursorDeclare(x, n, host, hold, "other")
    /\ x \notin cursors => ret'.rc = "SUCCESS"
    /\ source' = IF x \in cursors THEN source ELSE [source EXCEPT ![x] = s]
    /\ UNCHANGED pg
    /\ ObserveOther

PgOpen(x, hv) ==
    LET c == IF x \in cursors THEN OpenConnection(x, hv) ELSE NoConn
        p == IF cursor[x].open THEN cursor_close(Fresh(c), x) ELSE Fresh(c)
    IN  /\ GIXSQLCursorOpen(x, hv)
        /\ IF c = NoConn THEN UNCHANGED pg
           ELSE /\ cursor'[x].drv # "undeclared"
                /\ \E r \in cursor_open(p, x, cursor[x].hold, source[x]) :
                      Reports(r) /\ Becomes(c, r.p)
        /\ UNCHANGED source
        /\ ObserveOther

\* The row get_resultset_value() reads after a FETCH.
RowRead(p, x) == IF NativeCursors THEN p.portal[x].at ELSE p.priv[x].idx + 1

\* The end of GIXSQLCursorFetchOne, after the driver's cursor_fetch_one().
FetchReports(r, x) ==
    LET Failed(err) == ret'.rc = "FAILED" /\ sqlcode' = Status(r.p.last_rc, err)
    IN  IF r.rc = DBERR_NO_DATA THEN ret'.rc = "FETCH_ROW_FAILED"
        ELSE IF r.rc # DBERR_NO_ERROR THEN Failed(DBERR_FETCH_ROW_FAILED)
        ELSE IF r.p.priv[x].cols # res_vars THEN Failed(DBERR_FIELD_COUNT_MISMATCH)
        ELSE \/ ret'.rc = "SUCCESS"
             \/ res_vars > 0 /\ Failed(DBERR_INVALID_COLUMN_DATA)
             \/ res_vars > 0 /\ Failed(DBERR_NUM_OUT_OF_RANGE)

FetchAnswer(x, p) ==
    [kind |-> CASE ret'.rc = "SUCCESS" -> "row"
                [] ret'.rc = "FETCH_ROW_FAILED" -> "nodata"
                [] ret'.rc = "FAILED" -> "error",
     x |-> x,
     row |-> IF ret'.rc = "SUCCESS" THEN RowRead(p, x) ELSE 0]

PgFetch(x) ==
    LET c == cursor[x].conn
    IN  /\ GIXSQLCursorFetchOne(x)
        /\ IF x \notin cursors \/ ~cursor[x].open
           THEN UNCHANGED pg /\ answer' = FetchAnswer(x, NullDriver)
           ELSE /\ ~FetchCrashes(pg[c], x)
                /\ \E r \in cursor_fetch_one(Fresh(c), x) :
                      FetchReports(r, x) /\ Becomes(c, r.p) /\ answer' = FetchAnswer(x, r.p)
        /\ UNCHANGED source
        /\ Observe("none", NoStmt)

\* The process dies in the emulated FETCH.
PgFetchCrash(x) ==
    /\ Ready
    /\ x \in cursors
    /\ cursor[x].open
    /\ FetchCrashes(pg[cursor[x].conn], x)
    /\ alive' = FALSE
    /\ UNCHANGED <<connVars, curVars, varLists, loopVars, sqlcode, ret,
                   pg, source, sent, answer, warned>>

PgClose(x) ==
    LET c == cursor[x].conn
    IN  /\ GIXSQLCursorClose(x)
        /\ IF x \in cursors /\ cursor[x].open
           THEN ret'.rc = "SUCCESS" /\ Becomes(c, cursor_close(Fresh(c), x))
           ELSE UNCHANGED pg
        /\ UNCHANGED source
        /\ ObserveOther

PgVarLists ==
    /\ GIXSQLStartSQL \/ GIXSQLSetResultParams
    /\ UNCHANGED <<pg, source>>
    /\ ObserveOther

---------------------------------------------------------------------------
PgNext ==
    \/ \E n \in ConnectNames \cup {NoName} : PgConnect(n)
    \/ PgResetAll
    \/ PgVarLists
    \/ \E n \in AtNames :
          \/ PgConnectReset(n)
          \/ PgDisconnect(n)
          \/ \E s \in Statements :
                \/ PgExec(n, s)
                \/ \E nRes \in 0..MaxVars : PgSelectInto(n, s, nRes)
                \/ \E name \in StmtNames : PgPrepare(n, name, s)
          \/ \E s \in StmtNames :
                \/ PgExecPrepared(n, s)
                \/ \E nRes \in 0..MaxVars : PgExecPreparedInto(n, s, nRes)
          \/ \E x \in CursorNames, host \in HostIds, hold \in BOOLEAN,
                s \in StmtNames \cup {NoStmt} : PgDeclare(x, n, host, hold, s)
    \/ \E x \in CursorNames :
          \/ \E hv \in AtNames : PgOpen(x, hv)
          \/ PgFetch(x)
          \/ PgFetchCrash(x)
          \/ PgClose(x)

PgSpec == PgInit /\ [][PgNext]_pgVars

---------------------------------------------------------------------------
(* Properties.                                                             *)

(***************************************************************************)
(* Work is not lost in silence: when a COMMIT reports success, what the    *)
(* transaction wrote has been committed, unless an earlier call of the     *)
(* transaction, on the same connection, reported an error.  PostgreSQL     *)
(* turns the COMMIT of a failed transaction into a ROLLBACK and answers    *)
(* COMMAND_OK, so every command the driver sends on its own account has to *)
(* have its failure reported.                                              *)
(***************************************************************************)
NoSilentLoss ==
    [][\A c \in ConnIds :
          (/\ alive'
           /\ ret'.conn = c
           /\ pg'[c].fate = "lost"
           /\ sent'.stmt \in {"COMMIT", "COMMIT_WORK"}
           /\ ret'.rc = "SUCCESS") => warned[c]]_pgVars

(***************************************************************************)
(* With autocommit off a call that succeeds leaves the session in a        *)
(* transaction: COMMIT and ROLLBACK, in whatever spelling, start the next  *)
(* one.  A prepared COMMIT or ROLLBACK does not.                           *)
(***************************************************************************)
TransactionRestarted ==
    [][\A c \in ConnIds :
          (pg[c].off /\ pg[c].tx # "idle" /\ pg'[c].connaddr /\ pg'[c].tx = "idle") =>
              ret'.rc = "FAILED" \/ sent'.by \in {"prepared", "prepared_into"}]_pgVars

(***************************************************************************)
(* A cursor that the driver has opened and no transaction end has closed   *)
(* since has a result set to fetch from, so only a FETCH after COMMIT or   *)
(* ROLLBACK reads through a null pointer; and a cursor that is not open    *)
(* keeps no result set.                                                    *)
(***************************************************************************)
OpenCursorsHaveResults ==
    \A x \in cursors :
        cursor[x].conn # NoConn /\ source[x] = NoStmt =>
            (cursor[x].drv = "open" <=> pg[cursor[x].conn].priv[x] # NoResult)

(***************************************************************************)
(* COMMIT and ROLLBACK leave a WITH HOLD cursor that an earlier COMMIT has *)
(* made permanent where it is: same rows, same position.                   *)
(***************************************************************************)
HeldCursorsStay ==
    [][\A c \in ConnIds, x \in CursorNames :
          sent'.by # "none" /\ pg[c].portal[x].kind = "held" =>
              pg'[c].portal[x] = pg[c].portal[x]]_pgVars

(***************************************************************************)
(* A FETCH that fails is not taken for the end of the data: SQLCODE is the *)
(* no-record code only if there was no row, whatever an earlier statement  *)
(* left in last_rc (an UPDATE of no row leaves 100 there).                 *)
(***************************************************************************)
NorecMeansEndOfData == [][answer'.kind = "error" => sqlcode' # "norec"]_pgVars

---------------------------------------------------------------------------
(* The driver implements AbstractCursor.                                   *)

CursorView(x) ==
    LET c == cursor[x].conn
        p == pg[c].portal[x]
        r == pg[c].priv[x]
        Opened(rows, at) == [open |-> TRUE, rows |-> rows,
                             at |-> IF at < rows THEN at ELSE rows]
        Closed == [open |-> FALSE, rows |-> 0, at |-> 0]
    IN  IF c = NoConn THEN Closed
        ELSE IF NativeCursors
        THEN IF p.kind = "none" THEN Closed ELSE Opened(p.rows, p.at)
        ELSE IF r = NoResult THEN Closed ELSE Opened(r.rows, r.idx + 1)

Abstract == INSTANCE AbstractCursor WITH
                Cursors <- CursorNames, NoCursor <- NoStmt, Rows <- MaxRows,
                view <- [x \in CursorNames |-> CursorView(x)]

(***************************************************************************)
(* Rows are delivered in order, none twice and none left out without an    *)
(* error, and "no data" is answered exactly at the end, by native and by   *)
(* emulated cursors alike.                                                 *)
(***************************************************************************)
ImplementsAbstractCursor == Abstract!Spec

=============================================================================
