---------------------------- MODULE PgsqlDriver ----------------------------
(***************************************************************************)
(* DbInterfacePGSQL.cpp over a PostgreSQL session.  Every method of the    *)
(* driver is an operator from the state of driver and session to the set   *)
(* of its possible results, [p |-> new state, rc |-> return value].  The   *)
(* server is external: Server and what it uses say how PostgreSQL answers  *)
(* the commands this driver sends.                                         *)
(***************************************************************************)
EXTENDS Sqlca, CursorNaming

CONSTANTS
    StmtNames,      \* names of prepared statements
    NoStmt,
    Statements,     \* the statements the program executes or prepares
    MaxRows,        \* bound on the rows of a result
    NativeCursors   \* the native_cursors option of the data source

AllStatements == {"BEGIN", "COMMIT", "COMMIT_WORK", "ROLLBACK",
                  "INSERT", "UPDATE", "SELECT"}

ASSUME PgsqlAssumption ==
    /\ NoStmt \notin StmtNames \cup CursorNames \cup AllStatements
    /\ Statements \subseteq AllStatements
    /\ MaxRows \in Nat \ {0}
    /\ NativeCursors \in BOOLEAN

PGRES_COMMAND_OK  == 1
PGRES_TUPLES_OK   == 2
PGRES_FATAL_ERROR == 7

\* A PGResultSetData: the columns and rows of the result, current_row_index.
Result == [cols : 0..1, rows : 0..MaxRows, idx : -1..MaxRows]
NoResult == [cols |-> 0, rows |-> 0, idx |-> -2]    \* a null pointer

\* A result whose current row is the first from the start; one with the two
\* counts exchanged.
NewResult_AtFirst(cols, rows) == [cols |-> cols, rows |-> rows, idx |-> 0]
NewResult_Exchanged(cols, rows) == [cols |-> rows, rows |-> cols, idx |-> -1]

NewResult(cols, rows) == [cols |-> cols, rows |-> rows, idx |-> -1]

(***************************************************************************)
(* A cursor of the server: of this transaction only, WITH HOLD and not yet *)
(* committed, or held; at is the last row fetched.                         *)
(***************************************************************************)
Portal == [kind : {"none", "tx", "hold", "held"}, rows : 0..MaxRows, at : 0..MaxRows]
NoPortal == [kind |-> "none", rows |-> 0, at |-> 0]

(***************************************************************************)
(* connaddr  the session exists      cur   current_resultset_data          *)
(* off       autocommit is Off       priv  private data of each cursor     *)
(* tx        transaction state       text  statement prepared under a name *)
(* dirty     the transaction wrote   res   _prepared_stmts: last result    *)
(* fate      what the last call did to that work                           *)
(* portal    the server's cursors    last_rc                               *)
(***************************************************************************)
Driver == [connaddr : BOOLEAN, off : BOOLEAN, tx : {"idle", "open", "failed"},
           dirty : BOOLEAN, fate : {"none", "committed", "lost"},
           portal : [CursorNames -> Portal],
           cur : Result \cup {NoResult}, priv : [CursorNames -> Result \cup {NoResult}],
           text : [StmtNames -> AllStatements \cup {NoStmt}],
           res : [StmtNames -> Result \cup {NoResult}], last_rc : Int]

NullDriver == [connaddr |-> FALSE, off |-> FALSE, tx |-> "idle", dirty |-> FALSE,
               fate |-> "none", portal |-> [x \in CursorNames |-> NoPortal],
               cur |-> NoResult, priv |-> [x \in CursorNames |-> NoResult],
               text |-> [s \in StmtNames |-> NoStmt],
               res |-> [s \in StmtNames |-> NoResult], last_rc |-> 0]

---------------------------------------------------------------------------
(* The server.  An answer is [p, st, cols, rows]: the new session, the     *)
(* PQresultStatus, and the shape of the result.                            *)

\* A command: its kind, and for a cursor command the cursor and what it is for.
Sql(op) == [op |-> op, x |-> NoStmt, hold |-> FALSE, body |-> NoStmt]
Declare_(x, hold, body) == [op |-> "DECLARE", x |-> x, hold |-> hold, body |-> body]
Fetch_(x) == [op |-> "FETCH", x |-> x, hold |-> FALSE, body |-> NoStmt]
Close_(x) == [op |-> "CLOSE", x |-> x, hold |-> FALSE, body |-> NoStmt]
Parse_(body) == [op |-> "PARSE", x |-> NoStmt, hold |-> FALSE, body |-> body]

Answer(p, st, cols, rows) == [p |-> p, st |-> st, cols |-> cols, rows |-> rows]

\* An error aborts the transaction there is.
Refuse(p) == Answer([p EXCEPT !.tx = IF @ = "open" THEN "failed" ELSE @],
                    PGRES_FATAL_ERROR, 0, 0)

\* The transaction ends; keep says whether its effects stay.
EndTx(p, keep) ==
    [p EXCEPT !.tx = "idle",
              !.dirty = FALSE,
              !.fate = IF ~p.dirty THEN @ ELSE IF keep THEN "committed" ELSE "lost",
              !.portal = [x \in CursorNames |->
                             IF @[x].kind = "held" THEN @[x]
                             ELSE IF @[x].kind = "hold" /\ keep
                             THEN [@[x] EXCEPT !.kind = "held"]
                             ELSE NoPortal]]

\* COMMIT of a failed transaction is a ROLLBACK that succeeds; a COMMIT can
\* fail itself (a deferred constraint) and rolls back then.
ServerCommit(p) ==
    {Answer(EndTx(p, p.tx = "open"), PGRES_COMMAND_OK, 0, 0)} \cup
    (IF p.tx = "open" THEN {Answer(EndTx(p, FALSE), PGRES_FATAL_ERROR, 0, 0)} ELSE {})

Written(p) == [p EXCEPT !.dirty = p.tx = "open"]

ServerDeclare(p, c) ==
    LET kind == IF ~c.hold THEN "tx" ELSE IF p.tx = "idle" THEN "held" ELSE "hold"
    IN  IF \/ p.portal[c.x].kind # "none"
           \/ c.body # "SELECT"
           \/ p.tx = "idle" /\ ~c.hold
        THEN {}
        ELSE {Answer([p EXCEPT !.portal[c.x] = [kind |-> kind, rows |-> n, at |-> 0]],
                     PGRES_COMMAND_OK, 0, 0) : n \in 0..MaxRows}

\* FETCH RELATIVE 1; past the last row the position stays.
ServerFetch(p, x) ==
    IF p.portal[x].kind = "none" THEN {}
    ELSE IF p.portal[x].at < p.portal[x].rows
    THEN {Answer([p EXCEPT !.portal[x].at = @ + 1], PGRES_TUPLES_OK, 1, 1)}
    ELSE {Answer(p, PGRES_TUPLES_OK, 1, 0)}

ServerClose(p, x) ==
    IF p.portal[x].kind = "none" THEN {Refuse(p)}
    ELSE {Answer([p EXCEPT !.portal[x] = NoPortal], PGRES_COMMAND_OK, 0, 0)}

Server(p, c) ==
    CASE ~p.connaddr -> {Refuse(p)}
      [] p.connaddr /\ c.op \in {"COMMIT", "COMMIT_WORK"} -> ServerCommit(p)
      [] p.connaddr /\ c.op = "ROLLBACK" ->
            {Answer(EndTx(p, FALSE), PGRES_COMMAND_OK, 0, 0)}
      [] p.connaddr /\ c.op = "PARSE" /\ c.body \in {"COMMIT", "COMMIT_WORK", "ROLLBACK"} ->
            {Answer(p, PGRES_COMMAND_OK, 0, 0)}
      [] OTHER ->
            IF p.tx = "failed" THEN {Refuse(p)}
            ELSE CASE c.op = "BEGIN" ->
                        {Answer([p EXCEPT !.tx = "open"], PGRES_COMMAND_OK, 0, 0)}
                   [] c.op = "PARSE" -> {Refuse(p), Answer(p, PGRES_COMMAND_OK, 0, 0)}
                   [] c.op = "INSERT" ->
                        {Refuse(p), Answer(Written(p), PGRES_COMMAND_OK, 0, 1)}
                   [] c.op = "UPDATE" ->
                        {Refuse(p), Answer(p, PGRES_COMMAND_OK, 0, 0),
                         Answer(Written(p), PGRES_COMMAND_OK, 0, 1)}
                   [] c.op = "SELECT" ->
                        {Refuse(p)} \cup
                        {Answer(p, PGRES_TUPLES_OK, 1, n) : n \in 0..MaxRows}
                   [] c.op = "DECLARE" -> {Refuse(p)} \cup ServerDeclare(p, c)
                   [] c.op = "FETCH" -> {Refuse(p)} \cup ServerFetch(p, c.x)
                   [] c.op = "CLOSE" -> ServerClose(p, c.x)

---------------------------------------------------------------------------
(* The driver.                                                             *)

Returns(p, rc) == [p |-> p, rc |-> rc]

\* An is_tx_termination_statement that does not know ROLLBACK.
is_tx_termination_statement_CommitOnly(c) == c.op \in {"COMMIT", "COMMIT_WORK"}

is_tx_termination_statement(c) == c.op \in {"COMMIT", "COMMIT_WORK", "ROLLBACK"}
is_update_or_delete_statement(c) == c.op = "UPDATE"

\* A Keep that never gives a cursor its result.
Keep_CurrentOnly(p, x, r) == [p EXCEPT !.cur = r]

\* The result goes to the cursor, or becomes the current result set.
Keep(p, x, r) == IF x \in CursorNames THEN [p EXCEPT !.priv[x] = r]
                                      ELSE [p EXCEPT !.cur = r]

(***************************************************************************)
(* With autocommit off a COMMIT or ROLLBACK that succeeded is followed by  *)
(* START TRANSACTION, whose status replaces the first one.                 *)
(***************************************************************************)
Restart(p) ==
    {Returns([b.p EXCEPT !.last_rc = b.st, !.cur = NoResult],
             IF b.st = PGRES_COMMAND_OK THEN DBERR_NO_ERROR ELSE DBERR_SQL_ERROR)
        : b \in Server(p, Sql("BEGIN"))}

\* The rest of the method: an UPDATE or DELETE of no row is "no record".
Finish(a, c, x) ==
    IF a.st = PGRES_COMMAND_OK /\ is_update_or_delete_statement(c) /\ a.rows = 0
    THEN Returns([a.p EXCEPT !.last_rc = 100], DBERR_SQL_ERROR)
    ELSE IF a.st # PGRES_FATAL_ERROR
    THEN Returns(Keep([a.p EXCEPT !.last_rc = a.st], x, NewResult(a.cols, a.rows)),
                 DBERR_NO_ERROR)
    ELSE Returns([a.p EXCEPT !.last_rc = -(10000 + a.st)], DBERR_SQL_ERROR)

(***************************************************************************)
(* _pgsql_exec and _pgsql_exec_params: command c for cursor x, or for none.*)
(* Without a cursor the current result set is dropped first.               *)
(***************************************************************************)
pgsql_exec(p, c, x) ==
    LET q == IF x \in CursorNames THEN p ELSE [p EXCEPT !.cur = NoResult]
    IN  UNION {IF p.off /\ is_tx_termination_statement(c) /\ a.st = PGRES_COMMAND_OK
               THEN Restart(a.p)
               ELSE {Finish([a EXCEPT !.p.cur = IF p.off /\ is_tx_termination_statement(c)
                                                THEN NoResult ELSE @], c, x)}
                 : a \in Server(q, c)}

exec(p, op) == pgsql_exec(p, Sql(op), NoStmt)

\* connect(): with autocommit off the session starts in a transaction.
connect(off) ==
    [NullDriver EXCEPT !.connaddr = TRUE, !.off = off,
                       !.tx = IF off THEN "open" ELSE "idle"]

\* terminate_connection(): the server forgets the session, the driver keeps
\* the names of its prepared statements.
terminate_connection(p) ==
    [NullDriver EXCEPT !.off = p.off, !.text = p.text, !.res = p.res,
                       !.last_rc = p.last_rc,
                       !.fate = IF p.dirty THEN "lost" ELSE "none"]

\* A failing PQprepare leaves its status in last_rc as it is; a name in use
\* leaves the code of an earlier call there.
prepare(p, s, op) ==
    IF p.text[s] # NoStmt THEN {Returns(p, DBERR_PREPARE_FAILED)}
    ELSE {IF a.st = PGRES_COMMAND_OK
          THEN Returns([a.p EXCEPT !.last_rc = a.st, !.text[s] = op], DBERR_NO_ERROR)
          ELSE Returns([a.p EXCEPT !.last_rc = a.st], DBERR_PREPARE_FAILED)
            : a \in Server(p, Parse_(op))}

\* An exec_prepared that does not look at the status it got.
exec_prepared_Unchecked(p, s) ==
    IF p.text[s] = NoStmt THEN {Returns(p, DBERR_SQL_ERROR)}
    ELSE {Returns([a.p EXCEPT !.last_rc = a.st, !.res[s] = NewResult(a.cols, a.rows)],
                  DBERR_NO_ERROR) : a \in Server(p, Sql(p.text[s]))}

\* No transaction is restarted and no row counted here.
exec_prepared(p, s) ==
    IF p.text[s] = NoStmt THEN {Returns(p, DBERR_SQL_ERROR)}
    ELSE {IF a.st # PGRES_FATAL_ERROR
          THEN Returns([a.p EXCEPT !.last_rc = a.st,
                                   !.res[s] = NewResult(a.cols, a.rows)], DBERR_NO_ERROR)
          ELSE Returns([a.p EXCEPT !.last_rc = -(10000 + a.st)], DBERR_SQL_ERROR)
            : a \in Server(p, Sql(p.text[s]))}

(***************************************************************************)
(* cursor_close(): always DBERR_NO_ERROR, because the result of CLOSE goes *)
(* to a second variable rc of the inner block.                             *)
(***************************************************************************)
cursor_close(p, x) ==
    LET q == IF NativeCursors
             THEN (CHOOSE r \in pgsql_exec(p, Close_(x), NoStmt) : TRUE).p
             ELSE p
    IN  [q EXCEPT !.priv[x] = NoResult]

(***************************************************************************)
(* retrieve_prepared_statement_source(): the text of an '@' query.  The    *)
(* catalogue query is a statement like any other.                          *)
(***************************************************************************)
retrieve_prepared_statement_source(p, s) ==
    {IF a.st = PGRES_FATAL_ERROR
     THEN Returns([a.p EXCEPT !.last_rc = a.st], DBERR_OPEN_CURSOR_FAILED)
     ELSE IF p.text[s] = NoStmt
     THEN Returns([a.p EXCEPT !.last_rc = 42704], DBERR_OPEN_CURSOR_FAILED)
     ELSE Returns([a.p EXCEPT !.last_rc = a.st], DBERR_NO_ERROR)
        : a \in Server(p, Sql("SELECT"))}

OpenQuery(p, x, hold, body) ==
    LET c == IF NativeCursors THEN Declare_(x, hold, body) ELSE Sql(body)
    IN  {IF r.rc = DBERR_NO_ERROR THEN r ELSE Returns(r.p, DBERR_OPEN_CURSOR_FAILED)
            : r \in pgsql_exec(p, c, x)}

\* cursor_open(): s names the prepared statement of the cursor, if any.
cursor_open(p, x, hold, s) ==
    IF s = NoStmt THEN OpenQuery(p, x, hold, "SELECT")
    ELSE UNION {IF r.rc = DBERR_NO_ERROR THEN OpenQuery(r.p, x, hold, p.text[s]) ELSE {r}
                  : r \in retrieve_prepared_statement_source(p, s)}

\* A FETCH that leaves the code of an earlier call in last_rc.
FetchNative_StaleCode(p, x) ==
    {LET q == [r.p EXCEPT !.last_rc = p.last_rc]
     IN  IF r.rc # DBERR_NO_ERROR THEN Returns(q, DBERR_SQL_ERROR)
         ELSE Returns(q, IF r.p.priv[x].rows = 0 THEN DBERR_NO_DATA ELSE DBERR_NO_ERROR)
        : r \in pgsql_exec(p, Fetch_(x), x)}

\* A FETCH that takes every failure for the end of the data.
FetchNative_ErrorIsEnd(p, x) ==
    {LET q == [r.p EXCEPT !.last_rc = r.rc]
     IN  Returns(q, IF r.rc # DBERR_NO_ERROR \/ r.p.priv[x].rows = 0
                    THEN DBERR_NO_DATA ELSE DBERR_NO_ERROR)
        : r \in pgsql_exec(p, Fetch_(x), x)}

\* last_rc becomes the driver's own return value.
FetchNative(p, x) ==
    {LET q == [r.p EXCEPT !.last_rc = r.rc]
     IN  IF r.rc # DBERR_NO_ERROR THEN Returns(q, DBERR_SQL_ERROR)
         ELSE Returns(q, IF r.p.priv[x].rows = 0 THEN DBERR_NO_DATA ELSE DBERR_NO_ERROR)
        : r \in pgsql_exec(p, Fetch_(x), x)}

\* The index is bounded here at the number of rows; the code counts on.
FetchEmulated(p, x) ==
    LET i == IF p.priv[x].idx < p.priv[x].rows THEN p.priv[x].idx + 1
                                               ELSE p.priv[x].idx
    IN  {Returns([p EXCEPT !.priv[x].idx = i],
                 IF i >= p.priv[x].rows THEN DBERR_NO_DATA ELSE DBERR_NO_ERROR)}

cursor_fetch_one(p, x) == IF NativeCursors THEN FetchNative(p, x) ELSE FetchEmulated(p, x)

\* The emulated FETCH reads the private data without looking whether there is any.
FetchCrashes(p, x) == ~NativeCursors /\ p.priv[x] = NoResult

(***************************************************************************)
(* move_to_first_record(): the current result set or, with a name, the one *)
(* of that prepared statement.                                             *)
(***************************************************************************)
move_to_first_record(p, s) ==
    LET r == IF s = NoStmt THEN p.cur ELSE p.res[s]
    IN  IF r = NoResult
        THEN Returns([p EXCEPT !.last_rc = DBERR_MOVE_TO_FIRST_FAILED], DBERR_MOVE_TO_FIRST_FAILED)
        ELSE IF r.rows = 0
        THEN Returns([p EXCEPT !.last_rc = DBERR_NO_DATA], DBERR_NO_DATA)
        ELSE Returns(p, DBERR_NO_ERROR)

\* get_num_fields(nullptr) and get_num_rows(nullptr): always of the current
\* result set, -1 when there is none.
get_num_fields(p) == IF p.cur = NoResult THEN -1 ELSE p.cur.cols
get_num_rows(p) == IF p.cur = NoResult THEN -1 ELSE p.cur.rows

=============================================================================
