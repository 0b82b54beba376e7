---------------------------- MODULE SqliteDriver ----------------------------
(***************************************************************************)
(* DbInterfaceSQLite.cpp over the SQLite engine it is linked with, with    *)
(* updatable_cursors=on.  The database is one table with a unique key, so  *)
(* a row is its key; a SELECT reads the table in the order of the key.     *)
(* Every method is an operator from the state of driver and database to    *)
(* the set of its possible results, [p |-> new state, rc |-> return value].*)
(***************************************************************************)
EXTENDS Sqlca, CursorNaming

CONSTANTS
    StmtNames,      \* names of prepared statements
    NoStmt,
    Statements,     \* the statements the program executes or prepares
    MaxKey          \* bound on the keys of the table

AllStatements == {"BEGIN", "COMMIT", "ROLLBACK", "INSERT", "DELETE", "SELECT"}

ASSUME SqliteAssumption ==
    /\ NoStmt \notin StmtNames \cup CursorNames \cup AllStatements
    /\ StmtNames \cap CursorNames = {}
    /\ Statements \subseteq AllStatements
    /\ MaxKey \in Nat \ {0}

Keys == 1..MaxKey

SQLITE_OK    == 0
SQLITE_ERROR == 1       \* stands for every error code of the engine
SQLITE_RANGE == 25
SQLITE_ROW   == 100
SQLITE_DONE  == 101

(***************************************************************************)
(* A SQLiteStatementData: its statement, the row it stands on (0: none,    *)
(* because it has not started or has come to its end) and _on_first_row.   *)
(***************************************************************************)
Stmt == [text : AllStatements \cup {"UPDATE", NoStmt}, pos : Keys \cup {0}, first : BOOLEAN]
NoStatement == [text |-> NoStmt, pos |-> 0, first |-> FALSE]    \* a null pointer

NewStatement(text) == [NoStatement EXCEPT !.text = text]

\* A statement belongs to the cursor that prepared it or to _prepared_stmts.
Handles == CursorNames \cup StmtNames

(***************************************************************************)
(* connaddr  the database is open    cur       current_statement_data      *)
(* off       autocommit is Off       stmt      the other statements        *)
(* tx        in a transaction        priv      private data of each cursor *)
(* table     the rows now            declared  _declared_cursors           *)
(* base      the rows committed      last_rc                               *)
(* hit       the rows the last positioned statement changed                *)
(***************************************************************************)
Driver == [connaddr : BOOLEAN, off : BOOLEAN, tx : BOOLEAN,
           table : SUBSET Keys, base : SUBSET Keys, hit : SUBSET Keys,
           cur : Stmt, stmt : [Handles -> Stmt],
           priv : [CursorNames -> Handles \cup {NoStmt}],
           declared : SUBSET CursorNames, last_rc : Int]

NullDriver == [connaddr |-> FALSE, off |-> FALSE, tx |-> FALSE,
               table |-> {}, base |-> {}, hit |-> {},
               cur |-> NoStatement, stmt |-> [h \in Handles |-> NoStatement],
               priv |-> [x \in CursorNames |-> NoStmt],
               declared |-> {}, last_rc |-> 0]

---------------------------------------------------------------------------
(* The engine.  A step of statement st gives [p, st, rc].                  *)

Stepped(p, st, rc) == [p |-> p, st |-> st, rc |-> rc]

\* After an error, as after the last row, the statement starts over.
StepFails(p, st) == Stepped(p, [st EXCEPT !.pos = 0], SQLITE_ERROR)

\* Outside a transaction a change is committed as it is made.
Write(p, t) == [p EXCEPT !.table = t, !.base = IF p.tx THEN @ ELSE t]

\* The next row in the table as it is now; 0 when there is none.
NextRow(p, k) ==
    IF \E j \in p.table : j > k
    THEN CHOOSE j \in p.table : j > k /\ \A i \in p.table : i > k => j <= i
    ELSE 0

\* BEGIN, COMMIT and ROLLBACK.  A COMMIT that fails leaves its transaction open.
AutoCommit(p, op) ==
    CASE op = "BEGIN"    -> [p EXCEPT !.tx = TRUE]
      [] op = "COMMIT"   -> [p EXCEPT !.tx = FALSE, !.base = p.table]
      [] op = "ROLLBACK" -> [p EXCEPT !.tx = FALSE, !.table = p.base]

Step(p, st) ==
    {StepFails(p, st)} \cup
    (CASE st.text = "SELECT" ->
            LET k == NextRow(p, st.pos)
            IN  {Stepped(p, [st EXCEPT !.pos = k], IF k = 0 THEN SQLITE_DONE ELSE SQLITE_ROW)}
       [] st.text = "INSERT" ->
            {Stepped(Write(p, p.table \cup {k}), st, SQLITE_DONE) : k \in Keys \ p.table}
       [] st.text = "DELETE" ->
            {Stepped(Write(p, p.table \ {k}), st, SQLITE_DONE) : k \in Keys}
       [] st.text \in {"BEGIN", "COMMIT", "ROLLBACK"} ->
            IF p.tx = (st.text = "BEGIN") THEN {}
            ELSE {Stepped(AutoCommit(p, st.text), st, SQLITE_DONE)})

---------------------------------------------------------------------------
(* The driver.                                                             *)

Returns(p, rc) == [p |-> p, rc |-> rc]

\* A sqliteRetrieveError that keeps the sign of the engine's codes.
sqliteRetrieveError_Positive(p, rc) == [p EXCEPT !.last_rc = rc]

\* Every code is left in last_rc, negative; SQLITE_OK clears it.
sqliteRetrieveError(p, rc) == [p EXCEPT !.last_rc = IF rc > 0 THEN -rc ELSE rc]

is_tx_termination_statement(op) == op \in {"COMMIT", "ROLLBACK"}

\* A Keep that makes the statement of a cursor the current one.
Keep_CurrentOnly(p, x, st) == [p EXCEPT !.cur = st]

\* The statement goes to the cursor, or becomes the current one.
Keep(p, x, st) == IF x \in CursorNames THEN [p EXCEPT !.stmt[x] = st, !.priv[x] = x]
                                       ELSE [p EXCEPT !.cur = st]

\* START TRANSACTION is not a statement of SQLite.
Restart(p) == Returns(sqliteRetrieveError(p, SQLITE_ERROR), DBERR_SQL_ERROR)

\* A version that takes the trapped COMMIT or ROLLBACK for done whatever it said.
AfterStep_Unchecked(a, op, x) ==
    LET trapped == a.p.off /\ is_tx_termination_statement(op)
        q == IF trapped
             THEN [sqliteRetrieveError(a.p, a.rc) EXCEPT !.cur = NoStatement]
             ELSE a.p
    IN  IF ~trapped /\ a.rc \notin {SQLITE_DONE, SQLITE_ROW}
        THEN Returns(sqliteRetrieveError(q, a.rc), DBERR_SQL_ERROR)
        ELSE Returns(Keep(q, x, a.st), DBERR_NO_ERROR)

(***************************************************************************)
(* The end of _sqlite_exec and _sqlite_exec_params.  The trap for COMMIT   *)
(* and ROLLBACK waits for SQLITE_OK, which sqlite3_step() never returns.   *)
(***************************************************************************)
AfterStep(a, op, x) ==
    LET trapped == a.p.off /\ is_tx_termination_statement(op)
        q == IF trapped
             THEN [sqliteRetrieveError(a.p, a.rc) EXCEPT !.cur = NoStatement]
             ELSE a.p
    IN  IF trapped /\ a.rc = SQLITE_OK THEN Restart(q)
        ELSE IF a.rc \notin {SQLITE_DONE, SQLITE_ROW}
        THEN Returns(sqliteRetrieveError(q, a.rc), DBERR_SQL_ERROR)
        ELSE Returns(Keep(q, x, a.st), DBERR_NO_ERROR)

\* Without a cursor the current statement is dropped first.
Dropped(p, x) == IF x \in CursorNames THEN p ELSE [p EXCEPT !.cur = NoStatement]

\* _sqlite_exec for a statement that is not positioned; x is the cursor or NoStmt.
sqlite_exec(p, op, x) ==
    LET q == Dropped(p, x)
    IN  {Returns(sqliteRetrieveError(q, SQLITE_ERROR), DBERR_SQL_ERROR)} \cup
        {AfterStep(a, op, x)
            : a \in Step(sqliteRetrieveError(q, SQLITE_OK), NewStatement(op))}

exec(p, op) == sqlite_exec(p, op, NoStmt)

(***************************************************************************)
(* UPDATE or DELETE ... WHERE CURRENT OF y.  The row is the one the        *)
(* statement of the cursor stands on, whether it has been fetched or not.  *)
(***************************************************************************)
CurrentRow(p, y) == IF p.priv[y] = NoStmt THEN 0 ELSE p.stmt[p.priv[y]].pos

\* Has the cursor's statement columns to look for the key in?
HasColumns(p, y) == p.priv[y] # NoStmt /\ p.stmt[p.priv[y]].text = "SELECT"

\* prepare_updatable_cursor_query() reads through a null pointer when the cursor
\* was never opened, or makes a string of one when it stands on no row.
PositionedCrashes(p, y) ==
    /\ y \in p.declared
    /\ CurrentRow(p, y) = 0
    /\ p.priv[y] = NoStmt \/ HasColumns(p, y)

\* A version that does not count the rows changed.
PositionedStep_Uncounted(p, op, k) ==
    {Returns(sqliteRetrieveError(p, SQLITE_ERROR), DBERR_SQL_ERROR),
     Returns([Write(p, IF op = "DELETE" THEN p.table \ {k} ELSE p.table) EXCEPT
                 !.hit = {k} \cap p.table,
                 !.cur = NewStatement(op)], DBERR_NO_ERROR)}

\* The rewritten statement runs on the row with key k; it must change one row.
PositionedStep(p, op, k) ==
    {Returns(sqliteRetrieveError(p, SQLITE_ERROR), DBERR_SQL_ERROR),
     IF k \notin p.table THEN Returns([p EXCEPT !.last_rc = -1], DBERR_SQL_ERROR)
     ELSE Returns([Write(p, IF op = "DELETE" THEN p.table \ {k} ELSE p.table) EXCEPT
                      !.hit = {k},
                      !.cur = NewStatement(op)], DBERR_NO_ERROR)}

(***************************************************************************)
(* style is how the statement's own parameters are written, if it has any. *)
(* The key is compared with $1, $2...: with parameters of the same form it *)
(* shares the first ones, the binding behind them fails, and the method    *)
(* returns false, which is DBERR_NO_ERROR.                                 *)
(***************************************************************************)
positioned(p, op, y, style) ==
    LET q == Dropped(p, NoStmt)
    IN  IF y \notin q.declared THEN {Returns(q, DBERR_SQL_ERROR)}
        ELSE \* no unique key, not among the columns, or the rewritten text fails
             {Returns(sqliteRetrieveError(q, rc), DBERR_SQL_ERROR)
                 : rc \in {SQLITE_OK, SQLITE_ERROR, SQLITE_DONE}} \cup
             (IF ~HasColumns(q, y) \/ CurrentRow(q, y) = 0 THEN {}
              ELSE IF style = "dollar"
              THEN {Returns(sqliteRetrieveError(q, SQLITE_RANGE), DBERR_NO_ERROR)}
              ELSE PositionedStep(sqliteRetrieveError(q, SQLITE_OK), op, CurrentRow(q, y)))

\* connect(): with autocommit Off the first transaction is begun.
connect(off, rows) ==
    [NullDriver EXCEPT !.connaddr = TRUE, !.off = off, !.tx = off,
                       !.table = rows, !.base = rows]

\* A name in use leaves the code of an earlier call.
prepare(p, s, op) ==
    IF p.stmt[s] # NoStatement THEN {Returns(p, DBERR_PREPARE_FAILED)}
    ELSE {Returns(sqliteRetrieveError(p, SQLITE_ERROR), DBERR_PREPARE_FAILED),
          Returns([sqliteRetrieveError(p, SQLITE_OK) EXCEPT !.stmt[s] = NewStatement(op)],
                  DBERR_NO_ERROR)}

\* A prepared statement that ran, for EXECUTE or for OPEN: last_rc only shows errors.
Ran(a, s) ==
    LET q == [a.p EXCEPT !.stmt[s] = a.st]
    IN  IF a.rc \in {SQLITE_DONE, SQLITE_ROW} THEN Returns(q, DBERR_NO_ERROR)
        ELSE Returns(sqliteRetrieveError(q, a.rc), DBERR_SQL_ERROR)

\* The statement is reset; COMMIT and ROLLBACK are not trapped here.
exec_prepared(p, s) ==
    IF p.stmt[s] = NoStatement THEN {Returns(p, DBERR_SQL_ERROR)}
    ELSE {Ran(a, s) : a \in Step(p, [p.stmt[s] EXCEPT !.pos = 0])}

cursor_declare(p, x) == [p EXCEPT !.declared = @ \cup {x}]

\* cursor_close() does nothing: the statement stays where it is.
cursor_close(p, x) == p

\* An Opened that forgets that SQLite is on the first row already.
Opened_NotFirst(r, x) ==
    IF r.rc # DBERR_NO_ERROR
    THEN Returns(sqliteRetrieveError(r.p, r.rc), DBERR_OPEN_CURSOR_FAILED)
    ELSE Returns(sqliteRetrieveError(r.p, SQLITE_OK), DBERR_NO_ERROR)

Opened(r, x) ==
    IF r.rc # DBERR_NO_ERROR
    THEN Returns(sqliteRetrieveError(r.p, r.rc), DBERR_OPEN_CURSOR_FAILED)
    ELSE Returns([sqliteRetrieveError(r.p, SQLITE_OK) EXCEPT !.stmt[r.p.priv[x]].first = TRUE],
                 DBERR_NO_ERROR)

(***************************************************************************)
(* cursor_open(): s names the prepared statement of the cursor, if any. It *)
(* is stepped as it stands, and shared by all who use it.                  *)
(***************************************************************************)
cursor_open(p, x, s) ==
    IF s = NoStmt THEN {Opened(r, x) : r \in sqlite_exec(p, "SELECT", x)}
    ELSE IF p.stmt[s] = NoStatement THEN {Returns(p, DBERR_OPEN_CURSOR_FAILED)}
    ELSE {LET r == Ran(a, s)
          IN  Opened(IF r.rc = DBERR_NO_ERROR THEN [r EXCEPT !.p.priv[x] = s] ELSE r, x)
            : a \in Step(p, p.stmt[s])}

\* The first row is there since OPEN, if there is one: nothing looks.
cursor_fetch_one(p, x) ==
    LET h == p.priv[x]
    IN  IF h = NoStmt THEN {Returns(p, DBERR_FETCH_ROW_FAILED)}
        ELSE IF p.stmt[h].first
        THEN {Returns([p EXCEPT !.stmt[h].first = FALSE], DBERR_NO_ERROR)}
        ELSE {LET r == Ran(a, h)
              IN  IF a.rc = SQLITE_DONE THEN Returns(r.p, DBERR_NO_DATA) ELSE r
                : a \in Step(p, p.stmt[h])}

\* move_to_first_record(): of the current statement or of a prepared one.
move_to_first_record(p, s) ==
    LET st == IF s = NoStmt THEN p.cur ELSE p.stmt[s]
        Sets(err) == Returns([p EXCEPT !.last_rc = err], err)
    IN  IF st = NoStatement THEN Sets(DBERR_MOVE_TO_FIRST_FAILED)
        ELSE IF st.pos = 0 THEN Sets(DBERR_NO_DATA)
        ELSE Returns(p, DBERR_NO_ERROR)

Columns(st) == IF st.text = "SELECT" THEN 1 ELSE 0

\* get_num_fields(nullptr): of the current statement, -1 when there is none.
get_num_fields(p) == IF p.cur = NoStatement THEN -1 ELSE Columns(p.cur)

=============================================================================
