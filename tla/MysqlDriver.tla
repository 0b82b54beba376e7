---------------------------- MODULE MysqlDriver ----------------------------
(***************************************************************************)
(* DbInterfaceMySQL.cpp over a MySQL session, with updatable_cursors=on.   *)
(* The database is one table; a row is its key.  The result of a SELECT is *)
(* stored by the client: a cursor is a copy of the rows there were at      *)
(* OPEN.  Every method is an operator from the state of driver and session *)
(* to the set of its possible results, [p |-> new state, rc |-> value].    *)
(***************************************************************************)
EXTENDS Sqlca, CursorNaming

CONSTANTS
    StmtNames,      \* names of prepared statements
    NoStmt,
    Statements,     \* the statements the program executes or prepares
    MaxKey,         \* bound on the keys of the table
    UniqueIndex     \* the first index the cursor's columns cover is a unique one

AllStatements == {"COMMIT", "ROLLBACK", "INSERT", "UPDATE", "DELETE", "SELECT"}

ASSUME MysqlAssumption ==
    /\ NoStmt \notin StmtNames \cup CursorNames \cup AllStatements
    /\ StmtNames \cap CursorNames = {}
    /\ Statements \subseteq AllStatements
    /\ MaxKey \in Nat \ {0}
    /\ UniqueIndex \in BOOLEAN

Keys == 1..MaxKey

ER == 1064      \* stands for every error number of server and client

(***************************************************************************)
(* A MySQLStatementData: its statement, the stored rows, and the row that  *)
(* was fetched last and is still in the column buffers (0: none).          *)
(***************************************************************************)
Stmt == [text : AllStatements \cup {NoStmt}, rows : SUBSET Keys, pos : Keys \cup {0}]
NoStatement == [text |-> NoStmt, rows |-> {}, pos |-> 0]    \* a null pointer

NewStatement(text) == [NoStatement EXCEPT !.text = text]

\* A statement belongs to the cursor that prepared it or to _prepared_stmts.
Handles == CursorNames \cup StmtNames

(***************************************************************************)
(* connaddr  the session is open     cur       current_statement_data      *)
(* off       autocommit is Off       stmt      the other statements        *)
(* table     the rows now            priv      private data of each cursor *)
(* base      the rows committed      declared  _declared_cursors           *)
(* hit       the rows the last positioned statement changed                *)
(***************************************************************************)
Driver == [connaddr : BOOLEAN, off : BOOLEAN,
           table : SUBSET Keys, base : SUBSET Keys, hit : SUBSET Keys,
           cur : Stmt, stmt : [Handles -> Stmt],
           priv : [CursorNames -> Handles \cup {NoStmt}],
           declared : SUBSET CursorNames, last_rc : Int]

NullDriver == [connaddr |-> FALSE, off |-> FALSE,
               table |-> {}, base |-> {}, hit |-> {},
               cur |-> NoStatement, stmt |-> [h \in Handles |-> NoStatement],
               priv |-> [x \in CursorNames |-> NoStmt],
               declared |-> {}, last_rc |-> 0]

---------------------------------------------------------------------------
(* The session: what executing a statement does to the table, and how many *)
(* rows it says it has changed, which for an UPDATE that changes no value  *)
(* is none.                                                                *)

Write(p, t) == [p EXCEPT !.table = t, !.base = IF p.off THEN @ ELSE t]

Executed(p, st, n) == [p |-> p, st |-> st, affected |-> n]

Execute(p, st) ==
    CASE st.text = "SELECT"   -> {Executed(p, [st EXCEPT !.rows = p.table, !.pos = 0], 0)}
      [] st.text = "INSERT"   -> {Executed(Write(p, p.table \cup {k}), st, 1)
                                     : k \in Keys \ p.table}
      [] st.text = "UPDATE"   -> {Executed(p, st, n) : n \in 0..1}
      [] st.text = "DELETE"   -> {Executed(Write(p, p.table \ {k}), st,
                                           IF k \in p.table THEN 1 ELSE 0) : k \in Keys}
      [] st.text = "COMMIT"   -> {Executed([p EXCEPT !.base = p.table], st, 0)}
      [] st.text = "ROLLBACK" -> {Executed([p EXCEPT !.table = p.base], st, 0)}

\* mysql_stmt_fetch() of a statement with a result: the next row, if there is one.
NextRows(st) == {k \in st.rows : k > st.pos}

Fetched(st) ==
    LET rest == NextRows(st)
    IN  [st EXCEPT !.pos = CHOOSE k \in rest : \A j \in rest : k <= j]

---------------------------------------------------------------------------
(* The driver.                                                             *)

Returns(p, rc) == [p |-> p, rc |-> rc]

mysqlClearError(p) == [p EXCEPT !.last_rc = 0]

\* mysqlRetrieveError() after a failure takes its code from the session, which has
\* none when the error is the statement's own.
Fails(p, rc) == {Returns([p EXCEPT !.last_rc = code], rc) : code \in {0, -ER}}

is_update_or_delete_statement(op) == op \in {"UPDATE", "DELETE"}

\* The statement goes to the cursor, or becomes the current one.
Keep(p, x, st) == IF x \in CursorNames THEN [p EXCEPT !.stmt[x] = st, !.priv[x] = x]
                                       ELSE [p EXCEPT !.cur = st]

\* An AfterExecute that does not look at the number of rows.
AfterExecute_Uncounted(a, x) == Returns(Keep(mysqlClearError(a.p), x, a.st), DBERR_NO_ERROR)

\* The end of _mysql_exec and _mysql_exec_params: an UPDATE or DELETE that changed
\* no row fails with code 100.
AfterExecute(a, x) ==
    IF is_update_or_delete_statement(a.st.text) /\ a.affected = 0
    THEN Returns([a.p EXCEPT !.last_rc = 100], DBERR_SQL_ERROR)
    ELSE Returns(Keep(mysqlClearError(a.p), x, a.st), DBERR_NO_ERROR)

\* Without a cursor the current statement is dropped first.
Dropped(p, x) == IF x \in CursorNames THEN p ELSE [p EXCEPT !.cur = NoStatement]

\* _mysql_exec for a statement that is not positioned; x is the cursor or NoStmt.
mysql_exec(p, op, x) ==
    LET q == Dropped(p, x)
    IN  Fails(q, DBERR_SQL_ERROR) \cup
        {AfterExecute(a, x) : a \in Execute(q, NewStatement(op))}

exec(p, op) == mysql_exec(p, op, NoStmt)

(***************************************************************************)
(* UPDATE or DELETE ... WHERE CURRENT OF y: the row is the one in the      *)
(* buffers of the cursor's statement.                                      *)
(***************************************************************************)
HasStatement(p, y) == p.priv[y] # NoStmt /\ p.stmt[p.priv[y]] # NoStatement

\* get_resultset_column_names() reads through a null pointer when the cursor's
\* statement has no result.
PositionedCrashes(p, y) ==
    /\ y \in p.declared
    /\ HasStatement(p, y)
    /\ p.stmt[p.priv[y]].text # "SELECT"

\* The rows WHERE compares equal: has_unique_key() reads whether the index is
\* unique and does not look at it.
Matching(p, k) == IF UniqueIndex THEN {{k} \cap p.table}
                  ELSE {s \in SUBSET p.table : {k} \cap p.table \subseteq s}

\* Before the first FETCH the key is bound to an empty string, and k is 0: the keys
\* of the model's rows are positive, so that it matches none of them.  (An integer key
\* compares an empty string with 0, and would match a row with that key.)
PositionedExecute(p, op, k) ==
    LET st == NewStatement(op)
    IN  UNION {CASE op = "DELETE" -> {Executed([Write(p, p.table \ s) EXCEPT !.hit = s], st,
                                               Cardinality(s))}
                 [] op = "UPDATE" -> {Executed([p EXCEPT !.hit = h], st, Cardinality(h))
                                         : h \in {{}, s}}
                   : s \in Matching(p, k)}

positioned(p, op, y) ==
    LET q == Dropped(p, NoStmt)
    IN  IF y \notin q.declared \/ ~HasStatement(q, y)
        THEN {Returns(q, DBERR_SQL_ERROR)}
        ELSE Fails(q, DBERR_SQL_ERROR) \cup
             (IF PositionedCrashes(q, y) THEN {}
              ELSE {AfterExecute(a, NoStmt)
                      : a \in PositionedExecute(q, op, q.stmt[q.priv[y]].pos)})

connect(off, rows) ==
    [NullDriver EXCEPT !.connaddr = TRUE, !.off = off, !.table = rows, !.base = rows]

\* A name in use leaves the code of an earlier call.
prepare(p, s, op) ==
    IF p.stmt[s] # NoStatement THEN {Returns(p, DBERR_PREPARE_FAILED)}
    ELSE Fails(p, DBERR_PREPARE_FAILED) \cup
         {Returns([mysqlClearError(p) EXCEPT !.stmt[s] = NewStatement(op)], DBERR_NO_ERROR)}

\* The rows are not counted here.
exec_prepared(p, s) ==
    IF p.stmt[s] = NoStatement THEN {Returns(p, DBERR_SQL_ERROR)}
    ELSE Fails(p, DBERR_SQL_ERROR) \cup
         {Returns([mysqlClearError(a.p) EXCEPT !.stmt[s] = a.st], DBERR_NO_ERROR)
            : a \in Execute(p, p.stmt[s])}

cursor_declare(p, x) == [p EXCEPT !.declared = @ \cup {x}]

is_cursor_from_prepared_statement(p, s) == s # NoStmt /\ p.stmt[s] # NoStatement

(***************************************************************************)
(* A cursor with a statement of its own loses it, also when the server     *)
(* cannot be told; a prepared statement keeps its rows and its place.      *)
(* Freeing a stored result is local to the client and does not fail.       *)
(***************************************************************************)
cursor_close(p, x, s) ==
    IF is_cursor_from_prepared_statement(p, s)
    THEN {Returns([p EXCEPT !.priv[x] = NoStmt], DBERR_NO_ERROR)}
    ELSE IF ~HasStatement(p, x) THEN {Returns(p, DBERR_CLOSE_CURSOR_FAILED)}
    ELSE LET q == [p EXCEPT !.stmt[p.priv[x]] = NoStatement]
         IN  Fails(q, DBERR_CLOSE_CURSOR_FAILED) \cup
             {Returns([mysqlClearError(q) EXCEPT !.priv[x] = NoStmt], DBERR_NO_ERROR)}

\* OPEN reads the error of the session a second time.
Opened(r) == IF r.rc = DBERR_NO_ERROR THEN {Returns(mysqlClearError(r.p), r.rc)}
             ELSE Fails(r.p, DBERR_OPEN_CURSOR_FAILED)

\* cursor_open(): s names the prepared statement of the cursor, if any.  It is
\* executed again and shared by all who use it.
cursor_open(p, x, s) ==
    IF s = NoStmt THEN UNION {Opened(r) : r \in mysql_exec(p, "SELECT", x)}
    ELSE IF p.stmt[s] = NoStatement THEN {Returns(p, DBERR_OPEN_CURSOR_FAILED)}
    ELSE UNION {Opened(IF r.rc = DBERR_NO_ERROR THEN [r EXCEPT !.p.priv[x] = s] ELSE r)
                  : r \in exec_prepared(p, s)}

\* A FetchFrom that does not know MYSQL_NO_DATA.
FetchFrom_PastEnd(p, h) ==
    IF p.stmt[h].text # "SELECT" THEN Fails(p, DBERR_FETCH_ROW_FAILED)
    ELSE {Returns([mysqlClearError(p) EXCEPT !.stmt[h].pos = @ + 1], DBERR_NO_ERROR)}

\* A FetchFrom that leaves the code of an earlier call when it succeeds.
FetchFrom_Stale(p, h) ==
    IF p.stmt[h].text # "SELECT" THEN Fails(p, DBERR_FETCH_ROW_FAILED)
    ELSE IF NextRows(p.stmt[h]) = {} THEN {Returns(p, DBERR_NO_DATA)}
    ELSE {Returns([p EXCEPT !.stmt[h] = Fetched(@)], DBERR_NO_ERROR)}

\* mysql_stmt_fetch() on the statement of handle h: the results in p and rc.
FetchFrom(p, h) ==
    IF p.stmt[h].text # "SELECT" THEN Fails(p, DBERR_FETCH_ROW_FAILED)
    ELSE IF NextRows(p.stmt[h]) = {} THEN {Returns(p, DBERR_NO_DATA)}
    ELSE {Returns([mysqlClearError(p) EXCEPT !.stmt[h] = Fetched(@)], DBERR_NO_ERROR)}

\* A closed cursor leaves the code of an earlier call.
cursor_fetch_one(p, x) ==
    IF ~HasStatement(p, x) THEN {Returns(p, DBERR_FETCH_ROW_FAILED)}
    ELSE FetchFrom(p, p.priv[x])

\* move_to_first_record(): one fetch, of the current statement or of a prepared one.
\* What it sets last_rc to is what the runtime reports.
move_to_first_record(p, s) ==
    LET st == IF s = NoStmt THEN p.cur ELSE p.stmt[s]
        Moved == IF s = NoStmt THEN [p EXCEPT !.cur = Fetched(st)]
                               ELSE [p EXCEPT !.stmt[s] = Fetched(st)]
        Sets(err) == {Returns([p EXCEPT !.last_rc = err], err)}
    IN  IF st = NoStatement THEN Sets(DBERR_MOVE_TO_FIRST_FAILED)
        ELSE IF st.text # "SELECT" THEN Fails(p, DBERR_MOVE_TO_FIRST_FAILED)
        ELSE IF NextRows(st) = {} THEN Sets(DBERR_NO_DATA)
        ELSE {Returns(mysqlClearError(Moved), DBERR_NO_ERROR)}

Columns(st) == IF st.text = "SELECT" THEN 1 ELSE 0

\* get_num_fields(nullptr), get_num_rows(nullptr): of the current statement.
get_num_fields(p) == IF p.cur = NoStatement THEN -1 ELSE Columns(p.cur)
get_num_rows(p) == IF p.cur = NoStatement THEN -1 ELSE Cardinality(p.cur.rows)

=============================================================================
