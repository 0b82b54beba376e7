------------------------ MODULE RuntimeOnMysqlProofs ------------------------
(***************************************************************************)
(* The properties of the runtime on the MySQL driver, for any number of    *)
(* connections, cursors and prepared statements and for tables of any size.*)
(***************************************************************************)
EXTENDS RuntimeOnMysql, GixSqlRuntimeProofs, WellFoundedInduction, FiniteSetTheorems

---------------------------------------------------------------------------
(* One driver.                                                             *)

StmtOk(st) == st.text = NoStmt => st = NoStatement

(***************************************************************************)
(* The private data of a cursor is its own statement or a prepared one.  A *)
(* statement of its own is a SELECT and is never left without its cursor;  *)
(* a prepared one is never taken away.  A CLOSE that fails may leave the   *)
(* private data naming a statement of the cursor's own that has gone.      *)
(***************************************************************************)
DriverOk(p) ==
    /\ p \in Driver
    /\ StmtOk(p.cur)
    /\ \A h \in Handles : StmtOk(p.stmt[h])
    /\ \A x \in CursorNames :
          /\ p.priv[x] \in StmtNames \cup {x, NoStmt}
          /\ p.stmt[x] # NoStatement => p.priv[x] = x /\ p.stmt[x].text = "SELECT"
          /\ p.priv[x] \in StmtNames => p.stmt[p.priv[x]] # NoStatement

\* The call leaves cursor x with the statement it has, and that as it is.
Kept(p, q, x) == q.priv[x] = p.priv[x] /\ q.stmt[x] = p.stmt[x]

\* The call leaves all cursors as they are.
Steady(p, q) == DriverOk(q) /\ \A x \in CursorNames : Kept(p, q, x)

LEMMA SteadyRefl ==
    ASSUME NEW p, DriverOk(p)
    PROVE  Steady(p, p)
  BY DEF Steady, Kept

LEMMA SteadyTrans ==
    ASSUME NEW p, NEW q, NEW s, Steady(p, q), Steady(q, s)
    PROVE  Steady(p, s)
  BY DEF Steady, Kept

LEMMA HandleNames ==
    /\ CursorNames \subseteq Handles /\ StmtNames \subseteq Handles
    /\ NoStmt \notin Handles
    /\ \A x \in CursorNames : x \notin StmtNames /\ x # NoStmt
    /\ \A s \in StmtNames : s \notin CursorNames /\ s # NoStmt
  BY MysqlAssumption DEF Handles

LEMMA NoStatementType ==
    /\ NoStatement \in Stmt /\ StmtOk(NoStatement)
    /\ NoStatement.text = NoStmt /\ NoStatement.rows = {} /\ NoStatement.pos = 0
  BY DEF NoStatement, Stmt, StmtOk

LEMMA NewStatementType ==
    ASSUME NEW op \in AllStatements
    PROVE  /\ NewStatement(op) \in Stmt
           /\ NewStatement(op).text = op
           /\ NewStatement(op) # NoStatement
           /\ StmtOk(NewStatement(op))
  <1>1. op # NoStmt
    BY MysqlAssumption
  <1>2. NewStatement(op) \in Stmt /\ NewStatement(op).text = op
    BY NoStatementType DEF NewStatement, Stmt
  <1> QED
    BY <1>1, <1>2, NoStatementType DEF StmtOk

LEMMA HasStatementIs ==
    ASSUME NEW p, DriverOk(p), NEW x \in CursorNames
    PROVE  /\ HasStatement(p, x) <=> p.priv[x] \in StmtNames \/ p.stmt[x] # NoStatement
           /\ HasStatement(p, x) => p.priv[x] \in Handles
  BY HandleNames DEF DriverOk, HasStatement

LEMMA NullDriverOk ==
    /\ DriverOk(NullDriver)
    /\ NullDriver \in Driver
    /\ \A x \in CursorNames : NullDriver.priv[x] = NoStmt /\ NullDriver.stmt[x] = NoStatement
  <1>1. /\ NullDriver.stmt = [h \in Handles |-> NoStatement]
        /\ NullDriver.priv = [x \in CursorNames |-> NoStmt]
        /\ NullDriver.cur = NoStatement
    BY DEF NullDriver
  <1>2. NullDriver \in Driver
    BY NoStatementType DEF NullDriver, Driver
  <1> QED
    BY <1>1, <1>2, NoStatementType, HandleNames DEF DriverOk

\* A change of anything but the statements of cursors and their private data.
LEMMA SameStatements ==
    ASSUME NEW p, DriverOk(p), NEW q \in Driver, q.stmt = p.stmt, q.priv = p.priv,
           StmtOk(q.cur)
    PROVE  Steady(p, q)
  BY DEF DriverOk, Steady, Kept

\* What the call has left alone: all but the rows, last_rc, declared and the
\* current statement.
Idle(p, q) == Steady(p, q) /\ q.stmt = p.stmt /\ q.priv = p.priv /\ q.cur = p.cur

LEMMA IdleOk ==
    ASSUME NEW p, NEW q, Idle(p, q)
    PROVE  DriverOk(q) /\ Steady(p, q)
  BY DEF Idle, Steady

LEMMA IdleRefl ==
    ASSUME NEW p, DriverOk(p)
    PROVE  Idle(p, p)
  BY SteadyRefl DEF Idle

LEMMA IdleTrans ==
    ASSUME NEW p, NEW q, NEW s, Idle(p, q), Idle(q, s)
    PROVE  Idle(p, s)
  BY SteadyTrans DEF Idle

WithCode(p, code) == [p EXCEPT !.last_rc = code]

LEMMA SetCode ==
    ASSUME NEW p, DriverOk(p), NEW code \in Int
    PROVE  LET q == WithCode(p, code)
           IN  /\ Idle(p, q) /\ DriverOk(q)
               /\ q.last_rc = code /\ q.hit = p.hit /\ q.table = p.table
  <1>1. PICK q : q = WithCode(p, code)
    OBVIOUS
  <1>2. /\ q \in Driver /\ q.stmt = p.stmt /\ q.priv = p.priv /\ q.cur = p.cur
        /\ q.last_rc = code /\ q.hit = p.hit /\ q.table = p.table
    BY <1>1 DEF WithCode, DriverOk, Driver
  <1>3. StmtOk(q.cur)
    BY <1>2 DEF DriverOk
  <1>4. Steady(p, q)
    BY <1>2, <1>3, SameStatements
  <1> QED
    BY <1>1, <1>2, <1>4 DEF Idle, Steady

LEMMA ClearedOk ==
    ASSUME NEW p, DriverOk(p)
    PROVE  /\ Idle(p, mysqlClearError(p)) /\ DriverOk(mysqlClearError(p))
           /\ mysqlClearError(p).last_rc = 0 /\ mysqlClearError(p).hit = p.hit
  BY SetCode DEF mysqlClearError, WithCode

WithCurrent(p, st) == [p EXCEPT !.cur = st]

LEMMA SetCurrent ==
    ASSUME NEW p, DriverOk(p), NEW st \in Stmt, StmtOk(st)
    PROVE  LET q == WithCurrent(p, st)
           IN  /\ Steady(p, q) /\ DriverOk(q) /\ q.stmt = p.stmt /\ q.priv = p.priv
               /\ q.cur = st /\ q.hit = p.hit /\ q.declared = p.declared /\ q.table = p.table
               /\ q.last_rc = p.last_rc
  <1>1. PICK q : q = WithCurrent(p, st)
    OBVIOUS
  <1>2. /\ q \in Driver /\ q.stmt = p.stmt /\ q.priv = p.priv /\ q.cur = st
        /\ q.hit = p.hit /\ q.declared = p.declared /\ q.table = p.table
        /\ q.last_rc = p.last_rc
    BY <1>1 DEF WithCurrent, DriverOk, Driver
  <1>3. Steady(p, q)
    BY <1>2, SameStatements
  <1> QED
    BY <1>1, <1>2, <1>3 DEF Steady

WithRows(p, t, b) == [p EXCEPT !.table = t, !.base = b]

LEMMA SetRows ==
    ASSUME NEW p, DriverOk(p), NEW t \in SUBSET Keys, NEW b \in SUBSET Keys
    PROVE  /\ Idle(p, WithRows(p, t, b)) /\ DriverOk(WithRows(p, t, b))
           /\ WithRows(p, t, b).hit = p.hit /\ WithRows(p, t, b).table = t
  <1>1. PICK q : q = WithRows(p, t, b)
    OBVIOUS
  <1>2. /\ q \in Driver /\ q.stmt = p.stmt /\ q.priv = p.priv /\ q.cur = p.cur
        /\ q.hit = p.hit /\ q.table = t
    BY <1>1 DEF DriverOk, Driver, WithRows
  <1>3. StmtOk(q.cur)
    BY <1>2 DEF DriverOk
  <1>4. Steady(p, q)
    BY <1>2, <1>3, SameStatements
  <1> QED
    BY <1>1, <1>2, <1>4 DEF Idle, Steady

WithHit(p, s) == [p EXCEPT !.hit = s]

LEMMA SetHit ==
    ASSUME NEW p, DriverOk(p), NEW s \in SUBSET Keys
    PROVE  LET q == WithHit(p, s)
           IN  /\ Idle(p, q) /\ DriverOk(q) /\ q.hit = s
  <1>1. PICK q : q = WithHit(p, s)
    OBVIOUS
  <1>2. /\ q \in Driver /\ q.stmt = p.stmt /\ q.priv = p.priv /\ q.cur = p.cur
        /\ q.hit = s
    BY <1>1 DEF WithHit, DriverOk, Driver
  <1>3. StmtOk(q.cur)
    BY <1>2 DEF DriverOk
  <1>4. Steady(p, q)
    BY <1>2, <1>3, SameStatements
  <1> QED
    BY <1>1, <1>2, <1>4 DEF Idle, Steady

LEMMA DeclareOk ==
    ASSUME NEW p, DriverOk(p), NEW x \in CursorNames
    PROVE  Idle(p, cursor_declare(p, x)) /\ DriverOk(cursor_declare(p, x))
  <1>1. PICK q : q = cursor_declare(p, x)
    OBVIOUS
  <1>2. /\ q \in Driver /\ q.stmt = p.stmt /\ q.priv = p.priv /\ q.cur = p.cur
    BY <1>1 DEF cursor_declare, DriverOk, Driver
  <1>3. StmtOk(q.cur)
    BY <1>2 DEF DriverOk
  <1>4. Steady(p, q)
    BY <1>2, <1>3, SameStatements
  <1> QED
    BY <1>1, <1>2, <1>4 DEF Idle, Steady

---------------------------------------------------------------------------
(* The session.                                                            *)

LEMMA WriteOk ==
    ASSUME NEW p, DriverOk(p), NEW t \in SUBSET Keys
    PROVE  Idle(p, Write(p, t)) /\ DriverOk(Write(p, t)) /\ Write(p, t).hit = p.hit
  <1>1. PICK b : b = IF p.off THEN p.base ELSE t
    OBVIOUS
  <1>2. b \in SUBSET Keys
    BY <1>1 DEF DriverOk, Driver
  <1>3. Write(p, t) = WithRows(p, t, b)
    BY <1>1 DEF Write, WithRows, DriverOk, Driver
  <1> QED
    BY <1>2, <1>3, SetRows

\* What the execution of a statement may have done.
Ran(p, st, a) ==
    /\ Idle(p, a.p)
    /\ a.st \in Stmt
    /\ a.st.text = st.text
    /\ StmtOk(a.st)
    /\ st.text = "SELECT" => a.st.pos = 0

LEMMA ExecutedFields ==
    ASSUME NEW p, NEW st, NEW n
    PROVE  /\ Executed(p, st, n).p = p /\ Executed(p, st, n).st = st
           /\ Executed(p, st, n).affected = n
  BY DEF Executed

LEMMA ExecuteOk ==
    ASSUME NEW p, DriverOk(p), NEW st \in Stmt, st.text \in AllStatements,
           NEW a \in Execute(p, st)
    PROVE  Ran(p, st, a)
  <1>1. Idle(p, p) /\ p.table \in SUBSET Keys /\ p.base \in SUBSET Keys
    BY IdleRefl DEF DriverOk, Driver
  <1>2. StmtOk(st)
    BY MysqlAssumption DEF StmtOk
  <1>3. CASE st.text = "SELECT"
    <2>1. a = Executed(p, [st EXCEPT !.rows = p.table, !.pos = 0], 0)
      BY <1>3 DEF Execute
    <2>2. PICK t : t = [st EXCEPT !.rows = p.table, !.pos = 0]
      OBVIOUS
    <2>3. t \in Stmt /\ t.text = st.text /\ t.pos = 0
      BY <1>1, <2>2 DEF Stmt
    <2>4. StmtOk(t)
      BY <2>3, MysqlAssumption DEF StmtOk
    <2>5. a.p = p /\ a.st = t
      BY <2>1, <2>2, ExecutedFields
    <2> QED
      BY <1>1, <2>3, <2>4, <2>5 DEF Ran
  <1>4. CASE st.text # "SELECT"
    <2>1. PICK q, n : a = Executed(q, st, n) /\ Idle(p, q)
      <3>1. CASE st.text = "INSERT"
        <4>1. Execute(p, st) = {Executed(Write(p, p.table \cup {k}), st, 1) : k \in Keys \ p.table}
          BY <3>1 DEF Execute
        <4>2. PICK k \in Keys \ p.table : a = Executed(Write(p, p.table \cup {k}), st, 1)
          BY <4>1
        <4>3. Idle(p, Write(p, p.table \cup {k}))
          BY <1>1, WriteOk
        <4> QED
          BY <4>2, <4>3
      <3>2. CASE st.text = "UPDATE"
        <4>1. Execute(p, st) = {Executed(p, st, n) : n \in 0..1}
          BY <3>2 DEF Execute
        <4> QED
          BY <1>1, <4>1
      <3>3. CASE st.text = "DELETE"
        <4>1. Execute(p, st) = {Executed(Write(p, p.table \ {k}), st,
                                         IF k \in p.table THEN 1 ELSE 0) : k \in Keys}
          BY <3>3 DEF Execute
        <4>2. PICK k \in Keys : a = Executed(Write(p, p.table \ {k}), st,
                                             IF k \in p.table THEN 1 ELSE 0)
          BY <4>1
        <4>3. Idle(p, Write(p, p.table \ {k}))
          BY <1>1, WriteOk
        <4> QED
          BY <4>2, <4>3
      <3>4. CASE st.text = "COMMIT"
        <4>1. a = Executed([p EXCEPT !.base = p.table], st, 0)
          BY <3>4 DEF Execute
        <4>2. [p EXCEPT !.base = p.table] = WithRows(p, p.table, p.table)
          BY DEF WithRows, DriverOk, Driver
        <4>3. Idle(p, WithRows(p, p.table, p.table))
          BY <1>1, SetRows
        <4> QED
          BY <4>1, <4>2, <4>3
      <3>5. CASE st.text = "ROLLBACK"
        <4>1. a = Executed([p EXCEPT !.table = p.base], st, 0)
          BY <3>5 DEF Execute
        <4>2. [p EXCEPT !.table = p.base] = WithRows(p, p.base, p.base)
          BY DEF WithRows, DriverOk, Driver
        <4>3. Idle(p, WithRows(p, p.base, p.base))
          BY <1>1, SetRows
        <4> QED
          BY <4>1, <4>2, <4>3
      <3> QED
        BY <1>4, <3>1, <3>2, <3>3, <3>4, <3>5 DEF AllStatements
    <2> QED
      BY <1>2, <1>4, <2>1, ExecutedFields DEF Ran
  <1> QED
    BY <1>3, <1>4

---------------------------------------------------------------------------
(* The methods that are not about cursors leave all cursors as they are.   *)

LEMMA ReturnsFields ==
    ASSUME NEW p, NEW rc
    PROVE  Returns(p, rc).p = p /\ Returns(p, rc).rc = rc
  BY DEF Returns

LEMMA FailsOk ==
    ASSUME NEW p, DriverOk(p), NEW rc, NEW r \in Fails(p, rc)
    PROVE  /\ r.rc = rc /\ Idle(p, r.p) /\ DriverOk(r.p) /\ Steady(p, r.p)
           /\ r.p.last_rc \in {0, -ER} /\ r.p.hit = p.hit
  <1>1. PICK code \in {0, -ER} : r = Returns(WithCode(p, code), rc)
    BY DEF Fails, WithCode
  <1>2. code \in Int
    BY <1>1 DEF ER
  <1> QED
    BY <1>1, <1>2, SetCode, IdleOk, ReturnsFields

LEMMA DroppedOk ==
    ASSUME NEW p, DriverOk(p)
    PROVE  LET q == Dropped(p, NoStmt)
           IN  /\ Steady(p, q) /\ DriverOk(q) /\ q.stmt = p.stmt /\ q.priv = p.priv
               /\ q.hit = p.hit /\ q.declared = p.declared /\ q.table = p.table
  <1>1. NoStmt \notin CursorNames
    BY MysqlAssumption
  <1> QED
    BY <1>1, NoStatementType, SetCurrent DEF Dropped, WithCurrent

LEMMA AfterExecuteOk ==
    ASSUME NEW a, DriverOk(a.p), a.st \in Stmt, StmtOk(a.st)
    PROVE  LET r == AfterExecute(a, NoStmt)
           IN  /\ Steady(a.p, r.p) /\ r.p.hit = a.p.hit
               /\ r.rc = DBERR_NO_ERROR =>
                     ~(is_update_or_delete_statement(a.st.text) /\ a.affected = 0)
  <1>1. NoStmt \notin CursorNames /\ 100 \in Int
    BY MysqlAssumption
  <1>2. CASE is_update_or_delete_statement(a.st.text) /\ a.affected = 0
    <2>1. AfterExecute(a, NoStmt) = Returns(WithCode(a.p, 100), DBERR_SQL_ERROR)
      BY <1>2 DEF AfterExecute, WithCode
    <2>2. DBERR_SQL_ERROR # DBERR_NO_ERROR
      BY DEF DBERR_SQL_ERROR, DBERR_NO_ERROR
    <2> QED
      BY <1>1, <2>1, <2>2, SetCode, IdleOk, ReturnsFields
  <1>3. CASE ~(is_update_or_delete_statement(a.st.text) /\ a.affected = 0)
    <2>1. PICK q : q = mysqlClearError(a.p)
      OBVIOUS
    <2>2. Steady(a.p, q) /\ DriverOk(q) /\ q.hit = a.p.hit
      BY <2>1, ClearedOk, IdleOk
    <2>3. AfterExecute(a, NoStmt) = Returns(WithCurrent(q, a.st), DBERR_NO_ERROR)
      BY <1>1, <1>3, <2>1 DEF AfterExecute, Keep, WithCurrent
    <2>4. Steady(q, WithCurrent(q, a.st)) /\ WithCurrent(q, a.st).hit = q.hit
      BY <2>2, SetCurrent
    <2> QED
      BY <1>3, <2>2, <2>3, <2>4, SteadyTrans, ReturnsFields
  <1> QED
    BY <1>2, <1>3

LEMMA ExecOk ==
    ASSUME NEW p, DriverOk(p), NEW op \in AllStatements, NEW r \in exec(p, op)
    PROVE  Steady(p, r.p)
  <1>1. PICK q : q = Dropped(p, NoStmt)
    OBVIOUS
  <1>2. Steady(p, q) /\ DriverOk(q)
    BY <1>1, DroppedOk
  <1>3. CASE r \in Fails(q, DBERR_SQL_ERROR)
    BY <1>2, <1>3, FailsOk, SteadyTrans
  <1>4. CASE r \notin Fails(q, DBERR_SQL_ERROR)
    <2>1. PICK a \in Execute(q, NewStatement(op)) : r = AfterExecute(a, NoStmt)
      BY <1>1, <1>4 DEF exec, mysql_exec
    <2>2. Ran(q, NewStatement(op), a)
      BY <1>2, NewStatementType, ExecuteOk
    <2>3. DriverOk(a.p) /\ Steady(q, a.p) /\ a.st \in Stmt /\ StmtOk(a.st)
      BY <2>2, IdleOk DEF Ran
    <2>4. Steady(a.p, r.p)
      BY <2>1, <2>3, AfterExecuteOk
    <2> QED
      BY <1>2, <2>3, <2>4, SteadyTrans
  <1> QED
    BY <1>3, <1>4

WithStmt(p, h, st) == [p EXCEPT !.stmt[h] = st]

WithPriv(p, x, h) == [p EXCEPT !.priv[x] = h]

LEMMA WithStmtFields ==
    ASSUME NEW p \in Driver, NEW h \in Handles, NEW st \in Stmt
    PROVE  LET q == WithStmt(p, h, st)
           IN  /\ q \in Driver /\ q.stmt[h] = st
               /\ \A k \in Handles \ {h} : q.stmt[k] = p.stmt[k]
               /\ q.priv = p.priv /\ q.cur = p.cur /\ q.last_rc = p.last_rc /\ q.hit = p.hit
  BY DEF WithStmt, Driver

LEMMA WithPrivFields ==
    ASSUME NEW p \in Driver, NEW x \in CursorNames, NEW h \in Handles \cup {NoStmt}
    PROVE  LET q == WithPriv(p, x, h)
           IN  /\ q \in Driver /\ q.priv[x] = h
               /\ \A y \in CursorNames \ {x} : q.priv[y] = p.priv[y]
               /\ q.stmt = p.stmt /\ q.cur = p.cur /\ q.last_rc = p.last_rc /\ q.hit = p.hit
  BY DEF WithPriv, Driver

\* A prepared statement is set.
LEMMA SetPrepared ==
    ASSUME NEW p, DriverOk(p), NEW s \in StmtNames, NEW st \in Stmt, st # NoStatement,
           StmtOk(st)
    PROVE  LET q == WithStmt(p, s, st)
           IN  /\ Steady(p, q) /\ DriverOk(q) /\ q.stmt[s] = st /\ q.cur = p.cur
               /\ q.last_rc = p.last_rc /\ q.hit = p.hit
  <1>1. PICK q : q = WithStmt(p, s, st)
    OBVIOUS
  <1>2. p \in Driver /\ s \in Handles
    BY HandleNames DEF DriverOk
  <1>3. /\ q \in Driver /\ q.stmt[s] = st
        /\ \A k \in Handles \ {s} : q.stmt[k] = p.stmt[k]
        /\ q.priv = p.priv /\ q.cur = p.cur /\ q.last_rc = p.last_rc /\ q.hit = p.hit
    BY <1>1, <1>2, WithStmtFields
  <1>4. DriverOk(q)
    BY <1>3, HandleNames DEF DriverOk
  <1>5. \A x \in CursorNames : Kept(p, q, x)
    BY <1>3, HandleNames DEF Kept
  <1> QED
    BY <1>1, <1>3, <1>4, <1>5 DEF Steady

LEMMA PrepareOk ==
    ASSUME NEW p, DriverOk(p), NEW s \in StmtNames, NEW op \in AllStatements,
           NEW r \in prepare(p, s, op)
    PROVE  Steady(p, r.p)
  <1>1. CASE p.stmt[s] # NoStatement
    BY <1>1, SteadyRefl, ReturnsFields DEF prepare
  <1>2. CASE p.stmt[s] = NoStatement
    <2>1. CASE r \in Fails(p, DBERR_PREPARE_FAILED)
      BY <2>1, FailsOk
    <2>2. CASE r \notin Fails(p, DBERR_PREPARE_FAILED)
      <3>1. r = Returns(WithStmt(mysqlClearError(p), s, NewStatement(op)), DBERR_NO_ERROR)
        BY <1>2, <2>2 DEF prepare, WithStmt
      <3>2. Steady(p, mysqlClearError(p)) /\ DriverOk(mysqlClearError(p))
        BY ClearedOk, IdleOk
      <3>3. Steady(mysqlClearError(p), WithStmt(mysqlClearError(p), s, NewStatement(op)))
        BY <3>2, NewStatementType, SetPrepared
      <3> QED
        BY <3>1, <3>2, <3>3, SteadyTrans, ReturnsFields
    <2> QED
      BY <2>1, <2>2
  <1> QED
    BY <1>1, <1>2

LEMMA ExecPreparedOk ==
    ASSUME NEW p, DriverOk(p), NEW s \in StmtNames, NEW r \in exec_prepared(p, s)
    PROVE  /\ Steady(p, r.p) /\ DriverOk(r.p)
           /\ r.rc = DBERR_NO_ERROR => r.p.stmt[s] # NoStatement
  <1>0. DBERR_SQL_ERROR # DBERR_NO_ERROR
    BY DEF DBERR_SQL_ERROR, DBERR_NO_ERROR
  <1>1. CASE p.stmt[s] = NoStatement
    BY <1>0, <1>1, SteadyRefl, ReturnsFields DEF exec_prepared
  <1>2. CASE p.stmt[s] # NoStatement
    <2>1. CASE r \in Fails(p, DBERR_SQL_ERROR)
      BY <1>0, <2>1, FailsOk
    <2>2. CASE r \notin Fails(p, DBERR_SQL_ERROR)
      <3>1. PICK a \in Execute(p, p.stmt[s]) :
               r = Returns(WithStmt(mysqlClearError(a.p), s, a.st), DBERR_NO_ERROR)
        BY <1>2, <2>2 DEF exec_prepared, WithStmt
      <3>2. p.stmt[s] \in Stmt /\ p.stmt[s].text \in AllStatements
        <4>1. p.stmt[s] \in Stmt /\ StmtOk(p.stmt[s])
          BY HandleNames DEF DriverOk, Driver
        <4> QED
          BY <1>2, <4>1 DEF StmtOk, Stmt
      <3>3. Ran(p, p.stmt[s], a)
        BY <3>2, ExecuteOk
      <3>4. DriverOk(a.p) /\ Steady(p, a.p) /\ a.st \in Stmt /\ StmtOk(a.st)
        BY <3>3, IdleOk DEF Ran
      <3>5. a.st # NoStatement
        BY <3>2, <3>3, MysqlAssumption, NoStatementType DEF Ran
      <3>6. Steady(a.p, mysqlClearError(a.p)) /\ DriverOk(mysqlClearError(a.p))
        BY <3>4, ClearedOk, IdleOk
      <3>7. /\ Steady(mysqlClearError(a.p), r.p) /\ DriverOk(r.p)
            /\ r.p.stmt[s] # NoStatement
        BY <3>1, <3>4, <3>5, <3>6, SetPrepared, ReturnsFields
      <3> QED
        BY <3>4, <3>6, <3>7, SteadyTrans
    <2> QED
      BY <2>1, <2>2
  <1> QED
    BY <1>1, <1>2

---------------------------------------------------------------------------
(* Rows.                                                                   *)

LEMMA LeastNat ==
    ASSUME NEW T \in SUBSET Nat, T # {}
    PROVE  \E n \in T : \A m \in T : n <= m
  <1>1. PICK j \in T : \A i \in T : ~ (<<i, j>> \in OpToRel(<, Nat))
    BY NatLessThanWellFounded, WFMin
  <1>2. \A i \in T : ~ (i < j)
    <2> SUFFICES ASSUME NEW i \in T, i < j
                 PROVE  <<i, j>> \in OpToRel(<, Nat)
      BY <1>1
    <2>1. i \in Nat /\ j \in Nat
      OBVIOUS
    <2> QED
      BY <2>1 DEF OpToRel
  <1>3. \A i \in T : i \in Nat /\ j \in Nat
    OBVIOUS
  <1> QED
    BY <1>2, <1>3

LEMMA FetchedIs ==
    ASSUME NEW st \in Stmt, NextRows(st) # {}
    PROVE  LET f == Fetched(st)
           IN  /\ f \in Stmt /\ f.text = st.text /\ f.rows = st.rows
               /\ f.pos \in NextRows(st) /\ f.pos # 0
               /\ \A j \in NextRows(st) : f.pos <= j
  <1>1. NextRows(st) \in SUBSET Keys /\ NextRows(st) \in SUBSET Nat
    BY MysqlAssumption DEF NextRows, Stmt, Keys
  <1>2. PICK k : k = CHOOSE i \in NextRows(st) : \A j \in NextRows(st) : i <= j
    OBVIOUS
  <1>3. k \in NextRows(st) /\ \A j \in NextRows(st) : k <= j
    BY <1>1, <1>2, LeastNat
  <1>4. Fetched(st) = [st EXCEPT !.pos = k]
    BY <1>2 DEF Fetched
  <1>5. k \in Keys /\ k # 0
    BY <1>1, <1>3 DEF Keys
  <1>6. PICK f : f = [st EXCEPT !.pos = k]
    OBVIOUS
  <1>7. f \in Stmt /\ f.text = st.text /\ f.rows = st.rows /\ f.pos = k
    BY <1>5, <1>6 DEF Stmt
  <1> QED
    BY <1>3, <1>4, <1>5, <1>6, <1>7

\* Fetching changes nothing of a statement but its place.
LEMMA FetchedOk ==
    ASSUME NEW st \in Stmt, st.text = "SELECT", NextRows(st) # {}
    PROVE  Fetched(st) \in Stmt /\ StmtOk(Fetched(st)) /\ Fetched(st) # NoStatement
  <1>1. Fetched(st) \in Stmt /\ Fetched(st).text = "SELECT"
    BY FetchedIs
  <1>2. NoStatement.text = NoStmt /\ NoStmt # "SELECT"
    BY NoStatementType, MysqlAssumption DEF AllStatements
  <1> QED
    BY <1>1, <1>2 DEF StmtOk

LEMMA KeysFinite ==
    /\ IsFiniteSet(Keys) /\ Cardinality(Keys) = MaxKey
    /\ \A s \in SUBSET Keys : IsFiniteSet(s) /\ Cardinality(s) \in 0..MaxKey
  <1>1. IsFiniteSet(Keys) /\ Cardinality(Keys) = MaxKey
    BY FS_Interval, MysqlAssumption DEF Keys
  <1>2. ASSUME NEW s \in SUBSET Keys
        PROVE  IsFiniteSet(s) /\ Cardinality(s) \in 0..MaxKey
    <2>1. IsFiniteSet(s) /\ Cardinality(s) <= MaxKey
      BY <1>1, FS_Subset
    <2>2. Cardinality(s) \in Nat
      BY <2>1, FS_CardinalityType
    <2> QED
      BY <2>1, <2>2, MysqlAssumption
  <1> QED
    BY <1>1, <1>2

\* The rows a statement has passed.
PassedRows(st) == {k \in st.rows : k <= st.pos}

LEMMA PassedIs ==
    ASSUME NEW st \in Stmt
    PROVE  /\ Passed(st) \in 0..MaxKey
           /\ Cardinality(st.rows) \in 0..MaxKey
           /\ st.pos = 0 => Passed(st) = 0
           /\ NextRows(st) = {} => Passed(st) = Cardinality(st.rows)
           /\ NextRows(st) # {} => /\ Passed(Fetched(st)) = Passed(st) + 1
                                   /\ Passed(st) < Cardinality(st.rows)
  <1>1. /\ st.rows \in SUBSET Keys /\ st.pos \in Keys \cup {0}
        /\ \A k \in Keys : k \in Nat /\ k > 0
        /\ st.pos \in Nat
    BY MysqlAssumption DEF Stmt, Keys
  <1>2. PassedRows(st) \in SUBSET Keys /\ Passed(st) = Cardinality(PassedRows(st))
    BY <1>1 DEF PassedRows, Passed
  <1>3. /\ IsFiniteSet(PassedRows(st)) /\ Passed(st) \in 0..MaxKey
        /\ IsFiniteSet(st.rows) /\ Cardinality(st.rows) \in 0..MaxKey
    BY <1>1, <1>2, KeysFinite
  <1>4. ASSUME st.pos = 0 PROVE Passed(st) = 0
    <2>1. PassedRows(st) = {}
      BY <1>1, <1>4 DEF PassedRows
    <2> QED
      BY <1>2, <2>1, FS_EmptySet
  <1>5. ASSUME NextRows(st) = {} PROVE Passed(st) = Cardinality(st.rows)
    <2>1. \A k \in st.rows : k <= st.pos
      BY <1>1, <1>5 DEF NextRows
    <2>2. PassedRows(st) = st.rows
      BY <2>1 DEF PassedRows
    <2> QED
      BY <1>2, <2>2
  <1>6. ASSUME NextRows(st) # {}
        PROVE  Passed(Fetched(st)) = Passed(st) + 1 /\ Passed(st) < Cardinality(st.rows)
    <2>1. PICK f : f = Fetched(st)
      OBVIOUS
    <2>2. /\ f \in Stmt /\ f.rows = st.rows /\ f.pos \in NextRows(st)
          /\ \A j \in NextRows(st) : f.pos <= j
      BY <1>6, <2>1, FetchedIs
    <2>3. f.pos \in st.rows /\ f.pos > st.pos /\ f.pos \in Nat
      BY <1>1, <2>2 DEF NextRows
    <2>4. f.pos \notin PassedRows(st)
      BY <1>1, <2>3 DEF PassedRows
    <2>5. PassedRows(f) = PassedRows(st) \cup {f.pos}
      <3>1. \A k \in st.rows : k <= f.pos <=> k <= st.pos \/ k = f.pos
        BY <1>1, <2>2, <2>3 DEF NextRows
      <3> QED
        BY <2>2, <2>3, <3>1 DEF PassedRows
    <2>6. Cardinality(PassedRows(f)) = Cardinality(PassedRows(st)) + 1
      BY <1>3, <2>4, <2>5, FS_AddElement
    <2>7. Passed(f) = Cardinality(PassedRows(f))
      BY DEF Passed, PassedRows
    <2>8. Cardinality(PassedRows(f)) <= Cardinality(st.rows)
      <3>1. PassedRows(f) \subseteq st.rows
        BY <2>2 DEF PassedRows
      <3> QED
        BY <1>3, <3>1, FS_Subset
    <2> QED
      BY <1>2, <1>3, <2>1, <2>6, <2>7, <2>8
  <1> QED
    BY <1>3, <1>4, <1>5, <1>6

LEMMA MoveOk ==
    ASSUME NEW p, DriverOk(p), NEW s \in StmtNames \cup {NoStmt},
           NEW r \in move_to_first_record(p, s)
    PROVE  Steady(p, r.p)
  <1>0. DBERR_MOVE_TO_FIRST_FAILED \in Int /\ DBERR_NO_DATA \in Int
    BY DEF DBERR_MOVE_TO_FIRST_FAILED, DBERR_NO_DATA
  <1>1. PICK st : st = IF s = NoStmt THEN p.cur ELSE p.stmt[s]
    OBVIOUS
  <1>2. st \in Stmt /\ StmtOk(st)
    BY <1>1, HandleNames DEF DriverOk, Driver
  <1>3. CASE st = NoStatement
    <2>1. r = Returns(WithCode(p, DBERR_MOVE_TO_FIRST_FAILED), DBERR_MOVE_TO_FIRST_FAILED)
      BY <1>1, <1>3 DEF move_to_first_record, WithCode
    <2> QED
      BY <1>0, <2>1, SetCode, IdleOk, ReturnsFields
  <1>4. CASE st # NoStatement /\ st.text # "SELECT"
    <2>1. r \in Fails(p, DBERR_MOVE_TO_FIRST_FAILED)
      BY <1>1, <1>4 DEF move_to_first_record
    <2> QED
      BY <2>1, FailsOk
  <1>5. CASE st # NoStatement /\ st.text = "SELECT" /\ NextRows(st) = {}
    <2>1. r = Returns(WithCode(p, DBERR_NO_DATA), DBERR_NO_DATA)
      BY <1>1, <1>5 DEF move_to_first_record, WithCode
    <2> QED
      BY <1>0, <2>1, SetCode, IdleOk, ReturnsFields
  <1>6. CASE st # NoStatement /\ st.text = "SELECT" /\ NextRows(st) # {}
    <2>1. PICK q : q = IF s = NoStmt THEN WithCurrent(p, Fetched(st))
                                     ELSE WithStmt(p, s, Fetched(st))
      OBVIOUS
    <2>2. r = Returns(mysqlClearError(q), DBERR_NO_ERROR)
      BY <1>1, <1>6, <2>1 DEF move_to_first_record, WithCurrent, WithStmt
    <2>3. Fetched(st) \in Stmt /\ StmtOk(Fetched(st)) /\ Fetched(st) # NoStatement
      BY <1>2, <1>6, FetchedOk
    <2>4. Steady(p, q) /\ DriverOk(q)
      BY <2>1, <2>3, SetCurrent, SetPrepared
    <2>5. Steady(q, mysqlClearError(q))
      BY <2>4, ClearedOk, IdleOk
    <2> QED
      BY <2>2, <2>4, <2>5, SteadyTrans, ReturnsFields
  <1> QED
    BY <1>3, <1>4, <1>5, <1>6

---------------------------------------------------------------------------
(* WHERE CURRENT OF.                                                       *)

\* What the statement does when the rows of s compare equal.
PositionedOn(p, op, s) ==
    CASE op = "DELETE" -> {Executed([Write(p, p.table \ s) EXCEPT !.hit = s], NewStatement(op),
                                    Cardinality(s))}
      [] op = "UPDATE" -> {Executed([p EXCEPT !.hit = h], NewStatement(op), Cardinality(h))
                              : h \in {{}, s}}

\* The statement has changed the rows of h and nothing of any cursor.
Positioned(p, op, h, a) ==
    /\ Idle(p, a.p) /\ DriverOk(a.p)
    /\ a.st = NewStatement(op)
    /\ a.p.hit = h
    /\ a.affected = Cardinality(h)

LEMMA PositionedOnIs ==
    ASSUME NEW p, DriverOk(p), NEW op \in {"UPDATE", "DELETE"}, NEW s \in SUBSET Keys,
           NEW a \in PositionedOn(p, op, s)
    PROVE  \E h \in {{}, s} : Positioned(p, op, h, a)
  <1>1. CASE op = "DELETE"
    <2>1. PICK q : q = Write(p, p.table \ s)
      OBVIOUS
    <2>2. a = Executed(WithHit(q, s), NewStatement(op), Cardinality(s))
      BY <1>1, <2>1 DEF PositionedOn, WithHit
    <2>3. p.table \ s \in SUBSET Keys
      BY DEF DriverOk, Driver
    <2>4. Idle(p, q) /\ DriverOk(q)
      BY <2>1, <2>3, WriteOk
    <2>5. Idle(q, WithHit(q, s)) /\ DriverOk(WithHit(q, s)) /\ WithHit(q, s).hit = s
      BY <2>4, SetHit
    <2> QED
      BY <2>2, <2>4, <2>5, IdleTrans, ExecutedFields DEF Positioned
  <1>2. CASE op = "UPDATE"
    <2>1. PositionedOn(p, op, s)
            = {Executed(WithHit(p, h), NewStatement(op), Cardinality(h)) : h \in {{}, s}}
      BY <1>2 DEF PositionedOn, WithHit
    <2>2. PICK h \in {{}, s} :
             a = Executed(WithHit(p, h), NewStatement(op), Cardinality(h))
      BY <2>1
    <2>3. h \in SUBSET Keys
      OBVIOUS
    <2>4. Idle(p, WithHit(p, h)) /\ DriverOk(WithHit(p, h)) /\ WithHit(p, h).hit = h
      BY <2>3, SetHit
    <2>5. /\ a.p = WithHit(p, h) /\ a.st = NewStatement(op)
          /\ a.affected = Cardinality(h)
      BY <2>2, ExecutedFields
    <2>6. Positioned(p, op, h, a)
      BY <2>4, <2>5 DEF Positioned
    <2> QED
      BY <2>6
  <1> QED
    BY <1>1, <1>2

LEMMA PositionedOk ==
    ASSUME NEW p, DriverOk(p), NEW op \in {"UPDATE", "DELETE"}, NEW y \in CursorNames,
           NEW r \in positioned(p, op, y)
    PROVE  /\ Steady(p, r.p)
           /\ r.rc = DBERR_NO_ERROR /\ UniqueIndex =>
                 /\ HasStatement(p, y)
                 /\ p.stmt[p.priv[y]].pos # 0
                 /\ r.p.hit = {p.stmt[p.priv[y]].pos}
  <1>0. DBERR_SQL_ERROR # DBERR_NO_ERROR
    BY DEF DBERR_SQL_ERROR, DBERR_NO_ERROR
  <1>1. PICK q : q = Dropped(p, NoStmt)
    OBVIOUS
  <1>2. /\ Steady(p, q) /\ DriverOk(q) /\ q.stmt = p.stmt /\ q.priv = p.priv
        /\ q.table \in SUBSET Keys
    BY <1>1, DroppedOk DEF DriverOk, Driver
  <1>3. CASE y \notin q.declared \/ ~HasStatement(q, y)
    BY <1>0, <1>1, <1>2, <1>3, ReturnsFields DEF positioned
  <1>4. CASE ~(y \notin q.declared \/ ~HasStatement(q, y)) /\ r \in Fails(q, DBERR_SQL_ERROR)
    BY <1>0, <1>2, <1>4, FailsOk, SteadyTrans
  <1>5. CASE ~(y \notin q.declared \/ ~HasStatement(q, y)) /\ r \notin Fails(q, DBERR_SQL_ERROR)
    <2>1. PICK k : k = q.stmt[q.priv[y]].pos
      OBVIOUS
    <2>2. PICK a \in PositionedExecute(q, op, k) : r = AfterExecute(a, NoStmt)
      BY <1>1, <1>5, <2>1 DEF positioned
    <2>3. HasStatement(p, y) /\ k = p.stmt[p.priv[y]].pos
      BY <1>2, <1>5, <2>1 DEF HasStatement
    <2>4. PositionedExecute(q, op, k) = UNION {PositionedOn(q, op, s) : s \in Matching(q, k)}
      BY DEF PositionedExecute, PositionedOn
    <2>5. PICK s \in Matching(q, k) : a \in PositionedOn(q, op, s)
      BY <2>2, <2>4
    <2>6. s \in SUBSET Keys /\ (UniqueIndex => s = {k} \cap q.table)
      BY <1>2, <2>5 DEF Matching
    <2>7. PICK h \in {{}, s} : Positioned(q, op, h, a)
      BY <1>2, <2>5, <2>6, PositionedOnIs
    <2>8. op \in AllStatements /\ is_update_or_delete_statement(op)
      BY DEF AllStatements, is_update_or_delete_statement
    <2>9. a.st \in Stmt /\ StmtOk(a.st) /\ a.st.text = op
      BY <2>7, <2>8, NewStatementType DEF Positioned
    <2>10. Idle(q, a.p) /\ DriverOk(a.p) /\ a.p.hit = h /\ a.affected = Cardinality(h)
      BY <2>7 DEF Positioned
    <2>11. /\ Steady(a.p, r.p) /\ r.p.hit = h
           /\ r.rc = DBERR_NO_ERROR => a.affected # 0
      BY <2>2, <2>8, <2>9, <2>10, AfterExecuteOk
    <2>12. Steady(p, r.p)
      BY <1>2, <2>10, <2>11, IdleOk, SteadyTrans
    <2>13. ASSUME r.rc = DBERR_NO_ERROR, UniqueIndex
           PROVE  k # 0 /\ h = {k}
      <3>1. h # {}
        BY <2>10, <2>11, <2>13, FS_EmptySet
      <3>2. h = {k} /\ k \in q.table
        BY <2>6, <2>13, <3>1
      <3>3. k \in Keys
        BY <1>2, <3>2
      <3> QED
        BY <3>2, <3>3, MysqlAssumption DEF Keys
    <2> QED
      BY <2>3, <2>11, <2>12, <2>13
  <1> QED
    BY <1>3, <1>4, <1>5

---------------------------------------------------------------------------
(* The methods of one cursor.                                              *)

\* The call has changed no cursor but x.
OnlyCursor(p, q, x) == DriverOk(q) /\ \A y \in CursorNames \ {x} : Kept(p, q, y)

\* The private data a cursor declared for s, or for no prepared statement, may have.
Held(p, x, s) == p.priv[x] \in {NoStmt, IF s = NoStmt THEN x ELSE s}

\* The cursor has no statement; what its private data names, if anything, has gone.
Shed(p, q, x) ==
    /\ ~HasStatement(q, x)
    /\ q.stmt[x] = NoStatement
    /\ q.priv[x] \in {NoStmt, p.priv[x]}

LEMMA SetOwn ==
    ASSUME NEW p, DriverOk(p), NEW x \in CursorNames, NEW st \in Stmt, StmtOk(st),
           st # NoStatement => p.priv[x] = x /\ st.text = "SELECT"
    PROVE  LET q == WithStmt(p, x, st)
           IN  /\ OnlyCursor(p, q, x) /\ DriverOk(q) /\ q.stmt[x] = st
               /\ q.priv = p.priv /\ q.last_rc = p.last_rc
  <1>1. PICK q : q = WithStmt(p, x, st)
    OBVIOUS
  <1>2. p \in Driver /\ x \in Handles
    BY HandleNames DEF DriverOk
  <1>3. /\ q \in Driver /\ q.stmt[x] = st
        /\ \A k \in Handles \ {x} : q.stmt[k] = p.stmt[k]
        /\ q.priv = p.priv /\ q.cur = p.cur /\ q.last_rc = p.last_rc
    BY <1>1, <1>2, WithStmtFields
  <1>4. DriverOk(q)
    <2>1. StmtOk(q.cur) /\ \A h \in Handles : StmtOk(q.stmt[h])
      BY <1>3 DEF DriverOk
    <2>2. ASSUME NEW y \in CursorNames
          PROVE  /\ q.priv[y] \in StmtNames \cup {y, NoStmt}
                 /\ q.stmt[y] # NoStatement => q.priv[y] = y /\ q.stmt[y].text = "SELECT"
                 /\ q.priv[y] \in StmtNames => q.stmt[q.priv[y]] # NoStatement
      BY <1>3, HandleNames DEF DriverOk
    <2> QED
      BY <1>3, <2>1, <2>2 DEF DriverOk
  <1>5. \A y \in CursorNames \ {x} : Kept(p, q, y)
    BY <1>3, HandleNames DEF Kept
  <1> QED
    BY <1>1, <1>3, <1>4, <1>5 DEF OnlyCursor

LEMMA SetPriv ==
    ASSUME NEW p, DriverOk(p), NEW x \in CursorNames, NEW h \in StmtNames \cup {x, NoStmt},
           p.stmt[x] # NoStatement => h = x, h \in StmtNames => p.stmt[h] # NoStatement
    PROVE  LET q == WithPriv(p, x, h)
           IN  /\ OnlyCursor(p, q, x) /\ DriverOk(q) /\ q.priv[x] = h
               /\ q.stmt = p.stmt /\ q.last_rc = p.last_rc
  <1>1. PICK q : q = WithPriv(p, x, h)
    OBVIOUS
  <1>2. p \in Driver /\ h \in Handles \cup {NoStmt}
    BY HandleNames DEF DriverOk
  <1>3. /\ q \in Driver /\ q.priv[x] = h
        /\ \A y \in CursorNames \ {x} : q.priv[y] = p.priv[y]
        /\ q.stmt = p.stmt /\ q.cur = p.cur /\ q.last_rc = p.last_rc
    BY <1>1, <1>2, WithPrivFields
  <1>4. DriverOk(q)
    <2>1. StmtOk(q.cur) /\ \A k \in Handles : StmtOk(q.stmt[k])
      BY <1>3 DEF DriverOk
    <2>2. ASSUME NEW y \in CursorNames
          PROVE  /\ q.priv[y] \in StmtNames \cup {y, NoStmt}
                 /\ q.stmt[y] # NoStatement => q.priv[y] = y /\ q.stmt[y].text = "SELECT"
                 /\ q.priv[y] \in StmtNames => q.stmt[q.priv[y]] # NoStatement
      BY <1>3, HandleNames DEF DriverOk
    <2> QED
      BY <1>3, <2>1, <2>2 DEF DriverOk
  <1>5. \A y \in CursorNames \ {x} : Kept(p, q, y)
    BY <1>3, HandleNames DEF Kept
  <1> QED
    BY <1>1, <1>3, <1>4, <1>5 DEF OnlyCursor

LEMMA OnlyTrans ==
    ASSUME NEW p, NEW q, NEW s, NEW x, OnlyCursor(p, q, x), OnlyCursor(q, s, x)
    PROVE  OnlyCursor(p, s, x)
  BY DEF OnlyCursor, Kept

LEMMA SteadyOnly ==
    ASSUME NEW p, NEW q, NEW x, Steady(p, q)
    PROVE  OnlyCursor(p, q, x) /\ DriverOk(q)
  BY DEF OnlyCursor, Steady

LEMMA CursorCloseOk ==
    ASSUME NEW p, DriverOk(p), NEW x \in CursorNames, NEW s \in StmtNames \cup {NoStmt},
           Held(p, x, s), NEW r \in cursor_close(p, x, s)
    PROVE  OnlyCursor(p, r.p, x) /\ Shed(p, r.p, x) /\ DriverOk(r.p)
  <1>1. CASE is_cursor_from_prepared_statement(p, s)
    <2>1. r = Returns(WithPriv(p, x, NoStmt), DBERR_NO_ERROR)
      BY <1>1 DEF cursor_close, WithPriv
    <2>2. s # x /\ s # NoStmt /\ NoStmt \notin StmtNames
      BY <1>1, HandleNames, MysqlAssumption DEF is_cursor_from_prepared_statement
    <2>3. p.stmt[x] = NoStatement
      BY <2>2, HandleNames DEF DriverOk, Held
    <2>4. /\ OnlyCursor(p, r.p, x) /\ DriverOk(r.p) /\ r.p.priv[x] = NoStmt
          /\ r.p.stmt = p.stmt
      BY <2>1, <2>2, <2>3, SetPriv, ReturnsFields
    <2> QED
      BY <2>3, <2>4 DEF Shed, HasStatement
  <1>2. CASE ~is_cursor_from_prepared_statement(p, s) /\ ~HasStatement(p, x)
    <2>1. r = Returns(p, DBERR_CLOSE_CURSOR_FAILED)
      BY <1>2 DEF cursor_close
    <2>2. p.stmt[x] = NoStatement
      BY <1>2, HasStatementIs
    <2> QED
      BY <1>2, <2>1, <2>2, SteadyRefl, SteadyOnly, ReturnsFields DEF Shed
  <1>3. CASE ~is_cursor_from_prepared_statement(p, s) /\ HasStatement(p, x)
    <2>1. s = NoStmt /\ p.priv[x] = x
      BY <1>3 DEF DriverOk, Held, HasStatement, is_cursor_from_prepared_statement
    <2>2. PICK q : q = WithStmt(p, x, NoStatement)
      OBVIOUS
    <2>3. /\ OnlyCursor(p, q, x) /\ DriverOk(q) /\ q.stmt[x] = NoStatement
          /\ q.priv[x] = x
      BY <2>1, <2>2, NoStatementType, SetOwn
    <2>4. cursor_close(p, x, s) =
             Fails(q, DBERR_CLOSE_CURSOR_FAILED) \cup
             {Returns(WithPriv(mysqlClearError(q), x, NoStmt), DBERR_NO_ERROR)}
      BY <1>3, <2>1, <2>2 DEF cursor_close, WithStmt, WithPriv
    <2>5. CASE r \in Fails(q, DBERR_CLOSE_CURSOR_FAILED)
      <3>1. Steady(q, r.p)
        BY <2>3, <2>5, FailsOk
      <3>2. r.p.stmt[x] = NoStatement /\ r.p.priv[x] = x
        BY <2>3, <3>1 DEF Steady, Kept
      <3> QED
        BY <2>1, <2>3, <3>1, <3>2, SteadyOnly, OnlyTrans DEF Shed, HasStatement
    <2>6. CASE r \notin Fails(q, DBERR_CLOSE_CURSOR_FAILED)
      <3>1. PICK c : c = mysqlClearError(q)
        OBVIOUS
      <3>2. r = Returns(WithPriv(c, x, NoStmt), DBERR_NO_ERROR)
        BY <2>4, <2>6, <3>1
      <3>3. Steady(q, c) /\ DriverOk(c)
        BY <2>3, <3>1, ClearedOk, IdleOk
      <3>4. c.stmt[x] = NoStatement /\ NoStmt \notin StmtNames
        BY <2>3, <3>3, MysqlAssumption DEF Steady, Kept
      <3>5. /\ OnlyCursor(c, r.p, x) /\ DriverOk(r.p) /\ r.p.priv[x] = NoStmt
            /\ r.p.stmt = c.stmt
        BY <3>2, <3>3, <3>4, SetPriv, ReturnsFields
      <3> QED
        BY <2>3, <3>3, <3>4, <3>5, SteadyOnly, OnlyTrans DEF Shed, HasStatement
    <2> QED
      BY <2>5, <2>6
  <1> QED
    BY <1>1, <1>2, <1>3

\* The cursor has just been given its statement.
NewlyOpen(q, x, s) ==
    /\ HasStatement(q, x)
    /\ q.priv[x] = IF s = NoStmt THEN x ELSE s
    /\ q.stmt[x] # NoStatement => q.stmt[x].pos = 0

LEMMA OpenedOk ==
    ASSUME NEW o, DriverOk(o.p), NEW r \in Opened(o)
    PROVE  /\ Idle(o.p, r.p) /\ DriverOk(r.p) /\ Steady(o.p, r.p)
           /\ r.rc = DBERR_NO_ERROR <=> o.rc = DBERR_NO_ERROR
  <1>0. DBERR_OPEN_CURSOR_FAILED # DBERR_NO_ERROR
    BY DEF DBERR_OPEN_CURSOR_FAILED, DBERR_NO_ERROR
  <1>1. CASE o.rc = DBERR_NO_ERROR
    BY <1>1, ClearedOk, IdleOk, ReturnsFields DEF Opened
  <1>2. CASE o.rc # DBERR_NO_ERROR
    BY <1>0, <1>2, FailsOk DEF Opened
  <1> QED
    BY <1>1, <1>2

\* Opening a cursor with a statement of its own.
LEMMA OpenOwn ==
    ASSUME NEW p, DriverOk(p), NEW x \in CursorNames, NEW o \in mysql_exec(p, "SELECT", x)
    PROVE  /\ OnlyCursor(p, o.p, x) /\ DriverOk(o.p)
           /\ o.rc = DBERR_NO_ERROR => NewlyOpen(o.p, x, NoStmt)
           /\ o.rc # DBERR_NO_ERROR => Steady(p, o.p)
  <1>0. DBERR_SQL_ERROR # DBERR_NO_ERROR /\ "SELECT" \in AllStatements
    BY DEF DBERR_SQL_ERROR, DBERR_NO_ERROR, AllStatements
  <1>1. CASE o \in Fails(p, DBERR_SQL_ERROR)
    BY <1>0, <1>1, FailsOk, SteadyOnly
  <1>2. CASE o \notin Fails(p, DBERR_SQL_ERROR)
    <2>1. PICK a \in Execute(p, NewStatement("SELECT")) : o = AfterExecute(a, x)
      BY <1>2 DEF mysql_exec, Dropped
    <2>2. Ran(p, NewStatement("SELECT"), a) /\ NewStatement("SELECT").text = "SELECT"
      BY <1>0, NewStatementType, ExecuteOk
    <2>3. /\ Steady(p, a.p) /\ DriverOk(a.p) /\ a.st \in Stmt /\ StmtOk(a.st)
          /\ a.st.text = "SELECT" /\ a.st.pos = 0
      BY <2>2, IdleOk DEF Ran
    <2>4. PICK c : c = mysqlClearError(a.p)
      OBVIOUS
    <2>5. Steady(a.p, c) /\ DriverOk(c)
      BY <2>3, <2>4, ClearedOk, IdleOk
    <2>6. PICK b : b = WithPriv(c, x, x)
      OBVIOUS
    <2>7. x \notin StmtNames
      BY HandleNames
    <2>8. OnlyCursor(c, b, x) /\ DriverOk(b) /\ b.priv[x] = x
      BY <2>5, <2>6, <2>7, SetPriv
    <2>9. o = Returns(WithStmt(b, x, a.st), DBERR_NO_ERROR)
      <3>1. o = Returns([c EXCEPT !.stmt[x] = a.st, !.priv[x] = x], DBERR_NO_ERROR)
        BY <2>1, <2>3, <2>4 DEF AfterExecute, Keep, is_update_or_delete_statement
      <3>2. [c EXCEPT !.stmt[x] = a.st, !.priv[x] = x] = WithStmt(b, x, a.st)
        BY <2>5, <2>6 DEF WithStmt, WithPriv, DriverOk, Driver
      <3> QED
        BY <3>1, <3>2
    <2>10. /\ OnlyCursor(b, o.p, x) /\ DriverOk(o.p) /\ o.p.stmt[x] = a.st
           /\ o.p.priv = b.priv /\ o.rc = DBERR_NO_ERROR
      BY <2>3, <2>8, <2>9, SetOwn, ReturnsFields
    <2>11. OnlyCursor(p, o.p, x)
      BY <2>3, <2>5, <2>8, <2>10, SteadyOnly, OnlyTrans
    <2>12. a.st # NoStatement
      BY <2>3, NoStatementType, MysqlAssumption, <1>0
    <2>13. NewlyOpen(o.p, x, NoStmt)
      BY <2>3, <2>8, <2>10, <2>12, HandleNames DEF NewlyOpen, HasStatement
    <2> QED
      BY <2>10, <2>11, <2>13
  <1> QED
    BY <1>1, <1>2

LEMMA CursorOpenOk ==
    ASSUME NEW p, DriverOk(p), NEW x \in CursorNames, NEW s \in StmtNames \cup {NoStmt},
           Held(p, x, s), NEW r \in cursor_open(p, x, s)
    PROVE  /\ OnlyCursor(p, r.p, x) /\ DriverOk(r.p)
           /\ r.rc = DBERR_NO_ERROR => NewlyOpen(r.p, x, s)
           /\ r.rc # DBERR_NO_ERROR => Steady(p, r.p)
  <1>0. DBERR_OPEN_CURSOR_FAILED # DBERR_NO_ERROR
    BY DEF DBERR_OPEN_CURSOR_FAILED, DBERR_NO_ERROR
  <1>1. SUFFICES ASSUME NEW o, r \in Opened(o), OnlyCursor(p, o.p, x), DriverOk(o.p),
                        o.rc = DBERR_NO_ERROR => NewlyOpen(o.p, x, s),
                        o.rc # DBERR_NO_ERROR => Steady(p, o.p)
                 PROVE  /\ OnlyCursor(p, r.p, x) /\ DriverOk(r.p)
                        /\ r.rc = DBERR_NO_ERROR => NewlyOpen(r.p, x, s)
                        /\ r.rc # DBERR_NO_ERROR => Steady(p, r.p)
    <2>1. CASE s = NoStmt
      <3>1. PICK o \in mysql_exec(p, "SELECT", x) : r \in Opened(o)
        BY <2>1 DEF cursor_open
      <3>2. /\ OnlyCursor(p, o.p, x) /\ DriverOk(o.p)
            /\ o.rc = DBERR_NO_ERROR => NewlyOpen(o.p, x, s)
            /\ o.rc # DBERR_NO_ERROR => Steady(p, o.p)
        BY <2>1, <3>1, OpenOwn
      <3> QED
        BY <1>1, <3>1, <3>2
    <2>2. CASE s # NoStmt /\ p.stmt[s] = NoStatement
      <3>1. r = Returns(p, DBERR_OPEN_CURSOR_FAILED)
        BY <2>2 DEF cursor_open
      <3> QED
        BY <1>0, <3>1, SteadyRefl, SteadyOnly, ReturnsFields
    <2>3. CASE s # NoStmt /\ p.stmt[s] # NoStatement
      <3>1. PICK e \in exec_prepared(p, s) :
               r \in Opened(IF e.rc = DBERR_NO_ERROR THEN [e EXCEPT !.p.priv[x] = s] ELSE e)
        BY <2>3 DEF cursor_open
      <3>2. PICK o : o = IF e.rc = DBERR_NO_ERROR THEN [e EXCEPT !.p.priv[x] = s] ELSE e
        OBVIOUS
      <3>3. s \in StmtNames /\ s \in Handles /\ x # s /\ NoStmt \notin StmtNames
        BY <2>3, HandleNames, MysqlAssumption
      <3>4. /\ Steady(p, e.p) /\ DriverOk(e.p)
            /\ e.rc = DBERR_NO_ERROR => e.p.stmt[s] # NoStatement
        BY <3>1, <3>3, ExecPreparedOk
      <3>5. CASE e.rc # DBERR_NO_ERROR
        <4>1. o = e
          BY <3>2, <3>5
        <4> QED
          BY <1>1, <3>1, <3>2, <3>4, <3>5, <4>1, SteadyOnly
      <3>6. CASE e.rc = DBERR_NO_ERROR
        <4>1. o.p = WithPriv(e.p, x, s) /\ o.rc = DBERR_NO_ERROR
          <5>1. \E q : e = Returns(q, e.rc)
            BY <2>3, <3>1 DEF exec_prepared, Fails, Returns
          <5> QED
            BY <3>2, <3>6, <5>1 DEF WithPriv, Returns
        <4>2. e.p.stmt[x] = NoStatement
          <5>1. p.priv[x] # x /\ (p.stmt[x] # NoStatement => p.priv[x] = x)
            BY <2>3, <3>3, HandleNames DEF Held, DriverOk
          <5> QED
            BY <3>4, <5>1 DEF Steady, Kept
        <4>3. /\ OnlyCursor(e.p, o.p, x) /\ DriverOk(o.p) /\ o.p.priv[x] = s
              /\ o.p.stmt = e.p.stmt
          BY <3>3, <3>4, <3>6, <4>1, <4>2, SetPriv
        <4>4. NewlyOpen(o.p, x, s)
          BY <2>3, <3>4, <3>6, <4>2, <4>3 DEF NewlyOpen, HasStatement
        <4>5. OnlyCursor(p, o.p, x)
          BY <3>4, <4>3, SteadyOnly, OnlyTrans
        <4> QED
          BY <1>1, <3>1, <3>2, <4>1, <4>3, <4>4, <4>5
      <3> QED
        BY <3>5, <3>6
    <2> QED
      BY <2>1, <2>2, <2>3
  <1>2. /\ Idle(o.p, r.p) /\ DriverOk(r.p) /\ Steady(o.p, r.p)
        /\ r.rc = DBERR_NO_ERROR <=> o.rc = DBERR_NO_ERROR
    BY <1>1, OpenedOk
  <1>3. OnlyCursor(p, r.p, x)
    BY <1>1, <1>2, SteadyOnly, OnlyTrans
  <1>4. ASSUME o.rc = DBERR_NO_ERROR PROVE NewlyOpen(r.p, x, s)
    BY <1>1, <1>2, <1>4 DEF NewlyOpen, HasStatement, Idle
  <1> QED
    BY <1>1, <1>2, <1>3, <1>4, SteadyTrans

\* FETCH: the statement has no rows, or none left, or moves to its next row.
FetchDone(p, r, x) ==
    /\ DriverOk(r.p)
    /\ r.p.priv = p.priv
    /\ \A h \in Handles \ {p.priv[x]} : r.p.stmt[h] = p.stmt[h]
    /\ \/ /\ r.rc = DBERR_FETCH_ROW_FAILED
          /\ p.stmt[p.priv[x]].text # "SELECT"
          /\ r.p.stmt = p.stmt
       \/ /\ r.rc = DBERR_NO_DATA
          /\ NextRows(p.stmt[p.priv[x]]) = {}
          /\ r.p.stmt = p.stmt
       \/ /\ r.rc = DBERR_NO_ERROR
          /\ NextRows(p.stmt[p.priv[x]]) # {}
          /\ r.p.stmt[p.priv[x]] = Fetched(p.stmt[p.priv[x]])

LEMMA FetchOneOk ==
    ASSUME NEW p, DriverOk(p), NEW x \in CursorNames, HasStatement(p, x),
           NEW r \in cursor_fetch_one(p, x)
    PROVE  /\ FetchDone(p, r, x)
           /\ r.rc # DBERR_NO_DATA => r.p.last_rc \in {0, -ER}
  <1>0. DBERR_FETCH_ROW_FAILED # DBERR_NO_DATA /\ DBERR_NO_ERROR # DBERR_NO_DATA
    BY DEF DBERR_FETCH_ROW_FAILED, DBERR_NO_DATA, DBERR_NO_ERROR
  <1>1. PICK h : h = p.priv[x]
    OBVIOUS
  <1>2. r \in FetchFrom(p, h) /\ h \in Handles /\ p.stmt[h] # NoStatement
    BY <1>1, HasStatementIs DEF cursor_fetch_one, HasStatement
  <1>3. p.stmt[h] \in Stmt
    BY <1>2 DEF DriverOk, Driver
  <1>4. CASE p.stmt[h].text # "SELECT"
    <2>1. r \in Fails(p, DBERR_FETCH_ROW_FAILED)
      BY <1>2, <1>4 DEF FetchFrom
    <2>2. r.rc = DBERR_FETCH_ROW_FAILED /\ Idle(p, r.p) /\ DriverOk(r.p)
          /\ r.p.last_rc \in {0, -ER}
      BY <2>1, FailsOk
    <2> QED
      BY <1>1, <1>4, <2>2 DEF FetchDone, Idle
  <1>5. CASE p.stmt[h].text = "SELECT" /\ NextRows(p.stmt[h]) = {}
    <2>1. r = Returns(p, DBERR_NO_DATA)
      BY <1>2, <1>5 DEF FetchFrom
    <2> QED
      BY <1>1, <1>5, <2>1, ReturnsFields DEF FetchDone
  <1>6. CASE p.stmt[h].text = "SELECT" /\ NextRows(p.stmt[h]) # {}
    <2>1. PICK c : c = mysqlClearError(p)
      OBVIOUS
    <2>2. Idle(p, c) /\ DriverOk(c) /\ c.last_rc = 0 /\ c.stmt = p.stmt /\ c.priv = p.priv
      BY <2>1, ClearedOk DEF Idle
    <2>3. PICK st : st = Fetched(p.stmt[h])
      OBVIOUS
    <2>4. r = Returns(WithStmt(c, h, st), DBERR_NO_ERROR)
      <3>1. r = Returns([c EXCEPT !.stmt[h] = Fetched(@)], DBERR_NO_ERROR)
        BY <1>2, <1>6, <2>1 DEF FetchFrom
      <3>2. [c EXCEPT !.stmt[h] = Fetched(@)] = WithStmt(c, h, st)
        BY <2>2, <2>3 DEF WithStmt
      <3> QED
        BY <3>1, <3>2
    <2>5. st \in Stmt /\ StmtOk(st) /\ st # NoStatement /\ st.text = "SELECT"
      BY <1>3, <1>6, <2>3, FetchedOk, FetchedIs
    <2>6. DriverOk(r.p) /\ r.p.last_rc = 0 /\ r.rc = DBERR_NO_ERROR
      <3>1. CASE h \in StmtNames
        BY <2>2, <2>4, <2>5, <3>1, SetPrepared, ReturnsFields
      <3>2. CASE h = x
        <4>1. c.priv[x] = x /\ r.p = WithStmt(c, x, st) /\ r.rc = DBERR_NO_ERROR
          BY <1>1, <2>2, <2>4, <3>2, ReturnsFields
        <4> QED
          BY <2>2, <2>5, <4>1, SetOwn
      <3> QED
        BY <1>1, <1>2, <3>1, <3>2, HandleNames DEF DriverOk
    <2>7. /\ r.p.stmt[h] = st /\ r.p.priv = p.priv
          /\ \A k \in Handles \ {h} : r.p.stmt[k] = p.stmt[k]
      <3>1. c \in Driver
        BY <2>2 DEF DriverOk
      <3> QED
        BY <1>2, <2>2, <2>4, <2>5, <3>1, WithStmtFields, ReturnsFields
    <2> QED
      BY <1>1, <1>6, <2>3, <2>6, <2>7 DEF FetchDone
  <1> QED
    BY <1>4, <1>5, <1>6

LEMMA ConnectedOk ==
    ASSUME NEW off \in BOOLEAN, NEW rows \in SUBSET Keys
    PROVE  /\ DriverOk(connect(off, rows)) /\ connect(off, rows) \in Driver
           /\ \A x \in CursorNames : /\ connect(off, rows).priv[x] = NoStmt
                                     /\ connect(off, rows).stmt[x] = NoStatement
  <1>1. PICK b : b = connect(off, rows)
    OBVIOUS
  <1>2. /\ b \in Driver /\ b.stmt = NullDriver.stmt /\ b.priv = NullDriver.priv
        /\ b.cur = NullDriver.cur
    BY <1>1, NullDriverOk DEF connect, Driver
  <1> QED
    BY <1>1, <1>2, NullDriverOk DEF DriverOk

---------------------------------------------------------------------------
(* The invariant of the composition.                                       *)

MyDrivers == \A c \in ConnIds : DriverOk(my[c])

\* The statement the private data of a cursor can name.
Handle(x) == IF source[x] = NoStmt THEN x ELSE source[x]

(***************************************************************************)
(* A driver has private data for a cursor only while the cursor is bound   *)
(* to its connection.  A statement of a cursor's own is there only while   *)
(* the cursor is open in the driver, and its place is the row that the     *)
(* last FETCH moved to.  A cursor the runtime knows to be open in the      *)
(* driver has a statement.                                                 *)
(***************************************************************************)
MyCursors ==
    /\ \A x \in cursors : cursor[x].conn <= next_conn_id
    /\ \A x \in CursorNames, c \in ConnIds :
          /\ my[c].priv[x] # NoStmt =>
                /\ x \in cursors
                /\ cursor[x].conn = c
                /\ my[c].priv[x] = Handle(x)
          /\ my[c].stmt[x] # NoStatement =>
                /\ cursor[x].drv = "open"
                /\ reached[x] = my[c].stmt[x].pos
    /\ \A x \in cursors : cursor[x].drv = "open" => HasStatement(my[cursor[x].conn], x)

\* What the last FETCH told stays true while nothing is called.
MyAnswer ==
    NorecCode > 0 =>
        (answer.kind = "error" /\ cursor[answer.x].drv = "open" => sqlcode # "norec")

MyInv ==
    /\ StateInv
    /\ MyTypeOK
    /\ MyDrivers
    /\ MyCursors
    /\ MyAnswer

LEMMA InitMyInv == MyInit => MyInv
  <1> SUFFICES ASSUME MyInit PROVE MyInv
    OBVIOUS
  <1>1. StateInv
    BY InitStateInv DEF MyInit
  <1>2. \A c \in ConnIds : my[c] = NullDriver
    BY DEF MyInit
  <1>3. my \in [ConnIds -> Driver]
    BY NullDriverOk DEF MyInit
  <1>4. MyTypeOK
    <2>1. 0 \in 0..MaxKey
      BY MysqlAssumption
    <2> QED
      BY <1>3, <2>1 DEF MyInit, MyTypeOK, NoAnswer
  <1>5. MyDrivers
    BY <1>2, NullDriverOk DEF MyDrivers
  <1>6. cursors = {}
    BY DEF MyInit, Init, CurInit
  <1>7. MyCursors
    BY <1>2, <1>6, NullDriverOk DEF MyCursors
  <1>8. MyAnswer
    BY DEF MyInit, NoAnswer, MyAnswer
  <1> QED
    BY <1>1, <1>4, <1>5, <1>7, <1>8 DEF MyInv

\* What the invariant says of one cursor on its connection.
LEMMA CursorHeld ==
    ASSUME MyInv, NEW x \in CursorNames, NEW c \in ConnIds
    PROVE  /\ DriverOk(my[c]) /\ Held(my[c], x, source[x])
           /\ source[x] \in StmtNames \cup {NoStmt}
           /\ my[c].priv[x] = NoStmt => ~HasStatement(my[c], x) /\ my[c].stmt[x] = NoStatement
  <1>1. DriverOk(my[c]) /\ source[x] \in StmtNames \cup {NoStmt}
    BY DEF MyInv, MyDrivers, MyTypeOK
  <1>2. Held(my[c], x, source[x])
    BY DEF MyInv, MyCursors, Held, Handle
  <1>3. my[c].priv[x] = NoStmt => ~HasStatement(my[c], x) /\ my[c].stmt[x] = NoStatement
    BY <1>1, HandleNames DEF HasStatement, DriverOk
  <1> QED
    BY <1>1, <1>2, <1>3

---------------------------------------------------------------------------
(* What the abstract cursors are.                                          *)

\* CursorView, of a cursor bound to connection c, declared for s, with drivers ds.
ViewOf(ds, c, s, x) ==
    LET st == ds[c].stmt[ds[c].priv[x]]
        Closed == [open |-> FALSE, rows |-> 0, at |-> 0]
    IN  IF c = NoConn \/ s # NoStmt THEN Closed
        ELSE IF ~HasStatement(ds[c], x) THEN Closed
        ELSE [open |-> TRUE, rows |-> Cardinality(st.rows), at |-> Passed(st)]

View(st) == [open |-> TRUE, rows |-> Cardinality(st.rows), at |-> Passed(st)]
ClosedView == [open |-> FALSE, rows |-> 0, at |-> 0]

\* The cursor has a statement of its own.
Opens(ds, c, x) == c \in ConnIds /\ ds[c].stmt[x] # NoStatement

LEMMA ViewIs ==
    ASSUME NEW ds, NEW c \in ConnIds \cup {NoConn}, NEW s \in StmtNames \cup {NoStmt},
           NEW x \in CursorNames, c # NoConn => DriverOk(ds[c]) /\ Held(ds[c], x, s)
    PROVE  ViewOf(ds, c, s, x) = IF Opens(ds, c, x) THEN View(ds[c].stmt[x]) ELSE ClosedView
  <1>1. CASE c = NoConn
    BY <1>1 DEF ViewOf, Opens, ClosedView, NoConn, ConnIds
  <1>2. CASE c # NoConn /\ ds[c].stmt[x] # NoStatement
    <2>1. ds[c].priv[x] = x /\ x # NoStmt
      BY <1>2, HandleNames DEF DriverOk
    <2>2. s = NoStmt
      BY <1>2, <2>1, HandleNames DEF Held
    <2>3. HasStatement(ds[c], x)
      BY <1>2, <2>1 DEF HasStatement
    <2> QED
      BY <1>2, <2>1, <2>2, <2>3 DEF ViewOf, Opens, View
  <1>3. CASE c # NoConn /\ ds[c].stmt[x] = NoStatement
    <2>1. s = NoStmt => ~HasStatement(ds[c], x)
      BY <1>3, HandleNames DEF Held, HasStatement
    <2> QED
      BY <1>3, <2>1 DEF ViewOf, Opens, ClosedView
  <1> QED
    BY <1>1, <1>2, <1>3

LEMMA ViewsAre ==
    ASSUME NEW x
    PROVE  /\ CursorView(x) = ViewOf(my, cursor[x].conn, source[x], x)
           /\ CursorView(x)' = ViewOf(my', cursor'[x].conn, source'[x], x)
  BY DEF CursorView, ViewOf

\* The view of a cursor in a state of the invariant.
LEMMA BoundView ==
    ASSUME StateInv, MyTypeOK, MyDrivers, MyCursors, NEW x \in CursorNames,
           NEW c, c = cursor[x].conn
    PROVE  /\ c \in ConnIds \cup {NoConn}
           /\ CursorView(x) = IF Opens(my, c, x) THEN View(my[c].stmt[x]) ELSE ClosedView
  <1>1. c \in ConnIds \cup {NoConn} /\ source[x] \in StmtNames \cup {NoStmt}
    BY DEF StateInv, CurTypeOK, Cursor, MyTypeOK
  <1>2. c # NoConn => DriverOk(my[c]) /\ Held(my[c], x, source[x])
    BY <1>1 DEF MyDrivers, MyCursors, Held, Handle
  <1> QED
    BY <1>1, <1>2, ViewsAre, ViewIs

LEMMA BoundViewNext ==
    ASSUME StateInv', MyTypeOK', MyDrivers', MyCursors', NEW x \in CursorNames,
           NEW c, c = cursor'[x].conn
    PROVE  /\ c \in ConnIds \cup {NoConn}
           /\ CursorView(x)' = IF Opens(my', c, x) THEN View(my'[c].stmt[x]) ELSE ClosedView
  <1>1. c \in ConnIds \cup {NoConn} /\ source'[x] \in StmtNames \cup {NoStmt}
    BY DEF StateInv, CurTypeOK, Cursor, MyTypeOK
  <1>2. c # NoConn => DriverOk(my'[c]) /\ Held(my'[c], x, source'[x])
    BY <1>1 DEF MyDrivers, MyCursors, Held, Handle
  <1> QED
    BY <1>1, <1>2, ViewsAre, ViewIs

---------------------------------------------------------------------------
(* What a call other than FETCH does to cursor x on connection c: it keeps *)
(* its statement, or loses it, or has just been opened.                    *)

Keeps(x, c) ==
    /\ Kept(my[c], my'[c], x)
    /\ my[c].priv[x] # NoStmt =>
          /\ x \in cursors'
          /\ cursor'[x].conn = c
          /\ cursor'[x].drv = cursor[x].drv
          /\ source'[x] = source[x]
          /\ cursor[x].drv = "open" => reached'[x] = reached[x]
    /\ my[c].priv[x] = NoStmt /\ x \in cursors' /\ cursor'[x].conn = c =>
          cursor'[x].drv # "open"

Loses(x, c) ==
    /\ Shed(my[c], my'[c], x)
    /\ my'[c].priv[x] # NoStmt =>
          x \in cursors' /\ cursor'[x].conn = c /\ source'[x] = source[x]
    /\ x \in cursors' /\ cursor'[x].conn = c => cursor'[x].drv # "open"

Gains(x, c) ==
    /\ x \in cursors'
    /\ cursor'[x].conn = c
    /\ cursor'[x].drv = "open"
    /\ reached'[x] = 0
    /\ NewlyOpen(my'[c], x, source'[x])

\* One cursor and one connection after the call.
CursorGoodNext(x, c) ==
    /\ my'[c].priv[x] # NoStmt =>
          /\ x \in cursors'
          /\ cursor'[x].conn = c
          /\ my'[c].priv[x] = Handle(x)'
    /\ my'[c].stmt[x] # NoStatement =>
          /\ cursor'[x].drv = "open"
          /\ reached'[x] = my'[c].stmt[x].pos
    /\ x \in cursors' /\ cursor'[x].conn = c /\ cursor'[x].drv = "open" =>
          HasStatement(my'[c], x)
    /\ my'[c].stmt[x] # NoStatement =>
          my'[c].stmt[x].pos = 0 \/ my'[c].stmt[x] = my[c].stmt[x]

LEMMA CursorCases ==
    ASSUME MyInv, NEW x \in CursorNames, NEW c \in ConnIds, DriverOk(my'[c]),
           Keeps(x, c) \/ Loses(x, c) \/ Gains(x, c)
    PROVE  CursorGoodNext(x, c)
  <1>1. /\ DriverOk(my[c]) /\ x # NoStmt
        /\ my[c].priv[x] # NoStmt =>
              x \in cursors /\ cursor[x].conn = c /\ my[c].priv[x] = Handle(x)
        /\ my[c].stmt[x] # NoStatement =>
              cursor[x].drv = "open" /\ reached[x] = my[c].stmt[x].pos
        /\ x \in cursors /\ cursor[x].conn = c /\ cursor[x].drv = "open" =>
              HasStatement(my[c], x)
        /\ my[c].stmt[x] # NoStatement => my[c].priv[x] = x
    BY HandleNames DEF MyInv, MyDrivers, MyCursors, DriverOk
  <1>2. CASE Keeps(x, c)
    <2>1. my'[c].priv[x] = my[c].priv[x] /\ my'[c].stmt[x] = my[c].stmt[x]
      BY <1>2 DEF Keeps, Kept
    <2>2. HasStatement(my'[c], x) <=> HasStatement(my[c], x)
      BY <1>1, <2>1, HasStatementIs
    <2>3. source'[x] = source[x] => Handle(x)' = Handle(x)
      BY DEF Handle
    <2> QED
      BY <1>1, <1>2, <2>1, <2>2, <2>3 DEF Keeps, CursorGoodNext
  <1>3. CASE Loses(x, c)
    <2>1. source'[x] = source[x] => Handle(x)' = Handle(x)
      BY DEF Handle
    <2> QED
      BY <1>1, <1>3, <2>1 DEF Loses, Shed, CursorGoodNext
  <1>4. CASE Gains(x, c)
    BY <1>4 DEF Gains, NewlyOpen, CursorGoodNext, Handle
  <1> QED
    BY <1>2, <1>3, <1>4

\* What the action properties say of one step.
HitTruth ==
    \A y \in CursorNames :
        (/\ alive'
         /\ sent' = y
         /\ ret'.rc = "SUCCESS"
         /\ UniqueIndex
         /\ cursor[y].open
         /\ source[y] = NoStmt) =>
              /\ cursor[y].drv = "open"
              /\ reached[y] # 0
              /\ my'[ret'.conn].hit = {reached[y]}

FetchTruth ==
    answer'.kind = "error" /\ cursor[answer'.x].drv = "open" => sqlcode' # "norec"

GoodStep ==
    /\ MyInv'
    /\ HitTruth
    /\ NorecCode > 0 => FetchTruth
    /\ Abstract!Next

\* What every call but FETCH has to show.
LEMMA CallStep ==
    ASSUME MyInv, AnyCall, MyTypeOK', MyDrivers',
           \A x \in cursors' : cursor'[x].conn <= next_conn_id',
           \A x \in CursorNames, c \in ConnIds : Keeps(x, c) \/ Loses(x, c) \/ Gains(x, c),
           answer' = NoAnswer, HitTruth
    PROVE  GoodStep
  <1>1. StateInv' /\ StateInv
    BY AnyCallStateInv DEF MyInv
  <1>2. \A x \in CursorNames, c \in ConnIds : CursorGoodNext(x, c)
    BY CursorCases DEF MyDrivers
  <1>3. MyCursors'
    <2>1. \A x \in cursors' : cursor'[x].drv = "open" => HasStatement(my'[cursor'[x].conn], x)
      <3> SUFFICES ASSUME NEW x \in cursors', cursor'[x].drv = "open"
                   PROVE  HasStatement(my'[cursor'[x].conn], x)
        OBVIOUS
      <3>1. x \in CursorNames /\ cursor'[x].conn \in ConnIds
        BY <1>1 DEF StateInv, CurTypeOK, Cursor, CursorStateAgreement
      <3> QED
        BY <1>2, <3>1 DEF CursorGoodNext
    <2> QED
      BY <1>2, <2>1 DEF CursorGoodNext, MyCursors
  <1>4. ASSUME NEW x \in CursorNames
        PROVE  CursorView(x)' \in {[open |-> TRUE, rows |-> n, at |-> 0] : n \in 0..MaxKey}
                                     \cup {ClosedView, CursorView(x)}
    <2>1. PICK c, d : c = cursor[x].conn /\ d = cursor'[x].conn
      OBVIOUS
    <2>2. /\ d \in ConnIds \cup {NoConn}
          /\ CursorView(x)' = IF Opens(my', d, x) THEN View(my'[d].stmt[x]) ELSE ClosedView
      BY <1>1, <1>3, <2>1, BoundViewNext
    <2>3. CursorView(x) = IF Opens(my, c, x) THEN View(my[c].stmt[x]) ELSE ClosedView
      BY <2>1, BoundView DEF MyInv
    <2>4. CASE Opens(my', d, x)
      <3>1. d \in ConnIds /\ my'[d].stmt[x] # NoStatement
        BY <2>4 DEF Opens
      <3>2. my'[d].stmt[x].pos = 0 \/ my'[d].stmt[x] = my[d].stmt[x]
        BY <1>2, <3>1 DEF CursorGoodNext
      <3>3. my'[d].stmt[x] \in Stmt
        BY <3>1, HandleNames DEF MyTypeOK, Driver
      <3>4. CASE my'[d].stmt[x].pos = 0
        <4>1. /\ Passed(my'[d].stmt[x]) = 0
              /\ Cardinality(my'[d].stmt[x].rows) \in 0..MaxKey
          BY <3>3, <3>4, PassedIs
        <4> QED
          BY <2>2, <2>4, <4>1 DEF View
      <3>5. CASE my'[d].stmt[x] = my[d].stmt[x]
        <4>1. my[d].priv[x] = x /\ x # NoStmt
          BY <3>1, <3>5, HandleNames DEF MyInv, MyDrivers, DriverOk
        <4>2. c = d
          BY <2>1, <3>1, <4>1 DEF MyInv, MyCursors
        <4>3. Opens(my, c, x)
          BY <3>1, <3>5, <4>2 DEF Opens
        <4> QED
          BY <2>2, <2>3, <2>4, <3>5, <4>2, <4>3
      <3> QED
        BY <3>2, <3>4, <3>5
    <2>5. CASE ~Opens(my', d, x)
      BY <2>2, <2>5
    <2> QED
      BY <2>4, <2>5
  <1>5. Abstract!Call
    BY <1>4 DEF Abstract!Call, Abstract!NoAnswer, Abstract!Opened, Abstract!Closed, NoAnswer,
                ClosedView
  <1>6. Abstract!Next
    BY <1>5 DEF Abstract!Next
  <1>7. FetchTruth /\ MyAnswer'
    BY DEF FetchTruth, MyAnswer, NoAnswer
  <1> QED
    BY <1>1, <1>3, <1>6, <1>7 DEF GoodStep, MyInv

---------------------------------------------------------------------------
(* Calls that leave cursors as they are.                                   *)

LEMMA FreshIs ==
    ASSUME MyInv, NEW c \in ConnIds
    PROVE  /\ Idle(my[c], Fresh(c)) /\ DriverOk(Fresh(c)) /\ DriverOk(my[c])
           /\ Fresh(c).stmt = my[c].stmt /\ Fresh(c).priv = my[c].priv
           /\ Steady(my[c], Fresh(c))
  <1>1. DriverOk(my[c]) /\ Fresh(c) = WithHit(my[c], {})
    BY DEF MyInv, MyDrivers, Fresh, WithHit
  <1>2. Idle(my[c], Fresh(c)) /\ DriverOk(Fresh(c))
    BY <1>1, SetHit
  <1> QED
    BY <1>1, <1>2 DEF Idle

LEMMA BecomesIs ==
    ASSUME MyInv, NEW c \in ConnIds, NEW q, DriverOk(q), Becomes(c, q)
    PROVE  /\ my' \in [ConnIds -> Driver]
           /\ my'[c] = q
           /\ \A d \in ConnIds \ {c} : my'[d] = my[d]
           /\ MyDrivers'
  <1>1. my \in [ConnIds -> Driver] /\ q \in Driver
    BY DEF MyInv, MyTypeOK, DriverOk
  <1>2. /\ my' \in [ConnIds -> Driver]
        /\ my'[c] = q
        /\ \A d \in ConnIds \ {c} : my'[d] = my[d]
    BY <1>1 DEF Becomes
  <1> QED
    BY <1>2 DEF MyInv, MyDrivers

\* The driver of a connection that a name finds.
LEMMA FoundDriver ==
    ASSUME MyInv, NEW n \in Names \cup {NoName}, NEW c, c = get(n), c # NoConn
    PROVE  c \in ConnIds /\ c \in connections /\ DriverOk(Fresh(c))
  <1>1. StateInv /\ ConnTypeOK
    BY DEF MyInv, StateInv
  <1>2. c \in ConnIds /\ c \in connections
    BY <1>1, GetType, GetRegistered DEF ConnTypeOK
  <1> QED
    BY <1>2, FreshIs

\* The runtime does nothing to the cursor.
CursorStays(x) ==
    /\ x \in cursors' <=> x \in cursors
    /\ cursor'[x] = cursor[x]
    /\ x \in cursors => source'[x] = source[x]
    /\ cursor[x].drv = "open" /\ x \in cursors => reached'[x] = reached[x]

LEMMA StaysKept ==
    ASSUME MyInv, NEW x \in CursorNames, NEW c \in ConnIds, CursorStays(x),
           Kept(my[c], my'[c], x)
    PROVE  Keeps(x, c)
  <1>1. my[c].priv[x] # NoStmt => x \in cursors /\ cursor[x].conn = c
    BY DEF MyInv, MyCursors
  <1>2. my[c].priv[x] = NoStmt /\ x \in cursors /\ cursor[x].conn = c => cursor[x].drv # "open"
    BY DEF MyInv, MyCursors, HasStatement
  <1> QED
    BY <1>1, <1>2 DEF CursorStays, Keeps

\* A connection that the cursor is not bound to and the call does not reach.
LEMMA ElsewhereKept ==
    ASSUME MyInv, NEW x \in CursorNames, NEW c \in ConnIds, my'[c] = my[c],
           ~(x \in cursors /\ cursor[x].conn = c), ~(x \in cursors' /\ cursor'[x].conn = c)
    PROVE  Keeps(x, c)
  <1>1. my[c].priv[x] = NoStmt
    BY DEF MyInv, MyCursors
  <1> QED
    BY <1>1 DEF Keeps, Kept

\* What the observer of the composition sees of a call that is not about rows.
LEMMA OtherTypes ==
    ASSUME MyInv, AnyCall, NEW y \in CursorNames \cup {NoStmt}, Other(y),
           my' \in [ConnIds -> Driver],
           source' \in [CursorNames -> StmtNames \cup {NoStmt}]
    PROVE  /\ MyTypeOK' /\ answer' = NoAnswer
           /\ \A x \in cursors' : cursor'[x].drv = "open" => reached'[x] = reached[x]
           /\ y = NoStmt => HitTruth
  <1>1. StateInv'
    BY AnyCallStateInv DEF MyInv
  <1>2. 0 \in 0..MaxKey
    BY MysqlAssumption
  <1>3. sent' = y /\ answer' = NoAnswer
        /\ reached' = [x \in CursorNames |-> IF cursor'[x].open THEN reached[x] ELSE 0]
    BY DEF Other
  <1>4. MyTypeOK'
    BY <1>2, <1>3 DEF MyInv, MyTypeOK, NoAnswer
  <1>5. \A x \in cursors' : cursor'[x].drv = "open" => reached'[x] = reached[x]
    BY <1>1, <1>3 DEF StateInv, CurTypeOK, CursorStateAgreement
  <1>6. y = NoStmt => HitTruth
    BY <1>3, HandleNames DEF HitTruth
  <1> QED
    BY <1>3, <1>4, <1>5, <1>6

\* A call that changes nothing of any cursor, in the runtime or in a driver.
LEMMA SteadyCursorsStep ==
    ASSUME MyInv, AnyCall, UNCHANGED curVars, UNCHANGED source,
           \A x \in cursors : cursor[x].conn <= next_conn_id',
           my' \in [ConnIds -> Driver], \A c \in ConnIds : Steady(my[c], my'[c]),
           NEW y \in CursorNames \cup {NoStmt}, Other(y), y # NoStmt => HitTruth
    PROVE  GoodStep
  <1>1. cursors' = cursors /\ cursor' = cursor
    BY DEF curVars
  <1>2. source' \in [CursorNames -> StmtNames \cup {NoStmt}]
    BY DEF MyInv, MyTypeOK
  <1>3. /\ MyTypeOK' /\ answer' = NoAnswer /\ HitTruth
        /\ \A x \in cursors' : cursor'[x].drv = "open" => reached'[x] = reached[x]
    BY <1>2, OtherTypes
  <1>4. MyDrivers'
    BY DEF MyDrivers, Steady
  <1>5. \A x \in CursorNames : CursorStays(x)
    BY <1>1, <1>3 DEF CursorStays
  <1>6. \A x \in CursorNames, c \in ConnIds : Keeps(x, c)
    BY <1>5, StaysKept DEF Steady
  <1> QED
    BY <1>1, <1>3, <1>4, <1>6, CallStep

LEMMA SteadyStep ==
    ASSUME MyInv, AnyCall, UNCHANGED <<connVars, curVars>>, UNCHANGED source,
           my' \in [ConnIds -> Driver], \A c \in ConnIds : Steady(my[c], my'[c]),
           NEW y \in CursorNames \cup {NoStmt}, Other(y), y # NoStmt => HitTruth
    PROVE  GoodStep
  <1>1. UNCHANGED curVars /\ \A x \in cursors : cursor[x].conn <= next_conn_id'
    BY DEF connVars, registry, MyInv, MyCursors
  <1> QED
    BY <1>1, SteadyCursorsStep

\* A call that does not come to a driver.
LEMMA UntouchedStep ==
    ASSUME MyInv, AnyCall, UNCHANGED <<connVars, curVars>>, UNCHANGED <<my, source>>,
           Other(NoStmt)
    PROVE  GoodStep
  <1>1. my' \in [ConnIds -> Driver] /\ \A c \in ConnIds : Steady(my[c], my'[c])
    BY SteadyRefl DEF MyInv, MyTypeOK, MyDrivers
  <1> QED
    BY <1>1, SteadyStep

\* A call that the driver q of one connection has seen.
LEMMA BecomesStep ==
    ASSUME MyInv, AnyCall, UNCHANGED <<connVars, curVars>>, UNCHANGED source,
           NEW c \in ConnIds, NEW q, Becomes(c, q), Steady(Fresh(c), q),
           NEW y \in CursorNames \cup {NoStmt}, Other(y), y # NoStmt => HitTruth
    PROVE  GoodStep
  <1>1. DriverOk(q) /\ Steady(my[c], Fresh(c))
    BY FreshIs DEF Steady
  <1>2. Steady(my[c], q)
    BY <1>1, SteadyTrans
  <1>3. /\ my' \in [ConnIds -> Driver] /\ my'[c] = q
        /\ \A d \in ConnIds \ {c} : my'[d] = my[d]
    BY <1>1, BecomesIs
  <1>4. \A d \in ConnIds : Steady(my[d], my'[d])
    BY <1>2, <1>3, SteadyRefl DEF MyInv, MyDrivers
  <1> QED
    BY <1>3, <1>4, SteadyStep

---------------------------------------------------------------------------
(* Statements.                                                             *)

\* The calls that run or prepare a statement that is no COMMIT and no ROLLBACK.
OrdinaryStatement(n, nRes) ==
    \/ GIXSQLExec(n, "other")
    \/ GIXSQLExecPrepared(n, "other", 0)
    \/ GIXSQLExecSelectIntoOne(n, "other", nRes)
    \/ GIXSQLExecPreparedInto(n, "other", 0, nRes)
    \/ GIXSQLPrepareStatement(n, "other")

LEMMA OrdinaryIs ==
    ASSUME NEW n \in Names \cup {NoName}, NEW nRes \in 0..MaxVars, OrdinaryStatement(n, nRes)
    PROVE  AnyCall /\ StatementOn(n) /\ UNCHANGED <<connVars, curVars>>
  <1>1. StatementOn(n)
    BY RuntimeAssumption DEF OrdinaryStatement, StatementOn, Queries
  <1>2. AnyCall
    BY <1>1 DEF StatementOn, AnyCall
  <1>3. \A c : CursorsAtExec(c, "other") = cursor
    BY DEF CursorsAtExec, is_commit_or_rollback_statement
  <1>4. \A call, c, q, err : StatementRejected(call, c, q, err) => UNCHANGED <<connVars, curVars>>
    BY DEF StatementRejected, StateUnchanged
  <1>5. \A c, err : Run(c, "other", err) => UNCHANGED <<connVars, curVars>>
    BY <1>3 DEF Run, curVars
  <1>6. \A c, err, codes : RunInto(c, "other", err, nRes, codes) => UNCHANGED <<connVars, curVars>>
    BY <1>3 DEF RunInto, curVars
  <1>7. UNCHANGED <<connVars, curVars>>
    BY <1>4, <1>5, <1>6
       DEF OrdinaryStatement, GIXSQLExec, GIXSQLExecPrepared, GIXSQLExecSelectIntoOne,
           GIXSQLExecPreparedInto, GIXSQLPrepareStatement, StateUnchanged
  <1> QED
    BY <1>1, <1>2, <1>7

\* Such a statement, which its connection's driver q has seen if there is one.
LEMMA OrdinaryStep ==
    ASSUME MyInv, NEW n \in Names \cup {NoName}, NEW nRes \in 0..MaxVars,
           OrdinaryStatement(n, nRes), NEW c, c = get(n), UNCHANGED source, Other(NoStmt),
           c = NoConn => UNCHANGED my,
           c # NoConn => \E q : Becomes(c, q) /\ Steady(Fresh(c), q)
    PROVE  GoodStep
  <1>1. AnyCall /\ UNCHANGED <<connVars, curVars>>
    BY OrdinaryIs
  <1>2. CASE c = NoConn
    BY <1>1, <1>2, UntouchedStep
  <1>3. CASE c # NoConn
    <2>1. PICK q : Becomes(c, q) /\ Steady(Fresh(c), q)
      BY <1>3
    <2>2. c \in ConnIds
      BY <1>3, FoundDriver
    <2> QED
      BY <1>1, <2>1, <2>2, BecomesStep
  <1> QED
    BY <1>2, <1>3

LEMMA MyPrepareGood ==
    ASSUME MyInv, NEW n \in Names \cup {NoName}, NEW s \in StmtNames,
           NEW text \in Statements, MyPrepare(n, s, text)
    PROVE  GoodStep
  <1>1. PICK c : c = get(n)
    OBVIOUS
  <1>2. 0 \in 0..MaxVars /\ text \in AllStatements
    BY RuntimeAssumption, MysqlAssumption
  <1>3. /\ OrdinaryStatement(n, 0) /\ UNCHANGED source /\ Other(NoStmt)
        /\ c = NoConn => UNCHANGED my
    BY <1>1 DEF MyPrepare, OrdinaryStatement
  <1>4. c # NoConn => \E q : Becomes(c, q) /\ Steady(Fresh(c), q)
    <2> SUFFICES ASSUME c # NoConn PROVE \E q : Becomes(c, q) /\ Steady(Fresh(c), q)
      OBVIOUS
    <2>1. PICK r \in prepare(Fresh(c), s, text) : Becomes(c, r.p)
      BY <1>1 DEF MyPrepare
    <2>2. Steady(Fresh(c), r.p)
      BY <1>1, <1>2, FoundDriver, PrepareOk
    <2> QED
      BY <2>1, <2>2
  <1> QED
    BY <1>1, <1>2, <1>3, <1>4, OrdinaryStep

LEMMA MyExecPreparedGood ==
    ASSUME MyInv, NEW n \in Names \cup {NoName}, NEW s \in StmtNames, MyExecPrepared(n, s)
    PROVE  GoodStep
  <1>1. PICK c : c = get(n)
    OBVIOUS
  <1>2. 0 \in 0..MaxVars
    BY RuntimeAssumption
  <1>3. /\ OrdinaryStatement(n, 0) /\ UNCHANGED source /\ Other(NoStmt)
        /\ c = NoConn => UNCHANGED my
    BY <1>1 DEF MyExecPrepared, OrdinaryStatement
  <1>4. c # NoConn => \E q : Becomes(c, q) /\ Steady(Fresh(c), q)
    <2> SUFFICES ASSUME c # NoConn PROVE \E q : Becomes(c, q) /\ Steady(Fresh(c), q)
      OBVIOUS
    <2>1. PICK r \in exec_prepared(Fresh(c), s) : Becomes(c, r.p)
      BY <1>1 DEF MyExecPrepared
    <2>2. Steady(Fresh(c), r.p)
      BY <1>1, FoundDriver, ExecPreparedOk
    <2> QED
      BY <2>1, <2>2
  <1> QED
    BY <1>1, <1>2, <1>3, <1>4, OrdinaryStep

\* SELECT INTO and EXECUTE INTO, after the statement has run.
LEMMA IntoSteady ==
    ASSUME NEW c, NEW r, NEW s \in StmtNames \cup {NoStmt}, NEW nRes, Into(c, r, s, nRes),
           Steady(Fresh(c), r.p)
    PROVE  \E q : Becomes(c, q) /\ Steady(Fresh(c), q)
  <1>1. CASE r.rc # DBERR_NO_ERROR
    BY <1>1 DEF Into
  <1>2. CASE r.rc = DBERR_NO_ERROR
    <2>1. PICK m \in move_to_first_record(r.p, s) : Becomes(c, m.p)
      BY <1>2 DEF Into
    <2>2. Steady(r.p, m.p)
      BY MoveOk DEF Steady
    <2> QED
      BY <2>1, <2>2, SteadyTrans
  <1> QED
    BY <1>1, <1>2

LEMMA MySelectIntoGood ==
    ASSUME MyInv, NEW n \in Names \cup {NoName}, NEW nRes \in 0..MaxVars, MySelectInto(n, nRes)
    PROVE  GoodStep
  <1>1. PICK c : c = get(n)
    OBVIOUS
  <1>2. /\ OrdinaryStatement(n, nRes) /\ UNCHANGED source /\ Other(NoStmt)
        /\ c = NoConn => UNCHANGED my
    BY <1>1 DEF MySelectInto, OrdinaryStatement
  <1>3. c # NoConn => \E q : Becomes(c, q) /\ Steady(Fresh(c), q)
    <2> SUFFICES ASSUME c # NoConn PROVE \E q : Becomes(c, q) /\ Steady(Fresh(c), q)
      OBVIOUS
    <2>1. PICK r \in exec(Fresh(c), "SELECT") : Into(c, r, NoStmt, nRes)
      BY <1>1 DEF MySelectInto
    <2>2. Steady(Fresh(c), r.p)
      BY <1>1, FoundDriver, ExecOk DEF AllStatements
    <2> QED
      BY <2>1, <2>2, IntoSteady
  <1> QED
    BY <1>1, <1>2, <1>3, OrdinaryStep

LEMMA MyExecPreparedIntoGood ==
    ASSUME MyInv, NEW n \in Names \cup {NoName}, NEW s \in StmtNames,
           NEW nRes \in 0..MaxVars, MyExecPreparedInto(n, s, nRes)
    PROVE  GoodStep
  <1>1. PICK c : c = get(n)
    OBVIOUS
  <1>2. /\ OrdinaryStatement(n, nRes) /\ UNCHANGED source /\ Other(NoStmt)
        /\ c = NoConn => UNCHANGED my
    BY <1>1 DEF MyExecPreparedInto, OrdinaryStatement
  <1>3. c # NoConn => \E q : Becomes(c, q) /\ Steady(Fresh(c), q)
    <2> SUFFICES ASSUME c # NoConn PROVE \E q : Becomes(c, q) /\ Steady(Fresh(c), q)
      OBVIOUS
    <2>1. PICK r \in exec_prepared(Fresh(c), s) : Into(c, r, s, nRes)
      BY <1>1 DEF MyExecPreparedInto
    <2>2. Steady(Fresh(c), r.p)
      BY <1>1, FoundDriver, ExecPreparedOk
    <2> QED
      BY <2>1, <2>2, IntoSteady
  <1> QED
    BY <1>1, <1>2, <1>3, OrdinaryStep

LEMMA MyVarListsGood ==
    ASSUME MyInv, MyVarLists
    PROVE  GoodStep
  <1>1. /\ GIXSQLStartSQL \/ GIXSQLSetResultParams
        /\ UNCHANGED <<my, source>> /\ Other(NoStmt)
    BY DEF MyVarLists
  <1>2. AnyCall /\ UNCHANGED <<connVars, curVars>>
    BY <1>1 DEF AnyCall, GIXSQLStartSQL, GIXSQLSetResultParams, VarListCall
  <1> QED
    BY <1>1, <1>2, UntouchedStep

\* UPDATE or DELETE WHERE CURRENT OF y: the row of the last FETCH since OPEN.
LEMMA MyPositionedGood ==
    ASSUME MyInv, NEW n \in Names \cup {NoName}, NEW op \in {"UPDATE", "DELETE"},
           NEW y \in CursorNames, MyPositioned(n, op, y)
    PROVE  GoodStep
  <1>1. PICK c : c = get(n)
    OBVIOUS
  <1>2. 0 \in 0..MaxVars /\ CurTypeOK
    BY RuntimeAssumption DEF MyInv, StateInv
  <1>3. /\ OrdinaryStatement(n, 0) /\ UNCHANGED source /\ Other(y)
        /\ c = NoConn => UNCHANGED my
    BY <1>1 DEF MyPositioned, OrdinaryStatement
  <1>4. AnyCall /\ StatementOn(n) /\ UNCHANGED <<connVars, curVars>>
    BY <1>2, <1>3, OrdinaryIs
  <1>5. ret'.conn = c /\ (c = NoConn => ret'.rc = "FAILED") /\ sent' = y
    BY <1>1, <1>2, <1>3, <1>4, StatementShared DEF Other
  <1>6. CASE c = NoConn
    <2>1. my' \in [ConnIds -> Driver] /\ \A d \in ConnIds : Steady(my[d], my'[d])
      BY <1>3, <1>6, SteadyRefl DEF MyInv, MyTypeOK, MyDrivers
    <2>2. HitTruth
      BY <1>5, <1>6 DEF HitTruth
    <2> QED
      BY <1>3, <1>4, <2>1, <2>2, SteadyStep
  <1>7. CASE c # NoConn
    <2>1. PICK r \in positioned(Fresh(c), op, y) :
             Reports(r, DBERR_SQL_ERROR) /\ Becomes(c, r.p)
      BY <1>1, <1>7 DEF MyPositioned
    <2>2. c \in ConnIds /\ DriverOk(Fresh(c))
      BY <1>1, <1>7, FoundDriver
    <2>3. PICK p : p = Fresh(c)
      OBVIOUS
    <2>4. /\ Steady(p, r.p) /\ DriverOk(r.p)
          /\ r.rc = DBERR_NO_ERROR /\ UniqueIndex =>
                /\ HasStatement(p, y)
                /\ p.stmt[p.priv[y]].pos # 0
                /\ r.p.hit = {p.stmt[p.priv[y]].pos}
      BY <2>1, <2>2, <2>3, PositionedOk DEF Steady
    <2>5. my'[c] = r.p
      BY <2>1, <2>2, <2>4, BecomesIs
    <2>6. HitTruth
      <3> SUFFICES ASSUME ret'.rc = "SUCCESS", UniqueIndex, source[y] = NoStmt
                   PROVE  /\ cursor[y].drv = "open"
                          /\ reached[y] # 0
                          /\ my'[ret'.conn].hit = {reached[y]}
        BY <1>5 DEF HitTruth
      <3>1. r.rc = DBERR_NO_ERROR
        BY <2>1 DEF Reports
      <3>2. p.stmt = my[c].stmt /\ p.priv = my[c].priv
        BY <2>2, <2>3, FreshIs
      <3>3. my[c].priv[y] = y /\ my[c].stmt[y] # NoStatement
        BY <2>2, <2>4, <3>1, <3>2 DEF MyInv, MyCursors, Handle, HasStatement
      <3>4. cursor[y].drv = "open" /\ reached[y] = my[c].stmt[y].pos
        BY <2>2, <3>3 DEF MyInv, MyCursors
      <3> QED
        BY <1>5, <2>4, <2>5, <3>1, <3>2, <3>3, <3>4
    <2> QED
      BY <1>3, <1>4, <2>1, <2>2, <2>3, <2>4, <2>6, BecomesStep
  <1> QED
    BY <1>6, <1>7

---------------------------------------------------------------------------
(***************************************************************************)
(* closeConnectionCursors() is a fold over the set of the cursors it       *)
(* closes.  FoldSet is the choice of a function on the subsets of that     *)
(* set; that there is one is shown for finite sets, by least               *)
(* counterexample, and so is what the driver is after any of these folds.  *)
(***************************************************************************)

\* The drivers one cursor_close() can leave of those in ps.
CloseOne(x, ps) == UNION {{r.p : r \in cursor_close(p, x, source[x])} : p \in ps}

FoldStep(g, base, s) ==
    IF s = {} THEN base ELSE LET x == CHOOSE y \in s : TRUE IN CloseOne(x, g[s \ {x}])

Iterates(g, base, S) == g = [s \in SUBSET S |-> FoldStep(g, base, s)]

LEMMA FoldIs ==
    ASSUME NEW base, NEW S
    PROVE  FoldSet(LAMBDA x, ps : UNION {{r.p : r \in cursor_close(p, x, source[x])} : p \in ps},
                   base, S)
           = (CHOOSE g : Iterates(g, base, S))[S]
  BY DEF FoldSet, MapThenFoldSet, Iterates, FoldStep, CloseOne

\* A subset with one element less.
LEMMA OneLess ==
    ASSUME NEW S, IsFiniteSet(S), NEW s \in SUBSET S
    PROVE  /\ IsFiniteSet(s) /\ Cardinality(s) \in Nat
           /\ Cardinality(s) = 0 <=> s = {}
           /\ s # {} => LET x == CHOOSE y \in s : TRUE
                        IN  /\ x \in s /\ s \ {x} \in SUBSET S
                            /\ Cardinality(s \ {x}) = Cardinality(s) - 1
  BY FS_Subset, FS_CardinalityType, FS_RemoveElement, FS_EmptySet

\* The subsets with at most n elements, and the fold on them.
Small(S, n) == {s \in SUBSET S : Cardinality(s) <= n}

Upto(g, base, S, n) == g = [s \in Small(S, n) |-> FoldStep(g, base, s)]

LEMMA UptoZero ==
    ASSUME NEW base, NEW S, IsFiniteSet(S)
    PROVE  \E g : Upto(g, base, S, 0)
  <1>1. \A s \in Small(S, 0) : s = {}
    <2> SUFFICES ASSUME NEW s \in Small(S, 0) PROVE s = {}
      OBVIOUS
    <2>1. s \in SUBSET S /\ Cardinality(s) <= 0
      BY DEF Small
    <2>2. Cardinality(s) \in Nat /\ (Cardinality(s) = 0 <=> s = {})
      BY <2>1, OneLess
    <2> QED
      BY <2>1, <2>2
  <1>2. PICK g : g = [s \in Small(S, 0) |-> base]
    OBVIOUS
  <1>3. \A s \in Small(S, 0) : FoldStep(g, base, s) = base
    BY <1>1 DEF FoldStep
  <1>4. [s \in Small(S, 0) |-> FoldStep(g, base, s)] = [s \in Small(S, 0) |-> base]
    BY <1>3
  <1> QED
    BY <1>2, <1>4 DEF Upto

LEMMA UptoNext ==
    ASSUME NEW base, NEW S, IsFiniteSet(S), NEW n \in Nat, NEW f, Upto(f, base, S, n)
    PROVE  \E g : Upto(g, base, S, n + 1)
  <1>1. PICK g : g = [s \in Small(S, n + 1) |-> FoldStep(f, base, s)]
    OBVIOUS
  <1>2. \A s \in Small(S, n) : s \in Small(S, n + 1)
    <2> SUFFICES ASSUME NEW s \in Small(S, n) PROVE s \in Small(S, n + 1)
      OBVIOUS
    <2>1. s \in SUBSET S /\ Cardinality(s) <= n
      BY DEF Small
    <2>2. Cardinality(s) \in Nat
      BY <2>1, OneLess
    <2> QED
      BY <2>1, <2>2 DEF Small
  <1>3. \A s \in Small(S, n) : g[s] = f[s]
    BY <1>1, <1>2 DEF Upto
  <1>4. ASSUME NEW s \in Small(S, n + 1)
        PROVE  FoldStep(f, base, s) = FoldStep(g, base, s)
    <2>1. CASE s = {}
      BY <2>1 DEF FoldStep
    <2>2. CASE s # {}
      <3>1. PICK x : x = CHOOSE y \in s : TRUE
        OBVIOUS
      <3>2. s \in SUBSET S /\ Cardinality(s) <= n + 1
        BY DEF Small
      <3>3. /\ Cardinality(s) \in Nat
            /\ s \ {x} \in SUBSET S /\ Cardinality(s \ {x}) = Cardinality(s) - 1
        BY <2>2, <3>1, <3>2, OneLess
      <3>4. s \ {x} \in Small(S, n)
        BY <3>2, <3>3 DEF Small
      <3>5. f[s \ {x}] = g[s \ {x}]
        BY <1>3, <3>4
      <3> QED
        BY <2>2, <3>1, <3>5 DEF FoldStep
    <2> QED
      BY <2>1, <2>2
  <1>5. Upto(g, base, S, n + 1)
    BY <1>1, <1>4 DEF Upto
  <1> QED
    BY <1>5

LEMMA IterationExists ==
    ASSUME NEW base, NEW S, IsFiniteSet(S)
    PROVE  \E g : Iterates(g, base, S)
  <1>1. PICK T : T = {n \in Nat : ~ \E g : Upto(g, base, S, n)}
    OBVIOUS
  <1>2. T = {}
    <2> SUFFICES ASSUME T # {} PROVE FALSE
      OBVIOUS
    <2>1. T \in SUBSET Nat
      BY <1>1
    <2>2. PICK n \in T : \A m \in T : n <= m
      BY <2>1, LeastNat
    <2>3. n \in Nat /\ n # 0
      BY <1>1, UptoZero
    <2>4. PICK k : k = n - 1
      OBVIOUS
    <2>5. k \in Nat /\ k + 1 = n /\ ~(n <= k)
      BY <2>3, <2>4
    <2>6. k \notin T
      BY <2>2, <2>5
    <2>7. PICK f : Upto(f, base, S, k)
      BY <1>1, <2>5, <2>6
    <2>8. \E g : Upto(g, base, S, n)
      BY <2>5, <2>7, UptoNext
    <2> QED
      BY <1>1, <2>8
  <1>3. Cardinality(S) \in Nat /\ Small(S, Cardinality(S)) = SUBSET S
    BY FS_Subset, FS_CardinalityType DEF Small
  <1>4. PICK g : Upto(g, base, S, Cardinality(S))
    BY <1>1, <1>2, <1>3
  <1>5. Iterates(g, base, S)
    BY <1>3, <1>4 DEF Iterates, Upto
  <1> QED
    BY <1>5

(***************************************************************************)
(* What closing the cursors of s leaves of driver p: they have lost their  *)
(* statements, and the others keep them.                                   *)
(***************************************************************************)
SweptOf(p, s, q) ==
    /\ DriverOk(q)
    /\ \A x \in CursorNames : IF x \in s THEN Shed(p, q, x) ELSE Kept(p, q, x)

\* One more cursor_close() after those of s.
LEMMA SweepOne ==
    ASSUME NEW p, NEW x \in CursorNames, NEW s \in SUBSET CursorNames, x \notin s,
           source[x] \in StmtNames \cup {NoStmt}, Held(p, x, source[x]),
           NEW ps, \A q \in ps : SweptOf(p, s, q), NEW q \in CloseOne(x, ps)
    PROVE  SweptOf(p, s \cup {x}, q)
  <1>1. PICK o \in ps : q \in {r.p : r \in cursor_close(o, x, source[x])}
    BY DEF CloseOne
  <1>2. PICK r \in cursor_close(o, x, source[x]) : q = r.p
    BY <1>1
  <1>3. SweptOf(p, s, o)
    BY <1>1
  <1>4. DriverOk(o) /\ Kept(p, o, x)
    BY <1>3 DEF SweptOf
  <1>5. Held(o, x, source[x])
    BY <1>4 DEF Held, Kept
  <1>6. OnlyCursor(o, q, x) /\ Shed(o, q, x) /\ DriverOk(q)
    BY <1>2, <1>4, <1>5, CursorCloseOk
  <1>7. Shed(p, q, x)
    BY <1>4, <1>6 DEF Shed, Kept
  <1>8. ASSUME NEW y \in CursorNames, y # x
        PROVE  IF y \in s THEN Shed(p, q, y) ELSE Kept(p, q, y)
    <2>1. Kept(o, q, y)
      BY <1>6, <1>8 DEF OnlyCursor
    <2>2. HasStatement(q, y) <=> HasStatement(o, y)
      BY <1>4, <1>6, <2>1, HasStatementIs DEF Kept
    <2> QED
      BY <1>3, <2>1, <2>2 DEF SweptOf, Shed, Kept
  <1> QED
    BY <1>6, <1>7, <1>8 DEF SweptOf

LEMMA SweepAll ==
    ASSUME NEW p, DriverOk(p), NEW S \in SUBSET CursorNames,
           source \in [CursorNames -> StmtNames \cup {NoStmt}],
           \A x \in S : Held(p, x, source[x]),
           NEW g, Iterates(g, {p}, S), IsFiniteSet(S)
    PROVE  \A q \in g[S] : SweptOf(p, S, q)
  <1>1. \A s \in SUBSET S : g[s] = FoldStep(g, {p}, s)
    BY DEF Iterates
  <1>2. PICK T : T = {s \in SUBSET S : ~ \A q \in g[s] : SweptOf(p, s, q)}
    OBVIOUS
  <1>3. T = {}
    <2> SUFFICES ASSUME T # {} PROVE FALSE
      OBVIOUS
    <2>1. PICK N : N = {Cardinality(s) : s \in T}
      OBVIOUS
    <2>2. \A s \in T : s \in SUBSET S /\ Cardinality(s) \in Nat /\ Cardinality(s) \in N
      BY <1>2, <2>1, OneLess
    <2>3. N \in SUBSET Nat /\ N # {}
      BY <2>1, <2>2
    <2>4. PICK n \in N : \A m \in N : n <= m
      BY <2>3, LeastNat
    <2>5. PICK s \in T : n = Cardinality(s)
      BY <2>1, <2>4
    <2>6. s \in SUBSET S /\ s \in SUBSET CursorNames /\ Cardinality(s) \in Nat
      BY <1>2, <2>2
    <2>7. \A q \in g[s] : SweptOf(p, s, q)
      <3>1. CASE s = {}
        <4>1. g[s] = {p}
          BY <1>1, <2>6, <3>1 DEF FoldStep
        <4>2. SweptOf(p, s, p)
          BY <3>1 DEF SweptOf, Kept
        <4> QED
          BY <4>1, <4>2
      <3>2. CASE s # {}
        <4>1. PICK x : x = CHOOSE y \in s : TRUE
          OBVIOUS
        <4>2. PICK t : t = s \ {x}
          OBVIOUS
        <4>3. /\ x \in s /\ t \in SUBSET S /\ Cardinality(t) = Cardinality(s) - 1
          BY <2>6, <3>2, <4>1, <4>2, OneLess
        <4>4. t \notin T
          <5>1. Cardinality(t) \in N => n <= Cardinality(t)
            BY <2>4
          <5>2. ~(n <= Cardinality(t))
            BY <2>5, <2>6, <4>3
          <5> QED
            BY <2>2, <5>1, <5>2
        <4>5. \A q \in g[t] : SweptOf(p, t, q)
          BY <1>2, <4>3, <4>4
        <4>6. g[s] = CloseOne(x, g[t])
          BY <1>1, <2>6, <3>2, <4>1, <4>2 DEF FoldStep
        <4>7. /\ x \in CursorNames /\ x \notin t /\ t \in SUBSET CursorNames
              /\ source[x] \in StmtNames \cup {NoStmt}
              /\ Held(p, x, source[x])
              /\ t \cup {x} = s
          BY <2>6, <4>2, <4>3
        <4> QED
          BY <4>5, <4>6, <4>7, SweepOne
      <3> QED
        BY <3>1, <3>2
    <2> QED
      BY <1>2, <2>7
  <1> QED
    BY <1>2, <1>3

\* The cursors that a COMMIT or ROLLBACK on connection c closes in the driver.
Closes(c) == {x \in CursorsOf(c) : ~cursor[x].hold}

LEMMA SweptIs ==
    ASSUME MyInv, NEW c \in ConnIds, NEW s, NEW q \in Swept(c, s)
    PROVE  SweptOf(Fresh(c), IF QueryKind(s) = "tx_end" THEN Closes(c) ELSE {}, q)
  <1>1. DriverOk(Fresh(c)) /\ Fresh(c).priv = my[c].priv
    BY FreshIs
  <1>2. CASE QueryKind(s) = "tx_end"
    <2>1. Closes(c) \in SUBSET CursorNames /\ IsFiniteSet(Closes(c))
      <3>1. Closes(c) \subseteq CursorNames
        BY DEF MyInv, StateInv, Closes, CursorsOf, CurTypeOK
      <3> QED
        BY <3>1, CursorNamesAssumption, FS_Subset
    <2>2. PICK g : g = CHOOSE h : Iterates(h, {Fresh(c)}, Closes(c))
      OBVIOUS
    <2>3. Iterates(g, {Fresh(c)}, Closes(c))
      BY <2>1, <2>2, IterationExists
    <2>4. q \in g[Closes(c)]
      <3>1. Swept(c, s) = FoldSet(LAMBDA x, ps : UNION {{r.p : r \in cursor_close(p, x, source[x])} : p \in ps},
                                  {Fresh(c)}, Closes(c))
        BY <1>2 DEF Swept, is_commit_or_rollback_statement, Closes
      <3> QED
        BY <2>2, <3>1, FoldIs
    <2>5. source \in [CursorNames -> StmtNames \cup {NoStmt}]
      BY DEF MyInv, MyTypeOK
    <2>6. \A x \in Closes(c) : Held(Fresh(c), x, source[x])
      BY <1>1, <2>1, CursorHeld DEF Held
    <2>7. PICK p, S : p = Fresh(c) /\ S = Closes(c)
      OBVIOUS
    <2>8. /\ DriverOk(p) /\ S \in SUBSET CursorNames /\ IsFiniteSet(S)
          /\ \A x \in S : Held(p, x, source[x])
          /\ Iterates(g, {p}, S) /\ q \in g[S]
      BY <1>1, <2>1, <2>3, <2>4, <2>6, <2>7
    <2>9. SweptOf(p, S, q)
      BY ONLY <2>5, <2>8, SweepAll
    <2> QED
      BY <1>2, <2>7, <2>9
  <1>3. CASE QueryKind(s) # "tx_end"
    <2>1. q = Fresh(c)
      BY <1>3 DEF Swept, is_commit_or_rollback_statement
    <2> QED
      BY <1>1, <1>3, <2>1 DEF SweptOf, Kept
  <1> QED
    BY <1>2, <1>3

\* A COMMIT or ROLLBACK; the cursors of Closes(c) have lost their statements.
LEMMA TransactionEndStep ==
    ASSUME MyInv, AnyCall, NEW c \in ConnIds, cursor' = closeConnectionCursors(c),
           UNCHANGED <<connVars, cursors>>, UNCHANGED source, Other(NoStmt),
           NEW q, SweptOf(Fresh(c), Closes(c), q), Becomes(c, q)
    PROVE  GoodStep
  <1>1. /\ CurTypeOK /\ next_conn_id' = next_conn_id /\ cursors' = cursors
        /\ DriverOk(q) /\ Fresh(c).priv = my[c].priv /\ Fresh(c).stmt = my[c].stmt
    BY FreshIs DEF MyInv, StateInv, SweptOf, connVars, registry
  <1>2. /\ my' \in [ConnIds -> Driver] /\ my'[c] = q /\ MyDrivers'
        /\ \A d \in ConnIds \ {c} : my'[d] = my[d]
    BY <1>1, BecomesIs
  <1>3. source' \in [CursorNames -> StmtNames \cup {NoStmt}]
    BY DEF MyInv, MyTypeOK
  <1>4. NoStmt \in CursorNames \cup {NoStmt}
    OBVIOUS
  <1>5. /\ MyTypeOK' /\ answer' = NoAnswer /\ HitTruth
        /\ \A x \in cursors' : cursor'[x].drv = "open" => reached'[x] = reached[x]
    BY <1>2, <1>3, <1>4, OtherTypes
  <1>6. \A x \in CursorNames :
           /\ cursor'[x].conn = cursor[x].conn
           /\ x \in Closes(c) => cursor'[x].drv # "open" /\ x \in cursors /\ cursor[x].conn = c
           /\ x \notin Closes(c) => cursor'[x] = cursor[x]
    <2> SUFFICES ASSUME NEW x \in CursorNames
                 PROVE  /\ cursor'[x].conn = cursor[x].conn
                        /\ x \in Closes(c) => /\ cursor'[x].drv # "open"
                                              /\ x \in cursors /\ cursor[x].conn = c
                        /\ x \notin Closes(c) => cursor'[x] = cursor[x]
      OBVIOUS
    <2>1. cursor[x] \in Cursor
      BY <1>1 DEF CurTypeOK
    <2>2. cursor'[x] = IF x \in Closes(c) THEN DriverClosed(cursor[x]) ELSE cursor[x]
      BY DEF closeConnectionCursors, Closes
    <2> QED
      BY <2>1, <2>2 DEF Closes, CursorsOf, DriverClosed, Cursor
  <1>7. ASSUME NEW x \in CursorNames, NEW d \in ConnIds
        PROVE  Keeps(x, d) \/ Loses(x, d) \/ Gains(x, d)
    <2>1. CASE x \notin Closes(c)
      <3>1. CursorStays(x)
        BY <1>1, <1>5, <1>6, <2>1 DEF CursorStays
      <3>2. Kept(my[d], my'[d], x)
        BY <1>1, <1>2, <2>1 DEF SweptOf, Kept
      <3> QED
        BY <3>1, <3>2, StaysKept
    <2>2. CASE x \in Closes(c) /\ d = c
      <3>1. Shed(my[c], my'[c], x)
        BY <1>1, <1>2, <2>2 DEF SweptOf, Shed
      <3> QED
        BY <1>1, <1>6, <2>2, <3>1 DEF Loses
    <2>3. CASE x \in Closes(c) /\ d # c
      BY <1>2, <1>6, <2>3, ElsewhereKept
    <2> QED
      BY <2>1, <2>2, <2>3
  <1>8. \A x \in cursors' : cursor'[x].conn <= next_conn_id'
    BY <1>1, <1>6 DEF MyInv, MyCursors, CurTypeOK
  <1> QED
    BY <1>2, <1>5, <1>7, <1>8, CallStep

LEMMA MyExecGood ==
    ASSUME MyInv, NEW n \in Names \cup {NoName}, NEW s \in Statements, MyExec(n, s)
    PROVE  GoodStep
  <1>1. PICK c : c = get(n)
    OBVIOUS
  <1>2. /\ GIXSQLExec(n, QueryKind(s)) /\ UNCHANGED source /\ Other(NoStmt)
        /\ c = NoConn => UNCHANGED my
    BY <1>1 DEF MyExec
  <1>3. 0 \in 0..MaxVars /\ s \in AllStatements /\ QueryKind(s) \in {"tx_end", "other"}
    BY RuntimeAssumption, MysqlAssumption DEF QueryKind
  <1>4. AnyCall
    BY <1>2, <1>3 DEF AnyCall, Queries
  <1>5. CASE c = NoConn
    <2>1. UNCHANGED <<connVars, curVars>>
      BY <1>1, <1>2, <1>5
         DEF GIXSQLExec, StatementRejected, StateUnchanged, Run, StatementAccepted
    <2> QED
      BY <1>2, <1>4, <1>5, <2>1, UntouchedStep
  <1>6. CASE c # NoConn
    <2>1. PICK p \in Swept(c, s) : \E r \in exec(p, s) : Becomes(c, r.p)
      BY <1>1, <1>6 DEF MyExec
    <2>2. PICK r \in exec(p, s) : Becomes(c, r.p)
      BY <2>1
    <2>3. c \in ConnIds
      BY <1>1, <1>6, FoundDriver
    <2>4. SweptOf(Fresh(c), IF QueryKind(s) = "tx_end" THEN Closes(c) ELSE {}, p)
      BY <2>1, <2>3, SweptIs
    <2>5. DriverOk(p)
      BY <2>4 DEF SweptOf
    <2>6. Steady(p, r.p)
      BY <1>3, <2>2, <2>5, ExecOk
    <2>7. PICK q : q = r.p
      OBVIOUS
    <2>8. CASE QueryKind(s) = "tx_end"
      <3>1. cursor' = closeConnectionCursors(c) /\ UNCHANGED <<connVars, cursors>>
        BY <1>1, <1>2, <1>6, <2>8
           DEF GIXSQLExec, StatementRejected, Run, CursorsAtExec, is_commit_or_rollback_statement
      <3>2. SweptOf(Fresh(c), Closes(c), q)
        <4>1. DriverOk(q) /\ \A x \in CursorNames : Kept(p, q, x)
          BY <2>6, <2>7 DEF Steady
        <4>2. \A x \in CursorNames : HasStatement(q, x) <=> HasStatement(p, x)
          BY <2>5, <4>1, HasStatementIs DEF Kept
        <4> QED
          BY <2>4, <2>8, <4>1, <4>2 DEF SweptOf, Shed, Kept
      <3> QED
        BY <1>2, <1>4, <2>2, <2>3, <2>7, <3>1, <3>2, TransactionEndStep
    <2>9. CASE QueryKind(s) = "other"
      <3>1. Steady(Fresh(c), p)
        BY <2>4, <2>9 DEF SweptOf, Steady
      <3>2. Steady(Fresh(c), q)
        BY <2>6, <2>7, <3>1, SteadyTrans
      <3>3. OrdinaryStatement(n, 0)
        BY <1>2, <2>9 DEF OrdinaryStatement
      <3> QED
        BY <1>1, <1>2, <1>3, <1>6, <2>2, <2>7, <3>2, <3>3, OrdinaryStep
    <2> QED
      BY <1>3, <2>8, <2>9
  <1> QED
    BY <1>5, <1>6

---------------------------------------------------------------------------
(* Connections.                                                            *)

\* A driver that goes away takes no cursor with it that the runtime still has.
LEMMA TerminatedStep ==
    ASSUME MyInv, AnyCall, NEW c \in ConnIds, clearConnectionCursors(c),
           UNCHANGED next_conn_id, Becomes(c, NullDriver), UNCHANGED source, Other(NoStmt)
    PROVE  GoodStep
  <1>1. CurTypeOK /\ NoStmt \in CursorNames \cup {NoStmt}
    BY DEF MyInv, StateInv
  <1>2. /\ my' \in [ConnIds -> Driver] /\ my'[c] = NullDriver /\ MyDrivers'
        /\ \A d \in ConnIds \ {c} : my'[d] = my[d]
    BY NullDriverOk, BecomesIs
  <1>3. source' \in [CursorNames -> StmtNames \cup {NoStmt}]
    BY DEF MyInv, MyTypeOK
  <1>4. /\ MyTypeOK' /\ answer' = NoAnswer /\ HitTruth
        /\ \A x \in cursors' : cursor'[x].drv = "open" => reached'[x] = reached[x]
    BY <1>1, <1>2, <1>3, OtherTypes
  <1>5. \A x \in CursorNames :
           /\ x \in CursorsOf(c) => x \notin cursors' /\ x \in cursors /\ cursor[x].conn = c
           /\ x \notin CursorsOf(c) => /\ cursor'[x] = cursor[x]
                                       /\ x \in cursors' <=> x \in cursors
    BY <1>1 DEF clearConnectionCursors, CursorsOf
  <1>6. ASSUME NEW x \in CursorNames, NEW d \in ConnIds
        PROVE  Keeps(x, d) \/ Loses(x, d) \/ Gains(x, d)
    <2>1. CASE x \notin CursorsOf(c)
      <3>1. CursorStays(x)
        BY <1>4, <1>5, <2>1 DEF CursorStays
      <3>2. CASE d # c
        <4>1. Kept(my[d], my'[d], x)
          BY <1>2, <3>2 DEF Kept
        <4> QED
          BY <3>1, <4>1, StaysKept
      <3>3. CASE d = c
        <4>1. my[c].priv[x] = NoStmt
          BY <2>1 DEF MyInv, MyCursors, CursorsOf
        <4>2. Kept(my[d], my'[d], x)
          BY <1>2, <3>3, <4>1, CursorHeld, NullDriverOk DEF Kept
        <4> QED
          BY <3>1, <4>2, StaysKept
      <3> QED
        BY <3>2, <3>3
    <2>2. CASE x \in CursorsOf(c) /\ d = c
      <3>1. Shed(my[c], my'[c], x) /\ my'[c].priv[x] = NoStmt
        BY <1>2, NullDriverOk DEF Shed, HasStatement
      <3> QED
        BY <1>5, <2>2, <3>1 DEF Loses
    <2>3. CASE x \in CursorsOf(c) /\ d # c
      BY <1>2, <1>5, <2>3, ElsewhereKept
    <2> QED
      BY <2>1, <2>2, <2>3
  <1>7. \A x \in cursors' : cursor'[x].conn <= next_conn_id'
    <2> SUFFICES ASSUME NEW x \in cursors' PROVE cursor'[x].conn <= next_conn_id'
      OBVIOUS
    <2>1. x \in CursorNames /\ x \in cursors
      BY <1>1 DEF clearConnectionCursors, CurTypeOK
    <2> QED
      BY <1>5, <2>1 DEF MyInv, MyCursors
  <1> QED
    BY <1>2, <1>4, <1>6, <1>7, CallStep

\* reset() on a connection that was found.
LEMMA ResetGood ==
    ASSUME MyInv, AnyCall, NEW c \in ConnIds, NEW call,
           ResetFails(call, c) \/ ResetOk(call, c),
           Terminated(c), UNCHANGED source, Other(NoStmt)
    PROVE  GoodStep
  <1>1. c # NoConn
    BY DEF NoConn, ConnIds
  <1>2. Becomes(c, NullDriver)
    BY <1>1 DEF Terminated
  <1>3. clearConnectionCursors(c) /\ UNCHANGED next_conn_id
    BY DEF ResetFails, ResetOk, registry
  <1> QED
    BY <1>2, <1>3, TerminatedStep

LEMMA MyConnectResetGood ==
    ASSUME MyInv, NEW n \in Names \cup {NoName}, MyConnectReset(n)
    PROVE  GoodStep
  <1>1. PICK c : c = get(n)
    OBVIOUS
  <1>2. AnyCall /\ UNCHANGED source /\ Other(NoStmt) /\ Terminated(c)
    BY <1>1 DEF MyConnectReset, AnyCall
  <1>3. CASE c = NoConn
    <2>1. UNCHANGED <<my, source>> /\ UNCHANGED <<connVars, curVars>>
      BY <1>1, <1>2, <1>3
         DEF MyConnectReset, GIXSQLConnectReset, ResetNotFound, Terminated
    <2> QED
      BY <1>2, <2>1, UntouchedStep
  <1>4. CASE c # NoConn
    <2>1. c \in ConnIds
      BY <1>1, <1>4, FoundDriver
    <2>2. ResetFails("reset", c) \/ ResetOk("reset", c)
      BY <1>1, <1>4 DEF MyConnectReset, GIXSQLConnectReset
    <2> QED
      BY <1>2, <2>1, <2>2, ResetGood
  <1> QED
    BY <1>3, <1>4

LEMMA MyResetAllGood ==
    ASSUME MyInv, MyResetAll
    PROVE  GoodStep
  <1>1. UNCHANGED source /\ Other(NoStmt) /\ StateInv
    BY DEF MyResetAll, MyInv
  <1>2. CASE (ResetAllBegin \/ ResetAllEnd) /\ UNCHANGED my
    <2>1. AnyCall /\ UNCHANGED <<connVars, curVars>>
      BY <1>2 DEF ResetAllBegin, ResetAllEnd, AnyCall
    <2> QED
      BY <1>1, <1>2, <2>1, UntouchedStep
  <1>3. CASE ResetAllStep /\ Terminated(ret'.conn)
    <2>1. AnyCall
      BY <1>3 DEF AnyCall
    <2>2. PICK d, t :
             /\ d \in pending
             /\ t = get(conn[d].name)
             /\ \/ t = NoConn /\ ResetNotFound("resetall")
                \/ t # NoConn /\ ResetFails("resetall", t)
                \/ t # NoConn /\ ResetOk("resetall", t)
      BY <1>3 DEF ResetAllStep
    <2>3. conn[d].name \in Names
      BY <1>1, <2>2 DEF StateInv, ConnectionsNamed
    <2>4. CASE t = NoConn /\ ResetNotFound("resetall")
      <3>1. ret'.conn = NoConn
        BY <2>4, ReturnIs DEF ResetNotFound, Fail
      <3>2. UNCHANGED <<my, source>> /\ UNCHANGED <<connVars, curVars>>
        BY <1>1, <1>3, <2>4, <3>1 DEF ResetNotFound, Terminated
      <3> QED
        BY <1>1, <2>1, <3>2, UntouchedStep
    <2>5. CASE t # NoConn /\ (ResetFails("resetall", t) \/ ResetOk("resetall", t))
      <3>1. ret'.conn = t
        BY <2>5, ReturnIs DEF ResetFails, DriverFail, ResetOk, Succeed
      <3>2. Terminated(t)
        BY <1>3, <3>1
      <3>3. t \in ConnIds
        BY <2>2, <2>3, <2>5, FoundDriver
      <3> QED
        BY <1>1, <2>1, <2>5, <3>2, <3>3, ResetGood
    <2> QED
      BY <2>2, <2>4, <2>5
  <1> QED
    BY <1>2, <1>3 DEF MyResetAll

\* No cursor is bound to a connection whose driver is replaced.
LEMMA MyConnectOkGood ==
    ASSUME MyInv, NEW n \in Names \cup {NoName}, MyConnect(n), ConnectOk(n)
    PROVE  GoodStep
  <1>1. PICK id, old : id = next_conn_id + 1 /\ old = Replaced(n)
    OBVIOUS
  <1>2. /\ StateInv /\ CurTypeOK /\ ConnTypeOK /\ NoConn \notin ConnIds
        /\ my \in [ConnIds -> Driver] /\ MyDrivers /\ MyCursors
    BY DEF MyInv, MyTypeOK, StateInv, NoConn, ConnIds
  <1>3. AnyCall /\ UNCHANGED source /\ Other(NoStmt)
    BY DEF MyConnect, AnyCall
  <1>4. /\ id \in ConnIds /\ next_conn_id \in Nat
        /\ next_conn_id' = id /\ id # next_conn_id
        /\ UNCHANGED curVars
    BY <1>1, <1>2, NamesAssumption DEF ConnectOk, add, ConnTypeOK, ConnIds
  <1>5. PICK off \in OffModes, rows \in SUBSET Keys :
              my' = [c \in ConnIds |->
                        IF c = id THEN connect(off, rows)
                        ELSE IF conn'[c].session = conn[c].session THEN my[c]
                        ELSE NullDriver]
    BY <1>4 DEF MyConnect
  <1>6. PICK b : b = connect(off, rows)
    OBVIOUS
  <1>7. /\ DriverOk(b) /\ b \in Driver
        /\ \A x \in CursorNames : b.priv[x] = NoStmt /\ b.stmt[x] = NoStatement
    BY <1>6, ConnectedOk, MysqlCompositionAssumption
  <1>8. PICK s \in SessionsAfterReplacing(old) :
              conn' = [i \in ConnIds |->
                          IF i = id THEN [name |-> NameFor(n, id), dbi |-> TRUE,
                                          pinned |-> FALSE, session |-> "live"]
                          ELSE IF i = old THEN [conn[i] EXCEPT !.session = s]
                          ELSE conn[i]]
    BY <1>1 DEF ConnectOk
  <1>9. \A c \in ConnIds : conn[c] \in Connection
    BY <1>2 DEF ConnTypeOK
  <1>10. \A c \in ConnIds : c # id /\ conn'[c].session # conn[c].session =>
                              c = old /\ CursorsOf(old) = {}
    <2>1. \A c \in ConnIds : c # id /\ conn'[c].session # conn[c].session =>
                                c = old /\ s # conn[c].session
      BY <1>8, <1>9 DEF Connection
    <2> QED
      BY <1>2, <1>8, <2>1 DEF SessionsAfterReplacing, Destroyed
  <1>11. /\ my' \in [ConnIds -> Driver]
         /\ \A c \in ConnIds :
              \/ my'[c] = my[c]
              \/ my'[c] = NullDriver /\ CursorsOf(c) = {}
              \/ c = id /\ my'[c] = b
    BY <1>2, <1>5, <1>6, <1>7, <1>10, NullDriverOk
  <1>12. \A x \in cursors : cursor[x].conn # id /\ cursor[x].conn <= id
    <2> SUFFICES ASSUME NEW x \in cursors PROVE cursor[x].conn # id /\ cursor[x].conn <= id
      OBVIOUS
    <2>1. cursor[x].conn <= next_conn_id
      BY <1>2 DEF MyCursors
    <2>2. cursor[x].conn \in Int
      BY <1>2, NamesAssumption DEF CurTypeOK, Cursor, ConnIds, NoConn
    <2> QED
      BY <1>1, <1>4, <2>1, <2>2
  <1>13. ASSUME NEW c \in ConnIds PROVE Steady(my[c], my'[c])
    <2>1. CASE my'[c] = my[c]
      BY <1>2, <2>1, SteadyRefl DEF MyDrivers
    <2>2. CASE CursorsOf(c) = {} /\ DriverOk(my'[c])
                 /\ \A x \in CursorNames : /\ my'[c].priv[x] = NoStmt
                                           /\ my'[c].stmt[x] = NoStatement
      <3>1. ASSUME NEW x \in CursorNames PROVE Kept(my[c], my'[c], x)
        <4>1. my[c].priv[x] = NoStmt
          BY <1>2, <2>2 DEF MyCursors, CursorsOf
        <4>2. my[c].stmt[x] = NoStatement
          BY <4>1, CursorHeld
        <4> QED
          BY <2>2, <4>1, <4>2 DEF Kept
      <3> QED
        BY <2>2, <3>1 DEF Steady
    <2>3. c = id => CursorsOf(c) = {}
      BY <1>12 DEF CursorsOf
    <2> QED
      BY <1>7, <1>11, <2>1, <2>2, <2>3, NullDriverOk
  <1>14. NoStmt \in CursorNames \cup {NoStmt} /\ \A x \in cursors : cursor[x].conn <= next_conn_id'
    BY <1>4, <1>12
  <1> QED
    BY <1>3, <1>4, <1>11, <1>13, <1>14, SteadyCursorsStep

LEMMA MyConnectGood ==
    ASSUME MyInv, NEW n \in Names \cup {NoName}, MyConnect(n)
    PROVE  GoodStep
  <1>1. CASE ConnectOk(n)
    BY <1>1, MyConnectOkGood
  <1>2. CASE ConnectDuplicate(n) \/ ConnectFails(n) \/ ConnectNoLibrary(n)
    <2>1. AnyCall /\ UNCHANGED source /\ Other(NoStmt)
      BY DEF MyConnect, AnyCall
    <2>2. UNCHANGED <<connVars, curVars>>
      BY <1>2 DEF ConnectDuplicate, ConnectFails, ConnectNoLibrary, StateUnchanged
    <2>3. UNCHANGED my
      BY <2>2 DEF MyConnect, connVars, registry
    <2> QED
      BY <2>1, <2>2, <2>3, UntouchedStep
  <1> QED
    BY <1>1, <1>2 DEF MyConnect, GIXSQLConnect

---------------------------------------------------------------------------
(* Calls that work on one cursor.                                          *)

\* The other cursors stay as they are; x is bound to c and to nothing else.
LEMMA OneCursorStep ==
    ASSUME MyInv, AnyCall, MyTypeOK', answer' = NoAnswer, HitTruth, UNCHANGED next_conn_id,
           NEW x \in CursorNames, NEW c \in ConnIds, c <= next_conn_id,
           \A y \in CursorNames \ {x} : CursorStays(y), x \in cursors, x \in cursors',
           cursor[x].conn \in {c, NoConn}, cursor'[x].conn = c,
           NEW q, Becomes(c, q), OnlyCursor(my[c], q, x),
           Keeps(x, c) \/ Loses(x, c) \/ Gains(x, c)
    PROVE  GoodStep
  <1>1. /\ my'[c] = q /\ MyDrivers'
        /\ \A d \in ConnIds \ {c} : my'[d] = my[d]
    BY BecomesIs DEF OnlyCursor
  <1>2. NoConn \notin ConnIds /\ CurTypeOK
    BY DEF NoConn, ConnIds, MyInv, StateInv
  <1>3. ASSUME NEW y \in CursorNames, NEW d \in ConnIds
        PROVE  Keeps(y, d) \/ Loses(y, d) \/ Gains(y, d)
    <2>1. CASE y # x
      <3>1. Kept(my[d], my'[d], y)
        BY <1>1, <2>1 DEF OnlyCursor, Kept
      <3> QED
        BY <2>1, <3>1, StaysKept
    <2>2. CASE y = x /\ d # c
      BY <1>1, <1>2, <2>2, ElsewhereKept
    <2> QED
      BY <2>1, <2>2
  <1>4. \A y \in cursors' : cursor'[y].conn <= next_conn_id'
    <2> SUFFICES ASSUME NEW y \in cursors', y # x PROVE cursor'[y].conn <= next_conn_id'
      OBVIOUS
    <2>1. y \in CursorNames
      BY AnyCallStateInv DEF MyInv, StateInv, CurTypeOK
    <2>2. y \in cursors /\ cursor'[y] = cursor[y]
      BY <2>1 DEF CursorStays
    <2> QED
      BY <2>2 DEF MyInv, MyCursors
  <1> QED
    BY <1>1, <1>3, <1>4, CallStep

\* A call on a cursor that comes to nothing.
LEMMA SilentStep ==
    ASSUME MyInv, AnyCall, UNCHANGED <<connVars, curVars>>, UNCHANGED <<my, source, reached>>,
           sent' = NoStmt, answer' = NoAnswer
    PROVE  GoodStep
  <1>1. cursors' = cursors /\ cursor' = cursor /\ next_conn_id' = next_conn_id
    BY DEF connVars, registry, curVars
  <1>2. MyTypeOK'
    <2>1. 0 \in 0..MaxKey
      BY MysqlAssumption
    <2> QED
      BY <2>1 DEF MyInv, MyTypeOK, NoAnswer
  <1>3. HitTruth
    BY HandleNames DEF HitTruth
  <1>4. MyDrivers'
    BY DEF MyInv, MyDrivers
  <1>5. \A x \in CursorNames : CursorStays(x)
    BY <1>1 DEF CursorStays
  <1>6. \A x \in CursorNames, c \in ConnIds : Keeps(x, c)
    BY <1>5, StaysKept DEF Kept
  <1>7. \A x \in cursors' : cursor'[x].conn <= next_conn_id'
    BY <1>1 DEF MyInv, MyCursors
  <1> QED
    BY <1>2, <1>3, <1>4, <1>6, <1>7, CallStep

LEMMA CursorCallIsCall ==
    ASSUME NEW x \in CursorNames, NEW hv \in Names \cup {NoName},
           GIXSQLCursorOpen(x, hv) \/ GIXSQLCursorFetchOne(x) \/ GIXSQLCursorClose(x)
    PROVE  AnyCall
  BY DEF AnyCall

\* Cursor x after cursor_close() in the runtime.
LEMMA ReclosedIs ==
    ASSUME CurTypeOK, NEW x \in CursorNames, NEW c
    PROVE  /\ Reclosed(x, c).conn = c
           /\ Reclosed(x, c).drv # "open"
           /\ cursor[x].conn # NoConn /\ cursor[x].drv # "open" =>
                 Reclosed(x, c).drv = cursor[x].drv
  <1>1. cursor[x] \in Cursor
    BY DEF CurTypeOK
  <1>2. PICK b : b = Bound(x, c)
    OBVIOUS
  <1>3. /\ b.conn = c
        /\ b.drv = IF cursor[x].conn = NoConn THEN "declared" ELSE cursor[x].drv
        /\ DOMAIN b = DOMAIN cursor[x]
    BY <1>1, <1>2 DEF Bound, Cursor
  <1>4. DOMAIN cursor[x] = {"conn", "at", "ref", "hold", "open", "drv"}
    BY <1>1 DEF Cursor
  <1>5. PICK a : a = DriverClosed(b)
    OBVIOUS
  <1>6. /\ a.conn = b.conn
        /\ a.drv = IF b.drv = "open" THEN "declared" ELSE b.drv
        /\ DOMAIN a = DOMAIN b
    BY <1>3, <1>4, <1>5 DEF DriverClosed
  <1>7. Reclosed(x, c) = [a EXCEPT !.open = FALSE]
    BY <1>2, <1>5 DEF Reclosed
  <1>8. Reclosed(x, c).conn = a.conn /\ Reclosed(x, c).drv = a.drv
    BY <1>3, <1>4, <1>6, <1>7
  <1> QED
    BY <1>3, <1>6, <1>8

LEMMA MyCloseGood ==
    ASSUME MyInv, NEW x \in CursorNames, MyClose(x)
    PROVE  GoodStep
  <1>1. PICK c : c = cursor[x].conn
    OBVIOUS
  <1>2. AnyCall /\ UNCHANGED source /\ Other(NoStmt)
    BY CursorCallIsCall DEF MyClose
  <1>3. StateInv /\ CurTypeOK /\ NoStmt \in CursorNames \cup {NoStmt}
    BY DEF MyInv, StateInv
  <1>4. CASE ~(x \in cursors /\ cursor[x].open)
    <2>1. UNCHANGED my /\ UNCHANGED <<connVars, curVars>>
      BY <1>4 DEF MyClose, GIXSQLCursorClose, NoSuchCursor, StateUnchanged
    <2> QED
      BY <1>2, <2>1, UntouchedStep
  <1>5. CASE x \in cursors /\ cursor[x].open
    <2>1. c \in ConnIds /\ c <= next_conn_id
      BY <1>1, <1>3, <1>5 DEF StateInv, CurTypeOK, Cursor, NoNullInterface, MyInv, MyCursors
    <2>2. PICK r \in cursor_close(Fresh(c), x, source[x]) : Becomes(c, r.p)
      BY <1>1, <1>5 DEF MyClose
    <2>3. /\ cursor' = [cursor EXCEPT ![x] = Reclosed(x, c)]
          /\ cursors' = cursors /\ next_conn_id' = next_conn_id
      BY <1>1, <1>5 DEF MyClose, GIXSQLCursorClose, NoSuchCursor, connVars, registry
    <2>4. cursor'[x] = Reclosed(x, c) /\ \A y \in CursorNames \ {x} : cursor'[y] = cursor[y]
      BY <1>3, <2>3 DEF CurTypeOK
    <2>5. cursor'[x].conn = c /\ cursor'[x].drv # "open"
      BY <1>3, <2>4, ReclosedIs
    <2>6. /\ DriverOk(Fresh(c)) /\ Fresh(c).stmt = my[c].stmt /\ Fresh(c).priv = my[c].priv
          /\ Steady(my[c], Fresh(c))
      BY <2>1, FreshIs
    <2>7. Held(Fresh(c), x, source[x]) /\ source[x] \in StmtNames \cup {NoStmt}
      BY <2>1, <2>6, CursorHeld DEF Held
    <2>8. OnlyCursor(Fresh(c), r.p, x) /\ Shed(Fresh(c), r.p, x) /\ DriverOk(r.p)
      BY <2>2, <2>6, <2>7, CursorCloseOk
    <2>9. PICK q : q = r.p
      OBVIOUS
    <2>10. OnlyCursor(my[c], q, x) /\ Shed(my[c], q, x)
      BY <2>6, <2>8, <2>9, SteadyOnly, OnlyTrans DEF Shed
    <2>11. /\ my' \in [ConnIds -> Driver] /\ my'[c] = q
      BY <2>1, <2>2, <2>8, <2>9, BecomesIs
    <2>12. source' \in [CursorNames -> StmtNames \cup {NoStmt}]
      BY <1>2 DEF MyInv, MyTypeOK
    <2>13. /\ MyTypeOK' /\ answer' = NoAnswer /\ HitTruth
           /\ \A y \in cursors' : cursor'[y].drv = "open" => reached'[y] = reached[y]
      BY <1>2, <1>3, <2>11, <2>12, OtherTypes
    <2>14. \A y \in CursorNames \ {x} : CursorStays(y)
      BY <1>2, <2>3, <2>4, <2>13 DEF CursorStays
    <2>15. Loses(x, c)
      BY <1>2, <1>5, <2>3, <2>5, <2>10, <2>11 DEF Loses
    <2>16. x \in cursors /\ x \in cursors' /\ cursor[x].conn \in {c, NoConn} /\ Becomes(c, q)
      BY <1>1, <1>5, <2>2, <2>3, <2>9
    <2> QED
      BY <1>2, <2>1, <2>3, <2>5, <2>10, <2>13, <2>14, <2>15, <2>16, OneCursorStep
  <1> QED
    BY <1>4, <1>5

LEMMA MyDeclareGood ==
    ASSUME MyInv, NEW x \in CursorNames, NEW n \in Names \cup {NoName}, NEW host \in BOOLEAN,
           NEW hold \in BOOLEAN, NEW s \in StmtNames \cup {NoStmt}, MyDeclare(x, n, host, hold, s)
    PROVE  GoodStep
  <1>1. PICK c : c = get(n)
    OBVIOUS
  <1>2. 0 \in 0..MaxVars /\ "other" \in Queries /\ NoStmt \in CursorNames \cup {NoStmt}
    BY RuntimeAssumption DEF Queries
  <1>3. AnyCall /\ Other(NoStmt)
    BY <1>2 DEF MyDeclare, AnyCall
  <1>4. StateInv /\ CurTypeOK /\ ConnTypeOK /\ c \in ConnIds \cup {NoConn}
    BY <1>1, GetType DEF MyInv, StateInv
  <1>5. CASE x \in cursors
    <2>1. UNCHANGED <<my, source>> /\ UNCHANGED <<connVars, curVars>>
      BY <1>5 DEF MyDeclare, GIXSQLCursorDeclare, Declare, DeclareRejected, connVars
    <2> QED
      BY <1>3, <2>1, UntouchedStep
  <1>6. CASE x \notin cursors
    <2>1. ret'.rc = "SUCCESS" /\ source' = [source EXCEPT ![x] = s]
      BY <1>6 DEF MyDeclare
    <2>2. /\ cursors' = cursors \cup {x}
          /\ cursor' = [cursor EXCEPT ![x] = NewCursor(c, n, host, hold)]
          /\ next_conn_id' = next_conn_id
      <3>1. ~Fail("cursor", c, DBERR_DECLARE_CURSOR_FAILED)
        BY <2>1, ReturnIs DEF Fail
      <3>2. GIXSQLCursorDeclare(x, n, host, hold, "other")
        BY DEF MyDeclare
      <3> QED
        BY <1>1, <1>6, <3>1, <3>2 DEF GIXSQLCursorDeclare, Declare, registry
    <2>3. /\ cursor'[x].conn = c /\ cursor'[x].drv # "open"
          /\ \A y \in CursorNames \ {x} : cursor'[y] = cursor[y]
      BY <1>4, <2>2 DEF CurTypeOK, NewCursor
    <2>4. /\ source' \in [CursorNames -> StmtNames \cup {NoStmt}]
          /\ \A y \in CursorNames \ {x} : source'[y] = source[y]
      BY <2>1 DEF MyInv, MyTypeOK
    <2>5. my' \in [ConnIds -> Driver] /\ \A d \in ConnIds : Steady(my[d], my'[d])
      <3>1. CASE c = NoConn
        <4>1. UNCHANGED my
          BY <1>1, <3>1 DEF MyDeclare
        <4> QED
          BY <4>1, SteadyRefl DEF MyInv, MyTypeOK, MyDrivers
      <3>2. CASE c # NoConn
        <4>1. PICK q : q = cursor_declare(Fresh(c), x)
          OBVIOUS
        <4>2. Becomes(c, q) /\ c \in ConnIds
          BY <1>1, <1>4, <1>6, <3>2, <4>1 DEF MyDeclare
        <4>3. Steady(my[c], q) /\ DriverOk(q)
          BY <4>1, <4>2, FreshIs, DeclareOk, IdleTrans, IdleOk
        <4>4. /\ my' \in [ConnIds -> Driver] /\ my'[c] = q
              /\ \A d \in ConnIds \ {c} : my'[d] = my[d]
          BY <4>2, <4>3, BecomesIs
        <4> QED
          BY <4>3, <4>4, SteadyRefl DEF MyInv, MyDrivers
      <3> QED
        BY <3>1, <3>2
    <2>6. /\ MyTypeOK' /\ answer' = NoAnswer /\ HitTruth
          /\ \A y \in cursors' : cursor'[y].drv = "open" => reached'[y] = reached[y]
      BY <1>2, <1>3, <2>4, <2>5, OtherTypes
    <2>7. ASSUME NEW y \in CursorNames, NEW d \in ConnIds PROVE Keeps(y, d)
      <3>1. Kept(my[d], my'[d], y)
        BY <2>5 DEF Steady
      <3>2. CASE y = x
        <4>1. my[d].priv[x] = NoStmt
          BY <1>6 DEF MyInv, MyCursors
        <4> QED
          BY <2>3, <3>1, <3>2, <4>1 DEF Keeps
      <3>3. CASE y # x
        <4>1. CursorStays(y)
          BY <2>2, <2>3, <2>4, <2>6, <3>3 DEF CursorStays
        <4> QED
          BY <3>1, <4>1, StaysKept
      <3> QED
        BY <3>2, <3>3
    <2>8. \A y \in cursors' : cursor'[y].conn <= next_conn_id'
      <3>1. c <= next_conn_id
        <4>1. CASE c = NoConn
          BY <1>4, <4>1 DEF ConnTypeOK, NoConn
        <4>2. CASE c # NoConn
          BY <1>1, <1>4, <4>2, FoundDriver DEF StateInv, ConnectionsNamed
        <4> QED
          BY <4>1, <4>2
      <3> QED
        BY <1>4, <2>2, <2>3, <3>1 DEF MyInv, MyCursors, CurTypeOK
    <2>9. MyDrivers'
      BY <2>5 DEF MyDrivers, Steady
    <2> QED
      BY <1>3, <2>6, <2>7, <2>8, <2>9, CallStep
  <1> QED
    BY <1>5, <1>6

\* The driver has done what OPEN asks of it, or failed at one step.
OpenDone(p, x, s, wasOpen, q, ok) ==
    /\ OnlyCursor(p, q, x)
    /\ \/ ok /\ NewlyOpen(q, x, s)
       \/ ~ok /\ wasOpen /\ Shed(p, q, x)
       \/ ~ok /\ ~wasOpen /\ Kept(p, q, x)

LEMMA ShedThenSteady ==
    ASSUME NEW p, NEW o, NEW q, NEW x \in CursorNames, DriverOk(o), Shed(p, o, x), Steady(o, q)
    PROVE  Shed(p, q, x)
  <1>1. DriverOk(q) /\ Kept(o, q, x)
    BY DEF Steady
  <1>2. HasStatement(q, x) <=> HasStatement(o, x)
    BY <1>1, HasStatementIs DEF Kept
  <1> QED
    BY <1>1, <1>2 DEF Shed, Kept

\* cursor_open() after a cursor_close() that went well, or after none.
LEMMA OpenDriver ==
    ASSUME NEW p, DriverOk(p), NEW x \in CursorNames, NEW s \in StmtNames \cup {NoStmt},
           Held(p, x, s), NEW wasOpen \in BOOLEAN, NEW o, OnlyCursor(p, o, x),
           wasOpen => Shed(p, o, x), ~wasOpen => o = p, NEW r \in cursor_open(o, x, s)
    PROVE  /\ r.rc = DBERR_NO_ERROR => OpenDone(p, x, s, wasOpen, r.p, TRUE)
           /\ r.rc # DBERR_NO_ERROR => OpenDone(p, x, s, wasOpen, r.p, FALSE)
  <1>1. DriverOk(o) /\ Held(o, x, s)
    BY DEF OnlyCursor, Held, Shed
  <1>2. /\ OnlyCursor(o, r.p, x) /\ DriverOk(r.p)
        /\ r.rc = DBERR_NO_ERROR => NewlyOpen(r.p, x, s)
        /\ r.rc # DBERR_NO_ERROR => Steady(o, r.p)
    BY <1>1, CursorOpenOk
  <1>3. OnlyCursor(p, r.p, x)
    BY <1>2, OnlyTrans
  <1>4. r.rc # DBERR_NO_ERROR /\ wasOpen => Shed(p, r.p, x)
    BY <1>1, <1>2, ShedThenSteady
  <1>5. r.rc # DBERR_NO_ERROR /\ ~wasOpen => Kept(p, r.p, x)
    BY <1>2 DEF Steady
  <1> QED
    BY <1>2, <1>3, <1>4, <1>5 DEF OpenDone

\* What OPEN leaves of the cursor in the runtime.
LEMMA OpenRuntime ==
    ASSUME MyInv, NEW x \in cursors, NEW hv \in Names \cup {NoName}, GIXSQLCursorOpen(x, hv),
           NEW c, c = OpenConnection(x, hv), c # NoConn, cursor'[x].drv # "undeclared"
    PROVE  /\ cursors' = cursors /\ next_conn_id' = next_conn_id
           /\ \A y \in CursorNames \ {x} : cursor'[y] = cursor[y]
           /\ cursor'[x].conn = c
           /\ ret'.rc = "SUCCESS" => cursor'[x].drv = "open"
           /\ ret'.rc = "FAILED" => cursor'[x] = Reclosed(x, c)
           /\ ret'.rc \in {"SUCCESS", "FAILED"}
  <1>1. /\ CurTypeOK /\ x \in CursorNames /\ cursor[x] \in Cursor
        /\ cursor[x].conn = NoConn => cursor[x].drv = "undeclared"
    BY DEF MyInv, StateInv, CurTypeOK, CursorStateAgreement
  <1>2. /\ cursors' = cursors /\ next_conn_id' = next_conn_id
        /\ OpenDeclareFails(x, c) \/ OpenCloseFails(x, c) \/ OpenFails(x, c) \/ OpenOk(x, c)
    BY DEF GIXSQLCursorOpen, NoSuchCursor, registry
  <1>3. ~OpenDeclareFails(x, c)
    <2> SUFFICES ASSUME OpenDeclareFails(x, c) PROVE FALSE
      OBVIOUS
    <2>1. cursor[x].conn = NoConn /\ cursor' = [cursor EXCEPT ![x].conn = c]
      BY DEF OpenDeclareFails
    <2>2. cursor'[x].drv = cursor[x].drv
      BY <1>1, <2>1 DEF CurTypeOK, Cursor
    <2> QED
      BY <1>1, <2>1, <2>2
  <1>4. CASE OpenCloseFails(x, c) \/ OpenFails(x, c)
    <2>1. cursor' = [cursor EXCEPT ![x] = Reclosed(x, c)]
      BY <1>4 DEF OpenCloseFails, OpenFails
    <2>2. ret'.rc = "FAILED"
      BY <1>4, ReturnIs DEF OpenCloseFails, OpenFails, DriverFail
    <2>3. cursor'[x] = Reclosed(x, c) /\ \A y \in CursorNames \ {x} : cursor'[y] = cursor[y]
      BY <1>1, <2>1 DEF CurTypeOK
    <2> QED
      BY <1>1, <1>2, <2>2, <2>3, ReclosedIs
  <1>5. CASE OpenOk(x, c)
    <2>1. PICK b : b = [Bound(x, c) EXCEPT !.open = TRUE, !.drv = "open"]
      OBVIOUS
    <2>2. cursor' = [cursor EXCEPT ![x] = b]
      BY <1>5, <2>1 DEF OpenOk
    <2>3. b.conn = c /\ b.drv = "open"
      BY <1>1, <2>1 DEF Bound, Cursor
    <2>4. ret'.rc = "SUCCESS"
      BY <1>5, ReturnIs DEF OpenOk, Succeed
    <2>5. cursor'[x] = b /\ \A y \in CursorNames \ {x} : cursor'[y] = cursor[y]
      BY <1>1, <2>2 DEF CurTypeOK
    <2> QED
      BY <1>2, <2>3, <2>4, <2>5
  <1> QED
    BY <1>2, <1>3, <1>4, <1>5

LEMMA MyOpenGood ==
    ASSUME MyInv, NEW x \in CursorNames, NEW hv \in Names \cup {NoName}, MyOpen(x, hv)
    PROVE  GoodStep
  <1>1. PICK c : c = IF x \in cursors THEN OpenConnection(x, hv) ELSE NoConn
    OBVIOUS
  <1>2. /\ GIXSQLCursorOpen(x, hv) /\ UNCHANGED source /\ sent' = NoStmt /\ answer' = NoAnswer
        /\ reached' = IF c = NoConn THEN reached ELSE [reached EXCEPT ![x] = 0]
    BY <1>1 DEF MyOpen
  <1>3. AnyCall
    BY <1>2, CursorCallIsCall
  <1>4. CASE c = NoConn
    <2>1. UNCHANGED my
      BY <1>1, <1>4 DEF MyOpen
    <2>2. UNCHANGED <<connVars, curVars>>
      BY <1>1, <1>2, <1>4 DEF GIXSQLCursorOpen, NoSuchCursor, StateUnchanged
    <2> QED
      BY <1>2, <1>3, <1>4, <2>1, <2>2, SilentStep
  <1>5. CASE c # NoConn
    <2>1. x \in cursors /\ c = OpenConnection(x, hv)
      BY <1>1, <1>5
    <2>2. StateInv /\ CurTypeOK /\ ConnTypeOK /\ cursor[x] \in Cursor
      BY DEF MyInv, StateInv, CurTypeOK
    <2>3. c \in ConnIds /\ c <= next_conn_id /\ cursor[x].conn \in {c, NoConn}
      <3>1. CASE cursor[x].conn # NoConn
        BY <2>1, <2>2, <3>1 DEF OpenConnection, Cursor, MyInv, MyCursors
      <3>2. CASE cursor[x].conn = NoConn
        <4>1. PICK m \in Names \cup {NoName} : c = get(m)
          BY <2>1, <2>2, <3>2 DEF OpenConnection, Cursor
        <4> QED
          BY <1>5, <2>2, <3>2, <4>1, FoundDriver DEF StateInv, ConnectionsNamed
      <3> QED
        BY <3>1, <3>2
    <2>4. PICK p : p = IF cursor[x].conn = NoConn THEN cursor_declare(Fresh(c), x) ELSE Fresh(c)
      OBVIOUS
    <2>5. PICK closings : closings = IF cursor[x].open THEN cursor_close(p, x, source[x])
                                                       ELSE {Returns(p, DBERR_NO_ERROR)}
      OBVIOUS
    <2>6. /\ cursor'[x].drv # "undeclared"
          /\ \E o \in closings :
                IF o.rc # DBERR_NO_ERROR
                THEN Reports(o, DBERR_CLOSE_CURSOR_FAILED) /\ Becomes(c, o.p)
                ELSE \E r \in cursor_open(o.p, x, source[x]) :
                        Reports(r, DBERR_OPEN_CURSOR_FAILED) /\ Becomes(c, r.p)
      BY <1>1, <1>5, <2>4, <2>5 DEF MyOpen
    <2>7. Idle(my[c], p) /\ DriverOk(p) /\ Steady(my[c], p)
      BY <2>3, <2>4, FreshIs, DeclareOk, IdleTrans, IdleOk
    <2>8. Held(p, x, source[x]) /\ source[x] \in StmtNames \cup {NoStmt} /\ p.priv = my[c].priv
          /\ p.stmt = my[c].stmt
      BY <2>3, <2>7, CursorHeld DEF Held, Idle
    <2>9. PICK q, ok : /\ ok \in BOOLEAN /\ Becomes(c, q)
                       /\ OpenDone(p, x, source[x], cursor[x].open, q, ok)
                       /\ ret'.rc = IF ok THEN "SUCCESS" ELSE "FAILED"
      <3>1. PICK o \in closings :
                IF o.rc # DBERR_NO_ERROR
                THEN Reports(o, DBERR_CLOSE_CURSOR_FAILED) /\ Becomes(c, o.p)
                ELSE \E r \in cursor_open(o.p, x, source[x]) :
                        Reports(r, DBERR_OPEN_CURSOR_FAILED) /\ Becomes(c, r.p)
        BY <2>6
      <3>2. /\ OnlyCursor(p, o.p, x) /\ cursor[x].open \in BOOLEAN
            /\ cursor[x].open => Shed(p, o.p, x)
            /\ ~cursor[x].open => o.p = p /\ o.rc = DBERR_NO_ERROR
        <4>1. CASE cursor[x].open
          <5>1. o \in cursor_close(p, x, source[x])
            BY <2>5, <3>1, <4>1
          <5> QED
            BY <2>2, <2>7, <2>8, <4>1, <5>1, CursorCloseOk DEF Cursor
        <4>2. CASE ~cursor[x].open
          <5>1. o = Returns(p, DBERR_NO_ERROR)
            BY <2>5, <3>1, <4>2
          <5> QED
            BY <2>2, <2>7, <4>2, <5>1, ReturnsFields, SteadyRefl, SteadyOnly DEF Cursor
        <4> QED
          BY <4>1, <4>2
      <3>3. CASE o.rc # DBERR_NO_ERROR
        <4>1. Becomes(c, o.p) /\ ret'.rc = "FAILED"
          BY <3>1, <3>3 DEF Reports
        <4>2. OpenDone(p, x, source[x], cursor[x].open, o.p, FALSE)
          BY <3>2, <3>3 DEF OpenDone
        <4> QED
          BY <4>1, <4>2
      <3>4. CASE o.rc = DBERR_NO_ERROR
        <4>1. PICK r \in cursor_open(o.p, x, source[x]) :
                 Reports(r, DBERR_OPEN_CURSOR_FAILED) /\ Becomes(c, r.p)
          BY <3>1, <3>4
        <4>2. PICK d, w, s : d = o.p /\ w = cursor[x].open /\ s = source[x]
          OBVIOUS
        <4>3. /\ DriverOk(p) /\ s \in StmtNames \cup {NoStmt} /\ Held(p, x, s)
              /\ w \in BOOLEAN /\ OnlyCursor(p, d, x)
              /\ w => Shed(p, d, x)
              /\ ~w => d = p
              /\ r \in cursor_open(d, x, s)
          BY <2>7, <2>8, <3>2, <4>1, <4>2
        <4>4. /\ r.rc = DBERR_NO_ERROR => OpenDone(p, x, s, w, r.p, TRUE)
              /\ r.rc # DBERR_NO_ERROR => OpenDone(p, x, s, w, r.p, FALSE)
          BY ONLY <4>3, x \in CursorNames, OpenDriver
        <4>5. CASE r.rc = DBERR_NO_ERROR
          <5>1. ret'.rc = "SUCCESS" /\ OpenDone(p, x, source[x], cursor[x].open, r.p, TRUE)
            BY <4>1, <4>2, <4>4, <4>5 DEF Reports
          <5> QED
            BY <4>1, <5>1
        <4>6. CASE r.rc # DBERR_NO_ERROR
          <5>1. ret'.rc = "FAILED" /\ OpenDone(p, x, source[x], cursor[x].open, r.p, FALSE)
            BY <4>1, <4>2, <4>4, <4>6 DEF Reports
          <5> QED
            BY <4>1, <5>1
        <4> QED
          BY <4>5, <4>6
      <3> QED
        BY <3>3, <3>4
    <2>10. /\ cursors' = cursors /\ next_conn_id' = next_conn_id
           /\ \A y \in CursorNames \ {x} : cursor'[y] = cursor[y]
           /\ cursor'[x].conn = c
           /\ ok => cursor'[x].drv = "open"
           /\ ~ok => cursor'[x] = Reclosed(x, c)
      BY <1>2, <1>5, <2>1, <2>6, <2>9, OpenRuntime
    <2>11. OnlyCursor(my[c], q, x) /\ DriverOk(q)
      BY <2>7, <2>9, SteadyOnly, OnlyTrans DEF OpenDone, OnlyCursor
    <2>12. my' \in [ConnIds -> Driver] /\ my'[c] = q
      BY <2>3, <2>9, <2>11, BecomesIs
    <2>13. /\ reached'[x] = 0 /\ \A y \in CursorNames \ {x} : reached'[y] = reached[y]
           /\ MyTypeOK'
      <3>1. 0 \in 0..MaxKey
        BY MysqlAssumption
      <3> QED
        BY <1>2, <1>5, <2>12, <3>1 DEF MyInv, MyTypeOK, NoAnswer
    <2>14. \A y \in CursorNames \ {x} : CursorStays(y)
      BY <1>2, <2>10, <2>13 DEF CursorStays
    <2>15. HitTruth
      BY <1>2, HandleNames DEF HitTruth
    <2>16. Keeps(x, c) \/ Loses(x, c) \/ Gains(x, c)
      <3>1. CASE ok /\ NewlyOpen(q, x, source[x])
        BY <1>2, <2>1, <2>10, <2>12, <2>13, <3>1 DEF Gains
      <3>2. CASE ~ok /\ Shed(p, q, x)
        <4>1. Shed(my[c], my'[c], x)
          BY <2>8, <2>12, <3>2 DEF Shed
        <4>2. cursor'[x].drv # "open"
          BY <2>2, <2>10, <3>2, ReclosedIs
        <4> QED
          BY <1>2, <2>1, <2>10, <4>1, <4>2 DEF Loses
      <3>3. CASE ~ok /\ ~cursor[x].open /\ Kept(p, q, x)
        <4>1. Kept(my[c], my'[c], x)
          BY <2>8, <2>12, <3>3 DEF Kept
        <4>2. cursor[x].drv # "open"
          BY <2>1, <2>2, <3>3 DEF StateInv, CursorStateAgreement
        <4>3. cursor'[x].drv # "open" /\ (cursor[x].conn # NoConn => cursor'[x].drv = cursor[x].drv)
          BY <2>2, <2>10, <3>3, <4>2, ReclosedIs
        <4>4. my[c].priv[x] # NoStmt => cursor[x].conn # NoConn
          BY <1>5, <2>3 DEF MyInv, MyCursors
        <4> QED
          BY <1>2, <2>1, <2>10, <4>1, <4>2, <4>3, <4>4 DEF Keeps
      <3> QED
        BY <2>9, <3>1, <3>2, <3>3 DEF OpenDone
    <2> QED
      BY <1>2, <1>3, <2>1, <2>3, <2>9, <2>10, <2>11, <2>13, <2>14, <2>15, <2>16, OneCursorStep
  <1> QED
    BY <1>4, <1>5

---------------------------------------------------------------------------
(* FETCH.                                                                  *)

\* A cursor call that opens and closes nothing; one statement may have moved.
FetchKeeps ==
    /\ \A c \in ConnIds :
          /\ DriverOk(my'[c])
          /\ my'[c].priv = my[c].priv
          /\ \A h \in Handles : my'[c].stmt[h] = NoStatement <=> my[c].stmt[h] = NoStatement
    /\ \A x \in CursorNames, c \in ConnIds :
          my'[c].stmt[x] # NoStatement => reached'[x] = my'[c].stmt[x].pos

LEMMA FetchInv ==
    ASSUME MyInv, AnyCall, UNCHANGED <<connVars, curVars, source>>, MyTypeOK', FetchKeeps
    PROVE  StateInv' /\ MyDrivers' /\ MyCursors'
  <1>1. StateInv' /\ StateInv
    BY AnyCallStateInv DEF MyInv
  <1>2. MyDrivers'
    BY DEF MyDrivers, FetchKeeps
  <1>3. /\ cursors' = cursors /\ cursor' = cursor /\ next_conn_id' = next_conn_id
        /\ source' = source
    BY DEF connVars, registry, curVars
  <1>4. ASSUME NEW x \in CursorNames, NEW c \in ConnIds
        PROVE  /\ my'[c].priv[x] = my[c].priv[x]
               /\ HasStatement(my'[c], x) <=> HasStatement(my[c], x)
               /\ my'[c].stmt[x] = NoStatement <=> my[c].stmt[x] = NoStatement
    <2>1. DriverOk(my[c]) /\ DriverOk(my'[c]) /\ x \in Handles
      BY HandleNames DEF MyInv, MyDrivers, FetchKeeps
    <2>2. /\ my'[c].priv[x] = my[c].priv[x]
          /\ my'[c].stmt[x] = NoStatement <=> my[c].stmt[x] = NoStatement
      BY <2>1 DEF FetchKeeps
    <2> QED
      BY <2>1, <2>2, HasStatementIs
  <1>5. \A x \in CursorNames : Handle(x)' = Handle(x)
    BY <1>3 DEF Handle
  <1>6. ASSUME NEW x \in cursors, cursor[x].drv = "open"
        PROVE  HasStatement(my'[cursor[x].conn], x)
    <2>1. x \in CursorNames /\ cursor[x].conn \in ConnIds
      BY <1>1, <1>6 DEF StateInv, CurTypeOK, Cursor, CursorStateAgreement
    <2> QED
      BY <1>4, <1>6, <2>1 DEF MyInv, MyCursors
  <1>7. MyCursors'
    BY <1>3, <1>4, <1>5, <1>6 DEF MyInv, MyCursors, FetchKeeps
  <1> QED
    BY <1>1, <1>2, <1>7

\* The views of a cursor before and after.
LEMMA FetchViews ==
    ASSUME MyInv, AnyCall, UNCHANGED <<connVars, curVars, source>>, MyTypeOK', FetchKeeps,
           NEW y \in CursorNames, NEW c, c = cursor[y].conn
    PROVE  /\ CursorView(y) = IF Opens(my, c, y) THEN View(my[c].stmt[y]) ELSE ClosedView
           /\ CursorView(y)' = IF Opens(my, c, y) THEN View(my'[c].stmt[y]) ELSE ClosedView
  <1>1. CursorView(y) = IF Opens(my, c, y) THEN View(my[c].stmt[y]) ELSE ClosedView
    BY BoundView DEF MyInv
  <1>2. StateInv' /\ MyDrivers' /\ MyCursors' /\ c = cursor'[y].conn
    BY FetchInv DEF curVars
  <1>3. CursorView(y)' = IF Opens(my', c, y) THEN View(my'[c].stmt[y]) ELSE ClosedView
    BY <1>2, BoundViewNext
  <1>4. Opens(my', c, y) <=> Opens(my, c, y)
    BY HandleNames DEF Opens, FetchKeeps
  <1> QED
    BY <1>1, <1>3, <1>4

LEMMA FetchSameView ==
    ASSUME MyInv, AnyCall, UNCHANGED <<connVars, curVars, source>>, MyTypeOK', FetchKeeps,
           NEW y \in CursorNames, \A c \in ConnIds : my'[c].stmt[y] = my[c].stmt[y]
    PROVE  CursorView(y)' = CursorView(y)
  <1>1. PICK c : c = cursor[y].conn
    OBVIOUS
  <1>2. Opens(my, c, y) => my'[c].stmt[y] = my[c].stmt[y]
    BY DEF Opens
  <1> QED
    BY <1>1, <1>2, FetchViews

\* What the abstract specification has to say of a FETCH.
LEMMA FetchGood ==
    ASSUME MyInv, AnyCall, UNCHANGED <<connVars, curVars, source>>, MyTypeOK', FetchKeeps,
           sent' = NoStmt, NorecCode > 0 => FetchTruth, Abstract!Next
    PROVE  GoodStep
  <1>1. StateInv' /\ MyDrivers' /\ MyCursors'
    BY FetchInv
  <1>2. HitTruth
    BY HandleNames DEF HitTruth
  <1>3. cursor' = cursor
    BY DEF curVars
  <1>4. MyAnswer'
    BY <1>3 DEF MyAnswer, FetchTruth
  <1> QED
    BY <1>1, <1>2, <1>4 DEF GoodStep, MyInv

LEMMA SameViews ==
    ASSUME \A y \in CursorNames : CursorView(y)' = CursorView(y)
    PROVE  [y \in CursorNames |-> CursorView(y)]' = [y \in CursorNames |-> CursorView(y)]
  OBVIOUS

\* A FETCH that tells the abstract specification nothing, or that moves nothing.
LEMMA FetchStays ==
    ASSUME UNCHANGED source, \A y \in CursorNames : CursorView(y)' = CursorView(y),
           NEW x \in CursorNames, answer'.x = x,
           \/ source[x] # NoStmt
           \/ answer' = [kind |-> "error", x |-> x, row |-> 0]
    PROVE  Abstract!Next
  <1>1. x # NoStmt
    BY HandleNames
  <1>2. CASE source[x] # NoStmt
    <2>1. Abstract!Call
      BY <1>1, <1>2 DEF Abstract!Call, Abstract!NoAnswer, NoAnswer
    <2> QED
      BY <2>1 DEF Abstract!Next
  <1>3. CASE source[x] = NoStmt
    <2>1. Abstract!FetchError(x)
      BY <1>1, <1>3, SameViews DEF Abstract!FetchError, Abstract!Error
    <2> QED
      BY <2>1 DEF Abstract!Next
  <1> QED
    BY <1>2, <1>3

LEMMA FetchEnds ==
    ASSUME UNCHANGED source, \A y \in CursorNames : CursorView(y)' = CursorView(y),
           NEW x \in CursorNames, source[x] = NoStmt,
           answer' = [kind |-> "nodata", x |-> x, row |-> 0],
           NEW st, CursorView(x) = View(st), Passed(st) = Cardinality(st.rows)
    PROVE  Abstract!Next
  <1>1. x # NoStmt
    BY HandleNames
  <1>2. CursorView(x).open /\ CursorView(x).at = CursorView(x).rows
    BY DEF View
  <1>3. Abstract!FetchNoData(x)
    BY <1>1, <1>2, SameViews DEF Abstract!FetchNoData, Abstract!NoData
  <1> QED
    BY <1>3 DEF Abstract!Next

LEMMA MoveOn ==
    ASSUME NEW o, NEW r, NEW a, NEW b, NEW v, v = [open |-> o, rows |-> r, at |-> a]
    PROVE  [v EXCEPT !.at = b] = [open |-> o, rows |-> r, at |-> b]
  OBVIOUS

LEMMA FetchMoves ==
    ASSUME UNCHANGED source, NEW x \in CursorNames, source[x] = NoStmt,
           \A y \in CursorNames \ {x} : CursorView(y)' = CursorView(y),
           NEW rows \in Nat, NEW at \in Nat, at < rows,
           CursorView(x) = [open |-> TRUE, rows |-> rows, at |-> at],
           CursorView(x)' = [open |-> TRUE, rows |-> rows, at |-> at + 1],
           \/ answer' = [kind |-> "error", x |-> x, row |-> 0]
           \/ answer' = [kind |-> "row", x |-> x, row |-> at + 1]
    PROVE  Abstract!Next
  <1>1. x # NoStmt
    BY HandleNames
  <1>2. /\ CursorView(x).open /\ CursorView(x).at < CursorView(x).rows
        /\ CursorView(x).at = at
    OBVIOUS
  <1>3. CursorView(x)' = [CursorView(x) EXCEPT !.at = @ + 1]
    <2>1. PICK v, n, o : v = CursorView(x) /\ n = at + 1 /\ o = TRUE
      OBVIOUS
    <2>2. v = [open |-> o, rows |-> rows, at |-> at]
      BY <2>1
    <2>3. v.at = at
      BY ONLY <2>2
    <2>4. [v EXCEPT !.at = n] = [open |-> o, rows |-> rows, at |-> n]
      BY ONLY <2>2, MoveOn
    <2>5. CursorView(x)' = [open |-> o, rows |-> rows, at |-> n]
      BY <2>1
    <2> QED
      BY ONLY <2>1, <2>3, <2>4, <2>5
  <1>4. PICK f, g : /\ f = [y \in CursorNames |-> CursorView(y)]
                    /\ g = [y \in CursorNames |-> CursorView(y)]'
    OBVIOUS
  <1>5. g = [f EXCEPT ![x].at = @ + 1]
    BY <1>3, <1>4
  <1>6. f[x] = CursorView(x)
    BY <1>4
  <1>7. Abstract!FetchRow(x)
    BY <1>1, <1>2, <1>4, <1>5, <1>6 DEF Abstract!FetchRow, Abstract!Row, Abstract!Error
  <1> QED
    BY <1>7 DEF Abstract!Next

\* An error code of a FETCH that had a statement is not the one of "no record".
LEMMA NotNorec ==
    ASSUME NorecCode > 0, NEW code \in {0, -ER},
           NEW err \in {DBERR_FETCH_ROW_FAILED, DBERR_FIELD_COUNT_MISMATCH,
                        DBERR_INVALID_COLUMN_DATA, DBERR_NUM_OUT_OF_RANGE}
    PROVE  Status(code, err) # "norec"
  <1>1. code \in Int /\ code # NorecCode /\ NorecCode \in Int
    BY NorecAssumption DEF ER
  <1> QED
    BY <1>1 DEF Status, Outcome, setStatus, is_data_error, DBERR_FETCH_ROW_FAILED,
               DBERR_FIELD_COUNT_MISMATCH, DBERR_INVALID_COLUMN_DATA, DBERR_NUM_OUT_OF_RANGE,
               DBERR_NO_ERROR, DBERR_NO_DATA

LEMMA FetchReportsWhat ==
    ASSUME NEW r, NEW x, FetchReports(r, x)
    PROVE  \/ ret'.rc = "FETCH_ROW_FAILED" /\ r.rc = DBERR_NO_DATA
           \/ ret'.rc = "SUCCESS" /\ r.rc = DBERR_NO_ERROR
           \/ /\ ret'.rc = "FAILED" /\ r.rc # DBERR_NO_DATA
              /\ \E err \in {DBERR_FETCH_ROW_FAILED, DBERR_FIELD_COUNT_MISMATCH,
                             DBERR_INVALID_COLUMN_DATA, DBERR_NUM_OUT_OF_RANGE} :
                    sqlcode' = Status(r.p.last_rc, err)
  BY DEF FetchReports

\* A FETCH of a cursor that is not open for the runtime.
LEMMA FetchClosed ==
    ASSUME MyInv, NEW x \in CursorNames, MyFetch(x), x \notin cursors \/ ~cursor[x].open
    PROVE  GoodStep
  <1>1. /\ AnyCall /\ UNCHANGED <<connVars, curVars, source>> /\ UNCHANGED <<my, reached>>
        /\ answer' = FetchAnswer(x, NullDriver) /\ ret'.rc = "FAILED" /\ sent' = NoStmt
    <2>1. NoName \in Names \cup {NoName} /\ GIXSQLCursorFetchOne(x)
      BY DEF MyFetch
    <2>2. AnyCall
      BY <2>1, CursorCallIsCall
    <2>3. UNCHANGED <<connVars, curVars>> /\ ret'.rc = "FAILED"
      BY <2>1, ReturnIs DEF GIXSQLCursorFetchOne, NoSuchCursor, StateUnchanged, Fail
    <2> QED
      BY <2>2, <2>3 DEF MyFetch
  <1>2. answer' = [kind |-> "error", x |-> x, row |-> 0]
    BY <1>1 DEF FetchAnswer
  <1>3. MyTypeOK'
    <2>1. 0 \in 0..MaxKey
      BY MysqlAssumption
    <2> QED
      BY <1>1, <1>2, <2>1 DEF MyInv, MyTypeOK
  <1>4. FetchKeeps
    BY <1>1 DEF FetchKeeps, MyInv, MyDrivers, MyCursors
  <1>5. \A y \in CursorNames : CursorView(y)' = CursorView(y)
    BY <1>1, <1>3, <1>4, FetchSameView
  <1>6. Abstract!Next
    BY <1>1, <1>2, <1>5, FetchStays
  <1>7. NorecCode > 0 => FetchTruth
    <2>1. CASE x \in cursors
      <3>1. cursor[x].drv # "open"
        BY <2>1 DEF MyInv, StateInv, CursorStateAgreement
      <3> QED
        BY <1>2, <3>1 DEF FetchTruth
    <2>2. CASE x \notin cursors
      <3>1. sqlcode' = Status(NoDbi, DBERR_NO_SUCH_CURSOR)
        BY <2>2 DEF MyFetch, GIXSQLCursorFetchOne, NoSuchCursor, Fail, Return
      <3>2. NorecCode > 0 => Status(NoDbi, DBERR_NO_SUCH_CURSOR) # "norec"
        BY NorecAssumption DEF Status, Outcome, setStatus, is_data_error, NoDbi,
           DBERR_NO_SUCH_CURSOR, DBERR_NO_ERROR, DBERR_NO_DATA, DBERR_NUM_OUT_OF_RANGE
      <3> QED
        BY <3>1, <3>2 DEF FetchTruth
    <2> QED
      BY <2>1, <2>2
  <1> QED
    BY <1>1, <1>3, <1>4, <1>6, <1>7, FetchGood

LEMMA FetchOpen ==
    ASSUME MyInv, NEW x \in CursorNames, MyFetch(x), x \in cursors, cursor[x].open
    PROVE  GoodStep
  <1>1. PICK c : c = cursor[x].conn
    OBVIOUS
  <1>2. PICK r \in cursor_fetch_one(Fresh(c), x) :
           /\ FetchReports(r, x)
           /\ Becomes(c, r.p)
           /\ answer' = FetchAnswer(x, r.p)
           /\ reached' = IF r.rc = DBERR_NO_ERROR
                         THEN [reached EXCEPT ![x] = r.p.stmt[r.p.priv[x]].pos]
                         ELSE reached
    BY <1>1 DEF MyFetch
  <1>3. /\ AnyCall /\ UNCHANGED <<connVars, curVars, source>> /\ sent' = NoStmt
        /\ StateInv /\ CurTypeOK /\ MyTypeOK /\ MyCursors
    <2>1. NoName \in Names \cup {NoName} /\ GIXSQLCursorFetchOne(x)
      BY DEF MyFetch
    <2>2. AnyCall
      BY <2>1, CursorCallIsCall
    <2>3. UNCHANGED <<connVars, curVars>>
      BY <2>1 DEF GIXSQLCursorFetchOne, NoSuchCursor, StateUnchanged
    <2> QED
      BY <2>2, <2>3 DEF MyFetch, MyInv, StateInv
  <1>4. c \in ConnIds
    BY <1>1, <1>3 DEF StateInv, NoNullInterface, CurTypeOK, Cursor
  <1>5. PICK p, q : p = Fresh(c) /\ q = r.p
    OBVIOUS
  <1>6. DriverOk(p) /\ DriverOk(my[c]) /\ p.stmt = my[c].stmt /\ p.priv = my[c].priv
    BY <1>4, <1>5, FreshIs
  <1>7. PICK h : h = my[c].priv[x]
    OBVIOUS
  <1>8. /\ HasStatement(my[c], x) <=> HasStatement(p, x)
        /\ h # NoStmt => h = IF source[x] = NoStmt THEN x ELSE source[x]
        /\ source[x] \in StmtNames \cup {NoStmt}
        /\ HasStatement(p, x) => h \in Handles
    BY <1>3, <1>4, <1>6, <1>7, HasStatementIs DEF HasStatement, MyCursors, Handle, MyTypeOK
  <1>9. /\ answer'.x = x
        /\ ret'.rc = "FAILED" => answer' = [kind |-> "error", x |-> x, row |-> 0]
        /\ ret'.rc = "FETCH_ROW_FAILED" => answer' = [kind |-> "nodata", x |-> x, row |-> 0]
        /\ ret'.rc = "SUCCESS" => answer' = [kind |-> "row", x |-> x,
                                             row |-> Passed(q.stmt[q.priv[x]])]
    BY <1>2, <1>5 DEF FetchAnswer
  <1>10. \/ ret'.rc = "FETCH_ROW_FAILED" /\ r.rc = DBERR_NO_DATA
         \/ ret'.rc = "SUCCESS" /\ r.rc = DBERR_NO_ERROR
         \/ /\ ret'.rc = "FAILED" /\ r.rc # DBERR_NO_DATA
            /\ \E err \in {DBERR_FETCH_ROW_FAILED, DBERR_FIELD_COUNT_MISMATCH,
                           DBERR_INVALID_COLUMN_DATA, DBERR_NUM_OUT_OF_RANGE} :
                  sqlcode' = Status(q.last_rc, err)
    BY <1>2, <1>5, FetchReportsWhat
  <1>11. 0 \in 0..MaxKey
    BY MysqlAssumption
  <1>12. CASE ~HasStatement(p, x)
    <2>1. r = Returns(p, DBERR_FETCH_ROW_FAILED)
      BY <1>2, <1>5, <1>12 DEF cursor_fetch_one
    <2>2. q = p /\ r.rc = DBERR_FETCH_ROW_FAILED
      BY <1>5, <2>1, ReturnsFields
    <2>3. DBERR_FETCH_ROW_FAILED # DBERR_NO_DATA /\ DBERR_FETCH_ROW_FAILED # DBERR_NO_ERROR
      BY DEF DBERR_FETCH_ROW_FAILED, DBERR_NO_DATA, DBERR_NO_ERROR
    <2>4. reached' = reached /\ answer' = [kind |-> "error", x |-> x, row |-> 0]
      BY <1>2, <1>9, <1>10, <2>2, <2>3
    <2>5. /\ my' \in [ConnIds -> Driver] /\ my'[c] = p
          /\ \A d \in ConnIds \ {c} : my'[d] = my[d]
      BY <1>2, <1>4, <1>5, <1>6, <2>2, BecomesIs
    <2>6. MyTypeOK'
      BY <1>3, <1>11, <2>4, <2>5 DEF MyTypeOK
    <2>7. \A d \in ConnIds : my'[d].stmt = my[d].stmt /\ my'[d].priv = my[d].priv
      BY <1>6, <2>5
    <2>8. \A d \in ConnIds : DriverOk(my'[d])
      BY <1>6, <2>5 DEF MyInv, MyDrivers
    <2>9. FetchKeeps
      BY <2>4, <2>7, <2>8 DEF FetchKeeps, MyInv, MyCursors
    <2>10. \A y \in CursorNames : CursorView(y)' = CursorView(y)
      BY <1>3, <2>6, <2>7, <2>9, FetchSameView
    <2>11. Abstract!Next
      BY <1>3, <1>9, <2>4, <2>10, FetchStays
    <2>12. FetchTruth
      <3>1. cursor[x].drv # "open"
        BY <1>1, <1>3, <1>8, <1>12 DEF MyCursors
      <3> QED
        BY <1>9, <3>1 DEF FetchTruth
    <2> QED
      BY <1>3, <2>6, <2>9, <2>11, <2>12, FetchGood
  <1>13. CASE HasStatement(p, x)
    <2>1. FetchDone(p, r, x) /\ (r.rc # DBERR_NO_DATA => q.last_rc \in {0, -ER})
      BY <1>2, <1>5, <1>6, <1>13, FetchOneOk
    <2>2. h \in Handles /\ h # NoStmt /\ h = p.priv[x] /\ p.stmt[h] # NoStatement
      BY <1>6, <1>7, <1>8, <1>13 DEF HasStatement
    <2>3. PICK st, to : st = my[c].stmt[h] /\ to = q.stmt[h]
      OBVIOUS
    <2>4. st \in Stmt /\ p.stmt[h] = st /\ st # NoStatement
      BY <1>6, <2>2, <2>3 DEF DriverOk, Driver
    <2>5. /\ DriverOk(q) /\ q.priv = my[c].priv
          /\ \A k \in Handles \ {h} : q.stmt[k] = my[c].stmt[k]
          /\ \/ r.rc = DBERR_FETCH_ROW_FAILED /\ to = st
             \/ r.rc = DBERR_NO_DATA /\ NextRows(st) = {} /\ to = st
             \/ r.rc = DBERR_NO_ERROR /\ NextRows(st) # {} /\ to = Fetched(st)
      <3>1. /\ DriverOk(q) /\ q.priv = p.priv
            /\ \A k \in Handles \ {h} : q.stmt[k] = p.stmt[k]
        BY <1>5, <2>1, <2>2 DEF FetchDone
      <3>2. \/ r.rc = DBERR_FETCH_ROW_FAILED /\ q.stmt = p.stmt
            \/ r.rc = DBERR_NO_DATA /\ NextRows(p.stmt[h]) = {} /\ q.stmt = p.stmt
            \/ r.rc = DBERR_NO_ERROR /\ NextRows(p.stmt[h]) # {}
               /\ q.stmt[h] = Fetched(p.stmt[h])
        BY <1>5, <2>1, <2>2 DEF FetchDone
      <3>3. q.stmt = p.stmt => to = st
        BY <2>3, <2>4
      <3> QED
        BY <1>6, <2>3, <2>4, <3>1, <3>2, <3>3
    <2>6. /\ to \in Stmt /\ to # NoStatement /\ Passed(to) \in 0..MaxKey
          /\ to.pos \in Keys \cup {0}
          /\ q.priv[x] = h
      <3>1. to \in Stmt
        BY <2>2, <2>3, <2>5 DEF DriverOk, Driver
      <3>2. r.rc = DBERR_NO_ERROR => to # NoStatement
        <4> SUFFICES ASSUME r.rc = DBERR_NO_ERROR PROVE to # NoStatement
          OBVIOUS
        <4>1. NextRows(st) # {} /\ to = Fetched(st)
          BY <2>5 DEF DBERR_FETCH_ROW_FAILED, DBERR_NO_DATA, DBERR_NO_ERROR
        <4> QED
          BY <2>4, <4>1, FetchedIs, NoStatementType
      <3> QED
        BY <1>7, <2>4, <2>5, <3>1, <3>2, PassedIs DEF Stmt
    <2>7. /\ my' \in [ConnIds -> Driver] /\ my'[c] = q
          /\ \A d \in ConnIds \ {c} : my'[d] = my[d]
      BY <1>2, <1>4, <1>5, <2>5, BecomesIs
    <2>8. reached' = IF r.rc = DBERR_NO_ERROR THEN [reached EXCEPT ![x] = to.pos] ELSE reached
      BY <1>2, <1>5, <2>3, <2>6
    <2>9. MyTypeOK'
      <3>1. answer' \in [kind : {"none", "error", "nodata", "row"},
                         x : CursorNames \cup {NoStmt}, row : 0..MaxKey]
        BY <1>9, <1>10, <1>11, <2>3, <2>6
      <3>2. reached' \in [CursorNames -> Keys \cup {0}]
        BY <1>3, <2>6, <2>8 DEF MyTypeOK
      <3> QED
        BY <1>3, <2>7, <3>1, <3>2 DEF MyTypeOK
    <2>10. \A y \in CursorNames \ {h}, d \in ConnIds : my'[d].stmt[y] = my[d].stmt[y]
      BY <2>5, <2>7, HandleNames
    <2>11. FetchKeeps
      <3>1. \A d \in ConnIds :
               /\ DriverOk(my'[d]) /\ my'[d].priv = my[d].priv
               /\ \A k \in Handles : my'[d].stmt[k] = NoStatement <=> my[d].stmt[k] = NoStatement
        BY <2>3, <2>4, <2>5, <2>6, <2>7 DEF MyInv, MyDrivers
      <3>2. ASSUME NEW y \in CursorNames, NEW d \in ConnIds, my'[d].stmt[y] # NoStatement
            PROVE  reached'[y] = my'[d].stmt[y].pos
        <4>1. /\ my[d].stmt[y] # NoStatement /\ reached[y] = my[d].stmt[y].pos
              /\ my[d].priv[y] = y
          BY <1>3, <3>1, <3>2, HandleNames DEF MyCursors, MyInv, MyDrivers, DriverOk
        <4>2. CASE y # x
          <5>1. y # h
            BY <1>8, <2>2, <4>2, HandleNames
          <5> QED
            BY <2>8, <2>10, <4>1, <4>2, <5>1
        <4>3. CASE y = x
          <5>1. d = c /\ h = x
            BY <1>1, <1>3, <1>7, <4>1, <4>3, HandleNames DEF MyCursors
          <5>2. my'[d].stmt[y] = to /\ reached[x] = st.pos
            BY <2>3, <2>7, <4>1, <4>3, <5>1
          <5>3. r.rc = DBERR_NO_ERROR => reached'[x] = to.pos
            BY <1>3, <2>8 DEF MyTypeOK
          <5>4. r.rc # DBERR_NO_ERROR => to = st /\ reached' = reached
            BY <2>5, <2>8
          <5> QED
            BY <4>3, <5>2, <5>3, <5>4
        <4> QED
          BY <4>2, <4>3
      <3> QED
        BY <3>1, <3>2 DEF FetchKeeps
    <2>12. NorecCode > 0 => FetchTruth
      <3> SUFFICES ASSUME NorecCode > 0, answer'.kind = "error"
                   PROVE  sqlcode' # "norec"
        BY DEF FetchTruth
      <3>1. ret'.rc = "FAILED"
        BY <1>9, <1>10
      <3>2. q.last_rc \in {0, -ER}
        BY <1>10, <2>1, <3>1
      <3> QED
        BY <1>10, <3>1, <3>2, NotNorec
    <2>13. Abstract!Next
      <3>1. \A y \in CursorNames \ {h} : CursorView(y)' = CursorView(y)
        BY <1>3, <2>9, <2>10, <2>11, FetchSameView
      <3>2. CASE source[x] # NoStmt
        <4>1. h \notin CursorNames
          BY <1>8, <2>2, <3>2, HandleNames
        <4> QED
          BY <1>3, <1>9, <3>1, <3>2, <4>1, FetchStays
      <3>3. CASE source[x] = NoStmt
        <4>1. h = x
          BY <1>8, <2>2, <3>3
        <4>2. CursorView(x) = View(st) /\ CursorView(x)' = View(to)
          <5>1. Opens(my, c, x) /\ my[c].stmt[x] = st /\ my'[c].stmt[x] = to
            BY <1>4, <2>3, <2>4, <2>7, <4>1 DEF Opens
          <5> QED
            BY <1>1, <1>3, <2>9, <2>11, <5>1, FetchViews
        <4>3. CASE to = st /\ r.rc = DBERR_FETCH_ROW_FAILED
          <5>1. answer' = [kind |-> "error", x |-> x, row |-> 0]
            BY <1>9, <1>10, <4>3 DEF DBERR_FETCH_ROW_FAILED, DBERR_NO_DATA, DBERR_NO_ERROR
          <5>2. \A y \in CursorNames : CursorView(y)' = CursorView(y)
            BY <3>1, <4>1, <4>2, <4>3
          <5> QED
            BY <1>3, <1>9, <5>1, <5>2, FetchStays
        <4>4. CASE to = st /\ r.rc = DBERR_NO_DATA /\ NextRows(st) = {}
          <5>1. answer' = [kind |-> "nodata", x |-> x, row |-> 0]
            BY <1>9, <1>10, <4>4 DEF DBERR_NO_DATA, DBERR_NO_ERROR
          <5>2. \A y \in CursorNames : CursorView(y)' = CursorView(y)
            BY <3>1, <4>1, <4>2, <4>4
          <5>3. Passed(st) = Cardinality(st.rows)
            BY <2>4, <4>4, PassedIs
          <5> QED
            BY <1>3, <3>3, <4>2, <5>1, <5>2, <5>3, FetchEnds
        <4>5. CASE to = Fetched(st) /\ r.rc = DBERR_NO_ERROR /\ NextRows(st) # {}
          <5>1. PICK rows, at : rows = Cardinality(st.rows) /\ at = Passed(st)
            OBVIOUS
          <5>2. /\ rows \in Nat /\ at \in Nat /\ at < rows
                /\ Passed(to) = at + 1 /\ Cardinality(to.rows) = rows
            <6>1. to.rows = st.rows
              BY <2>4, <4>5, FetchedIs
            <6> QED
              BY <2>4, <4>5, <5>1, <6>1, PassedIs
          <5>3. /\ CursorView(x) = [open |-> TRUE, rows |-> rows, at |-> at]
                /\ CursorView(x)' = [open |-> TRUE, rows |-> rows, at |-> at + 1]
            BY <4>2, <5>1, <5>2 DEF View
          <5>4. \/ answer' = [kind |-> "error", x |-> x, row |-> 0]
                \/ answer' = [kind |-> "row", x |-> x, row |-> at + 1]
            <6>1. q.stmt[q.priv[x]] = to
              BY <2>3, <2>6
            <6> QED
              BY <1>9, <1>10, <4>5, <5>2, <6>1 DEF DBERR_NO_DATA, DBERR_NO_ERROR
          <5> QED
            BY <1>3, <3>1, <3>3, <4>1, <5>2, <5>3, <5>4, FetchMoves
        <4> QED
          BY <2>5, <4>3, <4>4, <4>5
      <3> QED
        BY <3>2, <3>3
    <2> QED
      BY <1>3, <2>9, <2>11, <2>12, <2>13, FetchGood
  <1> QED
    BY <1>12, <1>13

LEMMA MyFetchGood ==
    ASSUME MyInv, NEW x \in CursorNames, MyFetch(x)
    PROVE  GoodStep
  BY FetchClosed, FetchOpen

---------------------------------------------------------------------------
(* The theorems.                                                           *)

\* The registries, the drivers and the answers are as they were.
LEMMA SameMyInv ==
    ASSUME MyInv, UNCHANGED <<connVars, curVars, loopVars, sqlcode, my, source, sent, answer,
                              reached>>
    PROVE  MyInv'
  <1>1. StateInv'
    BY UnchangedStateInv DEF MyInv
  <1>2. MyTypeOK'
    BY DEF MyInv, MyTypeOK
  <1>3. MyDrivers'
    BY DEF MyInv, MyDrivers
  <1>4. MyCursors'
    BY DEF MyInv, MyCursors, Handle, curVars, connVars, registry
  <1>5. MyAnswer'
    BY DEF MyInv, MyAnswer, curVars
  <1> QED
    BY <1>1, <1>2, <1>3, <1>4, <1>5 DEF MyInv

LEMMA SameMyViews ==
    ASSUME UNCHANGED <<curVars, my, source, answer>>
    PROVE  UNCHANGED Abstract!vars
  <1>1. \A x \in CursorNames : CursorView(x)' = CursorView(x)
    BY DEF CursorView, curVars
  <1> QED
    BY <1>1 DEF Abstract!vars

\* A step of the process, or its end in the rewriting of a positioned statement.
SafeStep ==
    /\ MyInv'
    /\ HitTruth
    /\ NorecCode > 0 => FetchTruth
    /\ Abstract!Next \/ UNCHANGED Abstract!vars

LEMMA MyPositionedCrashSafe ==
    ASSUME MyInv, NEW n, NEW y \in CursorNames, MyPositionedCrash(n, y)
    PROVE  SafeStep
  <1>1. /\ UNCHANGED <<connVars, curVars, loopVars, sqlcode, my, source, sent, answer, reached>>
        /\ ~alive'
    BY DEF MyPositionedCrash
  <1>2. MyInv' /\ UNCHANGED Abstract!vars
    BY <1>1, SameMyInv, SameMyViews
  <1>3. HitTruth
    BY <1>1 DEF HitTruth
  <1>4. NorecCode > 0 => FetchTruth
    BY <1>1 DEF FetchTruth, MyInv, MyAnswer
  <1> QED
    BY <1>2, <1>3, <1>4 DEF SafeStep

LEMMA MyNextSafe ==
    ASSUME MyInv, MyNext
    PROVE  SafeStep
  <1>1. /\ ConnectNames \subseteq Names /\ AtNames \subseteq Names \cup {NoName}
        /\ HostIds \subseteq BOOLEAN
    BY RuntimeAssumption
  <1>2. ASSUME NEW n \in ConnectNames \cup {NoName}, MyConnect(n)
        PROVE  GoodStep
    BY <1>1, <1>2, MyConnectGood
  <1>3. CASE MyResetAll \/ MyVarLists
    <2>1. GoodStep
      BY <1>3, MyResetAllGood, MyVarListsGood
    <2> QED
      BY <2>1 DEF GoodStep, SafeStep
  <1>4. ASSUME NEW n \in AtNames, MyConnectReset(n)
        PROVE  GoodStep
    BY <1>1, <1>4, MyConnectResetGood
  <1>5. ASSUME NEW n \in AtNames, NEW s \in Statements,
               MyExec(n, s) \/ \E name \in StmtNames : MyPrepare(n, name, s)
        PROVE  GoodStep
    BY <1>1, <1>5, MyExecGood, MyPrepareGood
  <1>6. ASSUME NEW n \in AtNames, NEW nRes \in 0..MaxVars, MySelectInto(n, nRes)
        PROVE  GoodStep
    BY <1>1, <1>6, MySelectIntoGood
  <1>7. ASSUME NEW n \in AtNames, NEW s \in StmtNames,
               \/ MyExecPrepared(n, s)
               \/ \E nRes \in 0..MaxVars : MyExecPreparedInto(n, s, nRes)
        PROVE  GoodStep
    BY <1>1, <1>7, MyExecPreparedGood, MyExecPreparedIntoGood
  <1>8. ASSUME NEW n \in AtNames, NEW y \in CursorNames, NEW op \in {"UPDATE", "DELETE"},
               MyPositioned(n, op, y)
        PROVE  GoodStep
    BY <1>1, <1>8, MyPositionedGood
  <1>9. ASSUME NEW n \in AtNames, NEW y \in CursorNames, NEW host \in HostIds,
               NEW hold \in BOOLEAN, NEW s \in StmtNames \cup {NoStmt},
               MyDeclare(y, n, host, hold, s)
        PROVE  GoodStep
    BY <1>1, <1>9, MyDeclareGood
  <1>10. ASSUME NEW x \in CursorNames,
                (\E hv \in AtNames : MyOpen(x, hv)) \/ MyFetch(x) \/ MyClose(x)
         PROVE  GoodStep
    BY <1>1, <1>10, MyOpenGood, MyFetchGood, MyCloseGood
  <1>11. CASE \E n \in AtNames, y \in CursorNames : MyPositionedCrash(n, y)
    BY <1>11, MyPositionedCrashSafe
  <1>12. CASE /\ ~(MyResetAll \/ MyVarLists)
              /\ ~(\E n \in AtNames, y \in CursorNames : MyPositionedCrash(n, y))
    <2>1. GoodStep
      BY <1>2, <1>4, <1>5, <1>6, <1>7, <1>8, <1>9, <1>10, <1>12 DEF MyNext
    <2> QED
      BY <2>1 DEF GoodStep, SafeStep
  <1> QED
    BY <1>3, <1>11, <1>12

LEMMA UnchangedMyInv ==
    ASSUME MyInv, UNCHANGED myVars
    PROVE  MyInv'
  BY SameMyInv DEF myVars, vars

(***************************************************************************)
(* The registries, the drivers and the statements always fit together: a   *)
(* driver keeps a statement of a cursor's own only while the cursor is     *)
(* open in it, at the row the last FETCH moved to, and no call takes a     *)
(* prepared statement from under a cursor that uses it.                    *)
(***************************************************************************)
THEOREM MyInvariant == MySpec => []MyInv
  <1>1. MyInv /\ [MyNext]_myVars => MyInv'
    BY MyNextSafe, UnchangedMyInv DEF SafeStep
  <1> QED
    BY <1>1, InitMyInv, PTL DEF MySpec

\* The drivers, the sources, the answers and the rows reached keep their types.
THEOREM MyTypeCorrect == MySpec => []MyTypeOK
  <1>1. MyInv => MyTypeOK
    BY DEF MyInv
  <1> QED
    BY <1>1, MyInvariant, PTL

(***************************************************************************)
(* A cursor that the driver has opened has a statement to fetch from, and  *)
(* so has a WITH HOLD cursor that is open for the program: COMMIT,         *)
(* ROLLBACK, a failing OPEN or CLOSE and the other cursors of the same     *)
(* prepared statement do not take it away.                                 *)
(***************************************************************************)
THEOREM StatementsAreThere == MySpec => []OpenCursorsHaveStatements
  <1>1. MyInv => OpenCursorsHaveStatements
    <2> SUFFICES ASSUME MyInv, NEW x \in cursors,
                        cursor[x].drv = "open" \/ (cursor[x].open /\ cursor[x].hold)
                 PROVE  HasStatement(my[cursor[x].conn], x)
      BY DEF OpenCursorsHaveStatements
    <2>1. cursor[x].drv = "open"
      BY DEF MyInv, StateInv, CursorStateAgreement
    <2> QED
      BY <2>1 DEF MyInv, MyCursors
  <1> QED
    BY <1>1, MyInvariant, PTL

(***************************************************************************)
(* WHERE CURRENT OF that reports success on an open cursor of its own      *)
(* query, found by a unique index, has changed exactly the row that the    *)
(* last FETCH of the cursor moved to.                                      *)
(***************************************************************************)
THEOREM PositionedHitsFetched == MySpec => PositionedHitsFetchedRow
  <1>1. MyInv /\ [MyNext]_myVars =>
            [\A y \in CursorNames :
                (/\ alive'
                 /\ sent' = y
                 /\ ret'.rc = "SUCCESS"
                 /\ UniqueIndex
                 /\ cursor[y].open
                 /\ source[y] = NoStmt) =>
                      /\ cursor[y].drv = "open"
                      /\ reached[y] # 0
                      /\ my'[ret'.conn].hit = {reached[y]}]_myVars
    BY MyNextSafe DEF SafeStep, HitTruth
  <1> QED
    BY <1>1, MyInvariant, PTL DEF MySpec, PositionedHitsFetchedRow

(***************************************************************************)
(* A FETCH that fails on a cursor the driver has open is not taken for the *)
(* end of the data, unless GIXSQL_NOREC_CODE makes "no record" one of the  *)
(* error codes.                                                            *)
(***************************************************************************)
THEOREM FailedFetchIsNoEnd ==
    ASSUME NorecCode > 0
    PROVE  MySpec => NorecMeansEndOfData
  <1>1. MyInv /\ [MyNext]_myVars =>
            [answer'.kind = "error" /\ cursor[answer'.x].drv = "open" => sqlcode' # "norec"]_myVars
    BY MyNextSafe DEF SafeStep, FetchTruth
  <1> QED
    BY <1>1, MyInvariant, PTL DEF MySpec, NorecMeansEndOfData

(***************************************************************************)
(* The driver implements AbstractCursor for the cursors that have their    *)
(* statement to themselves: FETCH gives the rows that were there at OPEN   *)
(* in order, none twice, says "no data" exactly at the end, and no other   *)
(* call moves a cursor that stays open.                                    *)
(***************************************************************************)
THEOREM CursorsAreImplemented == MySpec => ImplementsAbstractCursor
  <1>1. MyInit => Abstract!Init
    <2> SUFFICES ASSUME MyInit PROVE Abstract!Init
      BY SMTT(40)
    <2>1. \A x \in CursorNames : CursorView(x) = Abstract!Closed
      <3>1. \A x \in CursorNames : cursor[x].conn = NoConn
        BY DEF MyInit, Init, CurInit, NullCursor
      <3> QED
        BY <3>1 DEF CursorView, Abstract!Closed
    <2> QED
      BY <2>1 DEF MyInit, NoAnswer, Abstract!Init, Abstract!NoAnswer
  <1>2. MyInv /\ [MyNext]_myVars => [Abstract!Next]_(Abstract!vars)
    <2>1. ASSUME MyInv, MyNext
          PROVE  [Abstract!Next]_(Abstract!vars)
      BY <2>1, MyNextSafe DEF SafeStep
    <2>2. ASSUME UNCHANGED myVars
          PROVE  UNCHANGED Abstract!vars
      BY <2>2, SameMyViews DEF myVars, vars
    <2> QED
      BY <2>1, <2>2
  <1> QED
    BY <1>1, <1>2, MyInvariant, PTL DEF MySpec, ImplementsAbstractCursor, Abstract!Spec

=============================================================================
