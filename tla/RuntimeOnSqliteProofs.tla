----------------------- MODULE RuntimeOnSqliteProofs -----------------------
(***************************************************************************)
(* The properties of the runtime on the SQLite driver, for any number of   *)
(* connections, cursors, prepared statements and keys.                     *)
(***************************************************************************)
EXTENDS RuntimeOnSqlite, GixSqlRuntimeProofs, WellFoundedInduction

---------------------------------------------------------------------------
(* One driver.                                                             *)

(***************************************************************************)
(* The private data of a cursor is its own SELECT or a prepared statement, *)
(* there whenever it is named; a driver that reports an error has a        *)
(* negative code for it; outside a transaction everything is committed.    *)
(***************************************************************************)
DriverOk(p) ==
    /\ p \in Driver
    /\ \A h \in Handles : p.stmt[h] = NoStatement \/ p.stmt[h].text \in AllStatements
    /\ \A x \in CursorNames : p.stmt[x] = NoStatement \/ p.stmt[x].text = "SELECT"
    /\ \A x \in CursorNames :
          /\ p.priv[x] \in StmtNames \cup {x, NoStmt}
          /\ p.priv[x] # NoStmt =>
                x \in p.declared /\ p.stmt[p.priv[x]].text \in AllStatements
    /\ p.last_rc <= 0
    /\ p.tx \/ p.base = p.table

\* What the calls of a driver have in common: inside a transaction the rows
\* committed stay the same, and one that begins starts from what is committed.
Evolves(p, q) ==
    /\ DriverOk(q)
    /\ q.connaddr = p.connaddr
    /\ p.tx /\ q.tx => q.base = p.base
    /\ ~p.tx /\ q.tx => q.base = q.table

\* Nothing about the cursors of the driver has changed.
CursorsAlone(p, q) ==
    /\ q.declared = p.declared
    /\ q.priv = p.priv
    /\ \A x \in CursorNames : q.stmt[x] = p.stmt[x]

LEMMA NullDriverOk == DriverOk(NullDriver)
  BY SqliteAssumption DEF DriverOk, NullDriver, Driver, NoStatement, Stmt, Handles, Keys

LEMMA ErrorRecorded ==
    ASSUME NEW p, DriverOk(p), NEW rc \in Int
    PROVE  LET q == sqliteRetrieveError(p, rc)
           IN  /\ DriverOk(q)
               /\ q = [p EXCEPT !.last_rc = q.last_rc]
               /\ q.last_rc = IF rc > 0 THEN -rc ELSE rc
  BY DEF DriverOk, Driver, sqliteRetrieveError

---------------------------------------------------------------------------
(* The engine.                                                             *)

\* The transaction statements do what they say, when they succeed.
EndsTruthfully(p, q, op) ==
    /\ op \in {"BEGIN", "COMMIT", "ROLLBACK"} => q.tx # p.tx
    /\ op = "COMMIT" => q.base = p.table
    /\ op = "ROLLBACK" => q.table = p.base /\ p.tx

\* Nothing but the data has changed.
DataOnly(p, q) == q = [p EXCEPT !.table = q.table, !.base = q.base, !.tx = q.tx]

\* One step of a statement changes the table, the transaction and the statement.
EngineStep(p, st, a) ==
    /\ Evolves(p, a.p)
    /\ DataOnly(p, a.p)
    /\ a.st \in Stmt
    /\ a.st.text = st.text
    /\ a.st.first = st.first
    /\ a.rc \in {SQLITE_ERROR, SQLITE_ROW, SQLITE_DONE}
    /\ a.rc # SQLITE_ERROR => EndsTruthfully(p, a.p, st.text)

\* A step of a SELECT that does not fail moves to the next row.
Moves(p, st, a) ==
    /\ a.p = p
    /\ a.rc = SQLITE_ERROR => a.st.pos = 0
    /\ a.rc # SQLITE_ERROR =>
          /\ a.st.pos = NextRow(p, st.pos)
          /\ a.rc = IF a.st.pos = 0 THEN SQLITE_DONE ELSE SQLITE_ROW

LEMMA NextRowLeast ==
    ASSUME NEW p, p \in Driver, NEW k \in Keys \cup {0}
    PROVE  /\ NextRow(p, k) \in Keys \cup {0}
           /\ NextRow(p, k) = 0 => \A j \in p.table : j <= k
           /\ NextRow(p, k) # 0 =>
                 /\ NextRow(p, k) \in p.table
                 /\ NextRow(p, k) > k
                 /\ \A i \in p.table : i > k => NextRow(p, k) <= i
  <1> DEFINE T == {j \in p.table : j > k}
             Least(j) == j \in p.table /\ j > k /\ \A i \in p.table : i > k => j <= i
  <1>1. p.table \subseteq Nat /\ 0 \notin p.table /\ k \in Nat
    BY SqliteAssumption DEF Driver, Keys
  <1>2. CASE T = {}
    BY <1>1, <1>2 DEF NextRow
  <1>3. CASE T # {}
    <2>1. T \subseteq Nat
      BY <1>1
    <2>2. PICK j \in T : \A i \in T : ~ (<<i, j>> \in OpToRel(<, Nat))
      BY <1>3, <2>1, NatLessThanWellFounded, WFMin
    <2>3. \A i \in T : ~ (i < j)
      <3> SUFFICES ASSUME NEW i \in T, i < j
                   PROVE  <<i, j>> \in OpToRel(<, Nat)
        BY <2>2
      <3>1. i \in Nat /\ j \in Nat
        BY <1>1
      <3> QED
        BY <3>1 DEF OpToRel
    <2>6. Least(j)
      <3>1. j \in Nat /\ j \in p.table /\ j > k
        BY <1>1
      <3>2. \A i \in p.table : i > k => j <= i
        BY <1>1, <2>3, <3>1
      <3> QED
        BY <3>1, <3>2
    <2>4. NextRow(p, k) = CHOOSE i \in p.table : i > k /\ \A l \in p.table : l > k => i <= l
      BY <1>3 DEF NextRow
    <2>5. Least(NextRow(p, k))
      BY <2>6, <2>4
    <2> QED
      BY <1>1, <2>5 DEF Driver
  <1> QED
    BY <1>2, <1>3

LEMMA WriteOk ==
    ASSUME NEW p, DriverOk(p), NEW t \in SUBSET Keys
    PROVE  /\ Evolves(p, Write(p, t))
           /\ DataOnly(p, Write(p, t))
  BY DEF DataOnly, DriverOk, Driver, Write, Evolves

LEMMA AutoCommitOk ==
    ASSUME NEW p, DriverOk(p), NEW op \in {"BEGIN", "COMMIT", "ROLLBACK"},
           p.tx # (op = "BEGIN")
    PROVE  LET q == AutoCommit(p, op)
           IN  /\ Evolves(p, q)
               /\ DataOnly(p, q)
               /\ EndsTruthfully(p, q, op)
  BY DEF DataOnly, DriverOk, Driver, AutoCommit, Evolves, EndsTruthfully

LEMMA StepOk ==
    ASSUME NEW p, DriverOk(p), NEW st \in Stmt, st.text \in AllStatements,
           NEW a \in Step(p, st)
    PROVE  EngineStep(p, st, a) /\ (st.text = "SELECT" => Moves(p, st, a))
  <1> USE DEF SQLITE_ERROR, SQLITE_ROW, SQLITE_DONE
  <1>0. p \in Driver /\ Evolves(p, p) /\ DataOnly(p, p)
    BY DEF DataOnly, DriverOk, Evolves, Driver
  <1>1. CASE a = StepFails(p, st)
    BY <1>0, <1>1 DEF StepFails, Stepped, EngineStep, Moves, Stmt
  <1>2. CASE a # StepFails(p, st) /\ st.text = "SELECT"
    <2>1. NextRow(p, st.pos) \in Keys \cup {0}
      BY <1>0, NextRowLeast DEF Stmt
    <2>2. a = LET k == NextRow(p, st.pos)
              IN  Stepped(p, [st EXCEPT !.pos = k], IF k = 0 THEN SQLITE_DONE ELSE SQLITE_ROW)
      BY <1>2 DEF Step
    <2> QED
      BY <1>0, <1>2, <2>1, <2>2 DEF Stepped, EngineStep, Moves, Stmt, EndsTruthfully
  <1>3. CASE a # StepFails(p, st) /\ st.text = "INSERT"
    <2>1. PICK k \in Keys : a = Stepped(Write(p, p.table \cup {k}), st, SQLITE_DONE)
      BY <1>3 DEF Step
    <2> QED
      <3>1. p.table \cup {k} \in SUBSET Keys
        BY <1>0 DEF Driver
      <3>2. a.p = Write(p, p.table \cup {k}) /\ a.st = st /\ a.rc = SQLITE_DONE
        BY <2>1 DEF Stepped
      <3>3. /\ Evolves(p, a.p)
            /\ DataOnly(p, a.p)
        BY <3>1, <3>2, WriteOk
      <3> QED
        BY <1>3, <3>2, <3>3 DEF EngineStep, Stmt, EndsTruthfully
  <1>4. CASE a # StepFails(p, st) /\ st.text = "DELETE"
    <2>1. PICK k \in Keys : a = Stepped(Write(p, p.table \ {k}), st, SQLITE_DONE)
      BY <1>4 DEF Step
    <2> QED
      <3>1. p.table \ {k} \in SUBSET Keys
        BY <1>0 DEF Driver
      <3>2. a.p = Write(p, p.table \ {k}) /\ a.st = st /\ a.rc = SQLITE_DONE
        BY <2>1 DEF Stepped
      <3>3. /\ Evolves(p, a.p)
            /\ DataOnly(p, a.p)
        BY <3>1, <3>2, WriteOk
      <3> QED
        BY <1>4, <3>2, <3>3 DEF EngineStep, Stmt, EndsTruthfully
  <1>5. CASE a # StepFails(p, st) /\ st.text \in {"BEGIN", "COMMIT", "ROLLBACK"}
    <2>1. /\ p.tx # (st.text = "BEGIN")
          /\ a = Stepped(AutoCommit(p, st.text), st, SQLITE_DONE)
      BY <1>5 DEF Step
    <2> QED
      <3>1. a.p = AutoCommit(p, st.text) /\ a.st = st /\ a.rc = SQLITE_DONE
        BY <2>1 DEF Stepped
      <3>2. /\ Evolves(p, a.p)
            /\ DataOnly(p, a.p)
            /\ EndsTruthfully(p, a.p, st.text)
        BY <1>5, <2>1, <3>1, AutoCommitOk
      <3> QED
        BY <1>5, <3>1, <3>2 DEF EngineStep, Stmt
  <1> QED
    BY <1>1, <1>2, <1>3, <1>4, <1>5 DEF AllStatements

---------------------------------------------------------------------------
(* The methods of the driver.                                              *)

\* The call leaves the cursors of the driver alone.
Quiet(p, q) == Evolves(p, q) /\ CursorsAlone(p, q)

\* The call has touched nothing but last_rc, the current statement and hit.
Idle(p, q) ==
    /\ Quiet(p, q)
    /\ q.table = p.table
    /\ q.base = p.base
    /\ q.tx = p.tx
    /\ q.stmt = p.stmt
    /\ q.off = p.off

LEMMA NoStatementType == NoStatement \in Stmt
  BY DEF NoStatement, Stmt

LEMMA IdleRefl ==
    ASSUME NEW p, DriverOk(p)
    PROVE  Idle(p, p)
  BY DEF Idle, Quiet, Evolves, CursorsAlone

LEMMA IdleError ==
    ASSUME NEW p, DriverOk(p), NEW rc \in Int
    PROVE  Idle(p, sqliteRetrieveError(p, rc))
  BY DEF Idle, Quiet, Evolves, CursorsAlone, sqliteRetrieveError, DriverOk, Driver

LEMMA IdleCurrent ==
    ASSUME NEW p, DriverOk(p), NEW st \in Stmt
    PROVE  Idle(p, [p EXCEPT !.cur = st])
  BY DEF Idle, Quiet, Evolves, CursorsAlone, DriverOk, Driver

LEMMA IdleThenQuiet ==
    ASSUME NEW p, NEW q, NEW s, Idle(p, q), Quiet(q, s)
    PROVE  Quiet(p, s) /\ (Idle(q, s) => Idle(p, s))
  BY DEF Idle, Quiet, Evolves, CursorsAlone

LEMMA QuietThenIdle ==
    ASSUME NEW p, NEW q, NEW s, Quiet(p, q), Idle(q, s)
    PROVE  Quiet(p, s)
  BY DEF Idle, Quiet, Evolves, CursorsAlone

LEMMA IdleOk ==
    ASSUME NEW p, NEW q, Idle(p, q)
    PROVE  DriverOk(q) /\ Quiet(p, q)
  BY DEF Idle, Quiet, Evolves

\* The driver p with what _sqlite_exec changes before the statement runs.
LEMMA DroppedOk ==
    ASSUME NEW p, DriverOk(p), NEW x
    PROVE  /\ DriverOk(Dropped(p, x))
           /\ Idle(p, Dropped(p, x))
           /\ DriverOk(sqliteRetrieveError(Dropped(p, x), SQLITE_OK))
           /\ Idle(p, sqliteRetrieveError(Dropped(p, x), SQLITE_OK))
  <1>1. Idle(p, Dropped(p, x))
    BY IdleRefl, IdleCurrent, NoStatementType DEF Dropped
  <1>2. Idle(Dropped(p, x), sqliteRetrieveError(Dropped(p, x), SQLITE_OK))
    BY <1>1, IdleOk, IdleError DEF SQLITE_OK
  <1> QED
    BY <1>1, <1>2, IdleThenQuiet, IdleOk

LEMMA NewStatementType ==
    ASSUME NEW op \in AllStatements
    PROVE  /\ NewStatement(op) \in Stmt
           /\ NewStatement(op).text = op
           /\ NewStatement(op).pos = 0
           /\ NewStatement(op).first = FALSE
           /\ NewStatement(op).text # NoStmt
  BY SqliteAssumption DEF NewStatement, NoStatement, Stmt

LEMMA EngineQuiet ==
    ASSUME NEW p, DriverOk(p), NEW st, NEW a, EngineStep(p, st, a)
    PROVE  /\ Quiet(p, a.p)
           /\ DriverOk(a.p)
           /\ a.p.stmt = p.stmt
           /\ a.p.last_rc = p.last_rc
  <1>1. DataOnly(p, a.p) /\ Evolves(p, a.p) /\ p \in Driver
    BY DEF EngineStep, DriverOk
  <1>2. /\ a.p.declared = p.declared
        /\ a.p.priv = p.priv
        /\ a.p.stmt = p.stmt
        /\ a.p.last_rc = p.last_rc
    BY <1>1 DEF DataOnly, Driver
  <1> QED
    BY <1>1, <1>2 DEF Quiet, Evolves, CursorsAlone

\* What is kept of a step when no cursor asked for it.
LEMMA AfterStepQuiet ==
    ASSUME NEW p, DriverOk(p), NEW st \in Stmt, NEW a, EngineStep(p, st, a), NEW op,
           NEW r, r = AfterStep(a, op, NoStmt)
    PROVE  /\ Quiet(p, r.p)
           /\ r.rc \in {DBERR_NO_ERROR, DBERR_SQL_ERROR}
           /\ r.rc = DBERR_NO_ERROR => EndsTruthfully(p, r.p, st.text)
  <1> DEFINE b == sqliteRetrieveError(a.p, a.rc)
             q == IF a.p.off /\ is_tx_termination_statement(op)
                  THEN [b EXCEPT !.cur = NoStatement]
                  ELSE a.p
  <1> USE DEF SQLITE_OK, SQLITE_ERROR, SQLITE_ROW, SQLITE_DONE, DBERR_NO_ERROR,
              DBERR_SQL_ERROR
  <1>1. NoStmt \notin CursorNames
    BY SqliteAssumption
  <1>2. Quiet(p, a.p) /\ DriverOk(a.p) /\ a.rc \in Int /\ a.rc # SQLITE_OK /\ a.st \in Stmt
    BY EngineQuiet DEF EngineStep
  <1>3. Idle(a.p, q)
    <2>1. Idle(a.p, b)
      BY <1>2, IdleError
    <2>2. Idle(b, [b EXCEPT !.cur = NoStatement])
      BY <2>1, IdleOk, IdleCurrent, NoStatementType
    <2> HIDE DEF b
    <2> QED
      BY <1>2, <2>1, <2>2, IdleThenQuiet, IdleOk, IdleRefl
  <1>4. CASE a.rc \in {SQLITE_DONE, SQLITE_ROW}
    <2>1. r = Returns([q EXCEPT !.cur = a.st], DBERR_NO_ERROR)
      BY <1>1, <1>2, <1>4 DEF AfterStep, Keep
    <2>2. r.p = [q EXCEPT !.cur = a.st] /\ r.rc = DBERR_NO_ERROR
      BY <2>1 DEF Returns
    <2> HIDE DEF q
    <2>3. Idle(q, r.p)
      BY <1>2, <1>3, <2>2, IdleOk, IdleCurrent
    <2>4. Idle(a.p, r.p)
      BY <1>3, <2>3, IdleThenQuiet, IdleOk
    <2>5. EndsTruthfully(p, a.p, st.text)
      BY <1>4 DEF EngineStep
    <2> QED
      BY <1>2, <2>2, <2>4, <2>5, QuietThenIdle DEF EndsTruthfully, Idle
  <1>5. CASE a.rc \notin {SQLITE_DONE, SQLITE_ROW}
    <2>1. r = Returns(sqliteRetrieveError(q, a.rc), DBERR_SQL_ERROR)
      BY <1>1, <1>2, <1>5 DEF AfterStep
    <2>2. r.p = sqliteRetrieveError(q, a.rc) /\ r.rc = DBERR_SQL_ERROR
      BY <2>1 DEF Returns
    <2> HIDE DEF q
    <2>3. Idle(q, r.p)
      BY <1>2, <1>3, <2>2, IdleOk, IdleError
    <2> QED
      BY <1>2, <1>3, <2>2, <2>3, QuietThenIdle, IdleThenQuiet, IdleOk
  <1> QED
    BY <1>4, <1>5

LEMMA ExecOk ==
    ASSUME NEW p, DriverOk(p), NEW op \in AllStatements, NEW r \in exec(p, op)
    PROVE  /\ Quiet(p, r.p)
           /\ r.rc \in {DBERR_NO_ERROR, DBERR_SQL_ERROR}
           /\ r.rc = DBERR_NO_ERROR => EndsTruthfully(p, r.p, op)
  <1> DEFINE q == Dropped(p, NoStmt)
             s == sqliteRetrieveError(q, SQLITE_OK)
  <1>1. DriverOk(q) /\ DriverOk(s) /\ Idle(p, q) /\ Idle(p, s)
    BY DroppedOk
  <1>2. CASE r = Returns(sqliteRetrieveError(q, SQLITE_ERROR), DBERR_SQL_ERROR)
    <2>1. Idle(q, sqliteRetrieveError(q, SQLITE_ERROR))
      BY <1>1, IdleError DEF SQLITE_ERROR
    <2>2. r.p = sqliteRetrieveError(q, SQLITE_ERROR) /\ r.rc = DBERR_SQL_ERROR
      BY <1>2 DEF Returns
    <2> HIDE DEF q
    <2> QED
      BY <1>1, <2>1, <2>2, IdleThenQuiet, IdleOk DEF DBERR_NO_ERROR, DBERR_SQL_ERROR
  <1>3. CASE r # Returns(sqliteRetrieveError(q, SQLITE_ERROR), DBERR_SQL_ERROR)
    <2>1. PICK a \in Step(s, NewStatement(op)) : r = AfterStep(a, op, NoStmt)
      BY <1>3 DEF exec, sqlite_exec
    <2>2. EngineStep(s, NewStatement(op), a)
      BY <1>1, StepOk, NewStatementType
    <2>3. /\ Quiet(s, r.p)
          /\ r.rc \in {DBERR_NO_ERROR, DBERR_SQL_ERROR}
          /\ r.rc = DBERR_NO_ERROR => EndsTruthfully(s, r.p, op)
      BY <1>1, <2>1, <2>2, AfterStepQuiet, NewStatementType
    <2> HIDE DEF s
    <2> QED
      BY <1>1, <2>3, IdleThenQuiet DEF EndsTruthfully, Idle
  <1> QED
    BY <1>2, <1>3

LEMMA ReturnsFields ==
    ASSUME NEW p, NEW rc
    PROVE  Returns(p, rc).p = p /\ Returns(p, rc).rc = rc
  BY DEF Returns

\* A version of CursorsAlone for a step of the statement behind handle h.
OnlyStatement(p, q, h, st) ==
    /\ Evolves(p, q)
    /\ q.declared = p.declared
    /\ q.priv = p.priv
    /\ q.stmt = [p.stmt EXCEPT ![h] = st]

\* A statement with a text may be replaced by one with a text.
LEMMA ReplaceStatement ==
    ASSUME NEW p, DriverOk(p), NEW h \in Handles, NEW st \in Stmt, st.text \in AllStatements,
           h \in CursorNames => st.text = "SELECT"
    PROVE  LET q == [p EXCEPT !.stmt[h] = st]
           IN  /\ OnlyStatement(p, q, h, st)
               /\ q.table = p.table
               /\ q.base = p.base
               /\ q.tx = p.tx
               /\ q.last_rc = p.last_rc
  <1> DEFINE q == [p EXCEPT !.stmt[h] = st]
  <1>1. /\ q \in Driver
        /\ q.stmt = [p.stmt EXCEPT ![h] = st]
        /\ q.declared = p.declared /\ q.priv = p.priv /\ q.table = p.table
        /\ q.base = p.base /\ q.tx = p.tx /\ q.last_rc = p.last_rc
        /\ q.connaddr = p.connaddr
    BY DEF DriverOk, Driver
  <1>2. \A g \in Handles : q.stmt[g] = IF g = h THEN st ELSE p.stmt[g]
    BY <1>1 DEF DriverOk, Driver
  <1>3. \A x \in CursorNames :
           x \in Handles /\ (p.priv[x] # NoStmt => p.priv[x] \in Handles)
    BY DEF DriverOk, Handles
  <1> HIDE DEF q
  <1>4. DriverOk(q)
    BY <1>1, <1>2, <1>3 DEF DriverOk
  <1>5. OnlyStatement(p, q, h, st)
    BY <1>1, <1>4 DEF OnlyStatement, Evolves
  <1> QED
    BY <1>1, <1>5 DEF q

LEMMA RanOk ==
    ASSUME NEW p, DriverOk(p), NEW h \in Handles, NEW st \in Stmt,
           st.text \in AllStatements, h \in CursorNames => st.text = "SELECT",
           NEW a, EngineStep(p, st, a), NEW r, r = Ran(a, h)
    PROVE  /\ OnlyStatement(p, r.p, h, a.st)
           /\ r.rc = IF a.rc = SQLITE_ERROR THEN DBERR_SQL_ERROR ELSE DBERR_NO_ERROR
           /\ r.p.table = a.p.table
           /\ r.rc = DBERR_NO_ERROR => EndsTruthfully(p, r.p, st.text)
  <1> DEFINE q == [a.p EXCEPT !.stmt[h] = a.st]
  <1> USE DEF SQLITE_ERROR, SQLITE_ROW, SQLITE_DONE, DBERR_NO_ERROR, DBERR_SQL_ERROR
  <1>1. /\ DriverOk(a.p) /\ Quiet(p, a.p) /\ a.p.stmt = p.stmt /\ a.st \in Stmt
        /\ a.st.text \in AllStatements /\ (h \in CursorNames => a.st.text = "SELECT")
        /\ a.rc \in {SQLITE_ERROR, SQLITE_ROW, SQLITE_DONE}
        /\ a.rc # SQLITE_ERROR => EndsTruthfully(p, a.p, st.text)
    BY EngineQuiet DEF EngineStep
  <1>2. /\ OnlyStatement(a.p, q, h, a.st)
        /\ q.table = a.p.table /\ q.base = a.p.base /\ q.tx = a.p.tx
    BY <1>1, ReplaceStatement
  <1>3. IF a.rc = SQLITE_ERROR
        THEN r.p = sqliteRetrieveError(q, a.rc) /\ r.rc = DBERR_SQL_ERROR
        ELSE r.p = q /\ r.rc = DBERR_NO_ERROR
    BY <1>1 DEF Ran, Returns
  <1> HIDE DEF q
  <1>4. DriverOk(q)
    BY <1>2 DEF OnlyStatement, Evolves
  <1>5. Idle(q, r.p)
    BY <1>1, <1>3, <1>4, IdleError, IdleRefl
  <1> QED
    BY <1>1, <1>2, <1>3, <1>5
       DEF OnlyStatement, Idle, Quiet, Evolves, CursorsAlone, EndsTruthfully

\* A step of a statement that is no cursor's leaves the cursors alone.
LEMMA StatementQuiet ==
    ASSUME NEW p, DriverOk(p), NEW q, NEW s \in StmtNames, NEW st, OnlyStatement(p, q, s, st)
    PROVE  Quiet(p, q)
  BY SqliteAssumption DEF OnlyStatement, Quiet, CursorsAlone, DriverOk, Driver, Handles

LEMMA PrepareOk ==
    ASSUME NEW p, DriverOk(p), NEW s \in StmtNames, NEW op \in AllStatements,
           NEW r \in prepare(p, s, op)
    PROVE  /\ Quiet(p, r.p)
           /\ r.rc \in {DBERR_NO_ERROR, DBERR_PREPARE_FAILED}
  <1> DEFINE e == sqliteRetrieveError(p, SQLITE_ERROR)
             b == sqliteRetrieveError(p, SQLITE_OK)
             q == [b EXCEPT !.stmt[s] = NewStatement(op)]
  <1>1. /\ Idle(p, e) /\ Idle(p, b) /\ Idle(p, p) /\ DriverOk(b)
    BY IdleError, IdleRefl, IdleOk DEF SQLITE_ERROR, SQLITE_OK
  <1>2. Quiet(b, q)
    <2> HIDE DEF b
    <2>1. s \in Handles /\ s \notin CursorNames
      BY SqliteAssumption DEF Handles
    <2>2. OnlyStatement(b, q, s, NewStatement(op))
      BY <1>1, <2>1, ReplaceStatement, NewStatementType
    <2> HIDE DEF q
    <2> QED
      BY <1>1, <2>2, StatementQuiet
  <1>3. Quiet(p, q)
    <2> HIDE DEF b, q
    <2> QED
      BY <1>1, <1>2, IdleThenQuiet
  <1>4. \/ r.p = p /\ r.rc = DBERR_PREPARE_FAILED
        \/ r.p = e /\ r.rc = DBERR_PREPARE_FAILED
        \/ r.p = q /\ r.rc = DBERR_NO_ERROR
    BY ReturnsFields DEF prepare
  <1> QED
    BY <1>1, <1>3, <1>4, IdleOk

LEMMA ExecPreparedOk ==
    ASSUME NEW p, DriverOk(p), NEW s \in StmtNames, NEW r \in exec_prepared(p, s)
    PROVE  /\ Quiet(p, r.p)
           /\ r.rc \in {DBERR_NO_ERROR, DBERR_SQL_ERROR}
           /\ r.rc = DBERR_NO_ERROR => EndsTruthfully(p, r.p, p.stmt[s].text)
  <1> DEFINE st == [p.stmt[s] EXCEPT !.pos = 0]
  <1>0. s \in Handles /\ s \notin CursorNames
    BY SqliteAssumption DEF Handles
  <1>1. CASE p.stmt[s] = NoStatement
    BY <1>1, ReturnsFields, IdleRefl, IdleOk
       DEF exec_prepared, DBERR_NO_ERROR, DBERR_SQL_ERROR
  <1>2. CASE p.stmt[s] # NoStatement
    <2>1. PICK a \in Step(p, st) : r = Ran(a, s)
      BY <1>2 DEF exec_prepared
    <2>2. st \in Stmt /\ st.text = p.stmt[s].text /\ st.text \in AllStatements
      BY <1>0, <1>2 DEF DriverOk, Driver, Stmt
    <2> HIDE DEF st
    <2>3. EngineStep(p, st, a)
      BY <2>2, StepOk
    <2>4. /\ OnlyStatement(p, r.p, s, a.st)
          /\ r.rc = IF a.rc = SQLITE_ERROR THEN DBERR_SQL_ERROR ELSE DBERR_NO_ERROR
          /\ r.rc = DBERR_NO_ERROR => EndsTruthfully(p, r.p, st.text)
      BY <1>0, <2>1, <2>2, <2>3, RanOk
    <2> QED
      BY <2>2, <2>4, StatementQuiet
  <1> QED
    BY <1>1, <1>2

(***************************************************************************)
(* What WHERE CURRENT OF y makes of the rows: nothing, and then it reports *)
(* success only if its parameters are written $n, or what was asked, to    *)
(* the row the cursor stands on.                                           *)
(***************************************************************************)
PositionedEffect(p, q, rc, op, y, style) ==
    \/ /\ q.hit = {}
       /\ q.table = p.table
       /\ rc = DBERR_NO_ERROR => style = "dollar"
    \/ /\ rc = DBERR_NO_ERROR
       /\ y \in p.declared
       /\ q.hit = {CurrentRow(p, y)}
       /\ q.table = IF op = "DELETE" THEN p.table \ q.hit ELSE p.table

LEMMA HitKept ==
    ASSUME NEW p, DriverOk(p), NEW x, NEW rc
    PROVE  /\ Dropped(p, x).hit = p.hit
           /\ sqliteRetrieveError(p, rc).hit = p.hit
  BY DEF DriverOk, Driver, Dropped, sqliteRetrieveError

LEMMA PositionedOk ==
    ASSUME NEW p, DriverOk(p), NEW op \in {"UPDATE", "DELETE"}, NEW y \in CursorNames,
           NEW style, NEW r \in positioned(p, op, y, style), p.hit = {}
    PROVE  /\ Quiet(p, r.p)
           /\ r.rc \in {DBERR_NO_ERROR, DBERR_SQL_ERROR}
           /\ PositionedEffect(p, r.p, r.rc, op, y, style)
  <1> DEFINE q == Dropped(p, NoStmt)
             b == sqliteRetrieveError(q, SQLITE_OK)
             k == CurrentRow(q, y)
             t == IF op = "DELETE" THEN b.table \ {k} ELSE b.table
             w == Write(b, t)
             e(rc) == sqliteRetrieveError(q, rc)
  <1> USE DEF DBERR_NO_ERROR, DBERR_SQL_ERROR, SQLITE_OK, SQLITE_ERROR, SQLITE_DONE,
              SQLITE_RANGE
  <1>1. DriverOk(q) /\ DriverOk(b) /\ Idle(p, q) /\ Idle(p, b)
    BY DroppedOk
  <1>2. \A rc \in Int : Idle(p, e(rc))
    <2> TAKE rc \in Int
    <2>1. Idle(q, e(rc))
      BY <1>1, IdleError
    <2> HIDE DEF q, e
    <2> QED
      BY <1>1, <2>1, IdleThenQuiet, IdleOk
  <1>0. q.hit = {} /\ b.hit = {} /\ \A rc \in Int : e(rc).hit = {}
    BY <1>1, HitKept
  <1>3. k = CurrentRow(p, y)
    BY <1>1 DEF CurrentRow, Idle, Quiet, CursorsAlone
  <1>6. ASSUME Idle(p, r.p), r.p.hit = {}, r.rc = DBERR_NO_ERROR => style = "dollar"
        PROVE  Quiet(p, r.p) /\ PositionedEffect(p, r.p, r.rc, op, y, style)
    BY <1>6 DEF Idle, PositionedEffect
  <1>4. CASE r.rc # DBERR_NO_ERROR
    <2> USE <1>4, <1>6, ReturnsFields
    <2>1. CASE r = Returns(q, DBERR_SQL_ERROR)
      BY <1>0, <1>1, <2>1
    <2>2. CASE \E rc \in Int : r = Returns(e(rc), DBERR_SQL_ERROR)
      BY <1>0, <1>2, <2>2
    <2>3. CASE r = Returns(sqliteRetrieveError(b, SQLITE_ERROR), DBERR_SQL_ERROR)
      <3>1. Idle(b, r.p) /\ r.p.hit = {}
        BY <1>0, <1>1, <2>3, IdleError, HitKept
      <3>3. Idle(p, r.p)
        BY <1>1, <3>1, IdleThenQuiet, IdleOk
      <3> QED
        BY <2>3, <3>1, <3>3
    <2>4. CASE r = Returns([b EXCEPT !.last_rc = -1], DBERR_SQL_ERROR)
      <3>1. sqliteRetrieveError(b, 1) = [b EXCEPT !.last_rc = -1]
        BY DEF sqliteRetrieveError
      <3>2. Idle(b, r.p) /\ r.p.hit = {}
        BY <1>0, <1>1, <2>4, <3>1, IdleError, HitKept
      <3>3. Idle(p, r.p)
        BY <1>1, <3>2, IdleThenQuiet, IdleOk
      <3> QED
        BY <2>4, <3>2, <3>3
    <2> QED
      BY <2>1, <2>2, <2>3, <2>4 DEF positioned, PositionedStep
  <1>5. CASE r.rc = DBERR_NO_ERROR
    <2>1. \/ style = "dollar" /\ r = Returns(e(SQLITE_RANGE), DBERR_NO_ERROR)
          \/ /\ y \in q.declared
             /\ k \in b.table
             /\ r = Returns([w EXCEPT !.hit = {k}, !.cur = NewStatement(op)],
                            DBERR_NO_ERROR)
      <3> HIDE DEF q, b, w
      <3> QED
      BY <1>5, ReturnsFields DEF positioned, PositionedStep, w, b, q
    <2>2. CASE style = "dollar" /\ r = Returns(e(SQLITE_RANGE), DBERR_NO_ERROR)
      BY <1>0, <1>2, <1>6, <2>2, ReturnsFields
    <2>3. CASE /\ y \in q.declared
               /\ k \in b.table
               /\ r = Returns([w EXCEPT !.hit = {k}, !.cur = NewStatement(op)],
                              DBERR_NO_ERROR)
      <3>1. /\ Evolves(b, w) /\ DataOnly(b, w)
        BY <1>1, WriteOk DEF DriverOk, Driver
      <3>2. NewStatement(op) \in Stmt
        BY DEF NewStatement, NoStatement, Stmt, AllStatements
      <3>3. r.p = [w EXCEPT !.hit = {k}, !.cur = NewStatement(op)]
        BY <2>3, ReturnsFields
      <3>4. b \in Driver /\ w \in Driver /\ k \in Keys
        BY <1>1, <2>3, <3>1 DEF DriverOk, Driver, Evolves
      <3> HIDE DEF w, b, k, q
      <3>5. w.declared = b.declared /\ w.priv = b.priv /\ w.stmt = b.stmt
        BY <3>1, <3>4 DEF DataOnly, Driver
      <3>6. /\ r.p \in Driver
            /\ r.p.declared = w.declared /\ r.p.priv = w.priv /\ r.p.stmt = w.stmt
            /\ r.p.table = w.table /\ r.p.base = w.base /\ r.p.tx = w.tx
            /\ r.p.last_rc = w.last_rc /\ r.p.connaddr = w.connaddr
            /\ r.p.hit = {k}
        <4> DEFINE v == [w EXCEPT !.hit = {k}]
        <4>1. /\ v \in Driver
              /\ v.declared = w.declared /\ v.priv = w.priv /\ v.stmt = w.stmt
              /\ v.table = w.table /\ v.base = w.base /\ v.tx = w.tx
              /\ v.last_rc = w.last_rc /\ v.connaddr = w.connaddr
              /\ v.hit = {k}
          BY <3>4 DEF Driver
        <4>2. r.p = [v EXCEPT !.cur = NewStatement(op)]
          BY <3>3
        <4> HIDE DEF v
        <4> QED
          BY <3>2, <4>1, <4>2 DEF Driver
      <3>7. Quiet(b, r.p)
        BY <3>1, <3>5, <3>6 DEF Quiet, Evolves, CursorsAlone, DriverOk
      <3>8. y \in p.declared
        BY <1>1, <2>3 DEF Idle, Quiet, CursorsAlone
      <3>9. r.p.table = IF op = "DELETE" THEN p.table \ r.p.hit ELSE p.table
        <4>1. b.table = p.table
          BY <1>1 DEF Idle
        <4>2. w.table = IF op = "DELETE" THEN b.table \ {k} ELSE b.table
          BY <3>4 DEF w, Write, Driver
        <4> QED
          BY <3>6, <4>1, <4>2
      <3>10. Quiet(p, r.p)
        BY <1>1, <3>7, IdleThenQuiet
      <3> QED
        BY <1>3, <1>5, <3>6, <3>8, <3>9, <3>10 DEF PositionedEffect
    <2> QED
      BY <2>1, <2>2, <2>3
  <1> QED
    BY <1>4, <1>5

LEMMA MoveToFirstOk ==
    ASSUME NEW p, DriverOk(p), NEW s, NEW m, m = move_to_first_record(p, s)
    PROVE  Idle(p, m.p)
  <1> USE DEF DBERR_MOVE_TO_FIRST_FAILED, DBERR_NO_DATA
  <1>1. \A err \in {DBERR_MOVE_TO_FIRST_FAILED, DBERR_NO_DATA} :
           [p EXCEPT !.last_rc = err] = sqliteRetrieveError(p, err)
    BY DEF sqliteRetrieveError
  <1>2. \/ m.p = p
        \/ m.p = sqliteRetrieveError(p, DBERR_MOVE_TO_FIRST_FAILED)
        \/ m.p = sqliteRetrieveError(p, DBERR_NO_DATA)
    BY <1>1, ReturnsFields DEF move_to_first_record
  <1> QED
    BY <1>2, IdleRefl, IdleError

LEMMA ConnectOkDriver ==
    ASSUME NEW off \in BOOLEAN, NEW rows \in SUBSET Keys
    PROVE  LET p == connect(off, rows)
           IN  /\ DriverOk(p)
               /\ p.declared = {}
               /\ p.base = p.table
  <1> DEFINE a == [NullDriver EXCEPT !.connaddr = TRUE, !.off = off]
             b == [a EXCEPT !.tx = off]
             d == [b EXCEPT !.table = rows]
             p == [d EXCEPT !.base = rows]
  <1>1. DriverOk(NullDriver) /\ NullDriver.declared = {}
    BY NullDriverOk DEF NullDriver
  <1>2. /\ a \in Driver /\ a.declared = {} /\ a.priv = NullDriver.priv
        /\ a.stmt = NullDriver.stmt /\ a.last_rc = NullDriver.last_rc
    BY <1>1 DEF DriverOk, Driver
  <1> HIDE DEF a
  <1>3. /\ b \in Driver /\ b.declared = {} /\ b.priv = NullDriver.priv
        /\ b.stmt = NullDriver.stmt /\ b.last_rc = NullDriver.last_rc
    BY <1>2 DEF Driver
  <1> HIDE DEF b
  <1>4. /\ d \in Driver /\ d.declared = {} /\ d.priv = NullDriver.priv
        /\ d.stmt = NullDriver.stmt /\ d.last_rc = NullDriver.last_rc /\ d.table = rows
    BY <1>3 DEF Driver
  <1> HIDE DEF d
  <1>5. /\ p \in Driver /\ p.declared = {} /\ p.priv = NullDriver.priv
        /\ p.stmt = NullDriver.stmt /\ p.last_rc = NullDriver.last_rc /\ p.table = rows
        /\ p.base = rows
    BY <1>4 DEF Driver
  <1>6. connect(off, rows) = p
    BY DEF connect, d, b, a
  <1> HIDE DEF p
  <1> QED
    BY <1>1, <1>5, <1>6 DEF DriverOk

LEMMA DeclareOk ==
    ASSUME NEW p, DriverOk(p), NEW x \in CursorNames
    PROVE  LET q == cursor_declare(p, x)
           IN  /\ Evolves(p, q)
               /\ q.declared = p.declared \cup {x}
               /\ q.priv = p.priv
               /\ q.stmt = p.stmt
               /\ q.table = p.table
               /\ q.base = p.base
               /\ q.tx = p.tx
  BY SMTT(40) DEF DriverOk, Driver, cursor_declare, Evolves

\* What opening cursor x may do to its driver; s is its prepared statement.
OpensCursor(p, x, s, r) ==
    /\ Evolves(p, r.p)
    /\ r.p.declared = p.declared
    /\ r.rc \in {DBERR_NO_ERROR, DBERR_OPEN_CURSOR_FAILED}
    /\ \A y \in CursorNames \ {x} :
          r.p.priv[y] = p.priv[y] /\ r.p.stmt[y] = p.stmt[y]
    /\ r.rc # DBERR_NO_ERROR => r.p.priv[x] = p.priv[x] /\ r.p.stmt[x] = p.stmt[x]
    /\ r.rc = DBERR_NO_ERROR => r.p.priv[x] = IF s = NoStmt THEN x ELSE s
    /\ r.rc = DBERR_NO_ERROR /\ s = NoStmt =>
          /\ r.p.table = p.table
          /\ r.p.stmt[x].first
          /\ r.p.stmt[x].pos = NextRow(p, 0)

\* The end of cursor_open(), after the statement that failed.
LEMMA OpenedFails ==
    ASSUME NEW r, DriverOk(r.p), r.rc = DBERR_SQL_ERROR, NEW x, NEW o, o = Opened(r, x)
    PROVE  /\ Idle(r.p, o.p)
           /\ o.rc = DBERR_OPEN_CURSOR_FAILED
  BY ReturnsFields, IdleError DEF Opened, DBERR_NO_ERROR, DBERR_SQL_ERROR

\* The end of cursor_open() on the driver q that has the statement.
LEMMA OpenedSucceeds ==
    ASSUME NEW r, DriverOk(r.p), r.rc = DBERR_NO_ERROR, NEW x \in CursorNames,
           NEW h, h = r.p.priv[x], h # NoStmt, NEW o, o = Opened(r, x)
    PROVE  /\ OnlyStatement(r.p, o.p, h, [r.p.stmt[h] EXCEPT !.first = TRUE])
           /\ o.p.table = r.p.table
           /\ o.p.base = r.p.base
           /\ o.p.tx = r.p.tx
           /\ o.rc = DBERR_NO_ERROR
  <1> DEFINE b == sqliteRetrieveError(r.p, SQLITE_OK)
             st == [b.stmt[h] EXCEPT !.first = TRUE]
  <1>1. Idle(r.p, b) /\ DriverOk(b) /\ b.stmt = r.p.stmt /\ b.priv = r.p.priv
    BY IdleError, IdleOk DEF SQLITE_OK, Idle, Quiet, CursorsAlone
  <1>2. h \in Handles /\ r.p.stmt[h] \in Stmt /\ r.p.stmt[h].text \in AllStatements
    BY DEF DriverOk, Handles, Driver
  <1>3. h \in CursorNames => r.p.stmt[h].text = "SELECT"
    BY <1>2, SqliteAssumption DEF DriverOk, NoStatement
  <1>4. o.p = [b EXCEPT !.stmt[h] = st] /\ o.rc = DBERR_NO_ERROR
    <2>1. o.p = [b EXCEPT !.stmt[h].first = TRUE] /\ o.rc = DBERR_NO_ERROR
      BY ReturnsFields DEF Opened
    <2>2. [b EXCEPT !.stmt[h].first = TRUE] = [b EXCEPT !.stmt[h] = st]
      OBVIOUS
    <2> QED
      BY <2>1, <2>2
  <1>5. /\ st \in Stmt /\ st.text = r.p.stmt[h].text
        /\ st = [r.p.stmt[h] EXCEPT !.first = TRUE]
    BY <1>1, <1>2 DEF Stmt
  <1> HIDE DEF b, st
  <1>6. /\ OnlyStatement(b, o.p, h, st) /\ o.p.table = b.table /\ o.p.base = b.base
        /\ o.p.tx = b.tx
    <2> DEFINE q == [b EXCEPT !.stmt[h] = st]
    <2>1. OnlyStatement(b, q, h, st) /\ q.table = b.table /\ q.base = b.base /\ q.tx = b.tx
      <3>1. /\ DriverOk(b) /\ h \in Handles /\ st \in Stmt /\ st.text \in AllStatements
            /\ h \in CursorNames => st.text = "SELECT"
        BY <1>1, <1>2, <1>3, <1>5
      <3> QED
        BY ONLY <3>1, ReplaceStatement
    <2>2. o.p = q
      BY <1>4
    <2> HIDE DEF q
    <2> QED
      BY <2>1, <2>2
  <1> QED
    BY <1>1, <1>2, <1>4, <1>5, <1>6
       DEF OnlyStatement, Idle, Quiet, Evolves, CursorsAlone

\* Cursor x has been given the statement behind handle h.
OnlyPrivate(p, q, x, h) ==
    /\ Evolves(p, q)
    /\ q.priv = [p.priv EXCEPT ![x] = h]
    /\ q.stmt = p.stmt /\ q.declared = p.declared
    /\ q.table = p.table /\ q.base = p.base /\ q.tx = p.tx

\* A cursor of the driver may be given any statement that has a text.
LEMMA SetPrivateData ==
    ASSUME NEW p, DriverOk(p), NEW x \in CursorNames, x \in p.declared,
           NEW h, h \in StmtNames \/ h = x, p.stmt[h].text \in AllStatements
    PROVE  OnlyPrivate(p, [p EXCEPT !.priv[x] = h], x, h)
  <1> DEFINE q == [p EXCEPT !.priv[x] = h]
  <1>1. h \in Handles
    BY DEF Handles
  <1>2. /\ q \in Driver
        /\ q.priv = [p.priv EXCEPT ![x] = h]
        /\ q.stmt = p.stmt /\ q.declared = p.declared
        /\ q.table = p.table /\ q.base = p.base /\ q.tx = p.tx
        /\ q.last_rc = p.last_rc /\ q.connaddr = p.connaddr
    BY <1>1 DEF DriverOk, Driver
  <1> HIDE DEF q
  <1>3. \A y \in CursorNames : q.priv[y] = IF y = x THEN h ELSE p.priv[y]
    BY <1>2 DEF DriverOk, Driver
  <1>4. DriverOk(q)
    BY <1>2, <1>3 DEF DriverOk
  <1>5. OnlyPrivate(p, q, x, h)
    BY <1>2, <1>4 DEF Evolves, OnlyPrivate
  <1> QED
    BY <1>5 DEF q

LEMMA KeepOk ==
    ASSUME NEW p, DriverOk(p), NEW x \in CursorNames, x \in p.declared,
           NEW st \in Stmt, st.text = "SELECT", NEW q, q = Keep(p, x, st)
    PROVE  /\ Evolves(p, q)
           /\ q.priv = [p.priv EXCEPT ![x] = x]
           /\ q.stmt = [p.stmt EXCEPT ![x] = st]
           /\ q.declared = p.declared
           /\ q.table = p.table /\ q.base = p.base /\ q.tx = p.tx
  <1> DEFINE b == [p EXCEPT !.stmt[x] = st]
  <1>1. x \in Handles /\ st.text \in AllStatements
    BY DEF Handles, AllStatements
  <1>2. /\ OnlyStatement(p, b, x, st) /\ b.table = p.table /\ b.base = p.base /\ b.tx = p.tx
    BY <1>1, ReplaceStatement
  <1>3. q = [b EXCEPT !.priv[x] = x]
    BY DEF Keep
  <1> HIDE DEF b
  <1>4. /\ DriverOk(b) /\ b.declared = p.declared /\ b.priv = p.priv
        /\ b.stmt = [p.stmt EXCEPT ![x] = st]
    BY <1>2 DEF OnlyStatement, Evolves
  <1>5. b.stmt[x].text \in AllStatements
    BY <1>1, <1>4 DEF DriverOk, Driver
  <1>6. OnlyPrivate(b, [b EXCEPT !.priv[x] = x], x, x)
    BY <1>4, <1>5, SetPrivateData
  <1> QED
    BY <1>2, <1>3, <1>4, <1>6 DEF Evolves, OnlyStatement, OnlyPrivate

\* Cursor x has a statement of its own, on the first row of the table.
StartsCursor(p, x, q) ==
    /\ Evolves(p, q)
    /\ q.priv = [p.priv EXCEPT ![x] = x]
    /\ q.declared = p.declared
    /\ q.table = p.table /\ q.base = p.base /\ q.tx = p.tx
    /\ \E st \in Stmt : /\ q.stmt = [p.stmt EXCEPT ![x] = st]
                        /\ st.pos = NextRow(p, 0)

\* The statement of a cursor without a prepared one.
LEMMA ExecCursorOk ==
    ASSUME NEW p, DriverOk(p), NEW x \in CursorNames, x \in p.declared,
           NEW r \in sqlite_exec(p, "SELECT", x)
    PROVE  \/ r.rc = DBERR_SQL_ERROR /\ Idle(p, r.p)
           \/ r.rc = DBERR_NO_ERROR /\ StartsCursor(p, x, r.p)
  <1> DEFINE b == sqliteRetrieveError(p, SQLITE_OK)
  <1> USE DEF SQLITE_OK, SQLITE_ERROR, SQLITE_ROW, SQLITE_DONE, DBERR_NO_ERROR,
              DBERR_SQL_ERROR
  <1>1. Dropped(p, x) = p
    BY DEF Dropped
  <1>2. Idle(p, b) /\ DriverOk(b)
    BY IdleError, IdleOk
  <1>3. CASE r = Returns(sqliteRetrieveError(p, SQLITE_ERROR), DBERR_SQL_ERROR)
    BY <1>3, IdleError, ReturnsFields
  <1>4. CASE r # Returns(sqliteRetrieveError(p, SQLITE_ERROR), DBERR_SQL_ERROR)
    <2>1. PICK a \in Step(b, NewStatement("SELECT")) : r = AfterStep(a, "SELECT", x)
      BY <1>1, <1>4 DEF sqlite_exec
    <2>2. /\ NewStatement("SELECT") \in Stmt
          /\ NewStatement("SELECT").text = "SELECT"
          /\ NewStatement("SELECT").pos = 0
          /\ "SELECT" \in AllStatements
      BY NewStatementType DEF AllStatements
    <2>3. /\ EngineStep(b, NewStatement("SELECT"), a)
          /\ Moves(b, NewStatement("SELECT"), a)
      BY <1>2, <2>2, StepOk
    <2> HIDE DEF b
    <2>4. /\ a.p = b /\ a.st \in Stmt /\ a.st.text = "SELECT"
          /\ a.rc \in {SQLITE_ERROR, SQLITE_ROW, SQLITE_DONE}
          /\ a.rc # SQLITE_ERROR => a.st.pos = NextRow(b, 0)
      BY <2>2, <2>3 DEF EngineStep, Moves
    <2>5. NextRow(b, 0) = NextRow(p, 0)
      BY <1>2 DEF NextRow, Idle
    <2>6. r = IF a.rc = SQLITE_ERROR
              THEN Returns(sqliteRetrieveError(b, a.rc), DBERR_SQL_ERROR)
              ELSE Returns(Keep(b, x, a.st), DBERR_NO_ERROR)
      BY <2>1, <2>4 DEF AfterStep, is_tx_termination_statement
    <2>7. CASE a.rc = SQLITE_ERROR
      <3>1. r.rc = DBERR_SQL_ERROR /\ r.p = sqliteRetrieveError(b, a.rc)
        BY <2>6, <2>7, ReturnsFields
      <3>2. Idle(b, r.p)
        BY <1>2, <2>7, <3>1, IdleError
      <3> QED
        BY <1>2, <3>1, <3>2, IdleThenQuiet, IdleOk
    <2>8. CASE a.rc # SQLITE_ERROR
      <3>1. r.rc = DBERR_NO_ERROR /\ r.p = Keep(b, x, a.st)
        BY <2>6, <2>8, ReturnsFields
      <3>2. x \in b.declared
        BY <1>2 DEF Idle, Quiet, CursorsAlone
      <3>3. /\ Evolves(b, r.p)
            /\ r.p.priv = [b.priv EXCEPT ![x] = x]
            /\ r.p.stmt = [b.stmt EXCEPT ![x] = a.st]
            /\ r.p.declared = b.declared
            /\ r.p.table = b.table /\ r.p.base = b.base /\ r.p.tx = b.tx
        BY <1>2, <2>4, <3>1, <3>2, KeepOk
      <3>4. a.st.pos = NextRow(p, 0)
        BY <2>4, <2>5, <2>8
      <3> QED
        BY SMTT(40), <1>2, <2>4, <3>1, <3>3, <3>4 DEF StartsCursor, Idle, Quiet, CursorsAlone, Evolves
    <2> QED
      BY <2>7, <2>8
  <1> QED
    BY <1>3, <1>4

LEMMA CursorOpenOk ==
    ASSUME NEW p, DriverOk(p), NEW x \in CursorNames, x \in p.declared,
           NEW s \in StmtNames \cup {NoStmt}, NEW o \in cursor_open(p, x, s)
    PROVE  OpensCursor(p, x, s, o)
  <1> USE DEF DBERR_NO_ERROR, DBERR_SQL_ERROR, DBERR_OPEN_CURSOR_FAILED
  <1>0. x \notin StmtNames /\ x # NoStmt /\ x \in Handles /\ NoStmt \notin StmtNames
    BY SqliteAssumption DEF Handles
  <1>1. CASE s = NoStmt
    <2>1. PICK r \in sqlite_exec(p, "SELECT", x) : o = Opened(r, x)
      BY <1>1 DEF cursor_open
    <2>2. CASE r.rc = DBERR_SQL_ERROR /\ Idle(p, r.p)
      <3>1. Idle(r.p, o.p) /\ o.rc = DBERR_OPEN_CURSOR_FAILED
        BY <2>1, <2>2, IdleOk, OpenedFails
      <3>2. Idle(p, o.p)
        BY <2>2, <3>1, IdleThenQuiet, IdleOk
      <3> QED
        BY <3>1, <3>2 DEF OpensCursor, Idle, Quiet, CursorsAlone
    <2>3. CASE r.rc # DBERR_SQL_ERROR
      <3>0. r.rc = DBERR_NO_ERROR /\ StartsCursor(p, x, r.p)
        BY <2>3, ExecCursorOk
      <3>1. /\ r.rc = DBERR_NO_ERROR
            /\ Evolves(p, r.p)
            /\ r.p.priv = [p.priv EXCEPT ![x] = x]
            /\ r.p.declared = p.declared
            /\ r.p.table = p.table /\ r.p.base = p.base /\ r.p.tx = p.tx
        BY <3>0 DEF StartsCursor
      <3>2. PICK st \in Stmt : /\ r.p.stmt = [p.stmt EXCEPT ![x] = st]
                               /\ st.pos = NextRow(p, 0)
        BY <3>0 DEF StartsCursor
      <3>3. /\ r.p.priv[x] = x
            /\ \A y \in CursorNames \ {x} : r.p.priv[y] = p.priv[y] /\ r.p.stmt[y] = p.stmt[y]
            /\ r.p.stmt[x] = st
            /\ DriverOk(r.p)
        BY <1>0, <3>1, <3>2 DEF DriverOk, Driver, Evolves, Handles
      <3>4. /\ OnlyStatement(r.p, o.p, x, [r.p.stmt[x] EXCEPT !.first = TRUE])
            /\ o.p.table = r.p.table /\ o.p.base = r.p.base /\ o.p.tx = r.p.tx
            /\ o.rc = DBERR_NO_ERROR
        <4>1. PICK h : h = r.p.priv[x]
          OBVIOUS
        <4>2. h = x /\ h # NoStmt
          BY <1>0, <3>3, <4>1
        <4>3. /\ OnlyStatement(r.p, o.p, h, [r.p.stmt[h] EXCEPT !.first = TRUE])
              /\ o.p.table = r.p.table /\ o.p.base = r.p.base /\ o.p.tx = r.p.tx
              /\ o.rc = DBERR_NO_ERROR
          <5>1. /\ DriverOk(r.p) /\ r.rc = DBERR_NO_ERROR /\ h = r.p.priv[x] /\ h # NoStmt
                /\ o = Opened(r, x) /\ x \in CursorNames
            BY <2>1, <3>1, <3>3, <4>1, <4>2
          <5> QED
            BY ONLY <5>1, OpenedSucceeds
        <4> QED
          BY <4>2, <4>3
      <3>5. [st EXCEPT !.first = TRUE].pos = NextRow(p, 0) /\ [st EXCEPT !.first = TRUE].first
        BY <3>2 DEF Stmt
      <3>6. /\ o.p.stmt[x] = [r.p.stmt[x] EXCEPT !.first = TRUE]
            /\ \A y \in CursorNames \ {x} : o.p.stmt[y] = r.p.stmt[y]
        BY <1>0, <3>3, <3>4 DEF OnlyStatement, DriverOk, Driver, Handles
      <3>7. Evolves(p, o.p)
        BY <3>1, <3>4 DEF Evolves, OnlyStatement
      <3> QED
        BY ZenonT(60), <1>1, <3>1, <3>3, <3>4, <3>5, <3>6, <3>7 DEF OpensCursor, OnlyStatement
    <2> QED
      BY <2>2, <2>3, ExecCursorOk
  <1>2. CASE s # NoStmt /\ p.stmt[s] = NoStatement
    <2>1. o.p = p /\ o.rc = DBERR_OPEN_CURSOR_FAILED
      BY <1>2, ReturnsFields DEF cursor_open
    <2> QED
      BY <2>1, IdleRefl DEF OpensCursor, Idle, Quiet
  <1>3. CASE s # NoStmt /\ p.stmt[s] # NoStatement
    <2>0. s \in StmtNames /\ s \in Handles /\ s \notin CursorNames
      BY <1>3, SqliteAssumption DEF Handles
    <2>1. PICK a \in Step(p, p.stmt[s]) :
             LET r == Ran(a, s)
             IN  o = Opened(IF r.rc = DBERR_NO_ERROR THEN [r EXCEPT !.p.priv[x] = s] ELSE r, x)
      BY <1>3 DEF cursor_open
    <2>2. p.stmt[s] \in Stmt /\ p.stmt[s].text \in AllStatements
      BY <1>3, <2>0 DEF DriverOk, Driver
    <2>3. EngineStep(p, p.stmt[s], a) /\ a.st.text \in AllStatements
      BY <2>2, StepOk DEF EngineStep
    <2>4. PICK r : r = Ran(a, s)
      OBVIOUS
    <2>5. /\ OnlyStatement(p, r.p, s, a.st)
          /\ r.rc = IF a.rc = SQLITE_ERROR THEN DBERR_SQL_ERROR ELSE DBERR_NO_ERROR
      BY <2>0, <2>2, <2>3, <2>4, RanOk
    <2>6. DriverOk(r.p) /\ Quiet(p, r.p) /\ r.p.stmt[s].text \in AllStatements
      <3>1. Quiet(p, r.p) /\ DriverOk(r.p)
        BY <2>0, <2>5, StatementQuiet DEF OnlyStatement, Evolves
      <3>2. r.p.stmt[s] = a.st
        BY <2>0, <2>5 DEF OnlyStatement, DriverOk, Driver
      <3> QED
        BY <2>3, <3>1, <3>2
    <2>7. CASE r.rc # DBERR_NO_ERROR
      <3>1. o = Opened(r, x) /\ r.rc = DBERR_SQL_ERROR
        BY <2>1, <2>4, <2>5, <2>7
      <3>2. Idle(r.p, o.p) /\ o.rc = DBERR_OPEN_CURSOR_FAILED
        BY <2>6, <3>1, OpenedFails
      <3>3. Quiet(p, o.p)
        BY <2>6, <3>2, QuietThenIdle
      <3> QED
        BY <1>3, <3>2, <3>3 DEF OpensCursor, Quiet, CursorsAlone
    <2>8. CASE r.rc = DBERR_NO_ERROR
      <3>1. PICK q : q = [r.p EXCEPT !.priv[x] = s]
        OBVIOUS
      <3>2. PICK t : t = [r EXCEPT !.p.priv[x] = s]
        OBVIOUS
      <3>3. t.p = q /\ t.rc = DBERR_NO_ERROR /\ o = Opened(t, x)
        <4>1. o = Opened(t, x)
          BY <2>1, <2>4, <2>8, <3>2
        <4>2. r = Returns(r.p, r.rc)
          BY <2>4, ReturnsFields DEF Ran
        <4>3. t.p = q /\ t.rc = r.rc
          BY <3>1, <3>2, <4>2 DEF Returns
        <4> QED
          BY <2>8, <4>1, <4>3
      <3>4. OnlyPrivate(r.p, q, x, s)
        <4>1. x \in r.p.declared /\ s \in StmtNames
          BY <2>0, <2>5 DEF OnlyStatement
        <4> QED
          BY <2>6, <3>1, <4>1, SetPrivateData
      <3>5. /\ DriverOk(q) /\ q.priv[x] = s
            /\ \A y \in CursorNames \ {x} : q.priv[y] = r.p.priv[y]
        BY <2>6, <3>4 DEF OnlyPrivate, Evolves, DriverOk, Driver
      <3>6. /\ OnlyStatement(q, o.p, s, [q.stmt[s] EXCEPT !.first = TRUE])
            /\ o.p.table = q.table /\ o.p.base = q.base /\ o.p.tx = q.tx
            /\ o.rc = DBERR_NO_ERROR
        BY <1>3, <3>3, <3>5, OpenedSucceeds
      <3>7. Quiet(q, o.p)
        BY <2>0, <3>5, <3>6, StatementQuiet
      <3> QED
        BY <1>3, <2>6, <3>4, <3>5, <3>6, <3>7
           DEF OpensCursor, OnlyPrivate, Quiet, CursorsAlone, Evolves
    <2> QED
      BY <2>7, <2>8
  <1> QED
    BY <1>1, <1>2, <1>3

\* What a FETCH of cursor x may do to its driver.
FetchesFrom(p, x, r) ==
    /\ Evolves(p, r.p)
    /\ r.p.declared = p.declared
    /\ r.p.priv = p.priv
    /\ r.rc \in {DBERR_NO_ERROR, DBERR_NO_DATA, DBERR_SQL_ERROR, DBERR_FETCH_ROW_FAILED}
    /\ \A y \in CursorNames \ {x} : r.p.stmt[y] = p.stmt[y]
    /\ p.priv[x] # x => r.p.stmt[x] = p.stmt[x]
    /\ p.priv[x] = x =>
          LET k == NextRow(p, p.stmt[x].pos)
          IN  /\ r.p.table = p.table
              /\ r.p.stmt[x].first = FALSE
              /\ p.stmt[x].first =>
                    r.rc = DBERR_NO_ERROR /\ r.p.stmt[x].pos = p.stmt[x].pos
              /\ ~p.stmt[x].first =>
                    /\ r.rc = DBERR_NO_ERROR => k # 0 /\ r.p.stmt[x].pos = k
                    /\ r.rc = DBERR_NO_DATA => k = 0
                    /\ r.rc # DBERR_NO_ERROR => r.p.stmt[x].pos = 0

LEMMA CursorFetchOk ==
    ASSUME NEW p, DriverOk(p), NEW x \in CursorNames, NEW o \in cursor_fetch_one(p, x)
    PROVE  FetchesFrom(p, x, o)
  <1> USE DEF DBERR_NO_ERROR, DBERR_NO_DATA, DBERR_SQL_ERROR, DBERR_FETCH_ROW_FAILED
  <1>0. x \in Handles /\ x # NoStmt /\ x \notin StmtNames
    BY SqliteAssumption DEF Handles
  <1>1. CASE p.priv[x] = NoStmt
    <2>1. o.p = p /\ o.rc = DBERR_FETCH_ROW_FAILED
      BY <1>1, ReturnsFields DEF cursor_fetch_one
    <2> QED
      BY <1>0, <1>1, <2>1, IdleRefl DEF FetchesFrom, Idle, Quiet
  <1>2. CASE p.priv[x] # NoStmt
    <2>1. PICK h : h = p.priv[x]
      OBVIOUS
    <2>2. /\ h \in Handles /\ h \in StmtNames \cup {x} /\ p.stmt[h] \in Stmt
          /\ p.stmt[h].text \in AllStatements
      BY <1>2, <2>1 DEF DriverOk, Driver, Handles
    <2>3. h \in CursorNames => h = x /\ p.stmt[h].text = "SELECT"
      BY <2>2, SqliteAssumption DEF DriverOk, NoStatement
    <2>4. \A q, st : OnlyStatement(p, q, h, st) =>
             /\ Evolves(p, q) /\ q.declared = p.declared /\ q.priv = p.priv
             /\ \A y \in CursorNames : q.stmt[y] = IF y = h THEN st ELSE p.stmt[y]
      BY <2>2 DEF OnlyStatement, DriverOk, Driver, Handles
    <2>5. CASE p.stmt[h].first
      <3> DEFINE st == [p.stmt[h] EXCEPT !.first = FALSE]
      <3>1. o.p = [p EXCEPT !.stmt[h] = st] /\ o.rc = DBERR_NO_ERROR
        <4>1. o = Returns([p EXCEPT !.stmt[h].first = FALSE], DBERR_NO_ERROR)
          BY <1>2, <2>1, <2>5 DEF cursor_fetch_one
        <4>2. [p EXCEPT !.stmt[h].first = FALSE] = [p EXCEPT !.stmt[h] = st]
          OBVIOUS
        <4> QED
          BY <4>1, <4>2, ReturnsFields
      <3>2. /\ st \in Stmt /\ st.text = p.stmt[h].text /\ st.first = FALSE
            /\ st.pos = p.stmt[h].pos
        BY <2>2 DEF Stmt
      <3> HIDE DEF st
      <3>3. OnlyStatement(p, o.p, h, st) /\ o.p.table = p.table
        <4>1. /\ st.text \in AllStatements
              /\ h \in CursorNames => st.text = "SELECT"
          BY <2>2, <2>3, <3>2
        <4>2. /\ OnlyStatement(p, [p EXCEPT !.stmt[h] = st], h, st)
              /\ [p EXCEPT !.stmt[h] = st].table = p.table
          BY <2>2, <3>2, <4>1, ReplaceStatement
        <4> QED
          BY <3>1, <4>2
      <3>4. /\ Evolves(p, o.p) /\ o.p.declared = p.declared /\ o.p.priv = p.priv
            /\ \A y \in CursorNames : o.p.stmt[y] = IF y = h THEN st ELSE p.stmt[y]
        BY <2>4, <3>3
      <3>5. o.rc = DBERR_NO_ERROR
        BY <3>1
      <3> QED
        BY <2>1, <2>2, <2>3, <2>5, <3>2, <3>3, <3>4, <3>5 DEF FetchesFrom
    <2>6. CASE ~p.stmt[h].first
      <3>1. PICK a \in Step(p, p.stmt[h]) :
               o = IF a.rc = SQLITE_DONE THEN Returns(Ran(a, h).p, DBERR_NO_DATA) ELSE Ran(a, h)
        BY <1>2, <2>1, <2>6 DEF cursor_fetch_one
      <3>2. /\ EngineStep(p, p.stmt[h], a)
            /\ h \in CursorNames => Moves(p, p.stmt[h], a)
        BY <2>2, <2>3, StepOk
      <3>3. PICK r : r = Ran(a, h)
        OBVIOUS
      <3>4. /\ OnlyStatement(p, r.p, h, a.st)
            /\ r.rc = IF a.rc = SQLITE_ERROR THEN DBERR_SQL_ERROR ELSE DBERR_NO_ERROR
            /\ r.p.table = a.p.table
        BY <2>2, <2>3, <3>2, <3>3, RanOk
      <3>5. o.p = r.p /\ o.rc = IF a.rc = SQLITE_DONE THEN DBERR_NO_DATA ELSE r.rc
        BY <3>1, <3>3, ReturnsFields
      <3>6. a.st.first = FALSE
        BY <2>2, <2>6, <3>2 DEF EngineStep, Stmt
      <3>7. /\ a.rc \in {SQLITE_ERROR, SQLITE_ROW, SQLITE_DONE}
            /\ h = x => /\ a.p = p
                        /\ a.rc = SQLITE_ERROR => a.st.pos = 0
                        /\ a.rc # SQLITE_ERROR =>
                              /\ a.st.pos = NextRow(p, p.stmt[h].pos)
                              /\ a.rc = IF a.st.pos = 0 THEN SQLITE_DONE ELSE SQLITE_ROW
        BY <3>2 DEF EngineStep, Moves
      <3>8. /\ Evolves(p, o.p) /\ o.p.declared = p.declared /\ o.p.priv = p.priv
            /\ \A y \in CursorNames : o.p.stmt[y] = IF y = h THEN a.st ELSE p.stmt[y]
        BY <2>4, <3>4, <3>5
      <3> QED
        BY <2>1, <2>2, <2>3, <2>6, <3>4, <3>5, <3>6, <3>7, <3>8
           DEF FetchesFrom, SQLITE_ERROR, SQLITE_ROW, SQLITE_DONE
    <2> QED
      BY <2>5, <2>6
  <1> QED
    BY <1>1, <1>2

---------------------------------------------------------------------------
(* The inductive invariant of the composition.                             *)

\* Every driver is sound; a connection that is registered is open, one that does
\* not exist yet is not.
SqDrivers ==
    /\ sq \in [ConnIds -> Driver]
    /\ \A c \in ConnIds :
          /\ DriverOk(sq[c])
          /\ sq[c].connaddr \/ sq[c] = NullDriver
          /\ sq[c].connaddr => c <= next_conn_id
          /\ c \in connections => sq[c].connaddr

(***************************************************************************)
(* The driver of a connection and the registry agree on whose cursor it    *)
(* is; the cursor's private data is the statement it was declared for; an  *)
(* open cursor has some.                                                   *)
(***************************************************************************)
SqCursors ==
    /\ source \in [CursorNames -> StmtNames \cup {NoStmt}]
    /\ \A x \in CursorNames :
          /\ x \notin cursors => cursor[x].conn = NoConn
          /\ \A c \in ConnIds : x \in sq[c].declared <=> cursor[x].conn = c
          /\ cursor[x].conn # NoConn =>
                LET p == sq[cursor[x].conn]
                IN  /\ p.priv[x] \in {NoStmt, IF source[x] = NoStmt THEN x ELSE source[x]}
                    /\ cursor[x].open => p.priv[x] # NoStmt

\* A transaction began with the rows that are committed.
SqMarks ==
    /\ mark \in [ConnIds -> SUBSET Keys]
    /\ \A c \in ConnIds : sq[c].tx => sq[c].base = mark[c]

\* Where the statement st of a cursor stands, given what the program has fetched:
\* the rows it has not seen lie ahead.
Stands(st, k, rows) ==
    /\ k # 0 => k = st.pos
    /\ st.first => \A j \in rows : st.pos # 0 /\ st.pos <= j
    /\ ~st.first => \A j \in rows : st.pos < j

\* What a cursor with a statement of its own still has to deliver.
SqOwed ==
    /\ owed \in [CursorNames -> SUBSET Keys]
    /\ reached \in [CursorNames -> Keys \cup {0}]
    /\ \A x \in CursorNames :
          /\ cursor[x].conn = NoConn => owed[x] = {} /\ reached[x] = 0
          /\ cursor[x].conn # NoConn /\ source[x] = NoStmt =>
                LET p == sq[cursor[x].conn]
                IN  /\ owed[x] \subseteq p.table
                    /\ p.priv[x] = NoStmt => owed[x] = {} /\ reached[x] = 0
                    /\ p.priv[x] = x => Stands(p.stmt[x], reached[x], owed[x])

\* The answer told about cursor x passes over none of the rows.
AnswerFits(a, x, rows) ==
    /\ a.kind = "nodata" => rows = {}
    /\ a.kind = "row" /\ a.row = 0 => rows = {}
    /\ a.kind = "row" => \A k \in rows : a.row <= k

SqAnswers ==
    \A x \in CursorNames :
        answer.x = x /\ source[x] = NoStmt => AnswerFits(answer, x, owed[x])

\* A call that failed has left a negative SQLCODE.
SqFailures ==
    ret.rc = "FAILED" /\ ret.call \in {"exec", "prepare", "cursor"} => sqlcode = "error"

SqInv ==
    /\ StateInv
    /\ SqDrivers
    /\ SqCursors
    /\ SqMarks
    /\ SqOwed
    /\ SqAnswers
    /\ NorecCode > 0 => SqFailures

LEMMA InitSqInv == SqInit => SqInv
  <1> SUFFICES ASSUME SqInit PROVE SqInv
    OBVIOUS
  <1>1. StateInv
    BY InitStateInv DEF SqInit
  <1>2. SqDrivers
    BY NullDriverOk DEF SqInit, Init, ConnInit, SqDrivers, DriverOk, NullDriver
  <1>3. \A x \in CursorNames : cursor[x].conn = NoConn
    BY DEF SqInit, Init, CurInit, NullCursor
  <1>4. SqCursors
    BY <1>3 DEF SqInit, SqCursors, NullDriver, ConnIds, NoConn
  <1>5. SqMarks
    BY DEF SqInit, SqMarks, NullDriver
  <1>6. SqOwed
    BY <1>3 DEF SqInit, SqOwed
  <1>7. SqAnswers
    BY DEF SqInit, SqAnswers, NoAnswer, AnswerFits
  <1>8. SqFailures
    BY DEF SqInit, Init, SqFailures
  <1> QED
    BY <1>1, <1>2, <1>4, <1>5, <1>6, <1>7, <1>8 DEF SqInv

---------------------------------------------------------------------------
(* Calls that leave the cursors of the drivers alone.                      *)

\* The runtime has at most closed cursors.
CursorsKept ==
    /\ UNCHANGED <<next_conn_id, connections, cursors>>
    /\ \A x \in CursorNames :
          /\ cursor'[x].conn = cursor[x].conn
          /\ cursor'[x].open => cursor[x].open

\* The drivers have left their cursors alone; only open connections are used.
DriversQuiet ==
    /\ sq' \in [ConnIds -> Driver]
    /\ \A c \in ConnIds : /\ Quiet(sq[c], sq'[c])
                          /\ sq[c].connaddr \/ sq'[c] = sq[c]

LEMMA FreshIdle ==
    ASSUME SqDrivers, NEW c \in ConnIds
    PROVE  DriverOk(Fresh(c)) /\ Idle(sq[c], Fresh(c))
  BY ZenonT(60) DEF SqDrivers, Fresh, Idle, Quiet, Evolves, CursorsAlone, DriverOk, Driver

LEMMA UnchangedQuiet ==
    ASSUME SqDrivers, UNCHANGED sq
    PROVE  DriversQuiet
  BY IdleRefl, IdleOk DEF SqDrivers, DriversQuiet

LEMMA BecomesQuiet ==
    ASSUME SqDrivers, NEW c \in ConnIds, NEW q, Becomes(c, q), Quiet(Fresh(c), q),
           sq[c].connaddr
    PROVE  DriversQuiet
  <1>1. Quiet(sq[c], q) /\ q \in Driver
    BY FreshIdle, IdleThenQuiet DEF Quiet, Evolves, DriverOk
  <1>2. \A d \in ConnIds : Quiet(sq[d], sq[d])
    BY IdleRefl, IdleOk DEF SqDrivers
  <1> QED
    BY <1>1, <1>2 DEF Becomes, SqDrivers, DriversQuiet

LEMMA QuietDrivers ==
    ASSUME SqDrivers, CursorsKept, DriversQuiet
    PROVE  SqDrivers'
  BY DEF SqDrivers, CursorsKept, DriversQuiet, Quiet, Evolves

LEMMA QuietCursors ==
    ASSUME SqCursors, CursorsKept, DriversQuiet, CurTypeOK, UNCHANGED source
    PROVE  SqCursors'
  BY DEF SqCursors, CursorsKept, DriversQuiet, Quiet, CursorsAlone, CurTypeOK, Cursor

LEMMA StandsFewer ==
    ASSUME NEW st, NEW k, NEW rows, NEW few \in SUBSET rows, Stands(st, k, rows)
    PROVE  Stands(st, k, few)
  BY DEF Stands

LEMMA QuietOwed ==
    ASSUME SqOwed, CursorsKept, DriversQuiet, CurTypeOK, UNCHANGED source,
           owed' = [y \in CursorNames |-> StillThere(y, owed[y])],
           reached' = [y \in CursorNames |->
                          IF cursor'[y].conn = NoConn THEN 0 ELSE reached[y]]
    PROVE  SqOwed'
  <1>1. \A x \in CursorNames : cursor[x].conn \in ConnIds \cup {NoConn}
    BY DEF CurTypeOK, Cursor
  <1>2. owed' \in [CursorNames -> SUBSET Keys] /\ reached' \in [CursorNames -> Keys \cup {0}]
    BY DEF SqOwed, StillThere
  <1>3. ASSUME NEW x \in CursorNames, cursor[x].conn # NoConn, source[x] = NoStmt
        PROVE  LET p == sq'[cursor[x].conn]
               IN  /\ owed'[x] \subseteq p.table
                   /\ p.priv[x] = NoStmt => owed'[x] = {} /\ reached'[x] = 0
                   /\ p.priv[x] = x => Stands(p.stmt[x], reached'[x], owed'[x])
    <2> DEFINE p == sq[cursor[x].conn]
               q == sq'[cursor[x].conn]
    <2>1. q.priv = p.priv /\ q.stmt[x] = p.stmt[x]
      BY <1>1, <1>3 DEF DriversQuiet, Quiet, CursorsAlone
    <2>2. owed'[x] = owed[x] \cap q.table /\ reached'[x] = reached[x]
      BY <1>3 DEF CursorsKept, StillThere
    <2>3. /\ p.priv[x] = NoStmt => owed[x] = {} /\ reached[x] = 0
          /\ p.priv[x] = x => Stands(p.stmt[x], reached[x], owed[x])
      BY <1>3 DEF SqOwed
    <2> QED
      BY <2>1, <2>2, <2>3, StandsFewer
  <1>4. ASSUME NEW x \in CursorNames, cursor[x].conn = NoConn
        PROVE  owed'[x] = {} /\ reached'[x] = 0
    BY <1>4 DEF CursorsKept, StillThere
  <1> QED
    BY <1>2, <1>3, <1>4 DEF SqOwed, CursorsKept

\* What the observer of the transactions remembers of a call with statement op.
LEMMA MarksKept ==
    ASSUME SqDrivers, SqMarks, NEW by, NEW op, NEW x, Watch(by, op, x),
           sq' \in [ConnIds -> Driver],
           \A c \in ConnIds :
              \/ sq'[c] = sq[c]
              \/ ~sq'[c].tx
              \/ ~sq[c].connaddr /\ sq'[c].base = sq'[c].table
              \/ sq[c].connaddr /\ Evolves(sq[c], sq'[c]),
           \A c \in ConnIds :
              (/\ op \in {"BEGIN", "COMMIT", "ROLLBACK"}
               /\ ret'.rc = "SUCCESS" /\ ret'.conn = c)
              => sq'[c].tx # sq[c].tx
    PROVE  SqMarks'
  <1> SUFFICES ASSUME NEW c \in ConnIds
               PROVE  mark'[c] \in SUBSET Keys /\ (sq'[c].tx => sq'[c].base = mark'[c])
    BY DEF Watch, SqMarks
  <1>1. mark'[c] = IF \/ sq'[c].tx # sq[c].tx \/ ~sq[c].connaddr
                      \/ /\ op \in {"BEGIN", "COMMIT", "ROLLBACK"}
                         /\ ret'.rc = "SUCCESS" /\ ret'.conn = c
                   THEN sq'[c].table ELSE mark[c]
    BY DEF Watch
  <1>2. mark'[c] = IF sq'[c].tx # sq[c].tx \/ ~sq[c].connaddr THEN sq'[c].table ELSE mark[c]
    BY <1>1
  <1>3. sq[c] \in Driver /\ sq'[c] \in Driver
    BY DEF SqDrivers
  <1>4. ~sq[c].connaddr => ~sq[c].tx
    BY DEF SqDrivers, NullDriver
  <1> QED
    BY <1>2, <1>3, <1>4 DEF SqMarks, Evolves, Driver

---------------------------------------------------------------------------
(* Statements.                                                             *)

LEMMA KeptCursors ==
    ASSUME CurTypeOK, RegistriesKept
    PROVE  CursorsKept
  BY DEF CurTypeOK, RegistriesKept, CursorsKept, DriverClosed, Cursor, connVars, registry

\* With a positive no-record code an error never looks like anything else.
LEMMA NegativeStatus ==
    ASSUME NorecCode > 0, NEW code \in Int, code <= 0, NEW err \in Int, err < 0,
           err # DBERR_NO_DATA
    PROVE  Status(code, err) = "error"
  BY NorecAssumption
     DEF Status, Outcome, setStatus, is_data_error, DBERR_NO_ERROR, DBERR_NO_DATA,
         DBERR_NUM_OUT_OF_RANGE

LEMMA ReportsFailure ==
    ASSUME NorecCode > 0, NEW r, DriverOk(r.p), NEW err \in Int, err < 0,
           err # DBERR_NO_DATA, Reports(r, err), ret'.rc = "FAILED"
    PROVE  sqlcode' = "error"
  BY NegativeStatus DEF Reports, DriverOk, Driver

LEMMA ReportsSuccess ==
    ASSUME NEW r, NEW err, Reports(r, err), ret'.rc = "SUCCESS"
    PROVE  r.rc = DBERR_NO_ERROR
  BY DEF Reports

\* The part of the invariant that every step re-establishes in the same way.
LEMMA AnswerForgotten ==
    ASSUME answer' = NoAnswer
    PROVE  SqAnswers'
  BY SqliteAssumption DEF SqAnswers, NoAnswer

LEMMA StatementStep ==
    ASSUME SqInv, NEW n \in Names \cup {NoName}, StatementOn(n),
           DriversQuiet, UNCHANGED source, NEW by, NEW op, NEW x, WatchCall(by, op, x),
           (/\ get(n) # NoConn
            /\ op \in {"BEGIN", "COMMIT", "ROLLBACK"}
            /\ ret'.rc = "SUCCESS") => sq'[get(n)].tx # sq[get(n)].tx,
           (/\ get(n) # NoConn
            /\ NorecCode > 0
            /\ ret'.rc = "FAILED"
            /\ ret'.call # "first_row") => sqlcode' = "error"
    PROVE  SqInv'
  <1>1. StateInv /\ CurTypeOK /\ SqDrivers /\ SqCursors /\ SqMarks /\ SqOwed
    BY DEF SqInv, StateInv
  <1>2. /\ RegistriesKept
        /\ ret'.conn = get(n)
        /\ get(n) = NoConn => /\ ret'.rc = "FAILED"
                              /\ sqlcode' = Status(NoDbi, DBERR_CONN_NOT_FOUND)
    BY <1>1, StatementShared
  <1>3. CursorsKept
    BY <1>1, <1>2, KeptCursors
  <1>4. StateInv'
    <2>1. AnyCall
      BY DEF StatementOn, AnyCall
    <2> QED
      BY <1>1, <2>1, AnyCallStateInv
  <1>5. SqDrivers' /\ SqCursors' /\ SqOwed'
    BY <1>1, <1>3, QuietDrivers, QuietCursors, QuietOwed DEF WatchCall
  <1>6. SqMarks'
    <2>1. NoConn \notin ConnIds
      BY DEF NoConn, ConnIds
    <2>2. /\ sq' \in [ConnIds -> Driver]
          /\ \A c \in ConnIds : sq'[c] = sq[c] \/ (sq[c].connaddr /\ Evolves(sq[c], sq'[c]))
      BY DEF DriversQuiet, Quiet
    <2> QED
      BY <1>1, <1>2, <2>1, <2>2, MarksKept DEF WatchCall
  <1>7. SqAnswers'
    BY AnswerForgotten DEF WatchCall
  <1>8. NorecCode > 0 => SqFailures'
    <2>1. NorecCode > 0 => Status(NoDbi, DBERR_CONN_NOT_FOUND) = "error"
      BY NegativeStatus DEF NoDbi, DBERR_CONN_NOT_FOUND, DBERR_NO_DATA
    <2> QED
      BY <1>2, <2>1 DEF SqFailures
  <1> QED
    BY <1>4, <1>5, <1>6, <1>7, <1>8 DEF SqInv

\* What the action properties say of one step.
TxTruth ==
    (alive' /\ sent'.by \in {"exec", "prepared"} /\ ret'.rc = "SUCCESS") =>
        /\ sent'.stmt = "COMMIT" => sq'[ret'.conn].base = sq[ret'.conn].table
        /\ sent'.stmt = "ROLLBACK" => sq'[ret'.conn].table = mark[ret'.conn]

HitTruth ==
    \A y \in CursorNames :
        PositionedOn(y) => TouchesOnly(sq[ret'.conn], sq'[ret'.conn], reached[y])

RowTruth ==
    \A x \in CursorNames :
        answer'.x = x /\ source[x] = NoStmt => AnswerFits(answer', x, owed[x])

GoodStep ==
    /\ SqInv'
    /\ TxTruth
    /\ HitTruth
    /\ RowTruth

LEMMA NoAnswerRow ==
    ASSUME answer' = NoAnswer
    PROVE  RowTruth
  BY SqliteAssumption DEF RowTruth, NoAnswer

LEMMA NotPositioned ==
    ASSUME NEW by, NEW op, NEW x, Watch(by, op, x), by \notin {"positioned", "positioned_dollar"}
    PROVE  HitTruth
  BY DEF Watch, HitTruth, PositionedOn, Positioned

LEMMA NotTransaction ==
    ASSUME NEW by, NEW op, NEW x, Watch(by, op, x), by \notin {"exec", "prepared"}
    PROVE  TxTruth
  BY DEF Watch, TxTruth

\* The driver of a connection that a name finds.
LEMMA FoundDriver ==
    ASSUME SqInv, NEW n \in Names \cup {NoName}, NEW c, c = get(n), c # NoConn
    PROVE  /\ c \in ConnIds
           /\ sq[c].connaddr
           /\ DriverOk(Fresh(c))
           /\ Idle(sq[c], Fresh(c))
  <1>1. StateInv /\ SqDrivers /\ ConnTypeOK
    BY DEF SqInv, StateInv
  <1>2. c \in ConnIds /\ c \in connections
    BY <1>1, GetType, GetRegistered DEF ConnTypeOK
  <1> QED
    BY <1>1, <1>2, FreshIdle DEF SqDrivers

\* A transaction statement that ran and was reported as successful.
LEMMA ExecTruth ==
    ASSUME SqInv, NEW c \in ConnIds, Idle(sq[c], Fresh(c)), NEW r, Becomes(c, r.p),
           NEW op, ret'.rc = "SUCCESS" => EndsTruthfully(Fresh(c), r.p, op),
           ret'.conn = c, NEW by, NEW x, Watch(by, op, x)
    PROVE  /\ TxTruth
           /\ op \in {"BEGIN", "COMMIT", "ROLLBACK"} /\ ret'.rc = "SUCCESS" =>
                 sq'[c].tx # sq[c].tx
  <1>1. sq'[c] = r.p /\ SqMarks
    BY DEF Becomes, SqInv, SqDrivers
  <1>2. /\ Fresh(c).tx = sq[c].tx /\ Fresh(c).base = sq[c].base
        /\ Fresh(c).table = sq[c].table
    BY DEF Idle
  <1>3. sent'.stmt = op
    BY DEF Watch
  <1> QED
    BY <1>1, <1>2, <1>3 DEF TxTruth, EndsTruthfully, SqMarks

\* A name that finds nothing: the call fails and the drivers are not reached.
LEMMA NotFoundStep ==
    ASSUME SqInv, NEW n \in Names \cup {NoName}, StatementOn(n), get(n) = NoConn,
           UNCHANGED <<sq, source>>, NEW by, NEW op, NEW x, WatchCall(by, op, x)
    PROVE  GoodStep
  <1>1. SqDrivers /\ StateInv /\ CurTypeOK
    BY DEF SqInv, StateInv
  <1>2. DriversQuiet
    BY <1>1, UnchangedQuiet
  <1>3. SqInv'
    BY <1>2, StatementStep
  <1>4. ret'.rc = "FAILED" /\ ret'.conn = NoConn
    BY <1>1, StatementShared
  <1>5. TxTruth /\ HitTruth
    BY <1>4 DEF TxTruth, HitTruth, PositionedOn
  <1>6. RowTruth
    BY NoAnswerRow DEF WatchCall
  <1> QED
    BY <1>3, <1>5, <1>6 DEF GoodStep

LEMMA SqExecGood ==
    ASSUME SqInv, NEW n \in Names \cup {NoName}, NEW s \in Statements, SqExec(n, s)
    PROVE  GoodStep
  <1>1. PICK c : c = get(n)
    OBVIOUS
  <1>2. StatementOn(n)
    BY RuntimeAssumption DEF SqExec, StatementOn, QueryKind, Queries
  <1>3. CASE c = NoConn
    BY <1>1, <1>2, <1>3, NotFoundStep DEF SqExec
  <1>4. CASE c # NoConn
    <2>1. PICK r \in exec(Fresh(c), s) : Reports(r, DBERR_SQL_ERROR) /\ Becomes(c, r.p)
      BY <1>1, <1>4 DEF SqExec
    <2>2. /\ c \in ConnIds /\ sq[c].connaddr /\ DriverOk(Fresh(c)) /\ Idle(sq[c], Fresh(c))
          /\ SqDrivers /\ CurTypeOK
      BY <1>1, <1>4, FoundDriver DEF SqInv, StateInv
    <2>3. /\ Quiet(Fresh(c), r.p)
          /\ r.rc = DBERR_NO_ERROR => EndsTruthfully(Fresh(c), r.p, s)
      BY <2>2, ExecOk, SqliteAssumption
    <2>4. DriversQuiet
      BY <2>1, <2>2, <2>3, BecomesQuiet
    <2>5. WatchCall("exec", s, NoStmt) /\ Watch("exec", s, NoStmt) /\ UNCHANGED source
      BY DEF SqExec, WatchCall
    <2>6. ret'.conn = c
      BY <1>1, <1>2, <2>2, StatementShared
    <2>7. /\ TxTruth
          /\ s \in {"BEGIN", "COMMIT", "ROLLBACK"} /\ ret'.rc = "SUCCESS" =>
                 sq'[c].tx # sq[c].tx
      BY <2>1, <2>2, <2>3, <2>5, <2>6, ExecTruth, ReportsSuccess
    <2>8. NorecCode > 0 /\ ret'.rc = "FAILED" => sqlcode' = "error"
      BY <2>1, <2>3, ReportsFailure
         DEF Quiet, Evolves, DBERR_SQL_ERROR, DBERR_NO_DATA
    <2>9. SqInv'
      BY <1>1, <1>2, <2>4, <2>5, <2>7, <2>8, StatementStep
    <2>10. HitTruth /\ RowTruth
      BY <2>5, NotPositioned, NoAnswerRow DEF WatchCall
    <2> QED
      BY <2>7, <2>9, <2>10 DEF GoodStep
  <1> QED
    BY <1>3, <1>4

LEMMA SqPositionedGood ==
    ASSUME SqInv, NEW n \in Names \cup {NoName}, NEW op \in {"UPDATE", "DELETE"},
           NEW y \in CursorNames, NEW style, SqPositioned(n, op, y, style)
    PROVE  GoodStep
  <1>1. PICK c : c = get(n)
    OBVIOUS
  <1>2. StatementOn(n)
    BY RuntimeAssumption DEF SqPositioned, StatementOn, Queries
  <1>3. CASE c = NoConn
    BY <1>1, <1>2, <1>3, NotFoundStep DEF SqPositioned
  <1>4. CASE c # NoConn
    <2>1. PICK r \in positioned(Fresh(c), op, y, style) :
             Reports(r, DBERR_SQL_ERROR) /\ Becomes(c, r.p)
      BY <1>1, <1>4 DEF SqPositioned
    <2>2. /\ c \in ConnIds /\ sq[c].connaddr /\ DriverOk(Fresh(c)) /\ Idle(sq[c], Fresh(c))
          /\ SqDrivers /\ SqCursors /\ SqOwed /\ CurTypeOK
      BY <1>1, <1>4, FoundDriver DEF SqInv, StateInv
    <2>3. /\ Quiet(Fresh(c), r.p)
          /\ r.rc \in {DBERR_NO_ERROR, DBERR_SQL_ERROR}
          /\ PositionedEffect(Fresh(c), r.p, r.rc, op, y, style)
      <3>1. Fresh(c).hit = {}
        BY <2>2 DEF Fresh, SqDrivers, DriverOk, Driver
      <3> QED
        BY <2>2, <3>1, PositionedOk
    <2>4. DriversQuiet
      BY <2>1, <2>2, <2>3, BecomesQuiet
    <2>5. /\ WatchCall(PositionedBy(style), op, y) /\ Watch(PositionedBy(style), op, y)
          /\ UNCHANGED source
      BY DEF SqPositioned, WatchCall
    <2>6. ret'.conn = c
      BY <1>1, <1>2, <2>2, StatementShared
    <2>7. NorecCode > 0 /\ ret'.rc = "FAILED" => sqlcode' = "error"
      BY <2>1, <2>3, ReportsFailure
         DEF Quiet, Evolves, DBERR_SQL_ERROR, DBERR_NO_DATA
    <2>8. SqInv'
      BY <1>1, <1>2, <2>4, <2>5, <2>7, StatementStep
    <2>9. HitTruth
      <3> SUFFICES ASSUME source[y] = NoStmt, reached[y] # 0
                   PROVE  TouchesOnly(sq[c], sq'[c], reached[y])
        <4>1. sent'.x = y
          BY <2>5 DEF Watch
        <4> QED
          BY <2>6, <4>1 DEF HitTruth, PositionedOn
      <3>1. sent'.stmt = op /\ sent'.by = PositionedBy(style)
        BY <2>5 DEF Watch
      <3>2. sq'[c] = r.p
        BY <2>1, <2>2 DEF Becomes, SqDrivers
      <3>3. ret'.rc = "SUCCESS" <=> r.rc = DBERR_NO_ERROR
        BY <2>1, ReportsSuccess DEF Reports
      <3>4. /\ Fresh(c).declared = sq[c].declared /\ Fresh(c).table = sq[c].table
            /\ CurrentRow(Fresh(c), y) = CurrentRow(sq[c], y)
        BY <2>2 DEF CurrentRow, Idle, Quiet, CursorsAlone
      <3>5. CASE /\ r.p.hit = {}
                 /\ r.p.table = Fresh(c).table
                 /\ r.rc = DBERR_NO_ERROR => style = "dollar"
        BY <3>1, <3>2, <3>3, <3>4, <3>5 DEF TouchesOnly, PositionedBy
      <3>6. CASE /\ r.rc = DBERR_NO_ERROR
                 /\ y \in Fresh(c).declared
                 /\ r.p.hit = {CurrentRow(Fresh(c), y)}
                 /\ r.p.table = IF op = "DELETE" THEN Fresh(c).table \ r.p.hit
                                                 ELSE Fresh(c).table
        <4>1. cursor[y].conn = c /\ sq[c].priv[y] \in {NoStmt, y}
          BY <1>4, <2>2, <3>4, <3>6 DEF SqCursors
        <4>2. sq[c].priv[y] = y /\ reached[y] = sq[c].stmt[y].pos
          BY <1>4, <2>2, <4>1 DEF SqOwed, Stands
        <4>3. CurrentRow(sq[c], y) = reached[y]
          BY <4>2, SqliteAssumption DEF CurrentRow
        <4> QED
          BY <3>1, <3>2, <3>3, <3>4, <3>6, <4>3 DEF TouchesOnly
      <3> QED
        BY <2>3, <3>5, <3>6 DEF PositionedEffect
    <2>10. TxTruth /\ RowTruth
      BY <2>5, NotTransaction, NoAnswerRow DEF WatchCall, PositionedBy
    <2> QED
      BY <2>8, <2>9, <2>10 DEF GoodStep
  <1> QED
    BY <1>3, <1>4

LEMMA SqPrepareGood ==
    ASSUME SqInv, NEW n \in Names \cup {NoName}, NEW s \in StmtNames,
           NEW text \in Statements, SqPrepare(n, s, text)
    PROVE  GoodStep
  <1>1. PICK c : c = get(n)
    OBVIOUS
  <1>2. StatementOn(n) /\ WatchCall("none", NoStmt, NoStmt) /\ UNCHANGED source
    BY RuntimeAssumption DEF SqPrepare, StatementOn, Queries, WatchOther
  <1>3. CASE c = NoConn
    BY <1>1, <1>2, <1>3, NotFoundStep DEF SqPrepare
  <1>4. CASE c # NoConn
    <2>1. PICK r \in prepare(Fresh(c), s, text) :
             Reports(r, DBERR_SQL_ERROR) /\ Becomes(c, r.p)
      BY <1>1, <1>4 DEF SqPrepare
    <2>2. /\ c \in ConnIds /\ sq[c].connaddr /\ DriverOk(Fresh(c)) /\ Idle(sq[c], Fresh(c))
          /\ SqDrivers
      BY <1>1, <1>4, FoundDriver DEF SqInv
    <2>3. Quiet(Fresh(c), r.p)
      BY <2>2, PrepareOk, SqliteAssumption
    <2>4. DriversQuiet
      BY <2>1, <2>2, <2>3, BecomesQuiet
    <2>5. NorecCode > 0 /\ ret'.rc = "FAILED" => sqlcode' = "error"
      BY <2>1, <2>3, ReportsFailure
         DEF Quiet, Evolves, DBERR_SQL_ERROR, DBERR_NO_DATA
    <2>6. SqInv'
      BY <1>1, <1>2, <2>4, <2>5, StatementStep, SqliteAssumption DEF AllStatements
    <2>7. HitTruth /\ TxTruth /\ RowTruth
      BY <1>2, NotPositioned, NotTransaction, NoAnswerRow DEF WatchCall
    <2> QED
      BY <2>6, <2>7 DEF GoodStep
  <1> QED
    BY <1>3, <1>4

LEMMA SqExecPreparedGood ==
    ASSUME SqInv, NEW n \in Names \cup {NoName}, NEW s \in StmtNames, SqExecPrepared(n, s)
    PROVE  GoodStep
  <1>1. PICK c : c = get(n)
    OBVIOUS
  <1>2. PICK op : op = IF c = NoConn THEN NoStmt ELSE sq[c].stmt[s].text
    OBVIOUS
  <1>3. /\ StatementOn(n) /\ UNCHANGED source /\ WatchCall("prepared", op, NoStmt)
        /\ Watch("prepared", op, NoStmt)
    BY <1>1, <1>2, RuntimeAssumption DEF SqExecPrepared, StatementOn, Queries, WatchCall
  <1>4. CASE c = NoConn
    BY <1>1, <1>3, <1>4, NotFoundStep DEF SqExecPrepared
  <1>5. CASE c # NoConn
    <2>1. PICK r \in exec_prepared(Fresh(c), s) :
             Reports(r, DBERR_SQL_ERROR) /\ Becomes(c, r.p)
      BY <1>1, <1>5 DEF SqExecPrepared
    <2>2. /\ c \in ConnIds /\ sq[c].connaddr /\ DriverOk(Fresh(c)) /\ Idle(sq[c], Fresh(c))
          /\ SqDrivers /\ CurTypeOK
      BY <1>1, <1>5, FoundDriver DEF SqInv, StateInv
    <2>3. /\ Quiet(Fresh(c), r.p)
          /\ r.rc = DBERR_NO_ERROR => EndsTruthfully(Fresh(c), r.p, op)
      <3>1. Fresh(c).stmt[s].text = op
        BY <1>2, <1>5, <2>2 DEF Idle
      <3> QED
        BY <2>2, <3>1, ExecPreparedOk
    <2>4. DriversQuiet
      BY <2>1, <2>2, <2>3, BecomesQuiet
    <2>5. ret'.conn = c
      BY <1>1, <1>3, <2>2, StatementShared
    <2>6. /\ TxTruth
          /\ op \in {"BEGIN", "COMMIT", "ROLLBACK"} /\ ret'.rc = "SUCCESS" =>
                 sq'[c].tx # sq[c].tx
      BY <1>3, <2>1, <2>2, <2>3, <2>5, ExecTruth, ReportsSuccess
    <2>7. NorecCode > 0 /\ ret'.rc = "FAILED" => sqlcode' = "error"
      BY <2>1, <2>3, ReportsFailure
         DEF Quiet, Evolves, DBERR_SQL_ERROR, DBERR_NO_DATA
    <2>8. SqInv'
      BY <1>1, <1>3, <2>4, <2>6, <2>7, StatementStep
    <2>9. HitTruth /\ RowTruth
      BY <1>3, NotPositioned, NoAnswerRow DEF WatchCall
    <2> QED
      BY <2>6, <2>8, <2>9 DEF GoodStep
  <1> QED
    BY <1>4, <1>5

LEMMA IntoOk ==
    ASSUME SqInv, NEW c \in ConnIds, sq[c].connaddr, DriverOk(Fresh(c)),
           Idle(sq[c], Fresh(c)), NEW r, Quiet(Fresh(c), r.p), NEW op,
           r.rc = DBERR_NO_ERROR => EndsTruthfully(Fresh(c), r.p, op),
           NEW s, NEW nRes, Into(c, r, s, nRes)
    PROVE  /\ DriversQuiet
           /\ op \in {"BEGIN", "COMMIT", "ROLLBACK"} /\ ret'.rc = "SUCCESS" =>
                 sq'[c].tx # sq[c].tx
           /\ NorecCode > 0 /\ ret'.rc = "FAILED" /\ ret'.call # "first_row" =>
                 sqlcode' = "error"
  <1> USE DEF DBERR_SQL_ERROR, DBERR_NO_DATA, DBERR_NO_ERROR
  <1>1. SqDrivers /\ DriverOk(r.p)
    BY DEF SqInv, Quiet, Evolves
  <1>2. /\ Fresh(c).tx = sq[c].tx
        /\ \A q : Becomes(c, q) => sq'[c] = q
    BY <1>1 DEF Idle, Becomes, SqDrivers
  <1>3. CASE r.rc # DBERR_NO_ERROR
    <2>1. Reports(r, DBERR_SQL_ERROR) /\ Becomes(c, r.p)
      BY <1>3 DEF Into
    <2>2. DriversQuiet
      BY <1>1, <2>1, BecomesQuiet
    <2>3. ret'.rc # "SUCCESS"
      BY <1>3, <2>1, ReportsSuccess
    <2>4. NorecCode > 0 /\ ret'.rc = "FAILED" => sqlcode' = "error"
      BY <1>1, <2>1, ReportsFailure
    <2> QED
      BY <2>2, <2>3, <2>4
  <1>4. CASE r.rc = DBERR_NO_ERROR
    <2>1. PICK m : m = move_to_first_record(r.p, s)
      OBVIOUS
    <2>2. /\ Becomes(c, m.p)
          /\ IF m.rc # DBERR_NO_ERROR
             THEN ret'.call = "first_row" /\ sqlcode' = Status(m.rc, m.rc)
             ELSE ret'.call = "exec" /\ IntoReports(m.p, nRes)
      BY <1>4, <2>1 DEF Into
    <2>3. Idle(r.p, m.p) /\ DriverOk(m.p) /\ Quiet(Fresh(c), m.p)
      BY <1>1, <2>1, MoveToFirstOk, QuietThenIdle, IdleOk
    <2>4. DriversQuiet
      BY <1>1, <2>2, <2>3, BecomesQuiet
    <2>5. sq'[c].tx = r.p.tx
      BY <1>2, <2>2, <2>3 DEF Idle
    <2>6. NorecCode > 0 /\ ret'.rc = "FAILED" /\ ret'.call # "first_row" =>
                 sqlcode' = "error"
      <3> SUFFICES ASSUME NorecCode > 0, ret'.rc = "FAILED", IntoReports(m.p, nRes)
                   PROVE  sqlcode' = "error"
        BY <2>2
      <3>1. m.p.last_rc \in Int /\ m.p.last_rc <= 0 /\ NoDbi \in Int /\ NoDbi <= 0
        BY <2>3 DEF DriverOk, Driver, NoDbi
      <3>2. /\ Status(NoDbi, DBERR_FIELD_COUNT_MISMATCH) = "error"
            /\ Status(m.p.last_rc, DBERR_INVALID_COLUMN_DATA) = "error"
            /\ Status(m.p.last_rc, DBERR_NUM_OUT_OF_RANGE) = "error"
        BY <3>1, NegativeStatus
           DEF DBERR_FIELD_COUNT_MISMATCH, DBERR_INVALID_COLUMN_DATA, DBERR_NUM_OUT_OF_RANGE
      <3> QED
        BY <3>2 DEF IntoReports
    <2> QED
      BY <1>2, <1>4, <2>4, <2>5, <2>6 DEF EndsTruthfully
  <1> QED
    BY <1>3, <1>4

LEMMA SqIntoGood ==
    ASSUME SqInv, NEW n \in Names \cup {NoName}, NEW nRes \in 0..MaxVars,
           \/ SqSelectInto(n, nRes)
           \/ \E s \in StmtNames : SqExecPreparedInto(n, s, nRes)
    PROVE  GoodStep
  <1>1. PICK c : c = get(n)
    OBVIOUS
  <1>2. PICK by, op : /\ by \notin {"exec", "prepared", "positioned", "positioned_dollar"}
                      /\ WatchCall(by, op, NoStmt)
                      /\ c = NoConn => UNCHANGED sq
                      /\ c # NoConn =>
                            \/ /\ op = "SELECT"
                               /\ \E r \in exec(Fresh(c), op) : Into(c, r, NoStmt, nRes)
                            \/ \E s \in StmtNames :
                                  /\ op = sq[c].stmt[s].text
                                  /\ \E r \in exec_prepared(Fresh(c), s) : Into(c, r, s, nRes)
    <2>1. CASE SqSelectInto(n, nRes)
      <3>1. /\ WatchCall("select_into", "SELECT", NoStmt)
            /\ c = NoConn => UNCHANGED sq
            /\ c # NoConn => \E r \in exec(Fresh(c), "SELECT") : Into(c, r, NoStmt, nRes)
        BY <1>1, <2>1 DEF SqSelectInto
      <3> QED
        BY <3>1
    <2>2. ASSUME NEW s \in StmtNames, SqExecPreparedInto(n, s, nRes)
          PROVE  \E by, op : /\ by \notin {"exec", "prepared", "positioned", "positioned_dollar"}
                             /\ WatchCall(by, op, NoStmt)
                             /\ c = NoConn => UNCHANGED sq
                             /\ c # NoConn =>
                                   \E t \in StmtNames :
                                      /\ op = sq[c].stmt[t].text
                                      /\ \E r \in exec_prepared(Fresh(c), t) :
                                            Into(c, r, t, nRes)
      <3>1. PICK op : op = IF c = NoConn THEN NoStmt ELSE sq[c].stmt[s].text
        OBVIOUS
      <3>2. /\ WatchCall("prepared_into", op, NoStmt)
            /\ c = NoConn => UNCHANGED sq
            /\ c # NoConn => /\ op = sq[c].stmt[s].text
                             /\ \E r \in exec_prepared(Fresh(c), s) : Into(c, r, s, nRes)
        BY <1>1, <2>2, <3>1 DEF SqExecPreparedInto
      <3> QED
        BY <3>2
    <2> QED
      BY <2>1, <2>2
  <1>3. StatementOn(n) /\ UNCHANGED source
    BY RuntimeAssumption DEF SqSelectInto, SqExecPreparedInto, StatementOn, Queries
  <1>4. CASE c = NoConn
    BY <1>1, <1>2, <1>3, <1>4, NotFoundStep
  <1>5. CASE c # NoConn
    <2>1. /\ c \in ConnIds /\ sq[c].connaddr /\ DriverOk(Fresh(c)) /\ Idle(sq[c], Fresh(c))
      BY <1>1, <1>5, FoundDriver
    <2>2. PICK r, s : /\ Into(c, r, s, nRes)
                      /\ Quiet(Fresh(c), r.p)
                      /\ r.rc = DBERR_NO_ERROR => EndsTruthfully(Fresh(c), r.p, op)
      <3>1. CASE /\ op = "SELECT"
                 /\ \E r \in exec(Fresh(c), op) : Into(c, r, NoStmt, nRes)
        <4>1. op \in AllStatements
          BY <3>1 DEF AllStatements
        <4> QED
          BY <2>1, <3>1, <4>1, ExecOk
      <3>2. CASE \E s \in StmtNames :
                    /\ op = sq[c].stmt[s].text
                    /\ \E r \in exec_prepared(Fresh(c), s) : Into(c, r, s, nRes)
        <4>1. PICK s \in StmtNames :
                    /\ op = sq[c].stmt[s].text
                    /\ \E r \in exec_prepared(Fresh(c), s) : Into(c, r, s, nRes)
          BY <3>2
        <4>2. PICK r \in exec_prepared(Fresh(c), s) : Into(c, r, s, nRes)
          BY <4>1
        <4>3. Fresh(c).stmt[s].text = op
          BY <2>1, <4>1 DEF Idle
        <4>4. /\ Quiet(Fresh(c), r.p)
              /\ r.rc = DBERR_NO_ERROR => EndsTruthfully(Fresh(c), r.p, op)
          BY <2>1, <4>2, <4>3, ExecPreparedOk
        <4> QED
          BY <4>2, <4>4
      <3> QED
        BY <1>2, <1>5, <3>1, <3>2
    <2>3. /\ DriversQuiet
          /\ op \in {"BEGIN", "COMMIT", "ROLLBACK"} /\ ret'.rc = "SUCCESS" =>
                sq'[c].tx # sq[c].tx
          /\ NorecCode > 0 /\ ret'.rc = "FAILED" /\ ret'.call # "first_row" =>
                sqlcode' = "error"
      BY <2>1, <2>2, IntoOk
    <2>4. SqInv'
      BY <1>1, <1>2, <1>3, <2>3, StatementStep
    <2>5. HitTruth /\ TxTruth /\ RowTruth
      BY <1>2, NotPositioned, NotTransaction, NoAnswerRow DEF WatchCall
    <2> QED
      BY <2>4, <2>5 DEF GoodStep
  <1> QED
    BY <1>4, <1>5

---------------------------------------------------------------------------
(* The other calls.                                                        *)

\* What every call that is not a statement has to show.
LEMMA CallStep ==
    ASSUME SqInv, AnyCall, Watch("none", NoStmt, NoStmt),
           SqDrivers', SqCursors', SqOwed', SqAnswers', RowTruth,
           \A c \in ConnIds :
              \/ sq'[c] = sq[c]
              \/ ~sq'[c].tx
              \/ ~sq[c].connaddr /\ sq'[c].base = sq'[c].table
              \/ sq[c].connaddr /\ Evolves(sq[c], sq'[c]),
           NorecCode > 0 => SqFailures'
    PROVE  GoodStep
  <1>1. StateInv'
    BY AnyCallStateInv DEF SqInv
  <1>2. NoStmt \notin {"BEGIN", "COMMIT", "ROLLBACK"}
    BY SqliteAssumption DEF AllStatements
  <1>3. SqMarks'
    BY <1>2, MarksKept DEF SqInv, SqDrivers
  <1>4. HitTruth /\ TxTruth
    BY NotPositioned, NotTransaction
  <1> QED
    BY <1>1, <1>3, <1>4 DEF GoodStep, SqInv

LEMMA QuietStep ==
    ASSUME SqInv, AnyCall, CursorsKept, DriversQuiet, UNCHANGED source, WatchOther,
           NorecCode > 0 => SqFailures'
    PROVE  GoodStep
  <1>1. CurTypeOK /\ SqDrivers /\ SqCursors /\ SqOwed
    BY DEF SqInv, StateInv
  <1>2. SqDrivers' /\ SqCursors' /\ SqOwed'
    BY <1>1, QuietDrivers, QuietCursors, QuietOwed DEF WatchOther, WatchCall
  <1>3. SqAnswers' /\ RowTruth /\ Watch("none", NoStmt, NoStmt)
    BY AnswerForgotten, NoAnswerRow DEF WatchOther, WatchCall
  <1>4. \A c \in ConnIds : sq'[c] = sq[c] \/ (sq[c].connaddr /\ Evolves(sq[c], sq'[c]))
    BY DEF DriversQuiet, Quiet
  <1> QED
    BY <1>2, <1>3, <1>4, CallStep

LEMMA SqVarListsGood ==
    ASSUME SqInv, SqVarLists
    PROVE  GoodStep
  <1>1. AnyCall
    BY DEF SqVarLists, AnyCall
  <1>2. CursorsKept /\ ret'.call = "varlist"
    BY ReturnIs
       DEF SqVarLists, GIXSQLStartSQL, GIXSQLSetResultParams, VarListCall, CursorsKept,
           connVars, registry, curVars
  <1>3. DriversQuiet /\ UNCHANGED source /\ WatchOther
    BY UnchangedQuiet DEF SqInv, SqVarLists
  <1> QED
    BY <1>1, <1>2, <1>3, QuietStep DEF SqFailures

LEMMA SqPositionedCrashGood ==
    ASSUME SqInv, NEW n, NEW y, SqPositionedCrash(n, y)
    PROVE  GoodStep
  <1>1. /\ UNCHANGED <<connVars, curVars, loopVars, sqlcode, ret, sq, source, observers>>
        /\ ~alive'
    BY DEF SqPositionedCrash
  <1>2. StateInv'
    BY <1>1, UnchangedStateInv DEF SqInv
  <1>3. SqDrivers' /\ SqCursors' /\ SqMarks' /\ SqOwed' /\ SqAnswers'
    BY <1>1 DEF SqInv, observers, connVars, registry, curVars, SqDrivers, SqCursors, SqMarks,
                SqOwed, SqAnswers
  <1>4. NorecCode > 0 => SqFailures'
    BY <1>1 DEF SqInv, SqFailures
  <1>5. TxTruth /\ HitTruth
    BY <1>1 DEF TxTruth, HitTruth, PositionedOn
  <1>6. RowTruth
    BY <1>1 DEF SqInv, SqAnswers, RowTruth, observers
  <1> QED
    BY <1>2, <1>3, <1>4, <1>5, <1>6 DEF GoodStep, SqInv

\* A cursor that is bound to a connection is declared with its driver.
LEMMA BoundDriver ==
    ASSUME SqInv, NEW x \in CursorNames, NEW c, c = cursor[x].conn, c # NoConn
    PROVE  /\ c \in ConnIds
           /\ x \in cursors
           /\ x \in sq[c].declared
           /\ sq[c].connaddr
           /\ DriverOk(Fresh(c))
           /\ Idle(sq[c], Fresh(c))
  <1>1. SqDrivers /\ SqCursors /\ CurTypeOK
    BY DEF SqInv, StateInv
  <1>2. c \in ConnIds
    BY <1>1 DEF CurTypeOK, Cursor
  <1>3. x \in sq[c].declared /\ x \in cursors
    BY <1>1, <1>2 DEF SqCursors
  <1>4. sq[c] # NullDriver
    BY <1>3 DEF NullDriver
  <1> QED
    BY <1>1, <1>2, <1>3, <1>4, FreshIdle DEF SqDrivers

LEMMA SqCloseGood ==
    ASSUME SqInv, NEW x \in CursorNames, SqClose(x)
    PROVE  GoodStep
  <1>1. PICK c : c = cursor[x].conn
    OBVIOUS
  <1>2. AnyCall
    BY DEF SqClose, AnyCall
  <1>3. SqDrivers /\ CurTypeOK /\ StateInv
    BY DEF SqInv, StateInv
  <1>4. UNCHANGED source /\ WatchOther
    BY DEF SqClose
  <1>5. NorecCode > 0 => Status(NoDbi, DBERR_NO_SUCH_CURSOR) = "error"
    BY NegativeStatus DEF NoDbi, DBERR_NO_SUCH_CURSOR, DBERR_NO_DATA
  <1>6. CASE x \in cursors /\ cursor[x].open
    <2>1. c # NoConn
      BY <1>1, <1>3, <1>6 DEF StateInv, NoNullInterface
    <2>2. /\ c \in ConnIds /\ sq[c].connaddr /\ DriverOk(Fresh(c))
      BY <1>1, <2>1, BoundDriver
    <2>3. ret'.rc = "SUCCESS" /\ Becomes(c, Fresh(c))
      BY <1>1, <1>6 DEF SqClose, cursor_close
    <2>4. DriversQuiet
      BY <1>3, <2>2, <2>3, BecomesQuiet, IdleRefl, IdleOk
    <2>5. /\ cursor' = [cursor EXCEPT ![x] = Reclosed(x, cursor[x].conn)]
          /\ UNCHANGED <<connVars, cursors>>
      BY <1>6 DEF SqClose, GIXSQLCursorClose, NoSuchCursor
    <2>6. CursorsKept
      BY <1>3, <2>5
         DEF CursorsKept, Reclosed, Bound, DriverClosed, CurTypeOK, Cursor, connVars, registry
    <2> QED
      BY <1>2, <1>4, <2>3, <2>4, <2>6, QuietStep DEF SqFailures
  <1>7. CASE ~(x \in cursors /\ cursor[x].open)
    <2>1. DriversQuiet
      BY <1>3, <1>7, UnchangedQuiet DEF SqClose
    <2>2. UNCHANGED <<connVars, curVars>>
      BY <1>7 DEF SqClose, GIXSQLCursorClose, NoSuchCursor, StateUnchanged
    <2>3. CursorsKept
      BY <2>2 DEF CursorsKept, connVars, registry, curVars
    <2>4. ret'.rc = "SUCCESS" \/ sqlcode' = Status(NoDbi, DBERR_NO_SUCH_CURSOR)
      BY <1>7, ReturnIs DEF SqClose, GIXSQLCursorClose, NoSuchCursor, Fail, Succeed
    <2> QED
      BY <1>2, <1>4, <1>5, <2>1, <2>3, <2>4, QuietStep DEF SqFailures
  <1> QED
    BY <1>6, <1>7

\* A connection goes with its driver and its cursors.
LEMMA TerminatedStep ==
    ASSUME SqInv, AnyCall, NEW c \in ConnIds, clearConnectionCursors(c),
           connections' = connections \ {c}, UNCHANGED next_conn_id,
           Becomes(c, NullDriver), UNCHANGED source, WatchOther, ret'.rc = "SUCCESS"
    PROVE  GoodStep
  <1>1. CurTypeOK /\ SqDrivers /\ SqCursors /\ SqOwed
    BY DEF SqInv, StateInv
  <1>2. /\ sq' \in [ConnIds -> Driver]
        /\ sq'[c] = NullDriver
        /\ \A d \in ConnIds \ {c} : sq'[d] = sq[d]
    BY <1>1, NullDriverOk DEF Becomes, SqDrivers, DriverOk
  <1>3. \A x \in CursorNames :
           /\ cursor[x] \in Cursor
           /\ cursor'[x] = IF cursor[x].conn = c THEN NullCursor ELSE cursor[x]
           /\ x \notin cursors' => x \notin cursors \/ cursor[x].conn = c
    BY <1>1 DEF clearConnectionCursors, CursorsOf, CurTypeOK, SqCursors, NoConn, ConnIds
  <1>4. \A x \in CursorNames :
           /\ cursor[x].conn = c => cursor'[x].conn = NoConn
           /\ cursor[x].conn # c => cursor'[x] = cursor[x]
    BY <1>3 DEF NullCursor
  <1>5. SqDrivers'
    BY <1>1, <1>2, NullDriverOk DEF SqDrivers, NullDriver
  <1>6. SqCursors'
    <2>1. source' \in [CursorNames -> StmtNames \cup {NoStmt}]
      BY <1>1 DEF SqCursors
    <2> SUFFICES ASSUME NEW x \in CursorNames
                 PROVE  /\ x \notin cursors' => cursor'[x].conn = NoConn
                        /\ \A d \in ConnIds : x \in sq'[d].declared <=> cursor'[x].conn = d
                        /\ cursor'[x].conn # NoConn =>
                              LET p == sq'[cursor'[x].conn]
                              IN  /\ p.priv[x] \in {NoStmt, IF source[x] = NoStmt
                                                            THEN x ELSE source[x]}
                                  /\ cursor'[x].open => p.priv[x] # NoStmt
      BY <2>1 DEF SqCursors
    <2>2. sq'[c].declared = {} /\ NoConn \notin ConnIds
      BY <1>2 DEF NullDriver, NoConn, ConnIds
    <2>3. CASE cursor[x].conn = c
      BY <1>1, <1>2, <1>4, <2>2, <2>3 DEF SqCursors
    <2>4. CASE cursor[x].conn # c
      BY SMTT(40), <1>1, <1>2, <1>3, <1>4, <2>2, <2>4 DEF SqCursors, Cursor
    <2> QED
      BY <2>3, <2>4
  <1>7. SqOwed'
    <2>1. /\ owed' = [y \in CursorNames |-> StillThere(y, owed[y])]
          /\ reached' = [y \in CursorNames |->
                            IF cursor'[y].conn = NoConn THEN 0 ELSE reached[y]]
      BY DEF WatchOther, WatchCall
    <2>2. \A x \in CursorNames :
             cursor'[x].conn # NoConn =>
                /\ cursor'[x] = cursor[x]
                /\ cursor[x].conn \in ConnIds \ {c}
                /\ sq'[cursor[x].conn] = sq[cursor[x].conn]
      BY <1>2, <1>3, <1>4 DEF Cursor
    <2> QED
      BY SMTT(40), <1>1, <2>1, <2>2 DEF SqOwed, Stands, StillThere
  <1>8. SqAnswers' /\ RowTruth /\ Watch("none", NoStmt, NoStmt)
    BY AnswerForgotten, NoAnswerRow DEF WatchOther, WatchCall
  <1>9. \A d \in ConnIds : sq'[d] = sq[d] \/ ~sq'[d].tx
    BY <1>2 DEF NullDriver
  <1> QED
    BY <1>5, <1>6, <1>7, <1>8, <1>9, CallStep DEF SqFailures

LEMMA SqConnectResetGood ==
    ASSUME SqInv, NEW n \in Names \cup {NoName}, SqConnectReset(n)
    PROVE  GoodStep
  <1>1. PICK c : c = get(n)
    OBVIOUS
  <1>2. AnyCall /\ UNCHANGED source /\ WatchOther /\ StateInv /\ SqDrivers
    BY DEF SqConnectReset, AnyCall, SqInv
  <1>3. CASE c = NoConn
    <2>1. ResetNotFound("reset") /\ UNCHANGED sq
      BY <1>1, <1>3 DEF SqConnectReset, GIXSQLConnectReset, Terminated
    <2>2. CursorsKept
      BY <2>1 DEF ResetNotFound, CursorsKept, connVars, registry, curVars
    <2>3. ret'.call = "reset"
      BY <2>1, ReturnIs DEF ResetNotFound, Fail
    <2> QED
      BY <1>2, <2>1, <2>2, <2>3, UnchangedQuiet, QuietStep DEF SqFailures
  <1>4. CASE c # NoConn
    <2>1. ret'.rc = "SUCCESS" /\ Becomes(c, NullDriver)
      BY <1>1, <1>4 DEF SqConnectReset, Terminated
    <2>2. ResetOk("reset", c)
      <3>1. ~ResetFails("reset", c)
        BY <2>1, ReturnIs DEF ResetFails, DriverFail
      <3> QED
        BY <1>1, <1>4, <3>1 DEF SqConnectReset, GIXSQLConnectReset
    <2>3. c \in ConnIds
      BY <1>1, <1>2, <1>4, GetRegistered
    <2> QED
      BY <1>2, <2>1, <2>2, <2>3, TerminatedStep DEF ResetOk, remove
  <1> QED
    BY <1>3, <1>4

LEMMA SqResetAllGood ==
    ASSUME SqInv, SqResetAll
    PROVE  GoodStep
  <1>1. UNCHANGED source /\ WatchOther /\ StateInv /\ SqDrivers
    BY DEF SqResetAll, SqInv
  <1>2. CASE ResetAllBegin /\ UNCHANGED sq
    <2>1. AnyCall /\ CursorsKept /\ UNCHANGED <<sqlcode, ret>>
      BY <1>2 DEF ResetAllBegin, AnyCall, CursorsKept, connVars, registry, curVars
    <2>2. NorecCode > 0 => SqFailures'
      BY <2>1 DEF SqInv, SqFailures
    <2> QED
      BY <1>1, <1>2, <2>1, <2>2, UnchangedQuiet, QuietStep
  <1>3. CASE ResetAllEnd /\ UNCHANGED sq
    <2>1. AnyCall /\ CursorsKept
      BY <1>3 DEF ResetAllEnd, AnyCall, CursorsKept, connVars, registry, curVars
    <2>2. ret'.call = "resetall"
      BY <1>3, ReturnIs DEF ResetAllEnd, Succeed
    <2> QED
      BY <1>1, <1>3, <2>1, <2>2, UnchangedQuiet, QuietStep DEF SqFailures
  <1>4. CASE ResetAllStep /\ Terminated(ret'.conn)
    <2>1. AnyCall
      BY <1>4 DEF AnyCall
    <2>2. PICK d, t :
             /\ d \in pending
             /\ t = get(conn[d].name)
             /\ \/ t = NoConn /\ ResetNotFound("resetall")
                \/ t # NoConn /\ ResetFails("resetall", t)
                \/ t # NoConn /\ ResetOk("resetall", t)
      BY <1>4 DEF ResetAllStep
    <2>3. conn[d].name \in Names
      BY <1>1, <2>2 DEF StateInv, ConnectionsNamed
    <2>4. CASE t = NoConn /\ ResetNotFound("resetall")
      <3>1. ret'.call = "resetall" /\ ret'.conn = NoConn
        BY <2>4, ReturnIs DEF ResetNotFound, Fail
      <3>2. UNCHANGED sq /\ CursorsKept
        BY <1>4, <2>4, <3>1
           DEF ResetNotFound, Terminated, CursorsKept, connVars, registry, curVars
      <3> QED
        BY <1>1, <2>1, <3>1, <3>2, UnchangedQuiet, QuietStep DEF SqFailures
    <2>5. CASE t # NoConn /\ ResetFails("resetall", t)
      <3>1. ret'.conn = t /\ ret'.rc = "FAILED"
        BY <2>5, ReturnIs DEF ResetFails, DriverFail
      <3> QED
        BY <1>4, <2>5, <3>1 DEF Terminated
    <2>6. CASE t # NoConn /\ ResetOk("resetall", t)
      <3>1. ret'.conn = t /\ ret'.rc = "SUCCESS"
        BY <2>6, ReturnIs DEF ResetOk, Succeed
      <3>2. Becomes(t, NullDriver)
        BY <1>4, <2>6, <3>1 DEF Terminated
      <3>3. t \in ConnIds
        BY <1>1, <2>2, <2>3, <2>6, GetRegistered
      <3> QED
        BY <1>1, <2>1, <2>6, <3>1, <3>2, <3>3, TerminatedStep DEF ResetOk, remove
    <2> QED
      BY <2>2, <2>4, <2>5, <2>6
  <1> QED
    BY <1>2, <1>3, <1>4 DEF SqResetAll

\* No cursor is bound to a connection whose driver is replaced.
LEMMA SqConnectOkGood ==
    ASSUME SqInv, NEW n \in Names \cup {NoName}, SqConnect(n), ConnectOk(n)
    PROVE  GoodStep
  <1>1. PICK id, old : id = next_conn_id + 1 /\ old = Replaced(n)
    OBVIOUS
  <1>2. /\ StateInv /\ CurTypeOK /\ ConnTypeOK /\ SqDrivers /\ SqCursors /\ SqOwed
        /\ NoConn \notin ConnIds
    BY DEF SqInv, StateInv, NoConn, ConnIds
  <1>3. AnyCall /\ UNCHANGED source /\ WatchOther
    BY DEF SqConnect, AnyCall
  <1>4. /\ id \in ConnIds /\ next_conn_id \in Nat
        /\ next_conn_id' = id /\ id # next_conn_id
        /\ connections' = (connections \ {old}) \cup {id}
        /\ UNCHANGED curVars
    BY <1>1, <1>2, NamesAssumption DEF ConnectOk, add, ConnTypeOK, ConnIds
  <1>5. PICK off \in OffModes, rows \in SUBSET Keys :
              sq' = [c \in ConnIds |->
                        IF c = id THEN connect(off, rows)
                        ELSE IF conn'[c].session = conn[c].session THEN sq[c]
                        ELSE NullDriver]
    BY <1>4 DEF SqConnect
  <1>6. /\ DriverOk(connect(off, rows)) /\ connect(off, rows) \in Driver
        /\ connect(off, rows).connaddr
        /\ connect(off, rows).declared = {}
        /\ connect(off, rows).base = connect(off, rows).table
    BY ZenonT(60), ConnectOkDriver, SqliteCompositionAssumption DEF DriverOk, connect, NullDriver
  <1>7. sq[id] = NullDriver /\ ~sq[id].connaddr
    BY <1>1, <1>2, <1>4 DEF SqDrivers
  <1>8. \A c \in ConnIds : c # id /\ conn'[c].session # conn[c].session =>
                              c = old /\ CursorsOf(old) = {}
    <2>1. PICK s \in SessionsAfterReplacing(old) :
              conn' = [i \in ConnIds |->
                          IF i = id THEN [name |-> NameFor(n, id), dbi |-> TRUE,
                                          pinned |-> FALSE, session |-> "live"]
                          ELSE IF i = old THEN [conn[i] EXCEPT !.session = s]
                          ELSE conn[i]]
      BY <1>1 DEF ConnectOk
    <2>2. \A c \in ConnIds : conn[c] \in Connection
      BY <1>2 DEF ConnTypeOK
    <2>3. \A c \in ConnIds : c # id /\ conn'[c].session # conn[c].session =>
                                c = old /\ s # conn[c].session
      BY <2>1, <2>2 DEF Connection
    <2> QED
      BY <1>2, <2>1, <2>3 DEF SessionsAfterReplacing, Destroyed
  <1>9. \A x \in CursorNames, c \in ConnIds :
           cursor[x].conn = c => sq'[c] = sq[c]
    <2> SUFFICES ASSUME NEW x \in CursorNames, NEW c \in ConnIds, cursor[x].conn = c
                 PROVE  sq'[c] = sq[c]
      OBVIOUS
    <2>1. x \in sq[c].declared /\ x \in CursorsOf(c)
      BY <1>2 DEF SqCursors, CursorsOf
    <2>2. c # id
      BY <1>7, <2>1 DEF NullDriver
    <2>3. conn'[c].session = conn[c].session
      BY <1>8, <2>1, <2>2
    <2> QED
      BY <1>5, <2>2, <2>3
  <1>10. /\ sq' \in [ConnIds -> Driver]
         /\ \A c \in ConnIds :
              \/ sq'[c] = sq[c] /\ c # id
              \/ c = old /\ c # id /\ sq'[c] = NullDriver
              \/ c = id /\ sq'[c] = connect(off, rows)
    BY <1>2, <1>5, <1>6, <1>8, NullDriverOk DEF SqDrivers, DriverOk
  <1>11. SqDrivers'
    <2> SUFFICES ASSUME NEW c \in ConnIds
                 PROVE  /\ DriverOk(sq'[c])
                        /\ sq'[c].connaddr \/ sq'[c] = NullDriver
                        /\ sq'[c].connaddr => c <= next_conn_id'
                        /\ c \in connections' => sq'[c].connaddr
      BY <1>10 DEF SqDrivers
    <2>1. c \in Nat
      BY NamesAssumption DEF ConnIds
    <2>2. CASE sq'[c] = sq[c] /\ c # id
      BY <1>1, <1>2, <1>4, <2>1, <2>2 DEF SqDrivers
    <2>3. CASE c = old /\ c # id /\ sq'[c] = NullDriver
      <3>1. ~NullDriver.connaddr
        BY DEF NullDriver
      <3> QED
        BY <1>4, <2>3, <3>1, NullDriverOk
    <2>4. CASE c = id /\ sq'[c] = connect(off, rows)
      BY <1>4, <1>6, <2>1, <2>4
    <2> QED
      BY <1>10, <2>2, <2>3, <2>4
  <1>12. \A x \in CursorNames, c \in ConnIds : x \in sq'[c].declared <=> cursor[x].conn = c
    <2> SUFFICES ASSUME NEW x \in CursorNames, NEW c \in ConnIds
                 PROVE  x \in sq'[c].declared <=> cursor[x].conn = c
      OBVIOUS
    <2>1. x \in sq[c].declared <=> cursor[x].conn = c
      BY <1>2 DEF SqCursors
    <2>2. sq'[c] = sq[c] \/ sq'[c].declared = {}
      BY <1>6, <1>10 DEF NullDriver
    <2> QED
      BY <1>9, <2>1, <2>2
  <1>13. SqCursors'
    BY <1>2, <1>3, <1>4, <1>9, <1>12 DEF SqCursors, curVars, CurTypeOK, Cursor
  <1>14. SqOwed'
    <2>1. /\ owed' = [y \in CursorNames |-> StillThere(y, owed[y])]
          /\ reached' = [y \in CursorNames |->
                            IF cursor'[y].conn = NoConn THEN 0 ELSE reached[y]]
          /\ cursor' = cursor /\ source' = source
      BY <1>3, <1>4 DEF WatchOther, WatchCall, curVars
    <2>2. \A x \in CursorNames :
             cursor[x].conn # NoConn => sq'[cursor[x].conn] = sq[cursor[x].conn]
      BY <1>2, <1>9 DEF CurTypeOK, Cursor
    <2> QED
      BY ZenonT(60), <1>2, <2>1, <2>2 DEF SqOwed, Stands, StillThere
  <1>15. SqAnswers' /\ RowTruth /\ Watch("none", NoStmt, NoStmt)
    BY <1>3, AnswerForgotten, NoAnswerRow DEF WatchOther, WatchCall
  <1>16. \A c \in ConnIds : \/ sq'[c] = sq[c]
                            \/ ~sq'[c].tx
                            \/ ~sq[c].connaddr /\ sq'[c].base = sq'[c].table
    BY <1>6, <1>7, <1>10 DEF NullDriver
  <1>17. ret'.call = "connect"
    BY ReturnIs DEF ConnectOk, Succeed
  <1> QED
    BY <1>3, <1>11, <1>13, <1>14, <1>15, <1>16, <1>17, CallStep DEF SqFailures

LEMMA SqConnectGood ==
    ASSUME SqInv, NEW n \in Names \cup {NoName}, SqConnect(n)
    PROVE  GoodStep
  <1>1. CASE ConnectOk(n)
    BY <1>1, SqConnectOkGood
  <1>2. CASE ConnectDuplicate(n) \/ ConnectFails(n) \/ ConnectNoLibrary(n)
    <2>1. AnyCall /\ UNCHANGED source /\ WatchOther
      BY DEF SqConnect, AnyCall
    <2>2. UNCHANGED <<connVars, curVars>>
      BY <1>2 DEF ConnectDuplicate, ConnectFails, ConnectNoLibrary, StateUnchanged
    <2>3. UNCHANGED sq /\ CursorsKept
      BY <2>2 DEF SqConnect, CursorsKept, connVars, registry, curVars
    <2>4. ret'.call = "connect" \/ UNCHANGED <<ret, sqlcode>>
      BY <1>2, ReturnIs DEF ConnectDuplicate, ConnectFails, ConnectNoLibrary, Fail, DriverFail
    <2>5. NorecCode > 0 => SqFailures'
      BY <2>4 DEF SqInv, SqFailures
    <2>6. DriversQuiet
      BY <2>3, UnchangedQuiet DEF SqInv
    <2> QED
      BY <2>1, <2>3, <2>5, <2>6, QuietStep
  <1> QED
    BY <1>1, <1>2 DEF SqConnect, GIXSQLConnect

---------------------------------------------------------------------------
(* Calls that work on one cursor.                                          *)

\* The registries change for cursor x only, which is bound to connection c.
TouchesOne(x, c) ==
    /\ UNCHANGED <<next_conn_id, connections>>
    /\ cursors' = cursors \cup {x}
    /\ cursor[x].conn \in {NoConn, c}
    /\ cursor'[x].conn = c
    /\ source' \in [CursorNames -> StmtNames \cup {NoStmt}]
    /\ \A y \in CursorNames \ {x} : cursor'[y] = cursor[y] /\ source'[y] = source[y]

\* So does the driver q of that connection.
DriverTouchesOne(x, c, q) ==
    /\ sq[c].connaddr
    /\ Becomes(c, q)
    /\ Evolves(sq[c], q)
    /\ q.declared = sq[c].declared \cup {x}
    /\ \A y \in CursorNames \ {x} :
          q.priv[y] = sq[c].priv[y] /\ q.stmt[y] = sq[c].stmt[y]
    /\ q.priv[x] \in {NoStmt, IF source'[x] = NoStmt THEN x ELSE source'[x]}
    /\ cursor'[x].open => q.priv[x] # NoStmt

\* So do the observers: x is at k and has the rows still to come.
ObservesOne(x, c, q, rows, k) ==
    /\ owed' = [y \in CursorNames |-> StillThere(y, IF y = x THEN rows ELSE owed[y])]
    /\ reached' \in [CursorNames -> Keys \cup {0}]
    /\ \A y \in CursorNames \ {x} : reached'[y] = reached[y]
    /\ reached'[x] = k
    /\ source'[x] = NoStmt =>
          /\ q.priv[x] = NoStmt => rows \cap q.table = {} /\ k = 0
          /\ q.priv[x] = x => Stands(q.stmt[x], k, rows \cap q.table)

LEMMA OneCursorStep ==
    ASSUME SqInv, AnyCall, NEW x \in CursorNames, NEW c \in ConnIds, NEW q,
           NEW rows \in SUBSET Keys, NEW k,
           TouchesOne(x, c), DriverTouchesOne(x, c, q), ObservesOne(x, c, q, rows, k),
           Watch("none", NoStmt, NoStmt), SqAnswers', RowTruth,
           NorecCode > 0 => SqFailures'
    PROVE  GoodStep
  <1>1. /\ CurTypeOK /\ SqDrivers /\ SqCursors /\ SqOwed /\ NoConn \notin ConnIds
        /\ \A y \in CursorNames : cursor[y].conn \in ConnIds \cup {NoConn}
    BY DEF SqInv, StateInv, NoConn, ConnIds, CurTypeOK, Cursor
  <1>2. /\ sq' \in [ConnIds -> Driver] /\ q \in Driver /\ DriverOk(q) /\ q.connaddr
        /\ sq'[c] = q
        /\ \A d \in ConnIds \ {c} : sq'[d] = sq[d]
    BY <1>1 DEF DriverTouchesOne, Becomes, SqDrivers, Evolves, DriverOk
  <1>3. SqDrivers'
    BY <1>1, <1>2 DEF TouchesOne, DriverTouchesOne, SqDrivers
  <1>4. SqCursors'
    <2> SUFFICES ASSUME NEW y \in CursorNames
                 PROVE  /\ y \notin cursors' => cursor'[y].conn = NoConn
                        /\ \A d \in ConnIds : y \in sq'[d].declared <=> cursor'[y].conn = d
                        /\ cursor'[y].conn # NoConn =>
                              LET p == sq'[cursor'[y].conn]
                              IN  /\ p.priv[y] \in {NoStmt, IF source'[y] = NoStmt
                                                            THEN y ELSE source'[y]}
                                  /\ cursor'[y].open => p.priv[y] # NoStmt
      BY DEF SqCursors, TouchesOne
    <2>1. CASE y = x
      <3>1. \A d \in ConnIds \ {c} : x \notin sq'[d].declared
        BY <1>1, <1>2 DEF SqCursors, TouchesOne
      <3>2. x \in sq'[c].declared
        BY <1>2 DEF DriverTouchesOne
      <3> QED
        BY <1>1, <1>2, <2>1, <3>1, <3>2 DEF TouchesOne, DriverTouchesOne
    <2>2. CASE y # x
      <3>1. cursor'[y] = cursor[y] /\ source'[y] = source[y] /\ (y \in cursors' <=> y \in cursors)
        BY <2>2 DEF TouchesOne
      <3>2. \A d \in ConnIds : /\ y \in sq'[d].declared <=> y \in sq[d].declared
                               /\ sq'[d].priv[y] = sq[d].priv[y]
        BY <1>2, <2>2 DEF DriverTouchesOne
      <3> QED
        BY <1>1, <3>1, <3>2 DEF SqCursors
    <2> QED
      BY <2>1, <2>2
  <1>5. SqOwed'
    <2>1. owed' \in [CursorNames -> SUBSET Keys]
      <3>1. \A y \in CursorNames : StillThere(y, IF y = x THEN rows ELSE owed[y]) \in SUBSET Keys
        BY <1>1 DEF StillThere, SqOwed
      <3> QED
        BY <3>1 DEF ObservesOne
    <2> SUFFICES ASSUME NEW y \in CursorNames
                 PROVE  /\ cursor'[y].conn = NoConn => owed'[y] = {} /\ reached'[y] = 0
                        /\ cursor'[y].conn # NoConn /\ source'[y] = NoStmt =>
                              LET p == sq'[cursor'[y].conn]
                              IN  /\ owed'[y] \subseteq p.table
                                  /\ p.priv[y] = NoStmt => owed'[y] = {} /\ reached'[y] = 0
                                  /\ p.priv[y] = y => Stands(p.stmt[y], reached'[y], owed'[y])
      BY <2>1 DEF SqOwed, ObservesOne
    <2>2. CASE y = x
      <3>1. cursor'[x].conn = c /\ c # NoConn
        BY <1>1 DEF TouchesOne
      <3>2. owed'[x] = rows \cap q.table /\ reached'[x] = k
        BY SMTT(40), <1>2, <3>1 DEF ObservesOne, StillThere
      <3> QED
        BY <1>2, <2>2, <3>1, <3>2 DEF ObservesOne
    <2>3. CASE y # x
      <3>1. cursor'[y] = cursor[y] /\ source'[y] = source[y] /\ reached'[y] = reached[y]
        BY <2>3 DEF TouchesOne, ObservesOne
      <3>2. \A d \in ConnIds : /\ sq'[d].stmt[y] = sq[d].stmt[y]
                               /\ sq'[d].priv[y] = sq[d].priv[y]
        BY <1>2, <2>3 DEF DriverTouchesOne
      <3>3. owed'[y] = IF cursor[y].conn = NoConn THEN {}
                       ELSE owed[y] \cap sq'[cursor[y].conn].table
        BY <2>3, <3>1 DEF ObservesOne, StillThere
      <3> QED
        BY SMTT(40), <1>1, <3>1, <3>2, <3>3 DEF SqOwed, Stands
    <2> QED
      BY <2>2, <2>3
  <1>6. \A d \in ConnIds : sq'[d] = sq[d] \/ (sq[d].connaddr /\ Evolves(sq[d], sq'[d]))
    BY <1>2 DEF DriverTouchesOne
  <1> QED
    BY <1>3, <1>4, <1>5, <1>6, CallStep

\* A driver that went from sq[c] through Fresh(c) has evolved from sq[c].
LEMMA FreshThen ==
    ASSUME NEW p, NEW f, NEW q, Idle(p, f), Evolves(f, q)
    PROVE  Evolves(p, q)
  BY DEF Idle, Quiet, Evolves

LEMMA SqDeclareGood ==
    ASSUME SqInv, NEW x \in CursorNames, NEW n \in Names \cup {NoName},
           NEW host \in BOOLEAN, NEW hold \in BOOLEAN,
           NEW s \in StmtNames \cup {NoStmt}, SqDeclare(x, n, host, hold, s)
    PROVE  GoodStep
  <1>1. PICK c : c = get(n)
    OBVIOUS
  <1>2. AnyCall
    <2>1. "other" \in Queries /\ 0 \in 0..MaxVars
      BY RuntimeAssumption DEF Queries
    <2>2. GIXSQLCursorDeclare(x, n, host, hold, "other")
      BY DEF SqDeclare
    <2> QED
      BY <2>1, <2>2 DEF AnyCall
  <1>3. /\ WatchOther /\ Watch("none", NoStmt, NoStmt)
        /\ SqAnswers' /\ RowTruth
        /\ CurTypeOK /\ SqDrivers /\ SqCursors /\ SqOwed
    BY AnswerForgotten, NoAnswerRow DEF SqDeclare, WatchOther, WatchCall, SqInv, StateInv
  <1>4. UNCHANGED registry
    BY DEF SqDeclare, GIXSQLCursorDeclare
  <1>5. CASE x \in cursors
    <2>1. UNCHANGED <<curVars, sq, source>>
      BY <1>5 DEF SqDeclare, GIXSQLCursorDeclare, Declare, DeclareRejected
    <2>2. CursorsKept
      BY <1>4, <2>1 DEF CursorsKept, registry, curVars
    <2>3. sqlcode' = Status(NoDbi, DBERR_CURSOR_EXISTS)
      BY <1>5, ReturnIs DEF SqDeclare, GIXSQLCursorDeclare, Declare, Fail
    <2>4. NorecCode > 0 => sqlcode' = "error"
      BY <2>3, NegativeStatus DEF NoDbi, DBERR_CURSOR_EXISTS, DBERR_NO_DATA
    <2> QED
      BY <1>2, <1>3, <2>1, <2>2, <2>4, UnchangedQuiet, QuietStep DEF SqFailures
  <1>6. CASE x \notin cursors
    <2>1. ret'.rc = "SUCCESS" /\ source' = [source EXCEPT ![x] = s]
      BY <1>6 DEF SqDeclare
    <2>2. /\ cursors' = cursors \cup {x}
          /\ cursor' = [cursor EXCEPT ![x] = NewCursor(c, n, host, hold)]
      BY <1>1, <1>6, <2>1, ReturnIs
         DEF SqDeclare, GIXSQLCursorDeclare, Declare, DeclareRejected, Fail
    <2>3. /\ cursor[x].conn = NoConn /\ owed[x] = {} /\ reached[x] = 0
          /\ ~NewCursor(c, n, host, hold).open /\ NewCursor(c, n, host, hold).conn = c
      BY <1>3, <1>6 DEF SqCursors, SqOwed, NewCursor
    <2>4. /\ source' \in [CursorNames -> StmtNames \cup {NoStmt}]
          /\ \A y \in CursorNames \ {x} : cursor'[y] = cursor[y] /\ source'[y] = source[y]
          /\ cursor'[x].conn = c /\ ~cursor'[x].open
      BY <1>3, <2>1, <2>2, <2>3 DEF SqCursors, CurTypeOK
    <2>5. CASE c = NoConn
      <3>1. UNCHANGED sq
        BY <1>1, <2>5 DEF SqDeclare
      <3>2. SqDrivers'
        BY <1>3, <1>4, <3>1 DEF SqDrivers, registry
      <3>3. \A y \in CursorNames : cursor'[y].conn = cursor[y].conn /\ (cursor'[y].open => cursor[y].open)
        BY <2>3, <2>4, <2>5
      <3>4. SqCursors'
        <4> SUFFICES ASSUME NEW y \in CursorNames
                     PROVE  /\ y \notin cursors' => cursor'[y].conn = NoConn
                            /\ \A d \in ConnIds : y \in sq[d].declared <=> cursor'[y].conn = d
                            /\ cursor'[y].conn # NoConn =>
                                  LET p == sq[cursor'[y].conn]
                                  IN  /\ p.priv[y] \in {NoStmt, IF source'[y] = NoStmt
                                                                THEN y ELSE source'[y]}
                                      /\ cursor'[y].open => p.priv[y] # NoStmt
          BY <2>4, <3>1 DEF SqCursors
        <4> QED
          BY <1>3, <2>2, <2>3, <2>4, <2>5, <3>3 DEF SqCursors
      <3>5. /\ owed' = [y \in CursorNames |-> StillThere(y, owed[y])]
            /\ reached' = [y \in CursorNames |->
                              IF cursor'[y].conn = NoConn THEN 0 ELSE reached[y]]
        BY SMTT(40), <1>3 DEF WatchOther, WatchCall
      <3>6. SqOwed'
        <4>1. \A y \in CursorNames : cursor'[y].conn # NoConn => source'[y] = source[y]
          BY <2>4, <2>5
        <4> QED
          BY SMTT(40), <1>3, <3>1, <3>3, <3>5, <4>1 DEF SqOwed, Stands, StillThere
      <3> QED
        BY <1>2, <1>3, <2>1, <3>1, <3>2, <3>4, <3>6, CallStep DEF SqFailures
    <2>6. CASE c # NoConn
      <3>1. PICK q : q = cursor_declare(Fresh(c), x)
        OBVIOUS
      <3>2. Becomes(c, q)
        BY <1>1, <1>6, <2>6, <3>1 DEF SqDeclare
      <3>3. c \in ConnIds /\ sq[c].connaddr /\ DriverOk(Fresh(c)) /\ Idle(sq[c], Fresh(c))
        BY <1>1, <2>6, FoundDriver
      <3>4. /\ Evolves(Fresh(c), q)
            /\ q.declared = Fresh(c).declared \cup {x}
            /\ q.priv = Fresh(c).priv
            /\ q.stmt = Fresh(c).stmt
        BY <3>1, <3>3, DeclareOk
      <3>5. /\ Evolves(sq[c], q) /\ q.declared = sq[c].declared \cup {x}
            /\ q.priv = sq[c].priv /\ q.stmt = sq[c].stmt
        BY <3>3, <3>4, FreshThen DEF Idle, Quiet, CursorsAlone
      <3>6. q.priv[x] = NoStmt
        <4>1. x \notin sq[c].declared
          BY <1>3, <2>3, <2>6, <3>3 DEF SqCursors
        <4> QED
          BY <1>3, <3>3, <3>5, <4>1 DEF SqDrivers, DriverOk
      <3>7. TouchesOne(x, c)
        BY <1>4, <2>2, <2>3, <2>4 DEF TouchesOne, registry
      <3>8. DriverTouchesOne(x, c, q)
        BY <2>4, <3>2, <3>3, <3>5, <3>6 DEF DriverTouchesOne
      <3>9. ObservesOne(x, c, q, {}, 0)
        <4>1. /\ owed' = [y \in CursorNames |-> StillThere(y, owed[y])]
              /\ reached' = [y \in CursorNames |->
                                IF cursor'[y].conn = NoConn THEN 0 ELSE reached[y]]
          BY <1>3 DEF WatchOther, WatchCall
        <4>2. x # NoStmt
          BY SqliteAssumption
        <4>3. reached' = reached
          BY <1>3, <2>3, <2>4, <4>1 DEF SqOwed
        <4>4. owed' = [y \in CursorNames |-> StillThere(y, IF y = x THEN {} ELSE owed[y])]
          BY <2>3, <4>1
        <4> QED
          BY <1>3, <2>3, <3>6, <4>2, <4>3, <4>4 DEF ObservesOne, SqOwed
      <3>10. NorecCode > 0 => SqFailures'
        BY <2>1 DEF SqFailures
      <3>11. {} \in SUBSET Keys
        OBVIOUS
      <3> QED
        BY <1>2, <1>3, <3>3, <3>7, <3>8, <3>9, <3>10, <3>11, OneCursorStep
    <2> QED
      BY <2>5, <2>6
  <1> QED
    BY <1>5, <1>6

\* The driver of the connection OPEN works on, as cursor_open() finds it.
LEMMA PreparedOk ==
    ASSUME SqInv, NEW x \in cursors, NEW hv \in Names \cup {NoName},
           NEW c, c = OpenConnection(x, hv), c # NoConn, NEW p, p = Prepared(c, x)
    PROVE  /\ c \in ConnIds /\ sq[c].connaddr /\ x \in CursorNames
           /\ cursor[x].conn \in {NoConn, c}
           /\ DriverOk(p) /\ Evolves(sq[c], p)
           /\ p.declared = sq[c].declared \cup {x}
           /\ p.priv = sq[c].priv
           /\ \A y \in CursorNames : p.stmt[y] = sq[c].stmt[y]
           /\ p.tx = sq[c].tx /\ p.base = sq[c].base /\ p.table = sq[c].table
  <1>1. x \in CursorNames /\ cursor[x] \in Cursor /\ StateInv
    BY CursorsGood DEF SqInv
  <1>2. cursor[x].at \in Names \cup {NoName} /\ NoName \in Names \cup {NoName}
    BY <1>1 DEF Cursor
  <1>3. CASE cursor[x].conn # NoConn
    <2>1. c = cursor[x].conn
      BY <1>3 DEF OpenConnection
    <2>2. /\ c \in ConnIds /\ x \in sq[c].declared /\ sq[c].connaddr
          /\ DriverOk(Fresh(c)) /\ Idle(sq[c], Fresh(c))
      BY <1>1, <2>1, BoundDriver
    <2>3. p = Fresh(c)
      BY <1>3 DEF Prepared, cursor_close
    <2> QED
      BY <1>1, <2>1, <2>2, <2>3 DEF Idle, Quiet, CursorsAlone
  <1>4. CASE cursor[x].conn = NoConn
    <2>1. /\ c \in ConnIds /\ sq[c].connaddr
          /\ DriverOk(Fresh(c)) /\ Idle(sq[c], Fresh(c))
      <3>1. PICK n \in Names \cup {NoName} : c = get(n)
        BY <1>2, <1>4 DEF OpenConnection
      <3> QED
        BY <3>1, FoundDriver
    <2>2. p = cursor_declare(Fresh(c), x)
      BY <1>4 DEF Prepared, cursor_close
    <2>3. /\ Evolves(Fresh(c), p) /\ p.declared = Fresh(c).declared \cup {x}
          /\ p.priv = Fresh(c).priv /\ p.stmt = Fresh(c).stmt
          /\ p.tx = Fresh(c).tx /\ p.base = Fresh(c).base /\ p.table = Fresh(c).table
      BY <1>1, <2>1, <2>2, DeclareOk
    <2>4. Evolves(sq[c], p) /\ DriverOk(p)
      <3>1. Evolves(sq[c], p)
        BY <2>1, <2>3, FreshThen
      <3> QED
        BY <3>1 DEF Evolves
    <2> QED
      BY <1>1, <1>4, <2>1, <2>3, <2>4 DEF Idle, Quiet, CursorsAlone
  <1> QED
    BY <1>3, <1>4

\* OPEN finds no cursor or no connection.
LEMMA SqOpenNotFound ==
    ASSUME SqInv, NEW x \in CursorNames, NEW hv \in Names \cup {NoName}, SqOpen(x, hv),
           x \notin cursors \/ OpenConnection(x, hv) = NoConn
    PROVE  GoodStep
  <1>1. AnyCall /\ SqDrivers /\ SqOwed
    BY DEF SqOpen, AnyCall, SqInv
  <1>2. UNCHANGED <<connVars, curVars, sq, source>>
    BY DEF SqOpen, GIXSQLCursorOpen, NoSuchCursor, StateUnchanged
  <1>3. \/ sqlcode' = Status(NoDbi, DBERR_NO_SUCH_CURSOR)
        \/ sqlcode' = Status(NoDbi, DBERR_CONN_NOT_FOUND)
    BY ReturnIs DEF SqOpen, GIXSQLCursorOpen, NoSuchCursor, Fail
  <1>4. NorecCode > 0 => sqlcode' = "error"
    BY <1>3, NegativeStatus
       DEF NoDbi, DBERR_NO_SUCH_CURSOR, DBERR_CONN_NOT_FOUND, DBERR_NO_DATA
  <1>5. WatchOther
    <2>1. /\ Watch("none", NoStmt, NoStmt) /\ answer' = NoAnswer
          /\ owed' = [y \in CursorNames |-> StillThere(y, owed[y])]
          /\ reached' = reached
      BY DEF SqOpen
    <2>2. cursor' = cursor
      BY <1>2 DEF curVars
    <2> QED
      BY <1>1, <2>1, <2>2 DEF WatchOther, WatchCall, SqOwed
  <1>6. CursorsKept
    BY <1>2 DEF CursorsKept, connVars, registry, curVars
  <1> QED
    BY <1>1, <1>2, <1>4, <1>5, <1>6, UnchangedQuiet, QuietStep DEF SqFailures

\* What OPEN does to the registries when it reaches the driver.
LEMMA OpenRegistries ==
    ASSUME SqInv, NEW x \in cursors, NEW hv, GIXSQLCursorOpen(x, hv),
           NEW c, c = OpenConnection(x, hv), c # NoConn,
           cursor'[x].drv # "undeclared"
    PROVE  /\ UNCHANGED <<next_conn_id, connections, cursors>>
           /\ \A y \in CursorNames \ {x} : cursor'[y] = cursor[y]
           /\ cursor'[x].conn = c
           /\ cursor'[x].open = (ret'.rc = "SUCCESS")
  <1>1. x \in CursorNames /\ cursor[x] \in Cursor /\ CursorGood(cursor[x]) /\ CurTypeOK
    BY CursorsGood DEF SqInv, StateInv
  <1>2. /\ UNCHANGED <<registry, cursors>>
        /\ \/ OpenDeclareFails(x, c)
           \/ OpenCloseFails(x, c)
           \/ OpenFails(x, c)
           \/ OpenOk(x, c)
    BY DEF GIXSQLCursorOpen, NoSuchCursor
  <1>3. ~OpenDeclareFails(x, c)
    BY <1>1 DEF OpenDeclareFails, CursorGood, CurTypeOK, Cursor
  <1>4. CASE OpenCloseFails(x, c) \/ OpenFails(x, c)
    <2>1. cursor' = [cursor EXCEPT ![x] = Reclosed(x, c)]
      BY <1>4 DEF OpenCloseFails, OpenFails
    <2>2. ret'.rc = "FAILED"
      BY <1>4, ReturnIs DEF OpenCloseFails, OpenFails, DriverFail
    <2>3. Reclosed(x, c).conn = c /\ ~Reclosed(x, c).open
      BY <1>1 DEF Reclosed, DriverClosed, Bound, Cursor
    <2>4. Reclosed(x, c).open = FALSE
      BY <1>1 DEF Reclosed, DriverClosed, Bound, Cursor
    <2> QED
      BY <1>1, <1>2, <2>1, <2>2, <2>3, <2>4 DEF registry, CurTypeOK
  <1>5. CASE OpenOk(x, c)
    <2>1. cursor' = [cursor EXCEPT ![x] = [Bound(x, c) EXCEPT !.open = TRUE, !.drv = "open"]]
      BY <1>5 DEF OpenOk
    <2>2. ret'.rc = "SUCCESS"
      BY <1>5, ReturnIs DEF OpenOk, Succeed
    <2>3. /\ [Bound(x, c) EXCEPT !.open = TRUE, !.drv = "open"].conn = c
          /\ [Bound(x, c) EXCEPT !.open = TRUE, !.drv = "open"].open = TRUE
      BY <1>1 DEF Bound, Cursor
    <2> QED
      BY <1>1, <1>2, <2>1, <2>2, <2>3 DEF registry, CurTypeOK
  <1> QED
    BY <1>2, <1>3, <1>4, <1>5

LEMMA SqOpenGood ==
    ASSUME SqInv, NEW x \in CursorNames, NEW hv \in Names \cup {NoName}, SqOpen(x, hv)
    PROVE  GoodStep
  <1>1. CASE x \notin cursors \/ OpenConnection(x, hv) = NoConn
    BY <1>1, SqOpenNotFound
  <1>2. CASE x \in cursors /\ OpenConnection(x, hv) # NoConn
    <2>1. PICK c, p : c = OpenConnection(x, hv) /\ p = Prepared(c, x)
      OBVIOUS
    <2>2. /\ AnyCall /\ SqDrivers /\ SqCursors /\ SqOwed /\ NoConn \notin ConnIds
          /\ x # NoStmt /\ source[x] \in StmtNames \cup {NoStmt}
      BY SqliteAssumption DEF SqOpen, AnyCall, SqInv, NoConn, ConnIds, SqCursors
    <2>3. /\ GIXSQLCursorOpen(x, hv)
          /\ cursor'[x].drv # "undeclared"
          /\ \E r \in cursor_open(p, x, source[x]) :
                Reports(r, DBERR_OPEN_CURSOR_FAILED) /\ Becomes(c, r.p)
          /\ UNCHANGED source
          /\ Watch("none", NoStmt, NoStmt)
          /\ answer' = NoAnswer
          /\ owed' = [y \in CursorNames |->
                        StillThere(y, IF y = x /\ ret'.rc = "SUCCESS" THEN Keys ELSE owed[y])]
          /\ reached' = IF ret'.rc = "SUCCESS" THEN [reached EXCEPT ![x] = 0] ELSE reached
      BY <1>2, <2>1 DEF SqOpen
    <2>4. PICK r \in cursor_open(p, x, source[x]) :
                Reports(r, DBERR_OPEN_CURSOR_FAILED) /\ Becomes(c, r.p)
      BY <2>3
    <2>5. /\ c \in ConnIds /\ sq[c].connaddr /\ cursor[x].conn \in {NoConn, c}
          /\ DriverOk(p) /\ Evolves(sq[c], p)
          /\ p.declared = sq[c].declared \cup {x}
          /\ p.priv = sq[c].priv
          /\ \A y \in CursorNames : p.stmt[y] = sq[c].stmt[y]
          /\ p.tx = sq[c].tx /\ p.base = sq[c].base /\ p.table = sq[c].table
      BY <1>2, <2>1, PreparedOk
    <2>6. OpensCursor(p, x, source[x], r)
      <3>1. x \in p.declared
        BY <2>5
      <3> QED
        BY <2>2, <2>4, <2>5, <3>1, CursorOpenOk
    <2>7. /\ UNCHANGED <<next_conn_id, connections, cursors>>
          /\ \A y \in CursorNames \ {x} : cursor'[y] = cursor[y]
          /\ cursor'[x].conn = c
          /\ cursor'[x].open = (ret'.rc = "SUCCESS")
      BY <1>2, <2>1, <2>3, OpenRegistries
    <2>8. ret'.rc = "SUCCESS" <=> r.rc = DBERR_NO_ERROR
      BY <2>4 DEF Reports
    <2>9. /\ Evolves(sq[c], r.p) /\ r.p \in Driver
          /\ r.p.declared = sq[c].declared \cup {x}
          /\ \A y \in CursorNames \ {x} :
                r.p.priv[y] = sq[c].priv[y] /\ r.p.stmt[y] = sq[c].stmt[y]
          /\ r.rc # DBERR_NO_ERROR => /\ r.p.priv[x] = sq[c].priv[x]
                                      /\ r.p.stmt[x] = sq[c].stmt[x]
          /\ r.rc = DBERR_NO_ERROR => r.p.priv[x] = IF source[x] = NoStmt THEN x ELSE source[x]
      BY <2>5, <2>6 DEF OpensCursor, Evolves, DriverOk
    <2>10. /\ cursor[x].conn = NoConn => /\ sq[c].priv[x] = NoStmt
                                         /\ owed[x] = {} /\ reached[x] = 0
           /\ sq[c].priv[x] \in {NoStmt, IF source[x] = NoStmt THEN x ELSE source[x]}
      <3>1. CASE cursor[x].conn = NoConn
        <4>1. x \notin sq[c].declared
          BY <2>2, <2>5, <3>1 DEF SqCursors
        <4> QED
          BY <2>2, <2>5, <3>1, <4>1 DEF SqDrivers, DriverOk, SqOwed
      <3>2. CASE cursor[x].conn = c
        BY <2>2, <2>5, <3>2 DEF SqCursors
      <3> QED
        BY <2>5, <3>1, <3>2
    <2>11. TouchesOne(x, c)
      BY <1>2, <2>2, <2>3, <2>5, <2>7 DEF TouchesOne, SqCursors
    <2>12. DriverTouchesOne(x, c, r.p)
      <3>1. r.p.priv[x] \in {NoStmt, IF source'[x] = NoStmt THEN x ELSE source'[x]}
        BY <2>3, <2>9, <2>10
      <3>2. cursor'[x].open => r.p.priv[x] # NoStmt
        BY <2>2, <2>7, <2>8, <2>9
      <3> QED
        BY <2>4, <2>5, <2>9, <3>1, <3>2 DEF DriverTouchesOne
    <2>13. PICK rows, k : /\ rows = IF ret'.rc = "SUCCESS" THEN Keys ELSE owed[x]
                          /\ k = IF ret'.rc = "SUCCESS" THEN 0 ELSE reached[x]
      OBVIOUS
    <2>14. rows \in SUBSET Keys
      BY <2>2, <2>13 DEF SqOwed
    <2>15. ObservesOne(x, c, r.p, rows, k)
      <3>1. owed' = [y \in CursorNames |-> StillThere(y, IF y = x THEN rows ELSE owed[y])]
        <4>1. \A y : (IF y = x /\ ret'.rc = "SUCCESS" THEN Keys ELSE owed[y])
                        = (IF y = x THEN rows ELSE owed[y])
          BY <2>13
        <4> QED
          BY <2>3, <4>1
      <3>2. /\ reached' \in [CursorNames -> Keys \cup {0}]
            /\ \A y \in CursorNames \ {x} : reached'[y] = reached[y]
            /\ reached'[x] = k
        BY <2>2, <2>3, <2>13 DEF SqOwed
      <3>3. ASSUME source[x] = NoStmt, ret'.rc = "SUCCESS"
            PROVE  r.p.priv[x] # NoStmt /\ Stands(r.p.stmt[x], k, rows \cap r.p.table)
        <4>1. /\ r.p.priv[x] = x /\ r.p.table = p.table
              /\ r.p.stmt[x].first /\ r.p.stmt[x].pos = NextRow(p, 0)
          BY <2>6, <2>8, <3>3 DEF OpensCursor
        <4>2. p \in Driver /\ p.table \subseteq Nat /\ 0 \notin p.table
          BY <2>5 DEF DriverOk, Driver, Keys
        <4>3. /\ NextRow(p, 0) = 0 => \A j \in p.table : j <= 0
              /\ NextRow(p, 0) # 0 => \A i \in p.table : i > 0 => NextRow(p, 0) <= i
          BY <4>2, NextRowLeast
        <4>4. \A j \in p.table : NextRow(p, 0) # 0 /\ NextRow(p, 0) <= j
          BY <4>2, <4>3
        <4> QED
          BY <2>2, <2>13, <3>3, <4>1, <4>4 DEF Stands
      <3>4. ASSUME source[x] = NoStmt, ret'.rc # "SUCCESS"
            PROVE  /\ r.p.priv[x] = NoStmt => rows \cap r.p.table = {} /\ k = 0
                   /\ r.p.priv[x] = x => Stands(r.p.stmt[x], k, rows \cap r.p.table)
        <4>1. /\ rows = owed[x] /\ k = reached[x]
              /\ r.p.priv[x] = sq[c].priv[x] /\ r.p.stmt[x] = sq[c].stmt[x]
          BY <2>8, <2>9, <2>13, <3>4
        <4>2. CASE cursor[x].conn = NoConn
          BY SMTT(40), <2>2, <2>10, <4>1, <4>2
        <4>3. CASE cursor[x].conn = c
          BY SMTT(40), <2>2, <2>5, <3>4, <4>1, <4>3 DEF SqOwed, Stands
        <4> QED
          BY <2>5, <4>2, <4>3
      <3> QED
        BY <2>3, <3>1, <3>2, <3>3, <3>4 DEF ObservesOne
    <2>16. NorecCode > 0 => SqFailures'
      <3>1. DriverOk(r.p)
        BY <2>9 DEF Evolves
      <3> QED
        BY <2>4, <3>1, ReportsFailure DEF SqFailures, DBERR_OPEN_CURSOR_FAILED, DBERR_NO_DATA
    <2>17. SqAnswers' /\ RowTruth
      BY <2>3, AnswerForgotten, NoAnswerRow
    <2> QED
      BY <2>2, <2>3, <2>5, <2>11, <2>12, <2>14, <2>15, <2>16, <2>17, OneCursorStep
  <1> QED
    BY <1>1, <1>2

\* A FETCH that moves to row leaves the cursor before all the rows it still owes.
LEMMA FetchStands ==
    ASSUME NEW p, DriverOk(p), NEW x \in CursorNames, p.priv[x] = x,
           NEW r, FetchesFrom(p, x, r), NEW rows, rows \subseteq p.table,
           NEW k, Stands(p.stmt[x], k, rows),
           NEW row, row = IF r.rc = DBERR_NO_ERROR THEN CurrentRow(r.p, x) ELSE 0
    PROVE  /\ row \in Keys \cup {0}
           /\ Stands(r.p.stmt[x], row, rows \ {row})
           /\ r.rc = DBERR_NO_DATA => rows = {}
           /\ r.rc = DBERR_NO_ERROR /\ row = 0 => rows = {}
           /\ r.rc = DBERR_NO_ERROR => \A j \in rows : row <= j
  <1> USE DEF DBERR_NO_ERROR, DBERR_NO_DATA
  <1>1. PICK st, new, next : /\ st = p.stmt[x]
                             /\ new = r.p.stmt[x]
                             /\ next = NextRow(p, st.pos)
    OBVIOUS
  <1>2. x \in Handles /\ x # NoStmt /\ p \in Driver /\ r.p \in Driver
    BY SqliteAssumption DEF Handles, FetchesFrom, Evolves, DriverOk
  <1>3. st \in Stmt /\ new \in Stmt /\ rows \subseteq Keys
    BY <1>1, <1>2 DEF Driver
  <1>4. /\ r.p.priv = p.priv
        /\ new.first = FALSE
        /\ st.first => r.rc = DBERR_NO_ERROR /\ new.pos = st.pos
        /\ ~st.first =>
              /\ r.rc = DBERR_NO_ERROR => next # 0 /\ new.pos = next
              /\ r.rc = DBERR_NO_DATA => next = 0
              /\ r.rc # DBERR_NO_ERROR => new.pos = 0
    BY <1>1 DEF FetchesFrom
  <1>5. row = IF r.rc = DBERR_NO_ERROR THEN new.pos ELSE 0
    BY <1>1, <1>2, <1>4 DEF CurrentRow
  <1>6. /\ st.pos \in Keys \cup {0}
        /\ new.pos \in Keys \cup {0}
        /\ st.first \in BOOLEAN
    BY <1>3 DEF Stmt
  <1>7. /\ next = 0 => \A j \in p.table : j <= st.pos
        /\ next # 0 => \A i \in p.table : i > st.pos => next <= i
    BY <1>1, <1>2, <1>6, NextRowLeast
  <1>8. /\ st.first => \A j \in rows : st.pos # 0 /\ st.pos <= j
        /\ ~st.first => \A j \in rows : st.pos < j
    BY <1>1 DEF Stands
  <1>9. /\ Keys \subseteq Nat /\ 0 \notin Keys
        /\ \A j \in Keys \cup {0} : j \in Nat
    BY SqliteAssumption DEF Keys
  <1>10. CASE st.first
    <2>1. r.rc = DBERR_NO_ERROR /\ new.pos = st.pos /\ row = st.pos
      BY <1>4, <1>5, <1>10
    <2>2. ASSUME NEW j \in rows \ {row}
          PROVE  new.pos < j
      <3>1. j \in Nat /\ st.pos \in Nat /\ j # st.pos
        BY <1>3, <1>6, <1>9, <2>1
      <3>2. st.pos <= j
        BY <1>8, <1>10
      <3> QED
        BY ONLY <2>1, <3>1, <3>2
    <2> QED
      BY <1>1, <1>3, <1>4, <1>6, <1>8, <1>10, <2>1, <2>2 DEF Stands
  <1>11. CASE ~st.first
    <2>1. CASE r.rc = DBERR_NO_ERROR
      <3>1. next # 0 /\ new.pos = next /\ row = next
        BY <1>4, <1>5, <1>11, <2>1
      <3>2. \A j \in rows : next <= j
        BY <1>3, <1>6, <1>7, <1>8, <1>9, <1>11, <3>1
      <3>3. ASSUME NEW j \in rows \ {row}
            PROVE  new.pos < j
        <4>1. j \in Nat /\ next \in Nat /\ j # next /\ next <= j
          BY <1>3, <1>6, <1>9, <3>1, <3>2
        <4> QED
          BY ONLY <3>1, <4>1
      <3>4. Stands(new, row, rows \ {row})
        BY ONLY <1>4, <3>1, <3>3 DEF Stands
      <3> QED
        BY <1>1, <1>6, <2>1, <3>1, <3>2, <3>4
    <2>2. CASE r.rc # DBERR_NO_ERROR
      <3>1. new.pos = 0 /\ row = 0
        BY <1>4, <1>5, <1>11, <2>2
      <3>2. \A j \in rows : new.pos < j
        BY <1>3, <1>9, <3>1
      <3>3. r.rc = DBERR_NO_DATA => rows = {}
        <4> SUFFICES ASSUME r.rc = DBERR_NO_DATA, NEW j \in rows PROVE FALSE
          OBVIOUS
        <4>1. j \in Nat /\ st.pos \in Nat /\ j \in p.table
          <5>1. j \in Keys /\ j \in p.table
            BY <1>3
          <5>2. st.pos \in Nat
            BY ONLY <1>6, <1>9
          <5> QED
            BY ONLY <1>9, <5>1, <5>2
        <4>2. next = 0
          BY <1>4, <1>11
        <4>3. j <= st.pos
          BY ONLY <1>7, <4>1, <4>2
        <4>4. st.pos < j
          BY ONLY <1>8, <1>11, j \in rows
        <4> QED
          BY ONLY <4>1, <4>3, <4>4
      <3>4. Stands(new, row, rows \ {row})
        BY ONLY <1>4, <3>1, <3>2 DEF Stands
      <3> QED
        BY <1>1, <2>2, <3>1, <3>3, <3>4
    <2> QED
      BY <2>1, <2>2
  <1> QED
    BY <1>10, <1>11

\* What the end of a FETCH that reached the driver reports.
LEMMA FetchReportsWhat ==
    ASSUME NEW r, NEW x, FetchReports(r, x), DriverOk(r.p)
    PROVE  /\ ret'.rc \in Results
           /\ ret'.rc = "FETCH_ROW_FAILED" => r.rc = DBERR_NO_DATA
           /\ ret'.rc = "SUCCESS" => r.rc = DBERR_NO_ERROR
           /\ NorecCode > 0 /\ ret'.rc = "FAILED" => sqlcode' = "error"
  <1>1. NorecCode > 0 => /\ Status(r.p.last_rc, DBERR_FETCH_ROW_FAILED) = "error"
                         /\ Status(r.p.last_rc, DBERR_FIELD_COUNT_MISMATCH) = "error"
                         /\ Status(r.p.last_rc, DBERR_INVALID_COLUMN_DATA) = "error"
                         /\ Status(r.p.last_rc, DBERR_NUM_OUT_OF_RANGE) = "error"
    <2>1. r.p.last_rc \in Int /\ r.p.last_rc <= 0
      BY DEF DriverOk, Driver
    <2> QED
      BY <2>1, NegativeStatus
         DEF DBERR_FETCH_ROW_FAILED, DBERR_FIELD_COUNT_MISMATCH, DBERR_INVALID_COLUMN_DATA,
             DBERR_NUM_OUT_OF_RANGE, DBERR_NO_DATA
  <1> QED
    BY <1>1 DEF FetchReports, Results

LEMMA SqFetchGood ==
    ASSUME SqInv, NEW x \in CursorNames, SqFetch(x)
    PROVE  GoodStep
  <1>1. PICK c : c = cursor[x].conn
    OBVIOUS
  <1>2. /\ AnyCall /\ UNCHANGED source
        /\ SqDrivers /\ SqCursors /\ SqOwed /\ StateInv /\ CurTypeOK
    <2>1. NoName \in Names \cup {NoName} /\ GIXSQLCursorFetchOne(x)
      BY DEF SqFetch
    <2> QED
      BY <2>1 DEF SqFetch, AnyCall, SqInv, StateInv
  <1>3. UNCHANGED <<connVars, curVars>>
    BY DEF SqFetch, GIXSQLCursorFetchOne, NoSuchCursor, StateUnchanged
  <1>4. CASE x \notin cursors \/ ~cursor[x].open
    <2>1. UNCHANGED sq /\ WatchOther
      BY <1>4 DEF SqFetch
    <2>2. \/ sqlcode' = Status(NoDbi, DBERR_NO_SUCH_CURSOR)
          \/ sqlcode' = Status(NoDbi, DBERR_CURSOR_CLOSED)
      BY <1>4, ReturnIs DEF SqFetch, GIXSQLCursorFetchOne, NoSuchCursor, Fail
    <2>3. NorecCode > 0 => sqlcode' = "error"
      BY <2>2, NegativeStatus
         DEF NoDbi, DBERR_NO_SUCH_CURSOR, DBERR_CURSOR_CLOSED, DBERR_NO_DATA
    <2>4. CursorsKept
      BY <1>3 DEF CursorsKept, connVars, registry, curVars
    <2> QED
      BY <1>2, <2>1, <2>3, <2>4, UnchangedQuiet, QuietStep DEF SqFailures
  <1>5. CASE x \in cursors /\ cursor[x].open
    <2>1. PICK r, row :
             /\ r \in cursor_fetch_one(Fresh(c), x)
             /\ row = IF r.rc = DBERR_NO_ERROR THEN CurrentRow(r.p, x) ELSE 0
             /\ FetchReports(r, x)
             /\ Becomes(c, r.p)
             /\ Watch("none", NoStmt, NoStmt)
             /\ answer' = [kind |-> AnswerKind[ret'.rc], x |-> x,
                           row |-> IF ret'.rc = "SUCCESS" THEN row ELSE 0]
             /\ owed' = [y \in CursorNames |->
                            StillThere(y, owed[y] \ IF y = x THEN {row} ELSE {})]
             /\ reached' = [reached EXCEPT ![x] = row]
      BY <1>1, <1>5 DEF SqFetch
    <2>2. /\ c # NoConn /\ c \in ConnIds /\ x \in sq[c].declared /\ sq[c].connaddr
          /\ DriverOk(Fresh(c)) /\ Idle(sq[c], Fresh(c))
      <3>1. c # NoConn
        BY <1>1, <1>2, <1>5 DEF StateInv, NoNullInterface
      <3> QED
        BY <1>1, <3>1, BoundDriver
    <2>3. FetchesFrom(Fresh(c), x, r)
      BY <2>1, <2>2, CursorFetchOk
    <2>4. /\ r.p.declared = sq[c].declared /\ r.p.priv = sq[c].priv
          /\ \A y \in CursorNames \ {x} : r.p.stmt[y] = sq[c].stmt[y]
          /\ Evolves(sq[c], r.p) /\ DriverOk(r.p)
      <3>1. Evolves(sq[c], r.p)
        BY <2>2, <2>3, FreshThen DEF FetchesFrom
      <3> QED
        BY <2>2, <2>3, <3>1 DEF FetchesFrom, Idle, Quiet, CursorsAlone, Evolves
    <2>5. /\ r.p.priv[x] # NoStmt
          /\ r.p.priv[x] = IF source[x] = NoStmt THEN x ELSE source[x]
          /\ x # NoStmt
      <3>1. sq[c].priv[x] # NoStmt /\
            sq[c].priv[x] \in {NoStmt, IF source[x] = NoStmt THEN x ELSE source[x]}
        BY <1>1, <1>2, <1>5, <2>2 DEF SqCursors
      <3> QED
        BY <2>4, <3>1, SqliteAssumption
    <2>6. /\ ret'.rc \in Results
          /\ ret'.rc = "FETCH_ROW_FAILED" => r.rc = DBERR_NO_DATA
          /\ ret'.rc = "SUCCESS" => r.rc = DBERR_NO_ERROR
          /\ NorecCode > 0 /\ ret'.rc = "FAILED" => sqlcode' = "error"
      BY <2>1, <2>4, FetchReportsWhat
    <2>7. source[x] = NoStmt =>
             /\ Stands(r.p.stmt[x], row, owed[x] \ {row})
             /\ r.rc = DBERR_NO_DATA => owed[x] = {}
             /\ r.rc = DBERR_NO_ERROR /\ row = 0 => owed[x] = {}
             /\ r.rc = DBERR_NO_ERROR => \A j \in owed[x] : row <= j
      <3> SUFFICES ASSUME source[x] = NoStmt
                   PROVE  /\ Stands(r.p.stmt[x], row, owed[x] \ {row})
                          /\ r.rc = DBERR_NO_DATA => owed[x] = {}
                          /\ r.rc = DBERR_NO_ERROR /\ row = 0 => owed[x] = {}
                          /\ r.rc = DBERR_NO_ERROR => \A j \in owed[x] : row <= j
        OBVIOUS
      <3>1. /\ Fresh(c).priv[x] = x /\ Fresh(c).stmt = sq[c].stmt
            /\ Fresh(c).table = sq[c].table
        BY <2>2, <2>4, <2>5 DEF Idle, Quiet, CursorsAlone
      <3>2. owed[x] \subseteq sq[c].table /\ Stands(sq[c].stmt[x], reached[x], owed[x])
        BY <1>1, <1>2, <2>2, <2>4, <2>5 DEF SqOwed
      <3>3. owed[x] \subseteq Fresh(c).table /\ Stands(Fresh(c).stmt[x], reached[x], owed[x])
        BY <3>1, <3>2
      <3>4. row = IF r.rc = DBERR_NO_ERROR THEN CurrentRow(r.p, x) ELSE 0
        BY <2>1
      <3>5. PICK p, rows : p = Fresh(c) /\ rows = owed[x]
        OBVIOUS
      <3>6. /\ DriverOk(p) /\ p.priv[x] = x /\ FetchesFrom(p, x, r) /\ rows \subseteq p.table
            /\ Stands(p.stmt[x], reached[x], rows)
        BY <2>2, <2>3, <3>1, <3>3, <3>5
      <3>7. /\ Stands(r.p.stmt[x], row, rows \ {row})
            /\ r.rc = DBERR_NO_DATA => rows = {}
            /\ r.rc = DBERR_NO_ERROR /\ row = 0 => rows = {}
            /\ r.rc = DBERR_NO_ERROR => \A j \in rows : row <= j
        BY ONLY SMTT(40), <3>4, <3>6, x \in CursorNames, FetchStands
      <3> QED
        BY <3>5, <3>7
    <2>8. row \in Keys \cup {0}
      <3>1. \A h \in Handles : r.p.stmt[h].pos \in Keys \cup {0}
        BY <2>4 DEF DriverOk, Driver, Stmt
      <3>2. r.p.priv[x] \in Handles
        BY <1>2, <2>5 DEF SqCursors, Handles
      <3> QED
        BY <2>1, <2>5, <3>1, <3>2 DEF CurrentRow
    <2>9. TouchesOne(x, c)
      BY <1>1, <1>2, <1>3, <1>5 DEF TouchesOne, connVars, registry, curVars, SqCursors
    <2>10. DriverTouchesOne(x, c, r.p)
      BY <1>2, <2>1, <2>2, <2>4, <2>5 DEF DriverTouchesOne
    <2>11. ObservesOne(x, c, r.p, owed[x] \ {row}, row)
      <3>1. owed' = [y \in CursorNames |->
                        StillThere(y, IF y = x THEN owed[x] \ {row} ELSE owed[y])]
        <4>1. \A y \in CursorNames :
                 owed[y] \ (IF y = x THEN {row} ELSE {})
                    = IF y = x THEN owed[x] \ {row} ELSE owed[y]
          OBVIOUS
        <4> QED
          BY <2>1, <4>1
      <3>2. /\ reached' \in [CursorNames -> Keys \cup {0}]
            /\ \A y \in CursorNames \ {x} : reached'[y] = reached[y]
            /\ reached'[x] = row
        BY <1>2, <2>1, <2>8 DEF SqOwed
      <3>3. source[x] = NoStmt => Stands(r.p.stmt[x], row, (owed[x] \ {row}) \cap r.p.table)
        BY <2>7 DEF Stands
      <3> QED
        BY <1>2, <2>5, <3>1, <3>2, <3>3 DEF ObservesOne
    <2>12. /\ answer'.x = x
           /\ answer'.kind = "nodata" => ret'.rc = "FETCH_ROW_FAILED"
           /\ answer'.kind = "row" => ret'.rc = "SUCCESS" /\ answer'.row = row
      BY <2>1, <2>6 DEF AnswerKind, Results
    <2>13. source[x] = NoStmt => AnswerFits(answer', x, owed[x])
      BY <2>6, <2>7, <2>12 DEF AnswerFits
    <2>14. RowTruth
      BY <2>12, <2>13 DEF RowTruth
    <2>15. SqAnswers'
      <3>1. owed'[x] \subseteq owed[x]
        BY <2>1 DEF StillThere
      <3>2. source[x] = NoStmt => AnswerFits(answer', x, owed'[x])
        BY <2>13, <3>1 DEF AnswerFits
      <3> QED
        BY <1>2, <2>12, <3>2 DEF SqAnswers
    <2>16. NorecCode > 0 => SqFailures'
      BY <2>6 DEF SqFailures
    <2>17. owed[x] \ {row} \in SUBSET Keys
      BY <1>2 DEF SqOwed
    <2> QED
      BY <1>2, <2>1, <2>2, <2>9, <2>10, <2>11, <2>14, <2>15, <2>16, <2>17, OneCursorStep
  <1> QED
    BY <1>4, <1>5

---------------------------------------------------------------------------
(* The theorems.                                                           *)

LEMMA SqNextGood ==
    ASSUME SqInv, SqNext
    PROVE  GoodStep
  <1>1. /\ ConnectNames \subseteq Names /\ AtNames \subseteq Names \cup {NoName}
        /\ HostIds \subseteq BOOLEAN
    BY RuntimeAssumption
  <1>2. ASSUME NEW n \in ConnectNames \cup {NoName}, SqConnect(n)
        PROVE  GoodStep
    BY <1>1, <1>2, SqConnectGood
  <1>3. CASE SqResetAll \/ SqVarLists
    BY <1>3, SqResetAllGood, SqVarListsGood
  <1>4. ASSUME NEW n \in AtNames, SqConnectReset(n)
        PROVE  GoodStep
    BY <1>1, <1>4, SqConnectResetGood
  <1>5. ASSUME NEW n \in AtNames, NEW s \in Statements,
               SqExec(n, s) \/ \E name \in StmtNames : SqPrepare(n, name, s)
        PROVE  GoodStep
    BY <1>1, <1>5, SqExecGood, SqPrepareGood
  <1>6. ASSUME NEW n \in AtNames, NEW nRes \in 0..MaxVars,
               \/ SqSelectInto(n, nRes)
               \/ \E s \in StmtNames : SqExecPreparedInto(n, s, nRes)
        PROVE  GoodStep
    BY <1>1, <1>6, SqIntoGood
  <1>7. ASSUME NEW n \in AtNames, NEW s \in StmtNames, SqExecPrepared(n, s)
        PROVE  GoodStep
    BY <1>1, <1>7, SqExecPreparedGood
  <1>8. ASSUME NEW n \in AtNames, NEW y \in CursorNames, NEW op \in {"UPDATE", "DELETE"},
               NEW style \in Styles \cup {"none"}, SqPositioned(n, op, y, style)
        PROVE  GoodStep
    BY <1>1, <1>8, SqPositionedGood
  <1>9. ASSUME NEW n \in AtNames, NEW y \in CursorNames, SqPositionedCrash(n, y)
        PROVE  GoodStep
    BY <1>9, SqPositionedCrashGood
  <1>10. ASSUME NEW n \in AtNames, NEW y \in CursorNames, NEW host \in HostIds,
                NEW hold \in BOOLEAN, NEW s \in StmtNames \cup {NoStmt},
                SqDeclare(y, n, host, hold, s)
         PROVE  GoodStep
    BY <1>1, <1>10, SqDeclareGood
  <1>11. ASSUME NEW x \in CursorNames,
                (\E hv \in AtNames : SqOpen(x, hv)) \/ SqFetch(x) \/ SqClose(x)
         PROVE  GoodStep
    BY <1>1, <1>11, SqOpenGood, SqFetchGood, SqCloseGood
  <1> QED
    BY <1>2, <1>3, <1>4, <1>5, <1>6, <1>7, <1>8, <1>9, <1>10, <1>11 DEF SqNext

LEMMA UnchangedSqInv ==
    ASSUME SqInv, UNCHANGED sqVars
    PROVE  SqInv'
  <1>1. UNCHANGED <<connVars, curVars, loopVars, sqlcode, ret, sq, source, observers>>
    BY DEF sqVars, vars
  <1>2. StateInv'
    BY <1>1, UnchangedStateInv DEF SqInv
  <1>3. SqDrivers' /\ SqCursors' /\ SqMarks' /\ SqOwed' /\ SqAnswers'
    BY <1>1 DEF SqInv, observers, connVars, registry, curVars, SqDrivers, SqCursors, SqMarks,
                SqOwed, SqAnswers
  <1>4. NorecCode > 0 => SqFailures'
    BY <1>1 DEF SqInv, SqFailures
  <1> QED
    BY <1>2, <1>3, <1>4 DEF SqInv

(***************************************************************************)
(* The registries, the drivers, the positions of the cursors' statements   *)
(* and what an observer of the calls expects of them always fit together.  *)
(***************************************************************************)
THEOREM SqInvariant == SqSpec => []SqInv
  <1>1. SqInv /\ [SqNext]_sqVars => SqInv'
    BY SqNextGood, UnchangedSqInv DEF GoodStep
  <1> QED
    BY <1>1, InitSqInv, PTL DEF SqSpec

\* FETCH and get_num_fields() never read through a null statement of an open cursor.
THEOREM StatementsAreThere == SqSpec => []OpenCursorsHaveStatements
  <1>1. SqInv => OpenCursorsHaveStatements
    <2> SUFFICES ASSUME SqInv, NEW x \in cursors, cursor[x].open, NEW p, p = sq[cursor[x].conn]
                 PROVE  /\ x \in p.declared
                        /\ p.priv[x] # NoStmt
                        /\ p.stmt[p.priv[x]] # NoStatement
      BY DEF OpenCursorsHaveStatements
    <2>1. /\ StateInv /\ SqDrivers /\ SqCursors
          /\ x \in CursorNames /\ cursor[x] \in Cursor /\ cursor[x].conn # NoConn
      BY CursorsGood DEF SqInv, CursorGood
    <2>2. cursor[x].conn \in ConnIds
      BY <2>1 DEF Cursor
    <2>3. x \in p.declared /\ p.priv[x] # NoStmt /\ DriverOk(p)
      BY SMTT(40), <2>1, <2>2 DEF SqCursors, SqDrivers
    <2>4. p.stmt[p.priv[x]].text \in AllStatements
      BY <2>1, <2>3 DEF DriverOk
    <2> QED
      BY SMTT(40), <2>3, <2>4, SqliteAssumption DEF NoStatement
  <1> QED
    BY <1>1, SqInvariant, PTL

\* No FETCH passes over a row that has been in the table since OPEN.
THEOREM FetchSkipsNothing == SqSpec => NoRowSkipped
  <1>1. SqInv /\ [SqNext]_sqVars =>
            [\A x \in CursorNames :
                answer'.x = x /\ source[x] = NoStmt =>
                    /\ answer'.kind = "nodata" => owed[x] = {}
                    /\ answer'.kind = "row" /\ answer'.row = 0 => owed[x] = {}
                    /\ answer'.kind = "row" => \A k \in owed[x] : answer'.row <= k]_sqVars
    BY SqNextGood DEF GoodStep, RowTruth, AnswerFits
  <1> QED
    BY <1>1, SqInvariant, PTL DEF SqSpec, NoRowSkipped

\* COMMIT and ROLLBACK that report success have done what they say.
THEOREM TransactionsEndTruthfully == SqSpec => TransactionEndsTruthful
  <1>1. SqInv /\ [SqNext]_sqVars =>
            [(alive' /\ sent'.by \in {"exec", "prepared"} /\ ret'.rc = "SUCCESS") =>
                /\ sent'.stmt = "COMMIT" => sq'[ret'.conn].base = sq[ret'.conn].table
                /\ sent'.stmt = "ROLLBACK" => sq'[ret'.conn].table = mark[ret'.conn]]_sqVars
    BY SqNextGood DEF GoodStep, TxTruth
  <1> QED
    BY <1>1, SqInvariant, PTL DEF SqSpec, TransactionEndsTruthful

(***************************************************************************)
(* WHERE CURRENT OF changes no row but the one the program has fetched,    *)
(* none when it reports an error, and that row when it reports success,    *)
(* except with parameters written $1, $2..., when it may change nothing.   *)
(***************************************************************************)
THEOREM PositionedIsRight == SqSpec => PositionedTouchesOnlyFetched
  <1>1. SqInv /\ [SqNext]_sqVars =>
            [\A y \in CursorNames :
                PositionedOn(y) =>
                    TouchesOnly(sq[ret'.conn], sq'[ret'.conn], reached[y])]_sqVars
    BY SqNextGood DEF GoodStep, HitTruth
  <1> QED
    BY <1>1, SqInvariant, PTL DEF SqSpec, PositionedTouchesOnlyFetched

(***************************************************************************)
(* A failing call leaves a negative SQLCODE although the engine's codes    *)
(* are positive, unless GIXSQL_NOREC_CODE makes "no record" one of them.   *)
(***************************************************************************)
THEOREM FailuresLookLikeErrors ==
    ASSUME NorecCode > 0
    PROVE  SqSpec => FailuresAreErrors
  <1>1. SqInv /\ [SqNext]_sqVars =>
            [ret'.rc = "FAILED" /\ ret'.call \in {"exec", "prepare", "cursor"} =>
                sqlcode' = "error"]_sqVars
    <2>1. ASSUME SqInv, SqNext
          PROVE  SqFailures'
      BY <2>1, SqNextGood DEF GoodStep, SqInv
    <2> QED
      BY <2>1 DEF SqFailures
  <1> QED
    BY <1>1, SqInvariant, PTL DEF SqSpec, FailuresAreErrors

=============================================================================
