------------------------ MODULE RuntimeOnOdbcProofs ------------------------
(***************************************************************************)
(* The properties of the runtime on the ODBC driver, for any number of     *)
(* connections, cursors and prepared statements and for results of any     *)
(* length.                                                                 *)
(***************************************************************************)
EXTENDS RuntimeOnOdbc, GixSqlRuntimeProofs, WellFoundedInduction, FiniteSetTheorems

---------------------------------------------------------------------------
(* One driver.                                                             *)

\* Only a SELECT has a result, and a position in it.
StmtOk(st) ==
    /\ st.text = NoStmt => st = NoStatement
    /\ st.open => st.text = "SELECT"
    /\ ~st.open => st.at = 0
    /\ st.at <= st.rows

(***************************************************************************)
(* The private data of a cursor is its own statement or a prepared one,    *)
(* there whenever it is named; a driver without a session has no           *)
(* statements at all.                                                      *)
(***************************************************************************)
DriverOk(p) ==
    /\ p \in Driver
    /\ StmtOk(p.cur)
    /\ \A h \in Handles : StmtOk(p.stmt[h])
    /\ \A s \in StmtNames : p.stmt[s].text # "named"
    /\ \A x \in CursorNames :
          /\ p.priv[x] \in StmtNames \cup {x, NoStmt}
          /\ p.priv[x] # NoStmt => p.stmt[p.priv[x]].text # NoStmt
    /\ ~p.conn_handle => \A h \in Handles : p.stmt[h] = NoStatement

\* The result of a cursor with a statement of its own is new, or it is where it was.
ViewsKept(p, q) ==
    \A x \in CursorNames :
        q.priv[x] = x /\ q.stmt[x].open =>
            q.stmt[x].at = 0 \/ (p.priv[x] = x /\ q.stmt[x] = p.stmt[x])

\* What the calls of a driver other than a fetch have in common.
Evolves(p, q) ==
    /\ DriverOk(q)
    /\ q.conn_handle = p.conn_handle
    /\ ViewsKept(p, q)

\* The call leaves the cursors of the driver with the statements they have.
Quiet(p, q) == Evolves(p, q) /\ q.priv = p.priv

\* The call has touched nothing but last_rc and the current statement.
Idle(p, q) ==
    /\ Quiet(p, q)
    /\ q.stmt = p.stmt
    /\ q.done = p.done
    /\ q.off = p.off

LEMMA NoStatementType == NoStatement \in Stmt /\ StmtOk(NoStatement)
  <1>1. 0 \in 0..MaxRows
    BY OdbcAssumption
  <1> QED
    BY <1>1 DEF NoStatement, Stmt, StmtOk

LEMMA NullDriverOk ==
    /\ DriverOk(NullDriver)
    /\ ~NullDriver.conn_handle /\ ~NullDriver.done
    /\ \A x \in CursorNames : NullDriver.priv[x] = NoStmt
  <1>1. /\ NullDriver.stmt = [h \in Handles |-> NoStatement]
        /\ NullDriver.priv = [x \in CursorNames |-> NoStmt]
        /\ ~NullDriver.conn_handle /\ ~NullDriver.done /\ NullDriver.cur = NoStatement
    BY DEF NullDriver
  <1>2. NullDriver \in Driver
    BY NoStatementType DEF NullDriver, Driver
  <1>3. NoStatement.text = NoStmt /\ ~NoStatement.open
    BY DEF NoStatement
  <1>4. StmtNames \subseteq Handles /\ NoStmt # "named"
    BY OdbcAssumption DEF Handles
  <1> QED
    BY <1>1, <1>2, <1>3, <1>4, NoStatementType DEF DriverOk

LEMMA NewStatementType ==
    ASSUME NEW op \in AllStatements \cup {"named"}
    PROVE  /\ NewStatement(op) \in Stmt
           /\ NewStatement(op).text = op
           /\ NewStatement(op).open = FALSE
           /\ NewStatement(op).at = 0
           /\ StmtOk(NewStatement(op))
  <1>1. NoStatement.open = FALSE /\ NoStatement.at = 0 /\ NoStatement.rows = 0
    BY DEF NoStatement
  <1>2. op # NoStmt
    BY OdbcAssumption
  <1> QED
    BY <1>1, <1>2, NoStatementType DEF NewStatement, Stmt, StmtOk

LEMMA IdleRefl ==
    ASSUME NEW p, DriverOk(p)
    PROVE  Idle(p, p)
  BY DEF Idle, Quiet, Evolves, ViewsKept

LEMMA IdleOk ==
    ASSUME NEW p, NEW q, Idle(p, q)
    PROVE  DriverOk(q) /\ Quiet(p, q)
  BY DEF Idle, Quiet, Evolves, ViewsKept

LEMMA IdleTrans ==
    ASSUME NEW p, NEW q, NEW s, Idle(p, q), Idle(q, s)
    PROVE  Idle(p, s)
  BY DEF Idle, Quiet, Evolves, ViewsKept

LEMMA IdleThenQuiet ==
    ASSUME NEW p, NEW q, NEW s, Idle(p, q), Quiet(q, s)
    PROVE  Quiet(p, s)
  BY DEF Idle, Quiet, Evolves, ViewsKept

LEMMA QuietThenIdle ==
    ASSUME NEW p, NEW q, NEW s, Quiet(p, q), Idle(q, s)
    PROVE  Quiet(p, s)
  BY DEF Idle, Quiet, Evolves, ViewsKept

LEMMA IdleCode ==
    ASSUME NEW p, DriverOk(p), NEW code \in Int
    PROVE  /\ Idle(p, [p EXCEPT !.last_rc = code])
           /\ [p EXCEPT !.last_rc = code].last_rc = code
  BY DEF Idle, Quiet, Evolves, ViewsKept, DriverOk, Driver

LEMMA IdleCurrent ==
    ASSUME NEW p, DriverOk(p), NEW st \in Stmt, StmtOk(st)
    PROVE  /\ Idle(p, [p EXCEPT !.cur = st])
           /\ [p EXCEPT !.cur = st].last_rc = p.last_rc
           /\ [p EXCEPT !.cur = st].cur = st
  BY DEF Idle, Quiet, Evolves, ViewsKept, DriverOk, Driver

LEMMA ClearedOk ==
    ASSUME NEW p, DriverOk(p)
    PROVE  /\ Idle(p, odbcClearError(p)) /\ DriverOk(odbcClearError(p))
           /\ odbcClearError(p).cur = p.cur /\ odbcClearError(p).last_rc = 0
  <1>1. Idle(p, odbcClearError(p)) /\ odbcClearError(p).last_rc = 0
    BY IdleCode DEF odbcClearError, DBERR_NO_ERROR
  <1> QED
    BY <1>1, IdleOk DEF odbcClearError, DriverOk, Driver

\* A driver that reports an error has a code for it that is no row count.
LEMMA RetrieveErrorOk ==
    ASSUME NEW p, DriverOk(p), NEW rc \in {SQL_SUCCESS, SQL_NO_DATA, SQL_SUCCESS_WITH_INFO, SQL_ERROR},
           NEW q \in odbcRetrieveError(p, rc)
    PROVE  /\ Idle(p, q)
           /\ q.cur = p.cur
           /\ q.last_rc \in InfoCodes \cup {0, -Native}
           /\ rc = SQL_SUCCESS_WITH_INFO => q.last_rc \in InfoCodes
  <1> USE DEF SQL_SUCCESS, SQL_NO_DATA, SQL_SUCCESS_WITH_INFO, SQL_ERROR, Native, DBERR_NO_ERROR
  <1>1. PICK code \in InfoCodes \cup {0, -Native} :
            q = [p EXCEPT !.last_rc = code] /\ (rc = SQL_SUCCESS_WITH_INFO => code \in InfoCodes)
    BY DEF odbcRetrieveError, odbcClearError
  <1>2. code \in Int
    BY OdbcAssumption
  <1> QED
    BY <1>1, <1>2, IdleCode DEF DriverOk, Driver

---------------------------------------------------------------------------
(* The data source.                                                        *)

LEMMA ShutType ==
    ASSUME NEW st \in Stmt
    PROVE  /\ Shut(st) \in Stmt /\ Shut(st).text = st.text /\ ~Shut(st).open
           /\ st = NoStatement => Shut(st) = NoStatement
           /\ StmtOk(st) => StmtOk(Shut(st))
  <1>1. 0 \in 0..MaxRows
    BY OdbcAssumption
  <1>2. NoStatement.open = FALSE /\ NoStatement.rows = 0 /\ NoStatement.at = 0
    BY DEF NoStatement
  <1>3. st.open = FALSE /\ st.rows = 0 /\ st.at = 0 => Shut(st) = st
    BY DEF Shut, Stmt
  <1>4. /\ Shut(st) \in Stmt /\ Shut(st).text = st.text /\ Shut(st).open = FALSE
        /\ Shut(st).rows = 0 /\ Shut(st).at = 0
    BY <1>1 DEF Shut, Stmt
  <1>5. StmtOk(st) => StmtOk(Shut(st))
    <2>1. st = NoStatement => Shut(st) = NoStatement
      BY <1>2, <1>3
    <2> QED
      BY <1>4, <2>1 DEF StmtOk
  <1> QED
    BY <1>2, <1>3, <1>4, <1>5

LEMMA EndTransactionOk ==
    ASSUME NEW p, DriverOk(p), NEW q \in EndTransaction(p)
    PROVE  /\ Quiet(p, q) /\ q.done = p.done /\ q.off = p.off /\ q.last_rc = p.last_rc
           /\ q.cur = p.cur
  <1>1. CASE q = p
    BY <1>1, IdleRefl DEF Idle
  <1>2. CASE q # p
    <2>1. q = [p EXCEPT !.stmt = [h \in Handles |-> Shut(p.stmt[h])]]
      BY <1>2 DEF EndTransaction, DriverOk, Driver
    <2>2. /\ q.stmt = [h \in Handles |-> Shut(p.stmt[h])]
          /\ q.done = p.done /\ q.priv = p.priv /\ q.conn_handle = p.conn_handle
          /\ q.off = p.off /\ q.last_rc = p.last_rc /\ q.cur = p.cur
          /\ q.declared = p.declared
      BY <2>1 DEF DriverOk, Driver
    <2>3. \A h \in Handles : /\ p.stmt[h] \in Stmt
                             /\ q.stmt[h] = Shut(p.stmt[h])
                             /\ q.stmt[h] \in Stmt
                             /\ q.stmt[h].text = p.stmt[h].text
                             /\ ~q.stmt[h].open
                             /\ p.stmt[h] = NoStatement => q.stmt[h] = NoStatement
                             /\ StmtOk(q.stmt[h])
      BY <2>2, ShutType DEF DriverOk, Driver
    <2>4. q \in Driver
      BY <2>1, <2>3, <2>2 DEF DriverOk, Driver
    <2>5. DriverOk(q)
      <3>1. \A s \in StmtNames : q.stmt[s].text # "named"
        BY <2>3 DEF DriverOk, Handles
      <3>2. \A x \in CursorNames : /\ q.priv[x] \in StmtNames \cup {x, NoStmt}
                                   /\ q.priv[x] # NoStmt => q.priv[x] \in Handles
        BY <2>2 DEF DriverOk, Handles
      <3>3. \A x \in CursorNames : q.priv[x] # NoStmt => q.stmt[q.priv[x]].text # NoStmt
        BY <2>2, <2>3, <3>2 DEF DriverOk
      <3> QED
        BY <2>2, <2>3, <2>4, <3>1, <3>2, <3>3 DEF DriverOk
    <2> QED
      BY <2>2, <2>3, <2>5 DEF Quiet, Evolves, ViewsKept, Handles
  <1> QED
    BY <1>1, <1>2

LEMMA DoneOk ==
    ASSUME NEW p, DriverOk(p)
    PROVE  /\ Quiet(p, [p EXCEPT !.done = TRUE])
           /\ [p EXCEPT !.done = TRUE].cur = p.cur
  BY DEF Quiet, Evolves, ViewsKept, DriverOk, Driver

LEMMA EvolvesTrans ==
    ASSUME NEW p, NEW q, NEW s, Evolves(p, q), Evolves(q, s)
    PROVE  Evolves(p, s)
  BY DEF Evolves, ViewsKept

LEMMA QuietTrans ==
    ASSUME NEW p, NEW q, NEW s, Quiet(p, q), Quiet(q, s)
    PROVE  Quiet(p, s)
  BY EvolvesTrans DEF Quiet

\* What SQLExecute() may have done to the driver and to the statement.
Ran(p, st, a) ==
    /\ Quiet(p, a.p)
    /\ a.p.cur = p.cur
    /\ a.st \in Stmt
    /\ a.st.text = st.text
    /\ StmtOk(a.st)
    /\ a.st = st \/ (st.text = "SELECT" /\ ~st.open /\ a.st.at = st.at)
    /\ a.rc \in {SQL_SUCCESS, SQL_NO_DATA, SQL_SUCCESS_WITH_INFO, SQL_ERROR}
    /\ a.p.done /\ ~p.done => a.rc \in Worked /\ st.text # "SELECT"
    /\ a.rc = SQL_SUCCESS /\ st.text = "SELECT" => a.st.open

LEMMA WroteOk ==
    ASSUME NEW p, DriverOk(p), NEW q \in Wrote(p)
    PROVE  Quiet(p, q) /\ q.cur = p.cur
  <1>1. PICK s : /\ s \in IF p.off THEN {p} ELSE EndTransaction(p)
                 /\ q = [s EXCEPT !.done = TRUE]
    BY DEF Wrote
  <1>2. Quiet(p, s) /\ DriverOk(s) /\ s.cur = p.cur
    BY <1>1, EndTransactionOk, IdleRefl, IdleOk DEF Quiet, Evolves
  <1> QED
    BY <1>1, <1>2, DoneOk, QuietTrans

LEMMA ExecuteOk ==
    ASSUME NEW p, DriverOk(p), NEW st \in Stmt, st.text \in AllStatements,
           StmtOk(st), NEW a \in Execute(p, st)
    PROVE  Ran(p, st, a)
  <1> USE DEF SQL_SUCCESS, SQL_NO_DATA, SQL_SUCCESS_WITH_INFO, SQL_ERROR
  <1>1. Quiet(p, p)
    BY IdleRefl, IdleOk
  <1>2. CASE a = Executed(p, st, 0, SQL_ERROR)
    BY <1>1, <1>2 DEF Executed, Ran
  <1>3. CASE a # Executed(p, st, 0, SQL_ERROR) /\ st.text = "SELECT"
    <2>1. ~st.open
      BY <1>3 DEF Execute
    <2>5. a \in {Executed(p, WithResult(st, n), 0, rc)
                    : n \in 0..MaxRows, rc \in Worked}
      BY <1>3, <2>1 DEF Execute
    <2>2. PICK n \in 0..MaxRows, rc \in Worked :
              a = Executed(p, WithResult(st, n), 0, rc)
      BY <2>5
    <2>3. /\ a.p = p /\ a.rc = rc /\ a.st = WithResult(st, n)
      BY <2>2 DEF Executed
    <2>4. /\ a.st \in Stmt /\ a.st.text = st.text /\ a.st.open /\ a.st.at = st.at
          /\ a.st.rows = n
      BY <2>3 DEF Stmt, WithResult
    <2>6. StmtOk(a.st)
      BY <1>3, <2>1, <2>4, OdbcAssumption DEF StmtOk, AllStatements
    <2> QED
      BY <1>1, <1>3, <2>1, <2>3, <2>4, <2>6 DEF Ran, Worked
  <1>4. CASE a # Executed(p, st, 0, SQL_ERROR) /\ st.text # "SELECT"
    <2>1. ~st.open
      BY <1>4 DEF StmtOk
    <2> DEFINE Ended == {[t EXCEPT !.done = TRUE] : t \in EndTransaction(p)}
    <2>2. PICK q, n, rc :
             /\ a = Executed(q, st, n, rc)
             /\ \/ rc \in Worked /\ q \in Wrote(p) \cup Ended
                \/ rc \in {SQL_SUCCESS, SQL_NO_DATA} /\ q = p
      <3>1. CASE st.text = "INSERT"
        <4>1. a \in {Executed(q, st, 1, rc) : q \in Wrote(p), rc \in Worked}
          BY <1>4, <2>1, <3>1 DEF Execute
        <4> QED
          BY <4>1
      <3>2. CASE st.text = "UPDATE"
        <4>1. a \in {Executed(q, st, n, rc) : q \in Wrote(p), n \in {1, -1}, rc \in Worked}
                     \cup {Executed(p, st, 0, rc) : rc \in {SQL_SUCCESS, SQL_NO_DATA}}
          BY <1>4, <2>1, <3>2 DEF Execute
        <4> QED
          BY <4>1
      <3>3. CASE st.text = "UPDATE_CURRENT"
        <4>1. a \in {Executed(q, st, n, rc) : q \in Wrote(p), n \in {1, -1}, rc \in Worked}
          BY <1>4, <2>1, <3>3 DEF Execute
        <4> QED
          BY <4>1
      <3>4. CASE st.text \in {"COMMIT", "ROLLBACK"}
        <4>1. a \in {Executed([q EXCEPT !.done = TRUE], st, 0, rc)
                        : q \in EndTransaction(p), rc \in Worked}
          BY <1>4, <2>1, <3>4 DEF Execute
        <4>2. PICK t \in EndTransaction(p), rc \in Worked :
                 a = Executed([t EXCEPT !.done = TRUE], st, 0, rc)
          BY <4>1
        <4>3. [t EXCEPT !.done = TRUE] \in Ended
          OBVIOUS
        <4> QED
          BY <4>2, <4>3
      <3> QED
        BY <1>4, <3>1, <3>2, <3>3, <3>4 DEF AllStatements
    <2>3. a.p = q /\ a.st = st /\ a.rc = rc
      BY <2>2 DEF Executed
    <2>4. Quiet(p, q) /\ q.cur = p.cur
      <3>1. CASE q \in Wrote(p)
        BY <3>1, WroteOk
      <3>2. CASE q = p
        BY <1>1, <3>2
      <3>3. CASE q \in Ended
        <4> PICK t \in EndTransaction(p) : q = [t EXCEPT !.done = TRUE]
          BY <3>3
        <4>1. Quiet(p, t) /\ DriverOk(t) /\ t.cur = p.cur
          BY EndTransactionOk DEF Quiet, Evolves
        <4> QED
          BY <3>3, <4>1, DoneOk, QuietTrans
      <3> QED
        BY <2>2, <3>1, <3>2, <3>3
    <2> QED
      BY <1>4, <2>1, <2>2, <2>3, <2>4 DEF Ran, Worked
  <1> QED
    BY <1>2, <1>3, <1>4

---------------------------------------------------------------------------
(* The methods of the driver.                                              *)

LEMMA ReturnsFields ==
    ASSUME NEW p, NEW rc
    PROVE  Returns(p, rc).p = p /\ Returns(p, rc).rc = rc
  BY DEF Returns

\* A call that has changed something and fails leaves a positive code, so long as
\* the data source has one for every warning.
Honest(r) ==
    r.p.done /\ r.rc # DBERR_NO_ERROR /\ 0 \notin InfoCodes => r.p.last_rc > 0

LEMMA InfoPositive ==
    ASSUME NEW code \in InfoCodes, 0 \notin InfoCodes
    PROVE  code \in Int /\ code > 0
  BY OdbcAssumption

\* An ODBC call that was refused has changed nothing but last_rc.
LEMMA RefusedOk ==
    ASSUME NEW p, DriverOk(p), NEW err, NEW r \in Refused(p, err)
    PROVE  /\ Idle(p, r.p)
           /\ r.p.cur = p.cur
           /\ r.rc = err
           /\ r.p.last_rc \in InfoCodes \cup {0, -Native}
  <1>1. PICK rc \in {SQL_ERROR, SQL_SUCCESS_WITH_INFO} :
           \E q \in odbcRetrieveError(p, rc) : r = Returns(q, err)
    BY DEF Refused
  <1>2. PICK q \in odbcRetrieveError(p, rc) : r = Returns(q, err)
    BY <1>1
  <1>3. r.p = q /\ r.rc = err
    BY <1>2, ReturnsFields
  <1> QED
    BY <1>3, RetrieveErrorOk

LEMMA DroppedOk ==
    ASSUME NEW p, DriverOk(p)
    PROVE  Idle(p, Dropped(p, NoStmt)) /\ DriverOk(Dropped(p, NoStmt))
  BY IdleRefl, IdleCurrent, IdleOk, NoStatementType DEF Dropped

\* The statement is executed without a cursor.
LEMMA AfterExecuteOk ==
    ASSUME NEW p, DriverOk(p), ~p.done, NEW st, NEW a, Ran(p, st, a),
           NEW r \in AfterExecute(a, NoStmt)
    PROVE  /\ Quiet(p, r.p)
           /\ r.rc \in {DBERR_NO_ERROR, DBERR_SQL_ERROR}
           /\ Honest(r)
           /\ st.text = "SELECT" => ~r.p.done
           /\ r.rc = DBERR_NO_ERROR => r.p.cur = a.st
  <1> USE DEF DBERR_NO_ERROR, DBERR_SQL_ERROR
  <1>1. Quiet(p, a.p) /\ DriverOk(a.p) /\ a.st \in Stmt
    BY DEF Ran, Quiet, Evolves
  <1>2. a.p.done => a.rc \in Worked /\ st.text # "SELECT"
    BY DEF Ran
  <1>3. CASE a.rc # SQL_SUCCESS
    <2>1. PICK q \in odbcRetrieveError(a.p, a.rc) : r = Returns(q, DBERR_SQL_ERROR)
      BY <1>3 DEF AfterExecute
    <2>2. r.p = q /\ r.rc = DBERR_SQL_ERROR
      BY <2>1, ReturnsFields
    <2>3. Idle(a.p, q) /\ (a.rc = SQL_SUCCESS_WITH_INFO => q.last_rc \in InfoCodes)
      BY <1>1, RetrieveErrorOk DEF Ran
    <2>4. q.done = a.p.done /\ Quiet(p, q)
      BY <1>1, <2>3, QuietThenIdle DEF Idle
    <2> QED
      BY <1>2, <1>3, <2>2, <2>3, <2>4, InfoPositive DEF Honest, Worked
  <1>4. CASE a.rc = SQL_SUCCESS /\ is_update_or_delete_statement(a.st.text) /\ a.affected <= 0
    <2>1. r = Returns([a.p EXCEPT !.last_rc = 100], DBERR_SQL_ERROR)
      BY <1>4 DEF AfterExecute
    <2>2. r.p = [a.p EXCEPT !.last_rc = 100] /\ r.rc = DBERR_SQL_ERROR
      BY <2>1, ReturnsFields
    <2>3. Idle(a.p, r.p) /\ r.p.last_rc = 100
      BY <1>1, <2>2, IdleCode
    <2> QED
      <3>1. Quiet(p, r.p)
        BY <1>1, <2>3, QuietThenIdle
      <3>2. r.p.done = a.p.done
        BY <2>3 DEF Idle
      <3> QED
        BY <1>2, <2>2, <2>3, <3>1, <3>2 DEF Honest
  <1>5. CASE a.rc = SQL_SUCCESS /\ ~(is_update_or_delete_statement(a.st.text) /\ a.affected <= 0)
    <2>1. r = Returns(Keep(odbcClearError(a.p), NoStmt, a.st), DBERR_NO_ERROR)
      BY <1>5 DEF AfterExecute
    <2>2. PICK b : b = odbcClearError(a.p)
      OBVIOUS
    <2>3. Idle(a.p, b) /\ DriverOk(b)
      BY <1>1, <2>2, IdleCode, IdleOk DEF odbcClearError
    <2>4. r.p = [b EXCEPT !.cur = a.st] /\ r.rc = DBERR_NO_ERROR
      BY <2>1, <2>2, ReturnsFields, OdbcAssumption DEF Keep
    <2>5. Idle(b, r.p) /\ r.p.cur = a.st
      <3>1. StmtOk(a.st)
        BY DEF Ran
      <3> QED
        BY <1>1, <2>3, <2>4, <3>1, IdleCurrent
    <2>6. Idle(a.p, r.p)
      BY <2>3, <2>5, IdleTrans
    <2> QED
      BY <1>1, <1>2, <2>4, <2>5, <2>6, QuietThenIdle DEF Honest, Idle
  <1> QED
    BY <1>3, <1>4, <1>5

LEMMA ExecOk ==
    ASSUME NEW p, DriverOk(p), ~p.done, NEW op \in AllStatements, NEW r \in exec(p, op)
    PROVE  /\ Quiet(p, r.p)
           /\ r.rc \in {DBERR_NO_ERROR, DBERR_SQL_ERROR}
           /\ Honest(r)
           /\ op = "SELECT" => ~r.p.done
           /\ ~p.conn_handle => r.rc = DBERR_SQL_ERROR
  <1> USE DEF DBERR_NO_ERROR, DBERR_SQL_ERROR
  <1>1. PICK q : q = Dropped(p, NoStmt)
    OBVIOUS
  <1>2. Idle(p, q) /\ DriverOk(q) /\ ~q.done /\ q.conn_handle = p.conn_handle
    BY <1>1, DroppedOk DEF Idle, Quiet, Evolves
  <1>3. CASE ~p.conn_handle
    <2>1. PICK s \in {NoDiagnostics(q, SQL_ERROR), q} : r = Returns(s, DBERR_SQL_ERROR)
      BY <1>1, <1>2, <1>3 DEF exec, odbc_exec
    <2>2. r.p = s /\ r.rc = DBERR_SQL_ERROR
      BY <2>1, ReturnsFields
    <2>3. Idle(q, s)
      BY <1>2, IdleRefl, IdleCode DEF NoDiagnostics, SQL_ERROR
    <2>4. Idle(p, s)
      BY <1>2, <2>3, IdleTrans
    <2> QED
      BY <2>2, <2>4, IdleOk DEF Honest, Idle
  <1>4. CASE p.conn_handle /\ r \in Refused(q, DBERR_SQL_ERROR)
    <2>1. Idle(q, r.p) /\ r.rc = DBERR_SQL_ERROR
      BY <1>2, <1>4, RefusedOk
    <2>2. Idle(p, r.p)
      BY <1>2, <2>1, IdleTrans
    <2> QED
      BY <1>4, <2>1, <2>2, IdleOk DEF Honest, Idle
  <1>5. CASE p.conn_handle /\ r \notin Refused(q, DBERR_SQL_ERROR)
    <2>4. PICK st : st = NewStatement(op) /\ st \in Stmt /\ st.text = op /\ StmtOk(st)
      BY NewStatementType
    <2>1. PICK a \in Execute(q, st) : r \in AfterExecute(a, NoStmt)
      BY <1>1, <1>2, <1>5, <2>4 DEF exec, odbc_exec
    <2>2. Ran(q, st, a)
      BY <1>2, <2>4, ExecuteOk
    <2>3. /\ Quiet(q, r.p)
          /\ r.rc \in {DBERR_NO_ERROR, DBERR_SQL_ERROR}
          /\ Honest(r)
          /\ op = "SELECT" => ~r.p.done
      BY <1>2, <2>1, <2>2, <2>4, AfterExecuteOk
    <2> QED
      BY <1>2, <1>5, <2>3, IdleThenQuiet
  <1> QED
    BY <1>3, <1>4, <1>5

\* The text of a statement that is there may change to another, for a prepared one.
LEMMA ReplaceStatement ==
    ASSUME NEW p, DriverOk(p), p.conn_handle, NEW h \in Handles, NEW st \in Stmt,
           st.text # NoStmt, StmtOk(st),
           h \in StmtNames => st.text # "named"
    PROVE  LET q == [p EXCEPT !.stmt[h] = st]
           IN  /\ DriverOk(q)
               /\ q.stmt = [p.stmt EXCEPT ![h] = st]
               /\ q.priv = p.priv /\ q.conn_handle = p.conn_handle /\ q.done = p.done
               /\ q.cur = p.cur /\ q.last_rc = p.last_rc
               /\ h \in StmtNames => Quiet(p, q)
  <1> DEFINE q == [p EXCEPT !.stmt[h] = st]
  <1>1. /\ q \in Driver
        /\ q.stmt = [p.stmt EXCEPT ![h] = st]
        /\ q.priv = p.priv /\ q.conn_handle = p.conn_handle /\ q.done = p.done
        /\ q.cur = p.cur /\ q.last_rc = p.last_rc
    BY DEF DriverOk, Driver
  <1>2. \A g \in Handles : q.stmt[g] = IF g = h THEN st ELSE p.stmt[g]
    BY <1>1 DEF DriverOk, Driver
  <1> HIDE DEF q
  <1>3. DriverOk(q)
    <2>1. \A x \in CursorNames : /\ q.priv[x] \in StmtNames \cup {x, NoStmt}
                                 /\ q.priv[x] # NoStmt => q.priv[x] \in Handles
      BY <1>1 DEF DriverOk, Handles
    <2>2. \A x \in CursorNames : q.priv[x] # NoStmt => q.stmt[q.priv[x]].text # NoStmt
      BY <1>1, <1>2, <2>1 DEF DriverOk
    <2>3. \A s \in StmtNames : q.stmt[s].text # "named"
      BY <1>2 DEF DriverOk, Handles
    <2> QED
      BY <1>1, <1>2, <2>1, <2>2, <2>3 DEF DriverOk
  <1>4. h \in StmtNames => Quiet(p, q)
    <2>1. h \in StmtNames => \A x \in CursorNames : q.stmt[x] = p.stmt[x]
      BY <1>2, OdbcAssumption DEF Handles
    <2> QED
      BY <1>1, <1>3, <2>1 DEF Quiet, Evolves, ViewsKept
  <1> QED
    BY <1>1, <1>3, <1>4 DEF q

LEMMA PrepareOk ==
    ASSUME NEW p, DriverOk(p), ~p.done, NEW s \in StmtNames, NEW op \in AllStatements,
           NEW r \in prepare(p, s, op)
    PROVE  /\ Quiet(p, r.p)
           /\ ~r.p.done
           /\ ~p.conn_handle => r.rc = DBERR_PREPARE_FAILED
  <1> USE DEF DBERR_PREPARE_FAILED
  <1>1. CASE p.stmt[s] # NoStatement
    <2>1. r.p = p /\ r.rc = DBERR_PREPARE_FAILED
      BY <1>1, ReturnsFields DEF prepare
    <2> QED
      BY <2>1, IdleRefl, IdleOk
  <1>2. CASE p.stmt[s] = NoStatement /\ ~p.conn_handle
    <2>1. r.p = NoDiagnostics(p, SQL_INVALID_HANDLE) /\ r.rc = DBERR_PREPARE_FAILED
      BY <1>2, ReturnsFields DEF prepare
    <2>2. Idle(p, r.p)
      BY <2>1, IdleCode DEF NoDiagnostics, SQL_INVALID_HANDLE
    <2> QED
      BY <2>1, <2>2, IdleOk DEF Idle
  <1>3. CASE p.stmt[s] = NoStatement /\ p.conn_handle
    <2>1. CASE \E q \in odbcRetrieveError(p, SQL_ERROR) : r = Returns(q, DBERR_PREPARE_FAILED)
      <3>1. PICK q \in odbcRetrieveError(p, SQL_ERROR) : r = Returns(q, DBERR_PREPARE_FAILED)
        BY <2>1
      <3>2. Idle(p, q) /\ r.p = q
        BY <3>1, RetrieveErrorOk, ReturnsFields
      <3> QED
        BY <1>3, <3>2, IdleOk DEF Idle
    <2>2. CASE r = Returns([odbcClearError(p) EXCEPT !.stmt[s] = NewStatement(op)], DBERR_NO_ERROR)
      <3>1. PICK b, st : b = odbcClearError(p) /\ st = NewStatement(op)
        OBVIOUS
      <3>2. Idle(p, b) /\ DriverOk(b) /\ ~b.done /\ b.conn_handle
        BY <1>3, <3>1, ClearedOk DEF Idle, Quiet, Evolves
      <3>3. /\ st \in Stmt /\ st.text # NoStmt /\ StmtOk(st) /\ st.text # "named"
            /\ s \in Handles
        BY <3>1, NewStatementType, OdbcAssumption DEF Handles, AllStatements
      <3>4. r.p = [b EXCEPT !.stmt[s] = st]
        BY <2>2, <3>1, ReturnsFields
      <3>5. Quiet(b, r.p) /\ ~r.p.done
        BY <3>2, <3>3, <3>4, ReplaceStatement
      <3> QED
        BY <1>3, <3>2, <3>5, IdleThenQuiet
    <2> QED
      BY <1>3, <2>1, <2>2 DEF prepare
  <1> QED
    BY <1>1, <1>2, <1>3

LEMMA ExecPreparedOk ==
    ASSUME NEW p, DriverOk(p), ~p.done, NEW s \in StmtNames, NEW r \in exec_prepared(p, s)
    PROVE  /\ Quiet(p, r.p)
           /\ r.rc \in {DBERR_NO_ERROR, DBERR_SQL_ERROR}
           /\ Honest(r)
           /\ r.p.done => ~r.p.stmt[s].open
           /\ r.rc = DBERR_NO_ERROR => p.conn_handle /\ r.p.stmt[s].text # NoStmt
  <1> USE DEF DBERR_NO_ERROR, DBERR_SQL_ERROR
  <1>1. CASE p.stmt[s] = NoStatement
    <2>1. r.p = p /\ r.rc = DBERR_SQL_ERROR
      BY <1>1, ReturnsFields DEF exec_prepared
    <2> QED
      BY <2>1, IdleRefl, IdleOk DEF Honest
  <1>2. CASE p.stmt[s] # NoStatement
    <2>1. PICK st : st = p.stmt[s]
      OBVIOUS
    <2>2. /\ s \in Handles /\ st \in Stmt /\ st.text \in AllStatements /\ st.text # NoStmt
          /\ StmtOk(st)
          /\ p.conn_handle
      <3>1. s \in Handles /\ st \in Stmt /\ StmtOk(st) /\ st.text # "named"
        BY <2>1 DEF DriverOk, Driver, Handles
      <3> QED
        BY <1>2, <2>1, <3>1, OdbcAssumption DEF DriverOk, Stmt, StmtOk
    <2>13. PICK a \in Execute(p, st) :
              \E q \in odbcRetrieveError([a.p EXCEPT !.stmt[s] = a.st], a.rc) :
                 r = Returns(q, IF a.rc = SQL_SUCCESS THEN DBERR_NO_ERROR ELSE DBERR_SQL_ERROR)
      BY <1>2, <2>1 DEF exec_prepared
    <2>3. PICK q \in odbcRetrieveError([a.p EXCEPT !.stmt[s] = a.st], a.rc) :
             r = Returns(q, IF a.rc = SQL_SUCCESS THEN DBERR_NO_ERROR ELSE DBERR_SQL_ERROR)
      BY <2>13
    <2>4. Ran(p, st, a)
      BY <2>2, ExecuteOk
    <2>5. PICK b : b = [a.p EXCEPT !.stmt[s] = a.st]
      OBVIOUS
    <2>6. /\ Quiet(p, a.p) /\ DriverOk(a.p) /\ a.p.conn_handle /\ a.st \in Stmt
          /\ a.st.text # NoStmt /\ a.st.text # "named"
          /\ StmtOk(a.st)
      BY <2>2, <2>4 DEF Ran, Quiet, Evolves, AllStatements
    <2>7. /\ DriverOk(b) /\ Quiet(a.p, b) /\ b.done = a.p.done
          /\ b.stmt = [a.p.stmt EXCEPT ![s] = a.st]
      BY <2>2, <2>5, <2>6, ReplaceStatement
    <2>8. b.stmt[s] = a.st
      BY <2>2, <2>6, <2>7 DEF DriverOk, Driver
    <2>9. /\ r.p = q
          /\ r.rc = IF a.rc = SQL_SUCCESS THEN DBERR_NO_ERROR ELSE DBERR_SQL_ERROR
      BY <2>3, ReturnsFields
    <2>10. Idle(b, q) /\ (a.rc = SQL_SUCCESS_WITH_INFO => q.last_rc \in InfoCodes)
      BY <2>3, <2>4, <2>5, <2>7, RetrieveErrorOk DEF Ran
    <2>11. Quiet(p, q) /\ q.done = a.p.done /\ q.stmt[s] = a.st
      BY <2>6, <2>7, <2>8, <2>10, QuietTrans, QuietThenIdle DEF Idle
    <2>12. a.p.done => a.rc \in Worked /\ ~a.st.open
      BY <2>4, <2>6 DEF Ran, StmtOk
    <2> QED
      BY <2>2, <2>6, <2>9, <2>10, <2>11, <2>12, InfoPositive DEF Honest, Worked
  <1> QED
    BY <1>1, <1>2

\* The call works on cursor x: the other cursors keep their statements.
OnCursor(p, q, x) ==
    /\ Evolves(p, q)
    /\ \A y \in CursorNames \ {x} : q.priv[y] = p.priv[y]

LEMMA IdleOnCursor ==
    ASSUME NEW p, NEW q, NEW x, Idle(p, q)
    PROVE  OnCursor(p, q, x) /\ q.priv[x] = p.priv[x]
  BY DEF OnCursor, Idle, Quiet

LEMMA OnCursorTrans ==
    ASSUME NEW p, NEW q, NEW s, NEW x, OnCursor(p, q, x), OnCursor(q, s, x)
    PROVE  OnCursor(p, s, x)
  BY EvolvesTrans DEF OnCursor

\* The cursor gets st for a statement of its own.
Gets(p, q, x, st) ==
    /\ q \in Driver /\ q.conn_handle = p.conn_handle /\ q.done = p.done
    /\ q.cur = p.cur
    /\ q.stmt = [p.stmt EXCEPT ![x] = st]
    /\ q.priv = [p.priv EXCEPT ![x] = x]

\* The cursor loses its statement; one of its own may go.
Loses(p, q, x) ==
    /\ q \in Driver /\ q.conn_handle = p.conn_handle /\ q.done = p.done
    /\ q.cur = p.cur
    /\ q.stmt = p.stmt \/ q.stmt = [p.stmt EXCEPT ![x] = NoStatement]
    /\ q.priv = [p.priv EXCEPT ![x] = NoStmt]

LEMMA OwnStatement ==
    ASSUME NEW p, DriverOk(p), p.conn_handle, NEW x \in CursorNames, NEW st \in Stmt,
           st.text # NoStmt, StmtOk(st), st.at = 0,
           NEW q, Gets(p, q, x, st)
    PROVE  OnCursor(p, q, x) /\ q.priv[x] = x /\ q.done = p.done
  <1>1. x \in Handles /\ x \notin StmtNames /\ x # NoStmt
    BY OdbcAssumption DEF Handles
  <1>2. \A h \in Handles : q.stmt[h] = IF h = x THEN st ELSE p.stmt[h]
    BY <1>1 DEF Gets, DriverOk, Driver
  <1>3. \A y \in CursorNames : q.priv[y] = IF y = x THEN x ELSE p.priv[y]
    BY DEF Gets, DriverOk, Driver
  <1>4. \A y \in CursorNames : /\ q.priv[y] \in StmtNames \cup {y, NoStmt}
                               /\ q.priv[y] # NoStmt => q.priv[y] \in Handles
    BY <1>1, <1>3 DEF DriverOk, Handles
  <1>5. \A y \in CursorNames : q.priv[y] # NoStmt => q.stmt[q.priv[y]].text # NoStmt
    BY <1>1, <1>2, <1>3, <1>4 DEF DriverOk
  <1>6. \A s \in StmtNames : q.stmt[s].text # "named"
    BY <1>1, <1>2 DEF DriverOk, Handles
  <1>7. DriverOk(q)
    BY <1>2, <1>4, <1>5, <1>6 DEF Gets, DriverOk
  <1>8. ViewsKept(p, q)
    BY <1>2, <1>3 DEF ViewsKept, Handles
  <1> QED
    BY <1>3, <1>7, <1>8 DEF Gets, OnCursor, Evolves

LEMMA CursorDeclareOk ==
    ASSUME NEW p, DriverOk(p), ~p.done, NEW x \in CursorNames, NEW r \in cursor_declare(p, x)
    PROVE  /\ OnCursor(p, r.p, x)
           /\ ~r.p.done
           /\ r.rc # DBERR_NO_ERROR => r.p.priv[x] = p.priv[x]
           /\ r.rc = DBERR_NO_ERROR => r.p.priv[x] = x /\ p.conn_handle
  <1> USE DEF DBERR_NO_ERROR, DBERR_DECLARE_CURSOR_FAILED
  <1>1. CASE r = Returns(p, DBERR_DECLARE_CURSOR_FAILED)
    <2>1. r.p = p /\ r.rc = DBERR_DECLARE_CURSOR_FAILED
      BY <1>1, ReturnsFields
    <2> QED
      BY <2>1, IdleRefl, IdleOnCursor
  <1>2. CASE p.conn_handle /\ r \in Refused(p, DBERR_DECLARE_CURSOR_FAILED)
    <2>1. Idle(p, r.p) /\ r.rc = DBERR_DECLARE_CURSOR_FAILED
      BY <1>2, RefusedOk
    <2> QED
      BY <2>1, IdleOnCursor DEF Idle
  <1>3. CASE /\ p.conn_handle
             /\ r = Returns([odbcClearError(p) EXCEPT !.stmt[x] = NewStatement("named"),
                                                      !.priv[x] = x,
                                                      !.declared = @ \cup {x}], DBERR_NO_ERROR)
    <2>1. PICK b, st : b = odbcClearError(p) /\ st = NewStatement("named")
      OBVIOUS
    <2>2. Idle(p, b) /\ DriverOk(b) /\ b.conn_handle /\ ~b.done
      BY <1>3, <2>1, ClearedOk DEF Idle, Quiet, Evolves
    <2>3. st \in Stmt /\ st.text # NoStmt /\ StmtOk(st) /\ st.at = 0
      BY <2>1, NewStatementType, OdbcAssumption
    <2>4. PICK q : q = [b EXCEPT !.stmt[x] = st, !.priv[x] = x, !.declared = @ \cup {x}]
      OBVIOUS
    <2>5. Gets(b, q, x, st)
      BY <2>2, <2>3, <2>4 DEF Gets, DriverOk, Driver, Handles
    <2>6. OnCursor(b, q, x) /\ q.priv[x] = x /\ q.done = b.done
      BY <2>2, <2>3, <2>5, OwnStatement
    <2>7. r.p = q /\ r.rc = DBERR_NO_ERROR
      BY <1>3, <2>1, <2>4, ReturnsFields
    <2> QED
      BY <1>3, <2>2, <2>6, <2>7, IdleOnCursor, OnCursorTrans
  <1> QED
    BY <1>1, <1>2, <1>3 DEF cursor_declare

LEMMA IsThere ==
    ASSUME NEW p, DriverOk(p), NEW h \in Handles
    PROVE  p.stmt[h] # NoStatement <=> p.stmt[h].text # NoStmt
  <1>1. NoStatement.text = NoStmt
    BY DEF NoStatement
  <1> QED
    BY <1>1 DEF DriverOk, StmtOk

LEMMA HasStatementIs ==
    ASSUME NEW p, DriverOk(p), NEW x \in CursorNames
    PROVE  HasStatement(p, x) <=> p.priv[x] # NoStmt
  <1>1. p.priv[x] # NoStmt => p.priv[x] \in Handles /\ p.stmt[p.priv[x]].text # NoStmt
    BY DEF DriverOk, Handles
  <1> QED
    BY <1>1, IsThere DEF HasStatement

LEMMA PreparedIs ==
    ASSUME NEW p, DriverOk(p), NEW s \in StmtNames \cup {NoStmt}
    PROVE  is_cursor_from_prepared_statement(p, s) <=> s # NoStmt /\ p.stmt[s].text # NoStmt
  BY IsThere DEF is_cursor_from_prepared_statement, Handles

LEMMA LoseStatement ==
    ASSUME NEW p, DriverOk(p), NEW x \in CursorNames, NEW q, Loses(p, q, x)
    PROVE  OnCursor(p, q, x) /\ q.priv[x] = NoStmt /\ q.done = p.done
  <1>1. x \in Handles /\ x \notin StmtNames
    BY OdbcAssumption DEF Handles
  <1>2. \A h \in Handles : q.stmt[h] = p.stmt[h] \/ (h = x /\ q.stmt[h] = NoStatement)
    BY <1>1 DEF Loses, DriverOk, Driver
  <1>3. \A y \in CursorNames : q.priv[y] = IF y = x THEN NoStmt ELSE p.priv[y]
    BY DEF Loses, DriverOk, Driver
  <1>4. \A y \in CursorNames : /\ q.priv[y] \in StmtNames \cup {y, NoStmt}
                               /\ q.priv[y] # NoStmt => q.priv[y] \in Handles \ {x}
    BY <1>1, <1>3 DEF DriverOk, Handles
  <1>5. \A y \in CursorNames : q.priv[y] # NoStmt => q.stmt[q.priv[y]].text # NoStmt
    BY <1>1, <1>2, <1>3, <1>4 DEF DriverOk
  <1>6. \A s \in StmtNames : q.stmt[s].text # "named"
    BY <1>1, <1>2 DEF DriverOk, Handles
  <1>7. NoStatement.text = NoStmt /\ ~NoStatement.open /\ StmtOk(NoStatement)
    BY NoStatementType DEF NoStatement
  <1>8. DriverOk(q)
    BY <1>2, <1>4, <1>5, <1>6, <1>7 DEF Loses, DriverOk
  <1>9. ViewsKept(p, q)
    BY <1>2, <1>3, <1>7, OdbcAssumption DEF ViewsKept, Handles
  <1> QED
    BY <1>3, <1>8, <1>9 DEF Loses, OnCursor, Evolves

\* A cursor whose private data is its own statement or that of s.
LEMMA CursorCloseOk ==
    ASSUME NEW p, DriverOk(p), ~p.done, NEW x \in CursorNames,
           NEW s \in StmtNames \cup {NoStmt}, p.priv[x] \in {NoStmt, x, s},
           NEW r \in cursor_close(p, x, s)
    PROVE  /\ OnCursor(p, r.p, x)
           /\ r.p.priv[x] = NoStmt
           /\ ~r.p.done
  <1>1. CASE is_cursor_from_prepared_statement(p, s)
    <2>1. r.p = [p EXCEPT !.priv[x] = NoStmt]
      BY <1>1, ReturnsFields DEF cursor_close
    <2>2. Loses(p, r.p, x)
      BY <2>1 DEF Loses, DriverOk, Driver
    <2> QED
      BY <2>2, LoseStatement
  <1>2. CASE ~is_cursor_from_prepared_statement(p, s) /\ ~HasStatement(p, x)
    <2>1. r.p = p /\ p.priv[x] = NoStmt
      BY <1>2, ReturnsFields, HasStatementIs DEF cursor_close
    <2> QED
      BY <2>1, IdleRefl, IdleOnCursor
  <1>3. CASE ~is_cursor_from_prepared_statement(p, s) /\ HasStatement(p, x)
    <2>1. p.priv[x] = x
      BY <1>3, HasStatementIs, PreparedIs DEF DriverOk
    <2>2. PICK b : b = [p EXCEPT !.priv[x] = NoStmt]
      OBVIOUS
    <2>3. PICK f : f = [b EXCEPT !.stmt[x] = NoStatement]
      OBVIOUS
    <2>4. /\ b \in Driver /\ b.conn_handle = p.conn_handle /\ b.done = p.done
          /\ b.stmt = p.stmt /\ b.priv = [p.priv EXCEPT ![x] = NoStmt] /\ b.cur = p.cur
      BY <2>2 DEF DriverOk, Driver
    <2>5. Loses(p, f, x)
      BY <2>3, <2>4, NoStatementType DEF Loses, Driver, Handles
    <2>6. OnCursor(p, f, x) /\ f.priv[x] = NoStmt /\ DriverOk(f) /\ f.done = p.done
      BY <2>5, LoseStatement DEF OnCursor, Evolves
    <2>7. Idle(f, r.p)
      <3>1. CASE r \in Refused(f, DBERR_CLOSE_CURSOR_FAILED)
        BY <2>6, <3>1, RefusedOk
      <3>2. CASE r = Returns(odbcClearError(f), DBERR_NO_ERROR)
        BY <2>6, <3>2, ClearedOk, ReturnsFields
      <3> QED
        BY <1>3, <2>1, <2>2, <2>3, <3>1, <3>2 DEF cursor_close
    <2> QED
      BY <2>6, <2>7, IdleOnCursor, OnCursorTrans DEF Idle
  <1> QED
    BY <1>1, <1>2, <1>3

\* The SELECT of a cursor: a statement that ran stays with the cursor.
LEMMA AfterSelectOk ==
    ASSUME NEW p, DriverOk(p), ~p.done, p.conn_handle, NEW x \in CursorNames, NEW st,
           st = NewStatement("SELECT"), NEW a, Ran(p, st, a), NEW r \in AfterExecute(a, x)
    PROVE  /\ OnCursor(p, r.p, x)
           /\ ~r.p.done
           /\ r.rc = DBERR_NO_ERROR => r.p.priv[x] = x
           /\ r.rc # DBERR_NO_ERROR => r.p.priv[x] = p.priv[x]
  <1> USE DEF DBERR_NO_ERROR, DBERR_SQL_ERROR
  <1>0. st.text = "SELECT" /\ st.at = 0
    BY NewStatementType DEF AllStatements
  <1>1. /\ Quiet(p, a.p) /\ DriverOk(a.p) /\ a.st \in Stmt /\ ~a.p.done /\ a.p.conn_handle
        /\ a.st.text = "SELECT" /\ a.st.at = 0 /\ StmtOk(a.st)
    BY <1>0 DEF Ran, Quiet, Evolves
  <1>2. OnCursor(p, a.p, x) /\ a.p.priv[x] = p.priv[x]
    BY <1>1 DEF OnCursor, Quiet
  <1>3. CASE a.rc # SQL_SUCCESS
    <2>1. PICK q \in odbcRetrieveError(a.p, a.rc) : r = Returns(q, DBERR_SQL_ERROR)
      BY <1>3 DEF AfterExecute
    <2>2. r.p = q /\ r.rc = DBERR_SQL_ERROR /\ Idle(a.p, q)
      BY <1>1, <2>1, ReturnsFields, RetrieveErrorOk DEF Ran
    <2> QED
      BY <1>1, <1>2, <2>2, IdleOnCursor, OnCursorTrans DEF Idle
  <1>4. CASE a.rc = SQL_SUCCESS
    <2>1. r = Returns(Keep(odbcClearError(a.p), x, a.st), DBERR_NO_ERROR)
      BY <1>1, <1>4 DEF AfterExecute, is_update_or_delete_statement
    <2>2. PICK b : b = odbcClearError(a.p)
      OBVIOUS
    <2>3. Idle(a.p, b) /\ DriverOk(b) /\ ~b.done /\ b.conn_handle
      BY <1>1, <2>2, ClearedOk DEF Idle, Quiet, Evolves
    <2>8. PICK t : t = [b EXCEPT !.stmt[x] = a.st]
      OBVIOUS
    <2>4. r.p = [t EXCEPT !.priv[x] = x] /\ r.rc = DBERR_NO_ERROR
      BY <2>1, <2>2, <2>8, ReturnsFields DEF Keep
    <2>5. Gets(b, r.p, x, a.st)
      <3>1. /\ t \in Driver /\ t.conn_handle = b.conn_handle /\ t.done = b.done
            /\ t.stmt = [b.stmt EXCEPT ![x] = a.st] /\ t.priv = b.priv /\ t.cur = b.cur
        BY <1>1, <2>3, <2>8 DEF DriverOk, Driver, Handles
      <3> QED
        BY <2>4, <3>1 DEF Gets, Driver, Handles
    <2>6. a.st.text # NoStmt
      BY <1>1, OdbcAssumption DEF AllStatements
    <2>7. OnCursor(b, r.p, x) /\ r.p.priv[x] = x /\ ~r.p.done
      BY <1>1, <2>3, <2>5, <2>6, OwnStatement
    <2> QED
      BY <1>2, <2>3, <2>4, <2>7, IdleOnCursor, OnCursorTrans
  <1> QED
    BY <1>3, <1>4

LEMMA SelectOk ==
    ASSUME NEW p, DriverOk(p), ~p.done, NEW x \in CursorNames,
           NEW r \in odbc_exec(p, "SELECT", x)
    PROVE  /\ OnCursor(p, r.p, x)
           /\ ~r.p.done
           /\ r.rc = DBERR_NO_ERROR => r.p.priv[x] = x /\ p.conn_handle
           /\ r.rc # DBERR_NO_ERROR => r.p.priv[x] = p.priv[x]
  <1> USE DEF DBERR_NO_ERROR, DBERR_SQL_ERROR
  <1>1. Dropped(p, x) = p
    BY DEF Dropped
  <1>2. CASE ~p.conn_handle
    <2>1. PICK q \in {NoDiagnostics(p, SQL_ERROR), p} : r = Returns(q, DBERR_SQL_ERROR)
      BY <1>1, <1>2 DEF odbc_exec
    <2>2. r.p = q /\ r.rc = DBERR_SQL_ERROR /\ Idle(p, q)
      BY <2>1, ReturnsFields, IdleRefl, IdleCode DEF NoDiagnostics, SQL_ERROR
    <2> QED
      BY <2>2, IdleOnCursor DEF Idle
  <1>3. CASE p.conn_handle /\ r \in Refused(p, DBERR_SQL_ERROR)
    <2>1. Idle(p, r.p) /\ r.rc = DBERR_SQL_ERROR
      BY <1>3, RefusedOk
    <2> QED
      BY <2>1, IdleOnCursor DEF Idle
  <1>4. CASE p.conn_handle /\ r \notin Refused(p, DBERR_SQL_ERROR)
    <2>1. PICK st : st = NewStatement("SELECT")
      OBVIOUS
    <2>2. PICK a \in Execute(p, st) : r \in AfterExecute(a, x)
      BY <1>1, <1>4, <2>1 DEF odbc_exec
    <2>3. st \in Stmt /\ st.text = "SELECT" /\ StmtOk(st) /\ "SELECT" \in AllStatements
      BY <2>1, NewStatementType DEF AllStatements
    <2>4. Ran(p, st, a)
      BY <2>3, ExecuteOk
    <2> QED
      BY <1>4, <2>1, <2>2, <2>4, AfterSelectOk
  <1> QED
    BY <1>2, <1>3, <1>4

\* The cursor shares the prepared statement s and drops its own.
LEMMA ShareStatement ==
    ASSUME NEW p, DriverOk(p), NEW x \in CursorNames, NEW s \in StmtNames,
           p.conn_handle, p.stmt[s].text # NoStmt,
           NEW q, q = Shares(p, x, s)
    PROVE  OnCursor(p, q, x) /\ q.priv[x] = s /\ q.done = p.done /\ q.last_rc = p.last_rc
  <1>1. x \in Handles /\ x \notin StmtNames /\ s \in Handles /\ s # x
    BY OdbcAssumption DEF Handles
  <1>2. PICK b : b = [p EXCEPT !.priv[x] = s]
    OBVIOUS
  <1>3. /\ b \in Driver /\ b.conn_handle = p.conn_handle /\ b.done = p.done
        /\ b.stmt = p.stmt /\ b.priv = [p.priv EXCEPT ![x] = s] /\ b.last_rc = p.last_rc
        /\ b.cur = p.cur
    BY <1>1, <1>2 DEF DriverOk, Driver
  <1>4. q = [b EXCEPT !.stmt[x] = NoStatement]
    BY <1>2 DEF Shares
  <1>5. /\ q \in Driver /\ q.conn_handle = p.conn_handle /\ q.done = p.done
        /\ q.stmt = [p.stmt EXCEPT ![x] = NoStatement] /\ q.priv = [p.priv EXCEPT ![x] = s]
        /\ q.last_rc = p.last_rc /\ q.cur = p.cur
    <2>1. [b.stmt EXCEPT ![x] = NoStatement] \in [Handles -> Stmt]
      BY <1>1, <1>3, NoStatementType DEF Driver
    <2>2. q.stmt = [b.stmt EXCEPT ![x] = NoStatement] /\ q \in Driver
      BY <1>3, <1>4, <2>1 DEF Driver
    <2> QED
      BY <1>3, <1>4, <2>2 DEF Driver
  <1>6. \A h \in Handles : q.stmt[h] = IF h = x THEN NoStatement ELSE p.stmt[h]
    BY <1>1, <1>5 DEF DriverOk, Driver
  <1>7. \A y \in CursorNames : q.priv[y] = IF y = x THEN s ELSE p.priv[y]
    BY <1>5 DEF DriverOk, Driver
  <1>8. NoStatement.text = NoStmt /\ ~NoStatement.open /\ StmtOk(NoStatement)
    BY NoStatementType DEF NoStatement
  <1>9. \A y \in CursorNames : /\ q.priv[y] \in StmtNames \cup {y, NoStmt}
                               /\ q.priv[y] # NoStmt => q.priv[y] \in Handles \ {x}
    BY <1>1, <1>7 DEF DriverOk, Handles
  <1>10. \A y \in CursorNames : q.priv[y] # NoStmt => q.stmt[q.priv[y]].text # NoStmt
    BY <1>1, <1>6, <1>7, <1>9 DEF DriverOk
  <1>11. \A t \in StmtNames : q.stmt[t].text # "named"
    BY <1>1, <1>6 DEF DriverOk, Handles
  <1>12. DriverOk(q)
    BY <1>5, <1>6, <1>8, <1>9, <1>10, <1>11 DEF DriverOk
  <1>13. ViewsKept(p, q)
    BY <1>1, <1>6, <1>7 DEF ViewsKept, Handles
  <1> QED
    BY <1>5, <1>7, <1>12, <1>13 DEF OnCursor, Evolves

LEMMA CursorOpenOk ==
    ASSUME NEW p, DriverOk(p), ~p.done, NEW x \in CursorNames,
           NEW s \in StmtNames \cup {NoStmt}, NEW r \in cursor_open(p, x, s)
    PROVE  /\ OnCursor(p, r.p, x)
           /\ Honest(r)
           /\ r.rc = DBERR_NO_ERROR => r.p.priv[x] \in {x, s} \ {NoStmt} /\ p.conn_handle
           /\ r.rc # DBERR_NO_ERROR => r.p.priv[x] = p.priv[x]
  <1> USE DEF DBERR_NO_ERROR, DBERR_OPEN_CURSOR_FAILED
  <1>0. x # NoStmt
    BY OdbcAssumption
  <1>1. CASE s = NoStmt
    <2>1. PICK r0 \in odbc_exec(p, "SELECT", x) : r = Opened(r0)
      BY <1>1 DEF cursor_open
    <2>2. r.p = r0.p /\ (r.rc = DBERR_NO_ERROR <=> r0.rc = DBERR_NO_ERROR)
      BY <2>1, ReturnsFields DEF Opened
    <2> QED
      BY <1>0, <1>1, <2>1, <2>2, SelectOk DEF Honest
  <1>2. CASE s # NoStmt /\ p.stmt[s] = NoStatement
    <2>1. r.p = p /\ r.rc = DBERR_OPEN_CURSOR_FAILED
      BY <1>2, ReturnsFields DEF cursor_open
    <2> QED
      BY <2>1, IdleRefl, IdleOnCursor DEF Honest
  <1>3. CASE s # NoStmt /\ p.stmt[s] # NoStatement
    <2>1. PICK r0 \in exec_prepared(p, s) :
             r = Opened(IF r0.rc = DBERR_NO_ERROR
                        THEN Returns(Shares(r0.p, x, s), r0.rc) ELSE r0)
      BY <1>3 DEF cursor_open
    <2>2. /\ Quiet(p, r0.p)
          /\ r0.rc \in {DBERR_NO_ERROR, DBERR_SQL_ERROR}
          /\ Honest(r0)
          /\ r0.rc = DBERR_NO_ERROR => p.conn_handle /\ r0.p.stmt[s].text # NoStmt
      BY <1>3, ExecPreparedOk
    <2>3. OnCursor(p, r0.p, x) /\ DriverOk(r0.p) /\ r0.p.priv[x] = p.priv[x]
      BY <2>2 DEF OnCursor, Quiet, Evolves
    <2>4. CASE r0.rc # DBERR_NO_ERROR
      <3>1. r.p = r0.p /\ r.rc = DBERR_OPEN_CURSOR_FAILED
        BY <2>1, <2>4, ReturnsFields DEF Opened
      <3> QED
        BY <2>2, <2>3, <2>4, <3>1 DEF Honest
    <2>5. CASE r0.rc = DBERR_NO_ERROR
      <3>2. PICK b : b = r0.p
        OBVIOUS
      <3>3. PICK q : q = Shares(b, x, s)
        OBVIOUS
      <3>5. r.p = q /\ r.rc = DBERR_NO_ERROR
        BY <2>1, <2>5, <3>2, <3>3, ReturnsFields DEF Opened
      <3>6. s \in StmtNames /\ b.conn_handle
        BY <1>3, <2>2, <2>5, <3>2 DEF Quiet, Evolves
      <3>7. OnCursor(b, q, x) /\ q.priv[x] = s
        BY <2>2, <2>3, <2>5, <3>2, <3>3, <3>6, ShareStatement
      <3>8. OnCursor(p, q, x)
        BY <2>3, <3>2, <3>7, OnCursorTrans
      <3> QED
        BY <1>3, <2>2, <2>5, <3>5, <3>7, <3>8 DEF Honest
    <2> QED
      BY <2>4, <2>5
  <1> QED
    BY <1>1, <1>2, <1>3

\* A fetch from handle h: where the result is afterwards, given what it returned.
Fetched(p, r, h) ==
    /\ DriverOk(r.p)
    /\ r.p.conn_handle = p.conn_handle
    /\ r.p.priv = p.priv
    /\ ~r.p.done
    /\ \A g \in Handles \ {h} : r.p.stmt[g] = p.stmt[g]
    /\ r.rc \in {DBERR_NO_ERROR, DBERR_NO_DATA, DBERR_FETCH_ROW_FAILED}
    /\ \/ r.rc # DBERR_NO_ERROR /\ r.p.stmt[h] = p.stmt[h]
       \/ /\ r.rc # DBERR_NO_DATA
          /\ p.stmt[h].open
          /\ p.stmt[h].at < p.stmt[h].rows
          /\ r.p.stmt[h] = [p.stmt[h] EXCEPT !.at = @ + 1]
    /\ r.rc = DBERR_NO_DATA => p.stmt[h].open /\ p.stmt[h].at = p.stmt[h].rows
    /\ r.rc # DBERR_NO_DATA => r.p.last_rc \in InfoCodes \cup {0, -Native}
    /\ r.rc = DBERR_NO_ERROR => r.p.last_rc = 0

LEMMA FetchStatement ==
    ASSUME NEW st \in Stmt, StmtOk(st), NEW f \in Fetch(st)
    PROVE  /\ f.rc \in {SQL_SUCCESS, SQL_NO_DATA, SQL_SUCCESS_WITH_INFO, SQL_ERROR}
           /\ f.st \in Stmt
           /\ f.st.text = st.text
           /\ f.st.open = st.open
           /\ StmtOk(f.st)
           /\ f.rc # SQL_ERROR => st.open
           /\ f.rc = SQL_NO_DATA => st.at = st.rows
           /\ \/ f.rc \notin Worked /\ f.st = st
              \/ /\ f.rc \in Worked
                 /\ st.open
                 /\ st.at < st.rows
                 /\ f.st = [st EXCEPT !.at = @ + 1]
  <1> USE DEF SQL_SUCCESS, SQL_NO_DATA, SQL_SUCCESS_WITH_INFO, SQL_ERROR, Worked
  <1>1. st.at \in 0..MaxRows /\ st.rows \in 0..MaxRows
    BY DEF Stmt
  <1>2. CASE f = [st |-> st, rc |-> SQL_ERROR]
    BY <1>2
  <1>3. CASE f = [st |-> st, rc |-> SQL_NO_DATA] /\ st.open /\ st.at = st.rows
    <2>1. f.st = st /\ f.rc = SQL_NO_DATA
      BY <1>3
    <2>2. f.rc \notin Worked
      BY <2>1
    <2> QED
      BY <1>3, <2>1, <2>2
  <1>4. ASSUME st.open, st.at # st.rows, NEW rc \in Worked,
               f = [st |-> [st EXCEPT !.at = @ + 1], rc |-> rc]
        PROVE  /\ f.st \in Stmt
               /\ f.st.text = st.text
               /\ f.st.open = st.open
               /\ StmtOk(f.st)
               /\ f.rc \in Worked
               /\ st.at < st.rows
               /\ f.st = [st EXCEPT !.at = @ + 1]
    <2>1. st.at + 1 \in 0..MaxRows /\ st.at < st.rows /\ st.at + 1 <= st.rows
      BY <1>1, <1>4, OdbcAssumption DEF StmtOk
    <2>2. f.st = [st EXCEPT !.at = @ + 1] /\ f.rc = rc
      BY <1>4
    <2>3. /\ f.st \in Stmt /\ f.st.text = st.text /\ f.st.open = st.open
          /\ f.st.at = st.at + 1 /\ f.st.rows = st.rows
      BY <2>1, <2>2 DEF Stmt
    <2>4. StmtOk(f.st)
      BY <1>4, <2>1, <2>3, OdbcAssumption DEF StmtOk, AllStatements
    <2> QED
      BY <2>1, <2>2, <2>3, <2>4
  <1>5. CASE f # [st |-> st, rc |-> SQL_ERROR] /\ st.at # st.rows
    <2>1. st.open
      BY <1>5 DEF Fetch
    <2>2. f \in {[st |-> [st EXCEPT !.at = @ + 1], rc |-> rc] : rc \in Worked}
      BY <1>5, <2>1 DEF Fetch
    <2>3. PICK rc \in Worked : f = [st |-> [st EXCEPT !.at = @ + 1], rc |-> rc]
      BY <2>2
    <2>4. /\ f.st \in Stmt
          /\ f.st.text = st.text
          /\ f.st.open = st.open
          /\ StmtOk(f.st)
          /\ f.rc \in Worked
          /\ st.at < st.rows
          /\ f.st = [st EXCEPT !.at = @ + 1]
      BY ONLY <1>4, <1>5, <2>1, <2>3
    <2>5. f.rc \in {SQL_SUCCESS, SQL_SUCCESS_WITH_INFO} /\ f.rc # SQL_NO_DATA
      BY <2>4
    <2> QED
      BY ONLY <2>1, <2>4, <2>5
  <1> QED
    BY <1>2, <1>3, <1>5 DEF Fetch

LEMMA FetchFromOk ==
    ASSUME NEW p, DriverOk(p), ~p.done, NEW h \in Handles, p.stmt[h].text # NoStmt,
           NEW r \in FetchFrom(p, h)
    PROVE  Fetched(p, r, h)
  <1> USE DEF DBERR_NO_ERROR, DBERR_NO_DATA, DBERR_FETCH_ROW_FAILED
  <1>1. PICK st : st = p.stmt[h]
    OBVIOUS
  <1>2. st \in Stmt /\ StmtOk(st) /\ p.conn_handle
    <2>1. st \in Stmt /\ StmtOk(st)
      BY <1>1 DEF DriverOk, Driver
    <2>2. p.stmt[h] # NoStatement
      BY DEF NoStatement
    <2> QED
      BY <2>1, <2>2 DEF DriverOk
  <1>3. PICK f \in Fetch(st) :
           r \in IF f.rc = SQL_NO_DATA THEN {Returns(p, DBERR_NO_DATA)}
                 ELSE {Returns(q, IF f.rc = SQL_SUCCESS THEN DBERR_NO_ERROR
                                  ELSE DBERR_FETCH_ROW_FAILED)
                         : q \in odbcRetrieveError([p EXCEPT !.stmt[h] = f.st], f.rc)}
    BY <1>1 DEF FetchFrom
  <1>4. /\ f.rc \in {SQL_SUCCESS, SQL_NO_DATA, SQL_SUCCESS_WITH_INFO, SQL_ERROR}
        /\ f.st \in Stmt
        /\ f.st.text = st.text
        /\ StmtOk(f.st)
        /\ f.rc = SQL_NO_DATA => st.open /\ st.at = st.rows
        /\ \/ f.rc \notin Worked /\ f.st = st
           \/ /\ f.rc \in Worked
              /\ st.open
              /\ st.at < st.rows
              /\ f.st = [st EXCEPT !.at = @ + 1]
    BY <1>2, FetchStatement DEF SQL_NO_DATA, SQL_ERROR
  <1>5. CASE f.rc = SQL_NO_DATA
    <2>1. r.p = p /\ r.rc = DBERR_NO_DATA
      BY <1>3, <1>5, ReturnsFields
    <2> QED
      BY <1>1, <1>4, <1>5, <2>1 DEF Fetched
  <1>6. CASE f.rc # SQL_NO_DATA
    <2>1. PICK b : b = [p EXCEPT !.stmt[h] = f.st]
      OBVIOUS
    <2>2. PICK q \in odbcRetrieveError(b, f.rc) :
             r = Returns(q, IF f.rc = SQL_SUCCESS THEN DBERR_NO_ERROR
                            ELSE DBERR_FETCH_ROW_FAILED)
      BY <1>3, <1>6, <2>1
    <2>3. /\ r.p = q
          /\ r.rc = IF f.rc = SQL_SUCCESS THEN DBERR_NO_ERROR ELSE DBERR_FETCH_ROW_FAILED
      BY <2>2, ReturnsFields
    <2>4. h \in StmtNames => f.st.text # "named"
      BY <1>1, <1>4 DEF DriverOk
    <2>5. /\ DriverOk(b)
          /\ b.stmt = [p.stmt EXCEPT ![h] = f.st]
          /\ b.priv = p.priv /\ b.conn_handle = p.conn_handle /\ b.done = p.done
      <3>1. PICK new : new = f.st
        OBVIOUS
      <3>2. /\ new \in Stmt /\ new.text # NoStmt /\ StmtOk(new) /\ b = [p EXCEPT !.stmt[h] = new]
            /\ h \in StmtNames => new.text # "named"
        BY <1>1, <1>4, <2>1, <2>4, <3>1
      <3>3. /\ DriverOk(b)
            /\ b.stmt = [p.stmt EXCEPT ![h] = new]
            /\ b.priv = p.priv /\ b.conn_handle = p.conn_handle /\ b.done = p.done
        BY ZenonT(60), <1>2, <3>2, ReplaceStatement
      <3> QED
        BY <3>1, <3>3
    <2>6. Idle(b, q) /\ q.last_rc \in InfoCodes \cup {0, -Native}
      BY <1>4, <2>2, <2>5, RetrieveErrorOk
    <2>7. f.rc = SQL_SUCCESS => q.last_rc = 0
      <3>1. f.rc = SQL_SUCCESS => q = odbcClearError(b)
        BY <2>2 DEF odbcRetrieveError, SQL_SUCCESS, SQL_NO_DATA, SQL_SUCCESS_WITH_INFO, SQL_ERROR
      <3> QED
        BY <2>5, <3>1, ClearedOk
    <2>8. /\ DriverOk(q) /\ q.conn_handle = p.conn_handle /\ q.priv = p.priv /\ ~q.done
          /\ q.stmt = [p.stmt EXCEPT ![h] = f.st]
      BY <2>5, <2>6 DEF Idle, Quiet, Evolves
    <2>9. /\ q.stmt[h] = f.st
          /\ \A g \in Handles \ {h} : q.stmt[g] = p.stmt[g]
      BY <2>8 DEF DriverOk, Driver
    <2>10. f.rc \in Worked <=> f.rc \in {SQL_SUCCESS, SQL_SUCCESS_WITH_INFO}
      BY DEF Worked
    <2>11. r.rc \in {DBERR_NO_ERROR, DBERR_FETCH_ROW_FAILED}
           /\ (r.rc = DBERR_NO_ERROR => f.rc = SQL_SUCCESS)
      BY <2>3
    <2>12. \/ r.rc # DBERR_NO_ERROR /\ r.p.stmt[h] = p.stmt[h]
           \/ /\ r.rc # DBERR_NO_DATA
              /\ p.stmt[h].open
              /\ p.stmt[h].at < p.stmt[h].rows
              /\ r.p.stmt[h] = [p.stmt[h] EXCEPT !.at = @ + 1]
      BY <1>1, <1>4, <2>3, <2>9, <2>10, <2>11
    <2> QED
      BY <2>3, <2>6, <2>7, <2>8, <2>9, <2>11, <2>12 DEF Fetched
  <1> QED
    BY <1>5, <1>6

LEMMA CursorFetchOk ==
    ASSUME NEW p, DriverOk(p), ~p.done, NEW x \in CursorNames, NEW r \in cursor_fetch_one(p, x)
    PROVE  /\ p.priv[x] = NoStmt => r.p = p /\ r.rc = DBERR_FETCH_ROW_FAILED
           /\ p.priv[x] # NoStmt => Fetched(p, r, p.priv[x])
  <1>1. p.priv[x] # NoStmt => p.priv[x] \in Handles /\ p.stmt[p.priv[x]].text # NoStmt
    BY DEF DriverOk, Handles
  <1>2. p.priv[x] # NoStmt => r \in FetchFrom(p, p.priv[x])
    BY HasStatementIs DEF cursor_fetch_one
  <1>3. p.priv[x] = NoStmt => r.p = p /\ r.rc = DBERR_FETCH_ROW_FAILED
    BY HasStatementIs, ReturnsFields DEF cursor_fetch_one
  <1> QED
    BY <1>1, <1>2, <1>3, FetchFromOk

\* The statement a SELECT INTO or an EXECUTE INTO takes its row from.
Taken(p, s) == IF s = NoStmt THEN p.cur ELSE p.stmt[s]

\* The driver that has moved to the next row of that statement.
MovedTo(p, s, st) == IF s = NoStmt THEN [p EXCEPT !.cur = st] ELSE [p EXCEPT !.stmt[s] = st]

LEMMA MoveToFirstIs ==
    ASSUME NEW p, NEW s, NEW m \in move_to_first_record(p, s)
    PROVE  \/ /\ Taken(p, s) = NoStatement
              /\ m = Returns([p EXCEPT !.last_rc = DBERR_MOVE_TO_FIRST_FAILED],
                             DBERR_MOVE_TO_FIRST_FAILED)
           \/ /\ Taken(p, s) # NoStatement
              /\ \E f \in Fetch(Taken(p, s)) :
                    m = CASE f.rc = SQL_NO_DATA ->
                               Returns([p EXCEPT !.last_rc = DBERR_NO_DATA], DBERR_NO_DATA)
                          [] f.rc = SQL_SUCCESS ->
                               Returns(odbcClearError(MovedTo(p, s, f.st)), DBERR_NO_ERROR)
                          [] f.rc \in {SQL_ERROR, SQL_SUCCESS_WITH_INFO} ->
                               Returns([MovedTo(p, s, f.st)
                                           EXCEPT !.last_rc = DBERR_MOVE_TO_FIRST_FAILED],
                                       DBERR_MOVE_TO_FIRST_FAILED)
  BY DEF move_to_first_record, Taken, MovedTo

\* The first row is there only if the statement has a result.
LEMMA MoveToFirstOk ==
    ASSUME NEW p, DriverOk(p), NEW s \in StmtNames \cup {NoStmt},
           NEW m \in move_to_first_record(p, s)
    PROVE  /\ Quiet(p, m.p)
           /\ m.p.done = p.done
           /\ m.rc = DBERR_NO_ERROR => Taken(p, s).open
  <1> USE DEF DBERR_NO_ERROR, DBERR_NO_DATA, DBERR_MOVE_TO_FIRST_FAILED
  <1>1. CASE m = Returns([p EXCEPT !.last_rc = DBERR_MOVE_TO_FIRST_FAILED],
                         DBERR_MOVE_TO_FIRST_FAILED)
    <2>1. /\ m.p = [p EXCEPT !.last_rc = DBERR_MOVE_TO_FIRST_FAILED]
          /\ m.rc = DBERR_MOVE_TO_FIRST_FAILED
      BY <1>1, ReturnsFields
    <2>2. Idle(p, m.p)
      BY <2>1, IdleCode
    <2> QED
      BY <2>1, <2>2 DEF Idle
  <1>2. CASE /\ Taken(p, s) # NoStatement
             /\ m # Returns([p EXCEPT !.last_rc = DBERR_MOVE_TO_FIRST_FAILED],
                            DBERR_MOVE_TO_FIRST_FAILED)
    <2>1. PICK st : st = Taken(p, s)
      OBVIOUS
    <2>2. st \in Stmt /\ StmtOk(st) /\ (s # NoStmt => s \in Handles /\ st = p.stmt[s])
      <3>1. s # NoStmt => s \in Handles
        BY DEF Handles
      <3> QED
        BY <2>1, <3>1 DEF Taken, DriverOk, Driver
    <2>3. PICK f \in Fetch(st) :
             m = CASE f.rc = SQL_NO_DATA ->
                        Returns([p EXCEPT !.last_rc = DBERR_NO_DATA], DBERR_NO_DATA)
                   [] f.rc = SQL_SUCCESS ->
                        Returns(odbcClearError(MovedTo(p, s, f.st)), DBERR_NO_ERROR)
                   [] f.rc \in {SQL_ERROR, SQL_SUCCESS_WITH_INFO} ->
                        Returns([MovedTo(p, s, f.st)
                                    EXCEPT !.last_rc = DBERR_MOVE_TO_FIRST_FAILED],
                                DBERR_MOVE_TO_FIRST_FAILED)
      BY ZenonT(60), <1>2, <2>1, MoveToFirstIs
    <2>4. PICK new, code : new = f.st /\ code = f.rc
      OBVIOUS
    <2>5. /\ code \in {SQL_SUCCESS, SQL_NO_DATA, SQL_SUCCESS_WITH_INFO, SQL_ERROR}
          /\ new \in Stmt /\ new.text = st.text /\ StmtOk(new)
          /\ code # SQL_ERROR => st.open
      BY <2>2, <2>4, FetchStatement
    <2>6. PICK b : b = MovedTo(p, s, new)
      OBVIOUS
    <2>7. DriverOk(b) /\ Quiet(p, b) /\ b.done = p.done
      <3>1. CASE s = NoStmt
        <4>1. b = [p EXCEPT !.cur = new]
          BY <2>6, <3>1 DEF MovedTo
        <4>2. Idle(p, b)
          BY <2>5, <4>1, IdleCurrent
        <4> QED
          BY <4>2, IdleOk DEF Idle
      <3>2. CASE s # NoStmt
        <4>1. b = [p EXCEPT !.stmt[s] = new] /\ s \in StmtNames /\ s \in Handles
          BY <2>2, <2>6, <3>2 DEF MovedTo
        <4>2. p.conn_handle /\ new.text # NoStmt /\ new.text # "named"
          BY <1>2, <2>1, <2>2, <2>5, <3>2, IsThere DEF DriverOk
        <4>3. DriverOk(b) /\ b.done = p.done /\ Quiet(p, b)
          BY <2>5, <4>1, <4>2, ReplaceStatement
        <4> QED
          BY <4>3
      <3> QED
        BY <3>1, <3>2
    <2>8. CASE code = SQL_NO_DATA
      <3>3. m = Returns([p EXCEPT !.last_rc = DBERR_NO_DATA], DBERR_NO_DATA)
        BY ONLY <2>3, <2>4, <2>8
           DEF SQL_SUCCESS, SQL_NO_DATA, SQL_ERROR, SQL_SUCCESS_WITH_INFO
      <3>1. m.p = [p EXCEPT !.last_rc = DBERR_NO_DATA] /\ m.rc = DBERR_NO_DATA
        BY <3>3, ReturnsFields
      <3>2. Idle(p, m.p)
        BY <3>1, IdleCode
      <3> QED
        BY <3>1, <3>2 DEF Idle
    <2>9. CASE code = SQL_SUCCESS
      <3>4. m = Returns(odbcClearError(MovedTo(p, s, new)), DBERR_NO_ERROR)
        BY ONLY <2>3, <2>4, <2>9
           DEF SQL_SUCCESS, SQL_NO_DATA, SQL_ERROR, SQL_SUCCESS_WITH_INFO
      <3>1. m.p = odbcClearError(b)
        BY <2>6, <3>4, ReturnsFields
      <3>2. Idle(b, m.p)
        BY <2>7, <3>1, ClearedOk
      <3>3. st.open
        BY <2>5, <2>9 DEF SQL_SUCCESS, SQL_ERROR
      <3> QED
        BY <2>1, <2>7, <3>2, <3>3, QuietThenIdle DEF Idle
    <2>10. CASE code \in {SQL_ERROR, SQL_SUCCESS_WITH_INFO}
      <3>1. /\ m.p = [b EXCEPT !.last_rc = DBERR_MOVE_TO_FIRST_FAILED]
            /\ m.rc = DBERR_MOVE_TO_FIRST_FAILED
        BY <2>3, <2>4, <2>6, <2>10, ReturnsFields
           DEF SQL_SUCCESS, SQL_NO_DATA, SQL_ERROR, SQL_SUCCESS_WITH_INFO
      <3>2. Idle(b, m.p)
        BY <2>7, <3>1, IdleCode
      <3>3. Quiet(p, m.p) /\ m.p.done = p.done
        <4>1. Quiet(p, m.p)
          BY ONLY <2>7, <3>2, QuietThenIdle
        <4> QED
          BY <2>7, <3>2, <4>1 DEF Idle
      <3> QED
        BY <3>1, <3>3
    <2> QED
      BY <2>5, <2>8, <2>9, <2>10
  <1> QED
    BY <1>1, <1>2, MoveToFirstIs

\* A driver without a session: nothing is left of its statements.
Gone(q) ==
    /\ DriverOk(q)
    /\ ~q.conn_handle /\ ~q.done
    /\ \A x \in CursorNames : q.priv[x] = NoStmt

LEMMA GoneCode ==
    ASSUME NEW q, Gone(q), NEW code \in Int
    PROVE  Gone([q EXCEPT !.last_rc = code])
  <1>1. PICK b : b = [q EXCEPT !.last_rc = code]
    OBVIOUS
  <1>2. Idle(q, b)
    BY <1>1, IdleCode DEF Gone
  <1> QED
    BY <1>1, <1>2 DEF Gone, Idle, Quiet, Evolves

LEMMA TerminatedDriver ==
    ASSUME NEW p, DriverOk(p), NEW r \in terminate_connection(p)
    PROVE  Gone(r.p)
  <1>1. PICK b : b = [NullDriver EXCEPT !.off = p.off, !.last_rc = p.last_rc]
    OBVIOUS
  <1>2. Gone(b)
    <2>1. p.off \in BOOLEAN /\ p.last_rc \in Int /\ NullDriver \in Driver
      BY NullDriverOk DEF DriverOk, Driver
    <2>2. /\ b \in Driver /\ b.stmt = NullDriver.stmt /\ b.priv = NullDriver.priv
          /\ b.conn_handle = NullDriver.conn_handle /\ b.done = NullDriver.done
          /\ b.cur = NullDriver.cur
      BY <1>1, <2>1 DEF Driver
    <2> QED
      BY <2>2, NullDriverOk DEF Gone, DriverOk
  <1>3. \/ r.p = b
        \/ r.p = odbcClearError(b)
        \/ r.p = NoDiagnostics(b, SQL_ERROR)
        \/ r.p = NoDiagnostics(b, SQL_SUCCESS_WITH_INFO)
    BY <1>1, ReturnsFields DEF terminate_connection
  <1> QED
    BY <1>2, <1>3, GoneCode
       DEF odbcClearError, NoDiagnostics, SQL_ERROR, SQL_SUCCESS_WITH_INFO, DBERR_NO_ERROR

LEMMA ResetOkDriver ==
    ASSUME NEW p, DriverOk(p), NEW r \in reset(p)
    PROVE  Gone(r.p)
  <1>1. PICK t \in terminate_connection(p) :
           r = Returns(t.p, IF t.rc = DBERR_NO_ERROR THEN t.rc ELSE DBERR_CONN_RESET_FAILED)
    BY DEF reset
  <1>2. r.p = t.p
    BY <1>1, ReturnsFields
  <1> QED
    BY <1>2, TerminatedDriver

LEMMA ConnectOkDriver ==
    ASSUME NEW off \in BOOLEAN
    PROVE  /\ DriverOk(connect(off))
           /\ connect(off).conn_handle
           /\ \A x \in CursorNames : connect(off).priv[x] = NoStmt
           /\ ~connect(off).done
  <1>1. PICK b : b = connect(off)
    OBVIOUS
  <1>2. /\ b \in Driver /\ b.stmt = NullDriver.stmt /\ b.priv = NullDriver.priv
        /\ b.conn_handle /\ b.done = NullDriver.done /\ b.cur = NullDriver.cur
    BY <1>1, NullDriverOk DEF connect, DriverOk, Driver
  <1> QED
    BY <1>1, <1>2, NullDriverOk DEF DriverOk

---------------------------------------------------------------------------
(* The invariant of the composition.                                       *)

\* Only a registered connection that is live has a driver with a session.
OdDrivers ==
    /\ od \in [ConnIds -> Driver]
    /\ \A c \in ConnIds :
          /\ DriverOk(od[c])
          /\ od[c].conn_handle => c <= next_conn_id
          /\ c \in connections /\ od[c].conn_handle => conn[c].session = "live"

(***************************************************************************)
(* A driver has a statement for a cursor only while the cursor is bound to *)
(* its connection: one of the cursor's own or the prepared one it was      *)
(* declared for.  A cursor the runtime knows to be open in the driver has  *)
(* one.                                                                    *)
(***************************************************************************)
OdCursors ==
    /\ source \in [CursorNames -> StmtNames \cup {NoStmt}]
    /\ \A x \in CursorNames :
          /\ x \notin cursors => cursor[x].conn = NoConn
          /\ \A c \in ConnIds : od[c].priv[x] # NoStmt =>
                /\ cursor[x].conn = c
                /\ od[c].priv[x] \in {x, source[x]}
          /\ cursor[x].drv = "open" =>
                /\ cursor[x].conn \in ConnIds
                /\ od[cursor[x].conn].priv[x] # NoStmt

OdInv ==
    /\ StateInv
    /\ OdDrivers
    /\ OdCursors

LEMMA InitOdInv == OdInit => OdInv
  <1> SUFFICES ASSUME OdInit PROVE OdInv
    OBVIOUS
  <1>1. StateInv
    BY InitStateInv DEF OdInit
  <1>2. OdDrivers
    BY NullDriverOk DEF OdInit, OdDrivers, DriverOk
  <1>3. \A x \in CursorNames : cursor[x].conn = NoConn /\ cursor[x].drv = "undeclared"
    BY DEF OdInit, Init, CurInit, NullCursor
  <1>4. OdCursors
    BY <1>3, NullDriverOk DEF OdInit, OdCursors
  <1> QED
    BY <1>1, <1>2, <1>4 DEF OdInv

---------------------------------------------------------------------------
(* What the abstract cursors are.                                          *)

\* CursorView, of a cursor bound to connection c, declared for s, with drivers ds.
ViewOf(ds, c, s, x) ==
    LET st == ds[c].stmt[ds[c].priv[x]]
        Closed == [open |-> FALSE, rows |-> 0, at |-> 0]
    IN  IF c = NoConn \/ s # NoStmt THEN Closed
        ELSE IF ~HasStatement(ds[c], x) THEN Closed
        ELSE IF ~st.open THEN Closed
        ELSE [open |-> TRUE, rows |-> st.rows, at |-> st.at]

\* The cursor has a result of its own to fetch from.
Opens(ds, c, s, x) ==
    /\ c \in ConnIds
    /\ s = NoStmt
    /\ ds[c].priv[x] = x
    /\ ds[c].stmt[x].open

View(st) == [open |-> TRUE, rows |-> st.rows, at |-> st.at]
ClosedView == [open |-> FALSE, rows |-> 0, at |-> 0]

LEMMA ViewIs ==
    ASSUME NEW ds, NEW c \in ConnIds \cup {NoConn}, NEW s, NEW x \in CursorNames,
           c # NoConn => DriverOk(ds[c]) /\ ds[c].priv[x] \in {x, s, NoStmt}
    PROVE  ViewOf(ds, c, s, x) = IF Opens(ds, c, s, x) THEN View(ds[c].stmt[x]) ELSE ClosedView
  <1>1. CASE c = NoConn
    BY <1>1 DEF ViewOf, Opens, ClosedView, NoConn, ConnIds
  <1>2. CASE c # NoConn /\ s # NoStmt
    BY <1>2 DEF ViewOf, Opens, ClosedView
  <1>3. CASE c # NoConn /\ s = NoStmt
    <2>1. HasStatement(ds[c], x) <=> ds[c].priv[x] # NoStmt
      BY <1>3, HasStatementIs
    <2>2. x # NoStmt
      BY OdbcAssumption
    <2> QED
      BY <1>3, <2>1, <2>2 DEF ViewOf, Opens, View, ClosedView
  <1> QED
    BY <1>1, <1>2, <1>3

LEMMA ViewsAre ==
    ASSUME NEW x
    PROVE  /\ CursorView(x) = ViewOf(od, cursor[x].conn, source[x], x)
           /\ CursorView(x)' = ViewOf(od', cursor'[x].conn, source'[x], x)
  BY DEF CursorView, ViewOf

LEMMA BoundViews ==
    ASSUME OdDrivers, OdCursors, CurTypeOK, NEW x \in CursorNames
    PROVE  /\ cursor[x].conn \in ConnIds \cup {NoConn}
           /\ cursor[x].conn # NoConn =>
                 /\ DriverOk(od[cursor[x].conn])
                 /\ od[cursor[x].conn].priv[x] \in {x, source[x], NoStmt}
  BY DEF OdDrivers, OdCursors, CurTypeOK, Cursor

LEMMA BoundViewsNext ==
    ASSUME OdDrivers', OdCursors', CurTypeOK', NEW x \in CursorNames
    PROVE  /\ cursor'[x].conn \in ConnIds \cup {NoConn}
           /\ cursor'[x].conn # NoConn =>
                 /\ DriverOk(od'[cursor'[x].conn])
                 /\ od'[cursor'[x].conn].priv[x] \in {x, source'[x], NoStmt}
  BY DEF OdDrivers, OdCursors, CurTypeOK, Cursor

\* A call other than FETCH is one of the abstract specification.
LEMMA CallView ==
    ASSUME OdInv, CurTypeOK', OdDrivers', OdCursors',
           \A c \in ConnIds : ViewsKept(od[c], od'[c]),
           \A x \in cursors : source'[x] = source[x],
           answer' = NoAnswer
    PROVE  Abstract!Call
  <1>1. CurTypeOK /\ OdDrivers /\ OdCursors
    BY DEF OdInv, StateInv
  <1>2. ASSUME NEW x \in CursorNames
        PROVE  CursorView(x)' \in {[open |-> TRUE, rows |-> n, at |-> 0] : n \in 0..MaxRows}
                                     \cup {ClosedView, CursorView(x)}
    <2>1. PICK c, d : c = cursor[x].conn /\ d = cursor'[x].conn
      OBVIOUS
    <2>2. CursorView(x)' = IF Opens(od', d, source'[x], x) THEN View(od'[d].stmt[x]) ELSE ClosedView
      BY SMTT(40), <2>1, BoundViewsNext, ViewsAre, ViewIs
    <2>3. CursorView(x) = IF Opens(od, c, source[x], x) THEN View(od[c].stmt[x]) ELSE ClosedView
      BY SMTT(40), <1>1, <2>1, BoundViews, ViewsAre, ViewIs
    <2>4. CASE Opens(od', d, source'[x], x)
      <3>1. d \in ConnIds /\ od'[d].priv[x] = x /\ od'[d].stmt[x].open /\ source'[x] = NoStmt
        BY <2>4 DEF Opens
      <3>2. \/ od'[d].stmt[x].at = 0
            \/ od[d].priv[x] = x /\ od'[d].stmt[x] = od[d].stmt[x]
        BY <3>1 DEF ViewsKept
      <3>3. od'[d].stmt[x].rows \in 0..MaxRows
        BY <3>1 DEF OdDrivers, Driver, Stmt, Handles
      <3>4. CASE od'[d].stmt[x].at = 0
        BY <2>2, <2>4, <3>3, <3>4 DEF View
      <3>5. CASE od[d].priv[x] = x /\ od'[d].stmt[x] = od[d].stmt[x]
        <4>1. x # NoStmt /\ NoConn \notin ConnIds
          BY OdbcAssumption DEF NoConn, ConnIds
        <4>2. c = d /\ x \in cursors
          BY <1>1, <2>1, <3>1, <3>5, <4>1 DEF OdCursors
        <4>3. Opens(od, c, source[x], x)
          BY <3>1, <3>5, <4>2 DEF Opens
        <4> QED
          BY <2>2, <2>3, <2>4, <3>5, <4>2, <4>3
      <3> QED
        BY <3>2, <3>4, <3>5
    <2>5. CASE ~Opens(od', d, source'[x], x)
      BY <2>2, <2>5
    <2> QED
      BY <2>4, <2>5
  <1> QED
    BY <1>2 DEF Abstract!Call, Abstract!NoAnswer, Abstract!Opened, Abstract!Closed, NoAnswer, ClosedView

---------------------------------------------------------------------------
(* What the action properties say of one step.                             *)

FetchTruth ==
    answer'.kind = "error" /\ cursor[answer'.x].drv = "open" => sqlcode' # "norec"

ErrorTruth ==
    (ret'.call \in {"exec", "prepare", "cursor"} /\ ret'.rc = "FAILED"
         /\ sqlcode' = "error" /\ 0 \notin InfoCodes) =>
       \A c \in ConnIds : ~(od'[c].done /\ ret'.conn = c)

GoodStep ==
    /\ OdInv'
    /\ NorecCode > 0 => FetchTruth
    /\ ErrorTruth
    /\ Abstract!Next

\* What every call but FETCH has to show.
LEMMA CallStep ==
    ASSUME OdInv, AnyCall, OdDrivers', OdCursors',
           \A c \in ConnIds : ViewsKept(od[c], od'[c]),
           \A x \in cursors : source'[x] = source[x],
           answer' = NoAnswer, ErrorTruth
    PROVE  GoodStep
  <1>1. StateInv'
    BY AnyCallStateInv DEF OdInv
  <1>2. CurTypeOK'
    BY <1>1 DEF StateInv
  <1>3. Abstract!Call
    BY <1>2, CallView
  <1>4. Abstract!Next
    BY <1>3 DEF Abstract!Next
  <1>5. FetchTruth
    BY DEF FetchTruth, NoAnswer
  <1> QED
    BY <1>1, <1>4, <1>5 DEF GoodStep, OdInv

---------------------------------------------------------------------------
(* Calls that leave the registries as they are, or close cursors.          *)

RuntimeKept ==
    /\ UNCHANGED <<next_conn_id, connections, cursors>>
    /\ \A c \in ConnIds : conn'[c].session = conn[c].session
    /\ \A x \in CursorNames :
          /\ cursor'[x].conn = cursor[x].conn
          /\ cursor'[x].drv = "open" => cursor[x].drv = "open"

\* A cursor that has lost its statement is not open for the runtime either.
DriversShed ==
    /\ od' \in [ConnIds -> Driver]
    /\ \A c \in ConnIds :
          /\ Evolves(od[c], od'[c])
          /\ \A x \in CursorNames :
                \/ od'[c].priv[x] = od[c].priv[x]
                \/ od'[c].priv[x] = NoStmt /\ (cursor[x].conn = c => cursor'[x].drv # "open")

LEMMA FreshIs ==
    ASSUME OdDrivers, NEW c \in ConnIds
    PROVE  /\ DriverOk(Fresh(c))
           /\ Quiet(od[c], Fresh(c))
           /\ ~Fresh(c).done
           /\ Fresh(c).stmt = od[c].stmt
           /\ Fresh(c).conn_handle = od[c].conn_handle
  BY ZenonT(60) DEF OdDrivers, Fresh, Quiet, Evolves, ViewsKept, DriverOk, Driver

LEMMA BecomesIs ==
    ASSUME OdDrivers, NEW c \in ConnIds, NEW q \in Driver, Becomes(c, q)
    PROVE  /\ od' \in [ConnIds -> Driver]
           /\ od'[c] = q
           /\ \A d \in ConnIds \ {c} : od'[d] = Fresh(d)
  <1>1. \A d \in ConnIds : Fresh(d) \in Driver
    BY FreshIs DEF DriverOk
  <1> QED
    BY <1>1 DEF Becomes, Untouched

LEMMA UntouchedShed ==
    ASSUME OdDrivers, od' = Untouched
    PROVE  DriversShed /\ \A c \in ConnIds : ~od'[c].done
  <1>1. \A c \in ConnIds : /\ Fresh(c) \in Driver /\ Quiet(od[c], Fresh(c)) /\ ~Fresh(c).done
                           /\ od'[c] = Fresh(c)
    BY FreshIs DEF DriverOk, Untouched
  <1> QED
    BY <1>1 DEF DriversShed, Untouched, Quiet

LEMMA BecomesShed ==
    ASSUME OdDrivers, NEW c \in ConnIds, NEW q, Becomes(c, q), Evolves(Fresh(c), q),
           \A x \in CursorNames :
              \/ q.priv[x] = od[c].priv[x]
              \/ q.priv[x] = NoStmt /\ (cursor[x].conn = c => cursor'[x].drv # "open")
    PROVE  DriversShed /\ od'[c] = q /\ \A d \in ConnIds \ {c} : ~od'[d].done
  <1>1. \A d \in ConnIds : /\ Quiet(od[d], Fresh(d)) /\ ~Fresh(d).done
    BY FreshIs
  <1>2. q \in Driver
    BY DEF Evolves, DriverOk
  <1>3. /\ od' \in [ConnIds -> Driver]
        /\ od'[c] = q
        /\ \A d \in ConnIds \ {c} : od'[d] = Fresh(d)
    BY <1>2, BecomesIs
  <1>4. Evolves(od[c], q)
    BY <1>1, EvolvesTrans DEF Quiet
  <1> QED
    BY <1>1, <1>3, <1>4 DEF DriversShed, Quiet

LEMMA BecomesQuiet ==
    ASSUME OdDrivers, NEW c \in ConnIds, NEW q, Becomes(c, q), Quiet(Fresh(c), q)
    PROVE  DriversShed /\ od'[c] = q /\ \A d \in ConnIds \ {c} : ~od'[d].done
  <1>1. q.priv = od[c].priv /\ Evolves(Fresh(c), q)
    BY FreshIs DEF Quiet
  <1> QED
    BY <1>1, BecomesShed

LEMMA ShedStep ==
    ASSUME OdInv, AnyCall, RuntimeKept, DriversShed, UNCHANGED source,
           answer' = NoAnswer, ErrorTruth
    PROVE  GoodStep
  <1>1. CurTypeOK /\ OdDrivers /\ OdCursors
    BY DEF OdInv, StateInv
  <1>2. OdDrivers'
    BY <1>1 DEF OdDrivers, RuntimeKept, DriversShed, Evolves
  <1>3. OdCursors'
    BY <1>1 DEF OdCursors, RuntimeKept, DriversShed
  <1>4. \A c \in ConnIds : ViewsKept(od[c], od'[c])
    BY DEF DriversShed, Evolves
  <1> QED
    BY <1>2, <1>3, <1>4, CallStep

\* A call that does not come to a driver.
LEMMA UntouchedStep ==
    ASSUME OdInv, AnyCall, RuntimeKept, od' = Untouched, UNCHANGED source, answer' = NoAnswer
    PROVE  GoodStep
  <1>1. DriversShed /\ \A c \in ConnIds : ~od'[c].done
    BY UntouchedShed DEF OdInv
  <1>2. ErrorTruth
    BY <1>1 DEF ErrorTruth
  <1> QED
    BY <1>1, <1>2, ShedStep

\* A positive code is not taken for an error.
LEMMA PositiveStatus ==
    ASSUME NEW code \in Int, code > 0, NEW err, err # DBERR_NO_ERROR, ~is_data_error(err)
    PROVE  Status(code, err) # "error"
  BY NorecAssumption DEF Status, Outcome, setStatus, DBERR_NO_ERROR, DBERR_NO_DATA

LEMMA ReportsHonestly ==
    ASSUME NEW r, r.p \in Driver, Honest(r), NEW err, err # DBERR_NO_ERROR, ~is_data_error(err),
           Reports(r, err), ret'.rc = "FAILED", sqlcode' = "error", 0 \notin InfoCodes
    PROVE  ~r.p.done
  <1> SUFFICES ASSUME r.p.done PROVE FALSE
    OBVIOUS
  <1>1. r.rc # DBERR_NO_ERROR /\ sqlcode' = Status(r.p.last_rc, err)
    BY DEF Reports
  <1>2. r.p.last_rc > 0 /\ r.p.last_rc \in Int
    BY <1>1 DEF Honest, Driver
  <1> QED
    BY <1>1, <1>2, PositiveStatus

\* The driver q of one connection is all that matters for ErrorTruth.
LEMMA OneDriverTruth ==
    ASSUME NEW c \in ConnIds, \A d \in ConnIds \ {c} : ~od'[d].done,
           (/\ ret'.call # "first_row" /\ ret'.rc = "FAILED" /\ sqlcode' = "error"
            /\ 0 \notin InfoCodes) => ~od'[c].done
    PROVE  ErrorTruth
  BY DEF ErrorTruth

\* The driver of a connection that a name finds.
LEMMA FoundDriver ==
    ASSUME OdInv, NEW n \in Names \cup {NoName}, NEW c, c = get(n), c # NoConn
    PROVE  c \in ConnIds /\ c \in connections /\ DriverOk(Fresh(c)) /\ ~Fresh(c).done
  <1>1. StateInv /\ OdDrivers /\ ConnTypeOK
    BY DEF OdInv, StateInv
  <1>2. c \in ConnIds /\ c \in connections
    BY <1>1, GetType, GetRegistered DEF ConnTypeOK
  <1> QED
    BY <1>1, <1>2, FreshIs

---------------------------------------------------------------------------
(* Statements.                                                             *)

LEMMA KeptRuntime ==
    ASSUME CurTypeOK, RegistriesKept
    PROVE  RuntimeKept
  BY DEF CurTypeOK, RegistriesKept, RuntimeKept, DriverClosed, Cursor, connVars, registry

\* A call that leaves the registries alone.
LEMMA SameRuntime ==
    ASSUME UNCHANGED <<connVars, curVars>>
    PROVE  RuntimeKept
  BY DEF RuntimeKept, connVars, registry, curVars

LEMMA StatementIsCall ==
    ASSUME NEW n \in Names \cup {NoName}, StatementOn(n)
    PROVE  AnyCall
  BY DEF StatementOn, AnyCall

\* A statement on no connection.
LEMMA NotFoundStep ==
    ASSUME OdInv, NEW n \in Names \cup {NoName}, StatementOn(n),
           od' = Untouched, UNCHANGED source, answer' = NoAnswer
    PROVE  GoodStep
  <1>1. RuntimeKept
    BY StatementShared, KeptRuntime DEF OdInv, StateInv
  <1> QED
    BY <1>1, StatementIsCall, UntouchedStep

\* A statement that the driver q of its connection has seen.
LEMMA StatementStep ==
    ASSUME OdInv, NEW n \in Names \cup {NoName}, StatementOn(n), NEW c, c = get(n),
           c # NoConn, NEW q, Becomes(c, q), Evolves(Fresh(c), q),
           \A x \in CursorNames :
              \/ q.priv[x] = od[c].priv[x]
              \/ q.priv[x] = NoStmt /\ (cursor[x].conn = c => cursor'[x].drv # "open"),
           (/\ ret'.call # "first_row" /\ ret'.rc = "FAILED" /\ sqlcode' = "error"
            /\ 0 \notin InfoCodes) => ~q.done,
           UNCHANGED source, answer' = NoAnswer
    PROVE  GoodStep
  <1>1. RuntimeKept /\ OdDrivers
    BY StatementShared, KeptRuntime DEF OdInv, StateInv
  <1>2. c \in ConnIds
    BY FoundDriver
  <1>3. DriversShed /\ od'[c] = q /\ \A d \in ConnIds \ {c} : ~od'[d].done
    BY <1>1, <1>2, BecomesShed
  <1>4. ErrorTruth
    BY <1>2, <1>3, OneDriverTruth
  <1> QED
    BY <1>1, <1>3, <1>4, StatementIsCall, ShedStep

LEMMA QuietStatementStep ==
    ASSUME OdInv, NEW n \in Names \cup {NoName}, StatementOn(n), NEW c, c = get(n),
           c # NoConn, NEW q, Becomes(c, q), Quiet(Fresh(c), q),
           (/\ ret'.call # "first_row" /\ ret'.rc = "FAILED" /\ sqlcode' = "error"
            /\ 0 \notin InfoCodes) => ~q.done,
           UNCHANGED source, answer' = NoAnswer
    PROVE  GoodStep
  <1>1. c \in ConnIds /\ OdDrivers
    BY FoundDriver DEF OdInv
  <1>2. q.priv = od[c].priv /\ Evolves(Fresh(c), q)
    BY <1>1, FreshIs DEF Quiet
  <1> QED
    BY <1>2, StatementStep

LEMMA OdPrepareGood ==
    ASSUME OdInv, NEW n \in Names \cup {NoName}, NEW s \in StmtNames,
           NEW text \in Statements, OdPrepare(n, s, text)
    PROVE  GoodStep
  <1>1. PICK c : c = get(n)
    OBVIOUS
  <1>2. StatementOn(n) /\ UNCHANGED source /\ answer' = NoAnswer
    BY RuntimeAssumption DEF OdPrepare, StatementOn, Queries
  <1>3. CASE c = NoConn
    BY <1>1, <1>2, <1>3, NotFoundStep DEF OdPrepare
  <1>4. CASE c # NoConn
    <2>1. PICK r \in prepare(Fresh(c), s, text) : Becomes(c, r.p)
      BY <1>1, <1>4 DEF OdPrepare
    <2>2. DriverOk(Fresh(c)) /\ ~Fresh(c).done
      BY <1>1, <1>4, FoundDriver
    <2>3. Quiet(Fresh(c), r.p) /\ ~r.p.done
      BY <2>2, PrepareOk, OdbcAssumption
    <2> QED
      BY <1>1, <1>2, <1>4, <2>1, <2>3, QuietStatementStep
  <1> QED
    BY <1>3, <1>4

LEMMA ReportsHonest ==
    ASSUME NEW r, DriverOk(r.p), Honest(r), Reports(r, DBERR_SQL_ERROR)
    PROVE  (/\ ret'.call # "first_row" /\ ret'.rc = "FAILED" /\ sqlcode' = "error"
            /\ 0 \notin InfoCodes) => ~r.p.done
  <1>1. DBERR_SQL_ERROR # DBERR_NO_ERROR /\ ~is_data_error(DBERR_SQL_ERROR)
    BY DEF DBERR_SQL_ERROR, DBERR_NO_ERROR, is_data_error, DBERR_NUM_OUT_OF_RANGE
  <1> QED
    BY <1>1, ReportsHonestly DEF DriverOk

LEMMA OdExecPreparedGood ==
    ASSUME OdInv, NEW n \in Names \cup {NoName}, NEW s \in StmtNames, OdExecPrepared(n, s)
    PROVE  GoodStep
  <1>1. PICK c : c = get(n)
    OBVIOUS
  <1>2. StatementOn(n) /\ UNCHANGED source /\ answer' = NoAnswer
    BY RuntimeAssumption DEF OdExecPrepared, StatementOn, Queries
  <1>3. CASE c = NoConn
    BY <1>1, <1>2, <1>3, NotFoundStep DEF OdExecPrepared
  <1>4. CASE c # NoConn
    <2>1. PICK r \in exec_prepared(Fresh(c), s) :
             Reports(r, DBERR_SQL_ERROR) /\ Becomes(c, r.p)
      BY <1>1, <1>4 DEF OdExecPrepared
    <2>2. DriverOk(Fresh(c)) /\ ~Fresh(c).done
      BY <1>1, <1>4, FoundDriver
    <2>3. Quiet(Fresh(c), r.p) /\ Honest(r)
      BY <2>2, ExecPreparedOk
    <2>4. (/\ ret'.call # "first_row" /\ ret'.rc = "FAILED" /\ sqlcode' = "error"
           /\ 0 \notin InfoCodes) => ~r.p.done
      BY <2>1, <2>3, ReportsHonest DEF Quiet, Evolves
    <2> QED
      BY <1>1, <1>2, <1>4, <2>1, <2>3, <2>4, QuietStatementStep
  <1> QED
    BY <1>3, <1>4

\* Reading the columns of a row changes nothing but the code of the last error.
LEMMA AfterColumnsOk ==
    ASSUME NEW p, DriverOk(p), NEW q \in AfterColumns(p)
    PROVE  Idle(p, q)
  BY IdleRefl, RefusedOk DEF AfterColumns

\* SELECT INTO and EXECUTE INTO, after the statement has run.
LEMMA IntoGood ==
    ASSUME OdInv, NEW n \in Names \cup {NoName}, StatementOn(n), NEW c, c = get(n),
           c # NoConn, NEW r, NEW s \in StmtNames \cup {NoStmt}, NEW nRes, Into(c, r, s, nRes),
           Quiet(Fresh(c), r.p), Honest(r), r.p.done => ~Taken(r.p, s).open,
           UNCHANGED source, answer' = NoAnswer
    PROVE  GoodStep
  <1>1. CASE r.rc # DBERR_NO_ERROR
    <2>1. Reports(r, DBERR_SQL_ERROR) /\ Becomes(c, r.p)
      BY <1>1 DEF Into
    <2>2. (/\ ret'.call # "first_row" /\ ret'.rc = "FAILED" /\ sqlcode' = "error"
           /\ 0 \notin InfoCodes) => ~r.p.done
      BY <2>1, ReportsHonest DEF Quiet, Evolves
    <2> QED
      BY <2>1, <2>2, QuietStatementStep
  <1>2. CASE r.rc = DBERR_NO_ERROR
    <2>1. PICK m \in move_to_first_record(r.p, s) :
             \E q \in AfterColumns(m.p) :
                Becomes(c, q) /\ (m.rc # DBERR_NO_ERROR => ret'.call = "first_row")
      BY <1>2 DEF Into, AfterColumns
    <2>5. PICK q \in AfterColumns(m.p) :
             Becomes(c, q) /\ (m.rc # DBERR_NO_ERROR => ret'.call = "first_row")
      BY <2>1
    <2>2. /\ Quiet(r.p, m.p)
          /\ m.p.done = r.p.done
          /\ m.rc = DBERR_NO_ERROR => Taken(r.p, s).open
      BY <2>1, MoveToFirstOk DEF Quiet, Evolves
    <2>6. Idle(m.p, q)
      BY <2>2, <2>5, AfterColumnsOk DEF Quiet, Evolves
    <2>3. Quiet(Fresh(c), q)
      BY <2>2, <2>6, QuietTrans, QuietThenIdle
    <2>4. ret'.call # "first_row" => ~q.done
      BY <2>2, <2>5, <2>6 DEF Idle
    <2> QED
      BY <2>3, <2>4, <2>5, QuietStatementStep
  <1> QED
    BY <1>1, <1>2

LEMMA OdSelectIntoGood ==
    ASSUME OdInv, NEW n \in Names \cup {NoName}, NEW nRes \in 0..MaxVars, OdSelectInto(n, nRes)
    PROVE  GoodStep
  <1>1. PICK c : c = get(n)
    OBVIOUS
  <1>2. StatementOn(n) /\ UNCHANGED source /\ answer' = NoAnswer
    BY RuntimeAssumption DEF OdSelectInto, StatementOn, Queries
  <1>3. CASE c = NoConn
    BY <1>1, <1>2, <1>3, NotFoundStep DEF OdSelectInto
  <1>4. CASE c # NoConn
    <2>1. PICK r \in exec(Fresh(c), "SELECT") : Into(c, r, NoStmt, nRes)
      BY <1>1, <1>4 DEF OdSelectInto
    <2>2. DriverOk(Fresh(c)) /\ ~Fresh(c).done /\ "SELECT" \in AllStatements
      BY <1>1, <1>4, FoundDriver DEF AllStatements
    <2>3. Quiet(Fresh(c), r.p) /\ Honest(r) /\ ~r.p.done
      BY <2>1, <2>2, ExecOk
    <2> QED
      BY <1>1, <1>2, <1>4, <2>1, <2>3, IntoGood
  <1> QED
    BY <1>3, <1>4

LEMMA OdExecPreparedIntoGood ==
    ASSUME OdInv, NEW n \in Names \cup {NoName}, NEW s \in StmtNames,
           NEW nRes \in 0..MaxVars, OdExecPreparedInto(n, s, nRes)
    PROVE  GoodStep
  <1>1. PICK c : c = get(n)
    OBVIOUS
  <1>2. StatementOn(n) /\ UNCHANGED source /\ answer' = NoAnswer
    BY RuntimeAssumption DEF OdExecPreparedInto, StatementOn, Queries
  <1>3. CASE c = NoConn
    BY <1>1, <1>2, <1>3, NotFoundStep DEF OdExecPreparedInto
  <1>4. CASE c # NoConn
    <2>1. PICK r \in exec_prepared(Fresh(c), s) : Into(c, r, s, nRes)
      BY <1>1, <1>4 DEF OdExecPreparedInto
    <2>2. DriverOk(Fresh(c)) /\ ~Fresh(c).done /\ s # NoStmt
      BY <1>1, <1>4, FoundDriver, OdbcAssumption
    <2>3. Quiet(Fresh(c), r.p) /\ Honest(r) /\ (r.p.done => ~Taken(r.p, s).open)
      BY <2>1, <2>2, ExecPreparedOk DEF Taken
    <2> QED
      BY <1>1, <1>2, <1>4, <2>1, <2>3, IntoGood
  <1> QED
    BY <1>3, <1>4

LEMMA OdVarListsGood ==
    ASSUME OdInv, OdVarLists
    PROVE  GoodStep
  <1>1. /\ GIXSQLStartSQL \/ GIXSQLSetResultParams
        /\ od' = Untouched /\ UNCHANGED source /\ answer' = NoAnswer
    BY DEF OdVarLists
  <1>2. AnyCall /\ UNCHANGED <<connVars, curVars>>
    BY <1>1 DEF AnyCall, GIXSQLStartSQL, GIXSQLSetResultParams, VarListCall
  <1> QED
    BY <1>1, <1>2, SameRuntime, UntouchedStep

---------------------------------------------------------------------------
(***************************************************************************)
(* closeConnectionCursors() is a fold over the set of the cursors it       *)
(* closes.  FoldSet is the choice of a function on the subsets of that     *)
(* set; that there is one is shown for finite sets, by least               *)
(* counterexample, and so is what the driver is after any of these folds.  *)
(***************************************************************************)

\* The drivers one cursor_close() can leave of those in ps.
CloseOne(x, ps) == UNION {{r.p : r \in cursor_close(p, x, source[x])} : p \in ps}

FoldStep(g, base, s) ==
    IF s = {} THEN base ELSE LET x == CHOOSE y \in s : TRUE IN CloseOne(x, g[s \ {x}])

Iterates(g, base, S) == g = [s \in SUBSET S |-> FoldStep(g, base, s)]

LEMMA FoldIs ==
    ASSUME NEW base, NEW S
    PROVE  FoldSet(LAMBDA x, ps : UNION {{r.p : r \in cursor_close(p, x, source[x])} : p \in ps},
                   base, S)
           = (CHOOSE g : Iterates(g, base, S))[S]
  BY DEF FoldSet, MapThenFoldSet, Iterates, FoldStep, CloseOne

LEMMA LeastNat ==
    ASSUME NEW T \in SUBSET Nat, T # {}
    PROVE  \E n \in T : \A m \in T : n <= m
  <1>1. PICK j \in T : \A i \in T : ~ (<<i, j>> \in OpToRel(<, Nat))
    BY NatLessThanWellFounded, WFMin
  <1>2. \A i \in T : ~ (i < j)
    <2> SUFFICES ASSUME NEW i \in T, i < j
                 PROVE  <<i, j>> \in OpToRel(<, Nat)
      BY <1>1
    <2>1. i \in Nat /\ j \in Nat
      OBVIOUS
    <2> QED
      BY <2>1 DEF OpToRel
  <1>3. \A i \in T : i \in Nat /\ j \in Nat
    OBVIOUS
  <1> QED
    BY <1>2, <1>3

\* A subset with one element less.
LEMMA OneLess ==
    ASSUME NEW S, IsFiniteSet(S), NEW s \in SUBSET S
    PROVE  /\ IsFiniteSet(s) /\ Cardinality(s) \in Nat
           /\ Cardinality(s) = 0 <=> s = {}
           /\ s # {} => LET x == CHOOSE y \in s : TRUE
                        IN  /\ x \in s /\ s \ {x} \in SUBSET S
                            /\ Cardinality(s \ {x}) = Cardinality(s) - 1
  BY FS_Subset, FS_CardinalityType, FS_RemoveElement, FS_EmptySet

\* The subsets with at most n elements, and the fold on them.
Small(S, n) == {s \in SUBSET S : Cardinality(s) <= n}

Upto(g, base, S, n) == g = [s \in Small(S, n) |-> FoldStep(g, base, s)]

LEMMA UptoZero ==
    ASSUME NEW base, NEW S, IsFiniteSet(S)
    PROVE  \E g : Upto(g, base, S, 0)
  <1>1. \A s \in Small(S, 0) : s = {}
    <2> SUFFICES ASSUME NEW s \in Small(S, 0) PROVE s = {}
      OBVIOUS
    <2>1. s \in SUBSET S /\ Cardinality(s) <= 0
      BY DEF Small
    <2>2. Cardinality(s) \in Nat /\ (Cardinality(s) = 0 <=> s = {})
      BY <2>1, OneLess
    <2> QED
      BY <2>1, <2>2
  <1>2. PICK g : g = [s \in Small(S, 0) |-> base]
    OBVIOUS
  <1>3. \A s \in Small(S, 0) : FoldStep(g, base, s) = base
    BY <1>1 DEF FoldStep
  <1>4. [s \in Small(S, 0) |-> FoldStep(g, base, s)] = [s \in Small(S, 0) |-> base]
    BY <1>3
  <1> QED
    BY <1>2, <1>4 DEF Upto

LEMMA UptoNext ==
    ASSUME NEW base, NEW S, IsFiniteSet(S), NEW n \in Nat, NEW f, Upto(f, base, S, n)
    PROVE  \E g : Upto(g, base, S, n + 1)
  <1>1. PICK g : g = [s \in Small(S, n + 1) |-> FoldStep(f, base, s)]
    OBVIOUS
  <1>2. \A s \in Small(S, n) : s \in Small(S, n + 1)
    <2> SUFFICES ASSUME NEW s \in Small(S, n) PROVE s \in Small(S, n + 1)
      OBVIOUS
    <2>1. s \in SUBSET S /\ Cardinality(s) <= n
      BY DEF Small
    <2>2. Cardinality(s) \in Nat
      BY <2>1, OneLess
    <2> QED
      BY <2>1, <2>2 DEF Small
  <1>3. \A s \in Small(S, n) : g[s] = f[s]
    BY <1>1, <1>2 DEF Upto
  <1>4. ASSUME NEW s \in Small(S, n + 1)
        PROVE  FoldStep(f, base, s) = FoldStep(g, base, s)
    <2>1. CASE s = {}
      BY <2>1 DEF FoldStep
    <2>2. CASE s # {}
      <3>1. PICK x : x = CHOOSE y \in s : TRUE
        OBVIOUS
      <3>2. s \in SUBSET S /\ Cardinality(s) <= n + 1
        BY DEF Small
      <3>3. /\ Cardinality(s) \in Nat
            /\ s \ {x} \in SUBSET S /\ Cardinality(s \ {x}) = Cardinality(s) - 1
        BY <2>2, <3>1, <3>2, OneLess
      <3>4. s \ {x} \in Small(S, n)
        BY <3>2, <3>3 DEF Small
      <3>5. f[s \ {x}] = g[s \ {x}]
        BY <1>3, <3>4
      <3> QED
        BY <2>2, <3>1, <3>5 DEF FoldStep
    <2> QED
      BY <2>1, <2>2
  <1>5. Upto(g, base, S, n + 1)
    BY <1>1, <1>4 DEF Upto
  <1> QED
    BY <1>5

LEMMA IterationExists ==
    ASSUME NEW base, NEW S, IsFiniteSet(S)
    PROVE  \E g : Iterates(g, base, S)
  <1>1. PICK T : T = {n \in Nat : ~ \E g : Upto(g, base, S, n)}
    OBVIOUS
  <1>2. T = {}
    <2> SUFFICES ASSUME T # {} PROVE FALSE
      OBVIOUS
    <2>1. T \in SUBSET Nat
      BY <1>1
    <2>2. PICK n \in T : \A m \in T : n <= m
      BY <2>1, LeastNat
    <2>3. n \in Nat /\ n # 0
      BY <1>1, UptoZero
    <2>4. PICK k : k = n - 1
      OBVIOUS
    <2>5. k \in Nat /\ k + 1 = n /\ ~(n <= k)
      BY <2>3, <2>4
    <2>6. k \notin T
      BY <2>2, <2>5
    <2>7. PICK f : Upto(f, base, S, k)
      BY <1>1, <2>5, <2>6
    <2>8. \E g : Upto(g, base, S, n)
      BY <2>5, <2>7, UptoNext
    <2> QED
      BY <1>1, <2>8
  <1>3. Cardinality(S) \in Nat /\ Small(S, Cardinality(S)) = SUBSET S
    BY FS_Subset, FS_CardinalityType DEF Small
  <1>4. PICK g : Upto(g, base, S, Cardinality(S))
    BY <1>1, <1>2, <1>3
  <1>5. Iterates(g, base, S)
    BY <1>3, <1>4 DEF Iterates, Upto
  <1> QED
    BY <1>5

(***************************************************************************)
(* What closing the cursors of s leaves of driver p: they have lost their  *)
(* statements, and the others keep them.                                   *)
(***************************************************************************)
SweptOf(p, s, q) ==
    /\ Evolves(p, q)
    /\ ~q.done
    /\ \A x \in CursorNames : q.priv[x] = IF x \in s THEN NoStmt ELSE p.priv[x]

\* One more cursor_close() after those of s.
LEMMA SweepOne ==
    ASSUME NEW p, NEW x \in CursorNames, NEW s \in SUBSET CursorNames, x \notin s,
           source[x] \in StmtNames \cup {NoStmt}, p.priv[x] \in {NoStmt, x, source[x]},
           NEW ps, \A q \in ps : SweptOf(p, s, q), NEW q \in CloseOne(x, ps)
    PROVE  SweptOf(p, s \cup {x}, q)
  <1>1. PICK o \in ps : q \in {r.p : r \in cursor_close(o, x, source[x])}
    BY DEF CloseOne
  <1>2. PICK r \in cursor_close(o, x, source[x]) : q = r.p
    BY <1>1
  <1>3. SweptOf(p, s, o)
    BY <1>1
  <1>4. Evolves(p, o) /\ DriverOk(o) /\ ~o.done /\ o.priv[x] = p.priv[x]
    BY <1>3 DEF SweptOf, Evolves
  <1>5. OnCursor(o, q, x) /\ q.priv[x] = NoStmt /\ ~q.done
    BY <1>2, <1>4, CursorCloseOk
  <1>6. Evolves(p, q)
    BY <1>4, <1>5, EvolvesTrans DEF OnCursor
  <1>7. \A y \in CursorNames : q.priv[y] = IF y \in s \cup {x} THEN NoStmt ELSE p.priv[y]
    BY <1>3, <1>5 DEF SweptOf, OnCursor
  <1> QED
    BY <1>5, <1>6, <1>7 DEF SweptOf

LEMMA SweepAll ==
    ASSUME NEW p, DriverOk(p), ~p.done, NEW S \in SUBSET CursorNames,
           source \in [CursorNames -> StmtNames \cup {NoStmt}],
           \A x \in S : p.priv[x] \in {NoStmt, x, source[x]},
           NEW g, Iterates(g, {p}, S), IsFiniteSet(S)
    PROVE  \A q \in g[S] : SweptOf(p, S, q)
  <1>1. \A s \in SUBSET S : g[s] = FoldStep(g, {p}, s)
    BY DEF Iterates
  <1>2. PICK T : T = {s \in SUBSET S : ~ \A q \in g[s] : SweptOf(p, s, q)}
    OBVIOUS
  <1>3. T = {}
    <2> SUFFICES ASSUME T # {} PROVE FALSE
      OBVIOUS
    <2>1. PICK N : N = {Cardinality(s) : s \in T}
      OBVIOUS
    <2>2. \A s \in T : s \in SUBSET S /\ Cardinality(s) \in Nat /\ Cardinality(s) \in N
      BY <1>2, <2>1, OneLess
    <2>3. N \in SUBSET Nat /\ N # {}
      BY <2>1, <2>2
    <2>4. PICK n \in N : \A m \in N : n <= m
      BY <2>3, LeastNat
    <2>5. PICK s \in T : n = Cardinality(s)
      BY <2>1, <2>4
    <2>6. s \in SUBSET S /\ s \in SUBSET CursorNames /\ Cardinality(s) \in Nat
      BY <1>2, <2>2
    <2>7. \A q \in g[s] : SweptOf(p, s, q)
      <3>1. CASE s = {}
        <4>1. g[s] = {p}
          BY <1>1, <2>6, <3>1 DEF FoldStep
        <4>2. SweptOf(p, s, p)
          BY <3>1, IdleRefl DEF SweptOf, Idle, Quiet
        <4> QED
          BY <4>1, <4>2
      <3>2. CASE s # {}
        <4>1. PICK x : x = CHOOSE y \in s : TRUE
          OBVIOUS
        <4>2. PICK t : t = s \ {x}
          OBVIOUS
        <4>3. /\ x \in s /\ t \in SUBSET S /\ Cardinality(t) = Cardinality(s) - 1
          BY <2>6, <3>2, <4>1, <4>2, OneLess
        <4>4. t \notin T
          <5>1. Cardinality(t) \in N => n <= Cardinality(t)
            BY <2>4
          <5>2. ~(n <= Cardinality(t))
            BY <2>5, <2>6, <4>3
          <5> QED
            BY <2>2, <5>1, <5>2
        <4>5. \A q \in g[t] : SweptOf(p, t, q)
          BY <1>2, <4>3, <4>4
        <4>6. g[s] = CloseOne(x, g[t])
          BY <1>1, <2>6, <3>2, <4>1, <4>2 DEF FoldStep
        <4>7. /\ x \in CursorNames /\ x \notin t /\ t \in SUBSET CursorNames
              /\ source[x] \in StmtNames \cup {NoStmt}
              /\ p.priv[x] \in {NoStmt, x, source[x]}
              /\ t \cup {x} = s
          BY <2>6, <4>2, <4>3
        <4> QED
          BY <4>5, <4>6, <4>7, SweepOne
      <3> QED
        BY <3>1, <3>2
    <2> QED
      BY <1>2, <2>7
  <1> QED
    BY <1>2, <1>3

\* The cursors that a COMMIT or ROLLBACK on connection c closes in the driver.
Closes(c) == {x \in CursorsOf(c) : ~cursor[x].hold}

LEMMA SweptIs ==
    ASSUME OdInv, NEW c \in ConnIds, NEW s, NEW q \in Swept(c, s)
    PROVE  SweptOf(Fresh(c), IF QueryKind(s) = "tx_end" THEN Closes(c) ELSE {}, q)
  <1>1. /\ OdDrivers /\ OdCursors /\ CurTypeOK
        /\ DriverOk(Fresh(c)) /\ ~Fresh(c).done /\ Fresh(c).priv = od[c].priv
    BY FreshIs DEF OdInv, StateInv, Quiet
  <1>2. CASE QueryKind(s) = "tx_end"
    <2>1. Closes(c) \in SUBSET CursorNames /\ IsFiniteSet(Closes(c))
      <3>1. Closes(c) \subseteq CursorNames
        BY <1>1 DEF Closes, CursorsOf, CurTypeOK
      <3> QED
        BY <3>1, CursorNamesAssumption, FS_Subset
    <2>2. PICK g : g = CHOOSE h : Iterates(h, {Fresh(c)}, Closes(c))
      OBVIOUS
    <2>3. Iterates(g, {Fresh(c)}, Closes(c))
      BY <2>1, <2>2, IterationExists
    <2>4. q \in g[Closes(c)]
      <3>1. Swept(c, s) = FoldSet(LAMBDA x, ps : UNION {{r.p : r \in cursor_close(p, x, source[x])} : p \in ps},
                                  {Fresh(c)}, Closes(c))
        BY <1>2 DEF Swept, is_commit_or_rollback_statement, Closes
      <3> QED
        BY <2>2, <3>1, FoldIs
    <2>5. source \in [CursorNames -> StmtNames \cup {NoStmt}]
      BY <1>1 DEF OdCursors
    <2>6. \A x \in Closes(c) : Fresh(c).priv[x] \in {NoStmt, x, source[x]}
      BY <1>1, <2>1 DEF OdCursors
    <2>7. PICK p, S : p = Fresh(c) /\ S = Closes(c)
      OBVIOUS
    <2>8. /\ DriverOk(p) /\ ~p.done /\ S \in SUBSET CursorNames /\ IsFiniteSet(S)
          /\ \A x \in S : p.priv[x] \in {NoStmt, x, source[x]}
          /\ Iterates(g, {p}, S) /\ q \in g[S]
      BY <1>1, <2>1, <2>3, <2>4, <2>6, <2>7
    <2>9. SweptOf(p, S, q)
      BY ONLY <2>5, <2>8, SweepAll
    <2> QED
      BY <1>2, <2>7, <2>9
  <1>3. CASE QueryKind(s) # "tx_end"
    <2>1. q = Fresh(c)
      BY <1>3 DEF Swept, is_commit_or_rollback_statement
    <2> QED
      BY <1>1, <1>3, <2>1, IdleRefl DEF SweptOf, Idle, Quiet
  <1> QED
    BY <1>2, <1>3

LEMMA OdExecGood ==
    ASSUME OdInv, NEW n \in Names \cup {NoName}, NEW s \in Statements, OdExec(n, s)
    PROVE  GoodStep
  <1>1. PICK c : c = get(n)
    OBVIOUS
  <1>2. StatementOn(n) /\ UNCHANGED source /\ answer' = NoAnswer
    BY RuntimeAssumption DEF OdExec, StatementOn, Queries, QueryKind
  <1>3. CASE c = NoConn
    BY <1>1, <1>2, <1>3, NotFoundStep DEF OdExec
  <1>4. CASE c # NoConn
    <2>1. PICK p \in Swept(c, s) : \E r \in exec(p, s) :
             Reports(r, DBERR_SQL_ERROR) /\ Becomes(c, r.p)
      BY <1>1, <1>4 DEF OdExec
    <2>2. PICK r \in exec(p, s) : Reports(r, DBERR_SQL_ERROR) /\ Becomes(c, r.p)
      BY <2>1
    <2>3. c \in ConnIds /\ s \in AllStatements /\ CurTypeOK /\ OdDrivers
      BY <1>1, <1>4, FoundDriver, OdbcAssumption DEF OdInv, StateInv
    <2>4. SweptOf(Fresh(c), IF QueryKind(s) = "tx_end" THEN Closes(c) ELSE {}, p)
      BY <2>1, <2>3, SweptIs
    <2>5. Evolves(Fresh(c), p) /\ DriverOk(p) /\ ~p.done
      BY <2>4 DEF SweptOf, Evolves
    <2>6. Quiet(p, r.p) /\ Honest(r)
      BY <2>2, <2>3, <2>5, ExecOk
    <2>7. Evolves(Fresh(c), r.p) /\ r.p.priv = p.priv /\ DriverOk(r.p)
      BY <2>5, <2>6, EvolvesTrans DEF Quiet, Evolves
    <2>8. (/\ ret'.call # "first_row" /\ ret'.rc = "FAILED" /\ sqlcode' = "error"
           /\ 0 \notin InfoCodes) => ~r.p.done
      BY <2>2, <2>6, <2>7, ReportsHonest
    <2>9. QueryKind(s) = "tx_end" => \A x \in Closes(c) : cursor'[x].drv # "open"
      <3> SUFFICES ASSUME QueryKind(s) = "tx_end", NEW x \in Closes(c)
                   PROVE  cursor'[x].drv # "open"
        OBVIOUS
      <3>1. cursor' = closeConnectionCursors(c)
        BY <1>1, <1>4
           DEF OdExec, GIXSQLExec, StatementRejected, Run, CursorsAtExec,
               is_commit_or_rollback_statement
      <3>2. x \in CursorNames /\ x \in CursorsOf(c) /\ ~cursor[x].hold /\ cursor[x] \in Cursor
        BY <2>3 DEF Closes, CursorsOf, CurTypeOK
      <3>3. cursor'[x] = DriverClosed(cursor[x])
        BY <3>1, <3>2 DEF closeConnectionCursors
      <3> QED
        BY <3>2, <3>3 DEF DriverClosed, Cursor
    <2>10. \A x \in CursorNames :
              \/ r.p.priv[x] = od[c].priv[x]
              \/ r.p.priv[x] = NoStmt /\ (cursor[x].conn = c => cursor'[x].drv # "open")
      <3>1. Fresh(c).priv = od[c].priv
        BY <2>3, FreshIs DEF Quiet
      <3> QED
        BY <2>4, <2>7, <2>9, <3>1 DEF SweptOf
    <2> QED
      BY <1>1, <1>2, <1>4, <2>2, <2>7, <2>8, <2>10, StatementStep
  <1> QED
    BY <1>3, <1>4

---------------------------------------------------------------------------
(* Connections.                                                            *)

\* A driver that goes away takes no cursor with it that the runtime still has.
LEMMA TerminatedStep ==
    ASSUME OdInv, AnyCall, NEW c \in ConnIds, clearConnectionCursors(c),
           UNCHANGED next_conn_id, connections' \subseteq connections,
           \A d \in connections' \ {c} : conn'[d].session = conn[d].session,
           NEW q, Gone(q), Becomes(c, q), UNCHANGED source, answer' = NoAnswer
    PROVE  GoodStep
  <1>1. CurTypeOK /\ OdDrivers /\ OdCursors /\ NoConn \notin ConnIds
    BY DEF OdInv, StateInv, NoConn, ConnIds
  <1>2. /\ od' \in [ConnIds -> Driver]
        /\ od'[c] = q
        /\ \A d \in ConnIds \ {c} : od'[d] = Fresh(d)
    BY <1>1, BecomesIs DEF Gone, DriverOk
  <1>3. \A d \in ConnIds \ {c} : /\ Quiet(od[d], od'[d]) /\ ~od'[d].done
    BY <1>1, <1>2, FreshIs
  <1>4. \A x \in CursorNames :
           /\ cursor[x].conn = c => cursor'[x].conn = NoConn /\ cursor'[x].drv = "undeclared"
           /\ cursor[x].conn # c => cursor'[x] = cursor[x]
           /\ x \notin cursors' => x \notin cursors \/ cursor[x].conn = c
    BY <1>1 DEF clearConnectionCursors, CursorsOf, CurTypeOK, OdCursors, NullCursor
  <1>5. OdDrivers'
    <2> SUFFICES ASSUME NEW d \in ConnIds
                 PROVE  /\ DriverOk(od'[d])
                        /\ od'[d].conn_handle => d <= next_conn_id
                        /\ d \in connections' /\ od'[d].conn_handle => conn'[d].session = "live"
      BY <1>2 DEF OdDrivers
    <2>1. CASE d = c
      BY <1>2, <2>1 DEF Gone
    <2>2. CASE d # c
      BY <1>1, <1>3, <2>2 DEF OdDrivers, Quiet, Evolves
    <2> QED
      BY <2>1, <2>2
  <1>6. \A x \in CursorNames, d \in ConnIds :
           /\ d = c => od'[d].priv[x] = NoStmt
           /\ d # c => od'[d].priv[x] = od[d].priv[x]
    BY <1>2, <1>3 DEF Gone, Quiet
  <1>7. OdCursors'
    BY <1>1, <1>4, <1>6 DEF OdCursors
  <1>8. \A d \in ConnIds : ViewsKept(od[d], od'[d])
    <2> SUFFICES ASSUME NEW d \in ConnIds PROVE ViewsKept(od[d], od'[d])
      OBVIOUS
    <2>1. CASE d = c
      BY <1>6, <2>1, OdbcAssumption DEF ViewsKept
    <2>2. CASE d # c
      BY <1>3, <2>2 DEF Quiet, Evolves
    <2> QED
      BY <2>1, <2>2
  <1>9. ErrorTruth
    BY <1>2, <1>3 DEF ErrorTruth, Gone
  <1> QED
    BY <1>5, <1>7, <1>8, <1>9, CallStep

\* reset() on a connection that was found.
LEMMA ResetGood ==
    ASSUME OdInv, AnyCall, NEW c \in ConnIds, NEW call,
           ResetFails(call, c) \/ ResetOk(call, c),
           Terminated(c), UNCHANGED source, answer' = NoAnswer
    PROVE  GoodStep
  <1>1. OdDrivers /\ ConnTypeOK /\ c # NoConn
    BY DEF OdInv, StateInv, NoConn, ConnIds
  <1>2. PICK r \in reset(Fresh(c)) : Becomes(c, r.p)
    BY <1>1 DEF Terminated
  <1>3. Gone(r.p)
    BY <1>1, FreshIs, ResetOkDriver
  <1>4. /\ clearConnectionCursors(c)
        /\ UNCHANGED next_conn_id /\ connections' \subseteq connections
    BY DEF ResetFails, ResetOk, remove, registry
  <1>5. \A d \in ConnIds \ {c} : conn'[d] = conn[d]
    <2>1. CASE ResetFails(call, c)
      BY <1>1, <2>1 DEF ResetFails, ConnTypeOK
    <2>2. CASE ResetOk(call, c)
      BY <1>1, <2>2 DEF ResetOk, ConnTypeOK
    <2> QED
      BY <2>1, <2>2
  <1>6. \A d \in connections' \ {c} : conn'[d].session = conn[d].session
    BY <1>1, <1>4, <1>5 DEF ConnTypeOK
  <1>7. PICK q : q = r.p
    OBVIOUS
  <1> QED
    BY <1>2, <1>3, <1>4, <1>6, <1>7, TerminatedStep

LEMMA OdConnectResetGood ==
    ASSUME OdInv, NEW n \in Names \cup {NoName}, OdConnectReset(n)
    PROVE  GoodStep
  <1>1. PICK c : c = get(n)
    OBVIOUS
  <1>2. AnyCall /\ UNCHANGED source /\ answer' = NoAnswer /\ Terminated(c)
    BY <1>1 DEF OdConnectReset, AnyCall
  <1>3. CASE c = NoConn
    <2>1. od' = Untouched /\ UNCHANGED <<connVars, curVars>>
      BY <1>1, <1>2, <1>3
         DEF OdConnectReset, GIXSQLConnectReset, ResetNotFound, Terminated
    <2> QED
      BY <1>2, <2>1, SameRuntime, UntouchedStep
  <1>4. CASE c # NoConn
    <2>1. c \in ConnIds
      BY <1>1, <1>4, FoundDriver
    <2>2. ResetFails("reset", c) \/ ResetOk("reset", c)
      BY <1>1, <1>4 DEF OdConnectReset, GIXSQLConnectReset
    <2> QED
      BY <1>2, <2>1, <2>2, ResetGood
  <1> QED
    BY <1>3, <1>4

LEMMA OdResetAllGood ==
    ASSUME OdInv, OdResetAll
    PROVE  GoodStep
  <1>1. UNCHANGED source /\ answer' = NoAnswer /\ StateInv
    BY DEF OdResetAll, OdInv
  <1>2. CASE (ResetAllBegin \/ ResetAllEnd) /\ od' = Untouched
    <2>1. AnyCall /\ UNCHANGED <<connVars, curVars>>
      BY <1>2 DEF ResetAllBegin, ResetAllEnd, AnyCall
    <2> QED
      BY <1>1, <1>2, <2>1, SameRuntime, UntouchedStep
  <1>3. CASE ResetAllStep /\ Terminated(ret'.conn)
    <2>1. AnyCall
      BY <1>3 DEF AnyCall
    <2>2. PICK d, t :
             /\ d \in pending
             /\ t = get(conn[d].name)
             /\ \/ t = NoConn /\ ResetNotFound("resetall")
                \/ t # NoConn /\ ResetFails("resetall", t)
                \/ t # NoConn /\ ResetOk("resetall", t)
      BY <1>3 DEF ResetAllStep
    <2>3. conn[d].name \in Names
      BY <1>1, <2>2 DEF StateInv, ConnectionsNamed
    <2>4. CASE t = NoConn /\ ResetNotFound("resetall")
      <3>1. ret'.conn = NoConn
        BY <2>4, ReturnIs DEF ResetNotFound, Fail
      <3>2. od' = Untouched /\ UNCHANGED <<connVars, curVars>>
        BY <1>3, <2>4, <3>1 DEF ResetNotFound, Terminated
      <3> QED
        BY <1>1, <2>1, <3>2, SameRuntime, UntouchedStep
    <2>5. CASE t # NoConn /\ (ResetFails("resetall", t) \/ ResetOk("resetall", t))
      <3>1. ret'.conn = t
        BY <2>5, ReturnIs DEF ResetFails, DriverFail, ResetOk, Succeed
      <3>2. Terminated(t)
        BY <1>3, <3>1
      <3>3. t \in ConnIds
        BY <2>2, <2>3, <2>5, FoundDriver
      <3> QED
        BY <1>1, <2>1, <2>5, <3>2, <3>3, ResetGood
    <2> QED
      BY <2>2, <2>4, <2>5
  <1> QED
    BY <1>2, <1>3 DEF OdResetAll

\* No cursor is bound to a connection whose driver is replaced.
LEMMA OdConnectOkGood ==
    ASSUME OdInv, NEW n \in Names \cup {NoName}, OdConnect(n), ConnectOk(n)
    PROVE  GoodStep
  <1>1. PICK id, old : id = next_conn_id + 1 /\ old = Replaced(n)
    OBVIOUS
  <1>2. /\ StateInv /\ CurTypeOK /\ ConnTypeOK /\ OdDrivers /\ OdCursors
        /\ NoConn \notin ConnIds
    BY DEF OdInv, StateInv, NoConn, ConnIds
  <1>3. AnyCall /\ UNCHANGED source /\ answer' = NoAnswer
    BY DEF OdConnect, AnyCall
  <1>4. /\ id \in ConnIds /\ next_conn_id \in Nat
        /\ next_conn_id' = id /\ id # next_conn_id
        /\ connections' = (connections \ {old}) \cup {id}
        /\ UNCHANGED curVars
    BY <1>1, <1>2, NamesAssumption DEF ConnectOk, add, ConnTypeOK, ConnIds
  <1>5. PICK off \in OffModes :
              od' = [c \in ConnIds |->
                        IF c = id THEN connect(off)
                        ELSE IF conn'[c].session = conn[c].session THEN Fresh(c)
                        ELSE NullDriver]
    BY <1>4 DEF OdConnect
  <1>6. /\ DriverOk(connect(off)) /\ connect(off) \in Driver
        /\ \A x \in CursorNames : connect(off).priv[x] = NoStmt
        /\ ~connect(off).done
    BY ConnectOkDriver, OdbcCompositionAssumption DEF DriverOk
  <1>7. ~od[id].conn_handle
    BY <1>1, <1>2, <1>4 DEF OdDrivers
  <1>8. PICK s \in SessionsAfterReplacing(old) :
              conn' = [i \in ConnIds |->
                          IF i = id THEN [name |-> NameFor(n, id), dbi |-> TRUE,
                                          pinned |-> FALSE, session |-> "live"]
                          ELSE IF i = old THEN [conn[i] EXCEPT !.session = s]
                          ELSE conn[i]]
    BY <1>1 DEF ConnectOk
  <1>9. \A c \in ConnIds : conn[c] \in Connection
    BY <1>2 DEF ConnTypeOK
  <1>10. \A c \in ConnIds : c # id /\ conn'[c].session # conn[c].session =>
                              c = old /\ CursorsOf(old) = {}
    <2>1. \A c \in ConnIds : c # id /\ conn'[c].session # conn[c].session =>
                                c = old /\ s # conn[c].session
      BY <1>8, <1>9 DEF Connection
    <2> QED
      BY <1>2, <1>8, <2>1 DEF SessionsAfterReplacing, Destroyed
  <1>11. conn'[id].session = "live"
    BY <1>4, <1>8
  <1>12. \A c \in ConnIds : /\ Fresh(c) \in Driver /\ DriverOk(Fresh(c)) /\ Quiet(od[c], Fresh(c))
                            /\ ~Fresh(c).done
    BY <1>2, FreshIs DEF DriverOk
  <1>13. /\ od' \in [ConnIds -> Driver]
         /\ \A c \in ConnIds :
              \/ c # id /\ od'[c] = Fresh(c) /\ conn'[c].session = conn[c].session
              \/ c = old /\ c # id /\ od'[c] = NullDriver /\ CursorsOf(c) = {}
              \/ c = id /\ od'[c] = connect(off)
    BY <1>5, <1>6, <1>10, <1>12, NullDriverOk DEF DriverOk
  <1>14. OdDrivers'
    <2> SUFFICES ASSUME NEW c \in ConnIds
                 PROVE  /\ DriverOk(od'[c])
                        /\ od'[c].conn_handle => c <= next_conn_id'
                        /\ c \in connections' /\ od'[c].conn_handle => conn'[c].session = "live"
      BY <1>13 DEF OdDrivers
    <2>1. c \in Nat
      BY NamesAssumption DEF ConnIds
    <2>2. CASE c # id /\ od'[c] = Fresh(c) /\ conn'[c].session = conn[c].session
      <3>1. Fresh(c).conn_handle = od[c].conn_handle /\ DriverOk(Fresh(c))
        BY <1>2, FreshIs
      <3> QED
        BY <1>1, <1>2, <1>4, <2>1, <2>2, <3>1 DEF OdDrivers
    <2>3. CASE od'[c] = NullDriver
      BY <2>3, NullDriverOk
    <2>4. CASE c = id /\ od'[c] = connect(off)
      BY <1>4, <1>6, <1>11, <2>1, <2>4
    <2> QED
      BY <1>13, <2>2, <2>3, <2>4
  <1>15. \A x \in CursorNames, c \in ConnIds :
            /\ cursor[x].conn = c /\ od[c].priv[x] # NoStmt => od'[c].priv[x] = od[c].priv[x]
            /\ od'[c].priv[x] \in {od[c].priv[x], NoStmt}
    <2> SUFFICES ASSUME NEW x \in CursorNames, NEW c \in ConnIds
                 PROVE  /\ cursor[x].conn = c /\ od[c].priv[x] # NoStmt =>
                              od'[c].priv[x] = od[c].priv[x]
                        /\ od'[c].priv[x] \in {od[c].priv[x], NoStmt}
      OBVIOUS
    <2>1. CASE od'[c] = Fresh(c)
      BY <1>12, <2>1 DEF Quiet
    <2>2. CASE od'[c] = NullDriver /\ CursorsOf(c) = {}
      <3>1. cursor[x].conn # c
        BY <1>2, <2>2 DEF OdCursors, CursorsOf
      <3> QED
        BY <2>2, <3>1, NullDriverOk
    <2>3. CASE c = id /\ od'[c] = connect(off)
      <3>1. od[c].priv[x] = NoStmt
        <4>1. DriverOk(od[c]) /\ ~od[c].conn_handle
          BY <1>2, <1>7, <2>3 DEF OdDrivers
        <4>2. od[c].priv[x] \in Handles \cup {NoStmt}
          BY <4>1 DEF DriverOk, Driver
        <4> QED
          BY <4>1, <4>2 DEF DriverOk, NoStatement
      <3> QED
        BY <1>6, <2>3, <3>1
    <2> QED
      BY <1>13, <2>1, <2>2, <2>3
  <1>16. OdCursors'
    BY <1>2, <1>3, <1>4, <1>15 DEF OdCursors, curVars
  <1>17. \A c \in ConnIds : ViewsKept(od[c], od'[c])
    <2> SUFFICES ASSUME NEW c \in ConnIds PROVE ViewsKept(od[c], od'[c])
      OBVIOUS
    <2>1. CASE od'[c] = Fresh(c)
      BY <1>12, <2>1 DEF Quiet, Evolves
    <2>2. CASE od'[c] = NullDriver \/ od'[c] = connect(off)
      BY <1>6, <2>2, NullDriverOk, OdbcAssumption DEF ViewsKept
    <2> QED
      BY <1>13, <2>1, <2>2
  <1>18. ErrorTruth
    <2>1. \A c \in ConnIds : ~od'[c].done
      BY <1>6, <1>12, <1>13, NullDriverOk
    <2> QED
      BY <2>1 DEF ErrorTruth
  <1> QED
    BY <1>3, <1>14, <1>16, <1>17, <1>18, CallStep

LEMMA OdConnectGood ==
    ASSUME OdInv, NEW n \in Names \cup {NoName}, OdConnect(n)
    PROVE  GoodStep
  <1>1. CASE ConnectOk(n)
    BY <1>1, OdConnectOkGood
  <1>2. CASE ConnectDuplicate(n) \/ ConnectFails(n) \/ ConnectNoLibrary(n)
    <2>1. AnyCall /\ UNCHANGED source /\ answer' = NoAnswer
      BY DEF OdConnect, AnyCall
    <2>2. UNCHANGED <<connVars, curVars>>
      BY <1>2 DEF ConnectDuplicate, ConnectFails, ConnectNoLibrary, StateUnchanged
    <2>3. od' = Untouched
      BY <2>2 DEF OdConnect, connVars, registry
    <2> QED
      BY <2>1, <2>2, <2>3, SameRuntime, UntouchedStep
  <1> QED
    BY <1>1, <1>2 DEF OdConnect, GIXSQLConnect

---------------------------------------------------------------------------
(* Calls that work on one cursor.                                          *)

LEMMA OdCloseGood ==
    ASSUME OdInv, NEW x \in CursorNames, OdClose(x)
    PROVE  GoodStep
  <1>1. PICK c : c = cursor[x].conn
    OBVIOUS
  <1>2. /\ AnyCall /\ UNCHANGED source /\ answer' = NoAnswer
        /\ OdDrivers /\ OdCursors /\ StateInv /\ CurTypeOK
    <2>1. NoName \in Names \cup {NoName} /\ GIXSQLCursorClose(x)
      BY DEF OdClose
    <2> QED
      BY <2>1 DEF OdClose, AnyCall, OdInv, StateInv
  <1>3. CASE ~(x \in cursors /\ cursor[x].open)
    <2>1. od' = Untouched /\ UNCHANGED <<connVars, curVars>>
      BY <1>3 DEF OdClose, GIXSQLCursorClose, NoSuchCursor, StateUnchanged
    <2> QED
      BY <1>2, <2>1, SameRuntime, UntouchedStep
  <1>4. CASE x \in cursors /\ cursor[x].open
    <2>1. PICK r \in cursor_close(Fresh(c), x, source[x]) : Becomes(c, r.p)
      BY <1>1, <1>4 DEF OdClose
    <2>2. /\ UNCHANGED <<connVars, cursors>>
          /\ cursor' = [cursor EXCEPT ![x] = Reclosed(x, c)]
      BY <1>1, <1>4 DEF OdClose, GIXSQLCursorClose, NoSuchCursor
    <2>3. cursor[x] \in Cursor /\ c # NoConn /\ c \in ConnIds
      <3>1. cursor[x] \in Cursor /\ c # NoConn
        BY <1>1, <1>2, <1>4 DEF StateInv, NoNullInterface, CurTypeOK
      <3> QED
        BY <1>1, <3>1 DEF Cursor
    <2>4. Reclosed(x, c).conn = c /\ Reclosed(x, c).drv # "open"
      BY <1>1, <2>3 DEF Reclosed, DriverClosed, Bound, Cursor, DriverStates
    <2>5. RuntimeKept /\ cursor'[x].drv # "open"
      BY <1>1, <1>2, <2>2, <2>4 DEF RuntimeKept, CurTypeOK, connVars, registry
    <2>6. /\ DriverOk(Fresh(c)) /\ ~Fresh(c).done /\ Fresh(c).priv = od[c].priv
          /\ source[x] \in StmtNames \cup {NoStmt}
          /\ od[c].priv[x] \in {NoStmt, x, source[x]}
      BY <1>2, <2>3, FreshIs DEF OdCursors, Quiet
    <2>7. OnCursor(Fresh(c), r.p, x) /\ r.p.priv[x] = NoStmt /\ ~r.p.done
      BY <2>1, <2>6, CursorCloseOk
    <2>8. PICK q : q = r.p
      OBVIOUS
    <2>9. /\ Becomes(c, q) /\ Evolves(Fresh(c), q) /\ ~q.done
          /\ \A y \in CursorNames :
                \/ q.priv[y] = od[c].priv[y]
                \/ q.priv[y] = NoStmt /\ (cursor[y].conn = c => cursor'[y].drv # "open")
      BY <2>1, <2>5, <2>6, <2>7, <2>8 DEF OnCursor
    <2>10. DriversShed /\ od'[c] = q /\ \A d \in ConnIds \ {c} : ~od'[d].done
      BY <1>2, <2>3, <2>9, BecomesShed
    <2>11. ErrorTruth
      BY <2>3, <2>9, <2>10, OneDriverTruth
    <2> QED
      BY <1>2, <2>5, <2>10, <2>11, ShedStep
  <1> QED
    BY <1>3, <1>4

\* The registries change for cursor x only, which is bound to connection c.
TouchesOne(x, c) ==
    /\ UNCHANGED <<next_conn_id, connections>>
    /\ cursors' = cursors \cup {x}
    /\ \A d \in ConnIds : conn'[d].session = conn[d].session
    /\ cursor[x].conn \in {NoConn, c}
    /\ cursor'[x].conn = c
    /\ source' \in [CursorNames -> StmtNames \cup {NoStmt}]
    /\ \A y \in cursors : source'[y] = source[y]
    /\ \A y \in CursorNames \ {x} : cursor'[y] = cursor[y] /\ source'[y] = source[y]

LEMMA OneCursorStep ==
    ASSUME OdInv, AnyCall, NEW x \in CursorNames, NEW c \in ConnIds, TouchesOne(x, c),
           NEW q, Becomes(c, q), OnCursor(Fresh(c), q, x),
           q.priv[x] \in {NoStmt, x, source'[x]},
           cursor'[x].drv = "open" => q.priv[x] # NoStmt,
           (/\ ret'.call # "first_row" /\ ret'.rc = "FAILED" /\ sqlcode' = "error"
            /\ 0 \notin InfoCodes) => ~q.done,
           answer' = NoAnswer
    PROVE  GoodStep
  <1>1. CurTypeOK /\ OdDrivers /\ OdCursors /\ NoConn \notin ConnIds
    BY DEF OdInv, StateInv, NoConn, ConnIds
  <1>2. q \in Driver /\ DriverOk(q) /\ q.conn_handle = od[c].conn_handle
    BY <1>1, FreshIs DEF OnCursor, Evolves, DriverOk
  <1>3. /\ od' \in [ConnIds -> Driver]
        /\ od'[c] = q
        /\ \A d \in ConnIds \ {c} : od'[d] = Fresh(d)
    BY <1>1, <1>2, BecomesIs
  <1>4. \A d \in ConnIds : Quiet(od[d], Fresh(d)) /\ ~Fresh(d).done
    BY <1>1, FreshIs
  <1>5. \A d \in ConnIds : DriverOk(od'[d]) /\ od'[d].conn_handle = od[d].conn_handle
    BY <1>2, <1>3, <1>4 DEF Quiet, Evolves
  <1>6. OdDrivers'
    BY <1>1, <1>3, <1>5 DEF OdDrivers, TouchesOne
  <1>7. \A y \in CursorNames, d \in ConnIds :
           y # x \/ d # c => od'[d].priv[y] = od[d].priv[y]
    BY <1>3, <1>4 DEF Quiet, OnCursor
  <1>8. OdCursors'
    <2> SUFFICES ASSUME NEW y \in CursorNames
                 PROVE  /\ y \notin cursors' => cursor'[y].conn = NoConn
                        /\ \A d \in ConnIds : od'[d].priv[y] # NoStmt =>
                              /\ cursor'[y].conn = d
                              /\ od'[d].priv[y] \in {y, source'[y]}
                        /\ cursor'[y].drv = "open" =>
                              /\ cursor'[y].conn \in ConnIds
                              /\ od'[cursor'[y].conn].priv[y] # NoStmt
      BY DEF OdCursors, TouchesOne
    <2>1. CASE y # x
      <3>1. cursor'[y] = cursor[y] /\ source'[y] = source[y] /\ (y \in cursors' <=> y \in cursors)
        BY <2>1 DEF TouchesOne
      <3>2. \A d \in ConnIds : od'[d].priv[y] = od[d].priv[y]
        BY <1>7, <2>1
      <3> QED
        BY <1>1, <3>1, <3>2 DEF OdCursors
    <2>2. CASE y = x
      <3>1. \A d \in ConnIds : d # c => od[d].priv[x] = NoStmt
        BY <1>1 DEF OdCursors, TouchesOne
      <3>2. \A d \in ConnIds : d # c => od'[d].priv[x] = NoStmt
        BY <1>7, <3>1
      <3> QED
        BY <1>3, <2>2, <3>2 DEF TouchesOne
    <2> QED
      BY <2>1, <2>2
  <1>9. \A d \in ConnIds : ViewsKept(od[d], od'[d])
    <2>1. Evolves(od[c], q)
      BY <1>4, EvolvesTrans DEF Quiet, OnCursor
    <2> QED
      BY <1>3, <1>4, <2>1 DEF Quiet, Evolves
  <1>10. ErrorTruth
    BY <1>3, <1>4, OneDriverTruth
  <1> QED
    BY <1>6, <1>8, <1>9, <1>10, CallStep DEF TouchesOne

\* A DECLARE that does not come to a driver.
LEMMA DeclareLater ==
    ASSUME OdInv, AnyCall, NEW x \in CursorNames, x \notin cursors,
           NEW s \in StmtNames \cup {NoStmt}, source' = [source EXCEPT ![x] = s],
           cursors' = cursors \cup {x}, NEW new, cursor' = [cursor EXCEPT ![x] = new],
           new.conn = NoConn, new.drv = "undeclared", UNCHANGED <<registry, conn>>,
           od' = Untouched, answer' = NoAnswer
    PROVE  GoodStep
  <1>1. CurTypeOK /\ OdDrivers /\ OdCursors /\ NoConn \notin ConnIds
    BY DEF OdInv, StateInv, NoConn, ConnIds
  <1>2. \A d \in ConnIds : /\ Fresh(d) \in Driver /\ DriverOk(Fresh(d))
                           /\ Quiet(od[d], Fresh(d)) /\ ~Fresh(d).done
                           /\ od'[d] = Fresh(d)
    BY <1>1, FreshIs DEF DriverOk, Untouched
  <1>3. \A d \in ConnIds : /\ DriverOk(od'[d]) /\ od'[d].conn_handle = od[d].conn_handle
                           /\ od'[d].priv = od[d].priv /\ ViewsKept(od[d], od'[d])
    BY <1>2 DEF Quiet, Evolves
  <1>4. od' \in [ConnIds -> Driver]
    BY <1>2 DEF Untouched
  <1>5. OdDrivers'
    BY <1>1, <1>3, <1>4 DEF OdDrivers, registry
  <1>6. OdCursors'
    <2>1. source' \in [CursorNames -> StmtNames \cup {NoStmt}]
      BY <1>1 DEF OdCursors
    <2>2. \A y \in CursorNames : y # x => /\ cursor'[y] = cursor[y] /\ source'[y] = source[y]
                                          /\ y \in cursors' <=> y \in cursors
      BY <1>1 DEF CurTypeOK, OdCursors
    <2>3. /\ cursor'[x].conn = NoConn /\ cursor'[x].drv = "undeclared"
          /\ \A d \in ConnIds : od[d].priv[x] = NoStmt
      BY <1>1 DEF CurTypeOK, OdCursors
    <2> QED
      BY <1>1, <1>3, <2>1, <2>2, <2>3 DEF OdCursors
  <1>7. ErrorTruth
    BY <1>2 DEF ErrorTruth
  <1>8. \A y \in cursors : source'[y] = source[y]
    BY <1>1 DEF CurTypeOK, OdCursors
  <1> QED
    BY <1>3, <1>5, <1>6, <1>7, <1>8, CallStep

LEMMA OdDeclareGood ==
    ASSUME OdInv, NEW x \in CursorNames, NEW n \in Names \cup {NoName},
           NEW host \in BOOLEAN, NEW hold \in BOOLEAN,
           NEW s \in StmtNames \cup {NoStmt}, OdDeclare(x, n, host, hold, s)
    PROVE  GoodStep
  <1>1. PICK c : c = get(n)
    OBVIOUS
  <1>2. AnyCall
    <2>1. "other" \in Queries /\ 0 \in 0..MaxVars
      BY RuntimeAssumption DEF Queries
    <2>2. GIXSQLCursorDeclare(x, n, host, hold, "other")
      BY DEF OdDeclare
    <2> QED
      BY <2>1, <2>2 DEF AnyCall
  <1>3. /\ answer' = NoAnswer /\ UNCHANGED registry
        /\ CurTypeOK /\ ConnTypeOK /\ OdDrivers /\ OdCursors /\ NoConn \notin ConnIds
    BY DEF OdDeclare, GIXSQLCursorDeclare, OdInv, StateInv, NoConn, ConnIds
  <1>4. Declare(x, n, host, hold)
    BY DEF OdDeclare, GIXSQLCursorDeclare
  <1>5. CASE x \in cursors
    <2>1. UNCHANGED <<conn, curVars>> /\ od' = Untouched
      BY <1>4, <1>5 DEF OdDeclare, Declare
    <2>2. UNCHANGED <<connVars, curVars, source>>
      BY <1>3, <1>5, <2>1 DEF OdDeclare, connVars, curVars
    <2> QED
      BY <1>2, <1>3, <2>1, <2>2, SameRuntime, UntouchedStep
  <1>6. CASE x \notin cursors /\ UNCHANGED <<conn, curVars>> /\ ret'.rc # "SUCCESS" /\ c # NoConn
    <2>1. UNCHANGED source
      BY <1>6 DEF OdDeclare, curVars
    <2>2. PICK r \in cursor_declare(Fresh(c), x) : r.rc # DBERR_NO_ERROR /\ Becomes(c, r.p)
      BY <1>1, <1>6 DEF OdDeclare
    <2>3. c \in ConnIds /\ DriverOk(Fresh(c)) /\ ~Fresh(c).done
      BY <1>1, <1>6, FoundDriver
    <2>4. OnCursor(Fresh(c), r.p, x) /\ ~r.p.done /\ r.p.priv[x] = Fresh(c).priv[x]
      BY <2>2, <2>3, CursorDeclareOk
    <2>5. Evolves(Fresh(c), r.p) /\ \A y \in CursorNames : r.p.priv[y] = od[c].priv[y]
      BY <1>3, <2>3, <2>4, FreshIs DEF OnCursor, Quiet
    <2>6. PICK q : q = r.p
      OBVIOUS
    <2>7. DriversShed /\ od'[c] = q /\ \A d \in ConnIds \ {c} : ~od'[d].done
      BY <1>3, <2>2, <2>3, <2>5, <2>6, BecomesShed
    <2>8. ErrorTruth
      BY <2>3, <2>4, <2>6, <2>7, OneDriverTruth
    <2>9. RuntimeKept
      BY <1>3, <1>6, SameRuntime DEF connVars
    <2> QED
      BY <1>2, <1>3, <2>1, <2>7, <2>8, <2>9, ShedStep
  <1>7. CASE /\ x \notin cursors
             /\ cursors' = cursors \cup {x}
             /\ cursor' = [cursor EXCEPT ![x] = NewCursor(c, n, host, hold)]
             /\ conn' = DeclaredOn(c)
             /\ ret'.rc = "SUCCESS"
    <2>1. source' = [source EXCEPT ![x] = s]
      BY <1>7 DEF OdDeclare
    <2>2. PICK new : new = NewCursor(c, n, host, hold)
      OBVIOUS
    <2>3. /\ new.conn = c /\ (c = NoConn => new.drv = "undeclared")
          /\ c # NoConn => new.drv = "declared"
      BY <2>2 DEF NewCursor
    <2>4. CASE c = NoConn
      <3>1. od' = Untouched /\ UNCHANGED conn
        BY <1>1, <1>7, <2>4 DEF OdDeclare, DeclaredOn
      <3> QED
        BY <1>2, <1>3, <1>7, <2>1, <2>2, <2>3, <2>4, <3>1, DeclareLater
    <2>5. CASE c # NoConn
      <3>1. PICK r \in cursor_declare(Fresh(c), x) : r.rc = DBERR_NO_ERROR /\ Becomes(c, r.p)
        BY <1>1, <1>7, <2>5 DEF OdDeclare
      <3>2. c \in ConnIds /\ DriverOk(Fresh(c)) /\ ~Fresh(c).done
        BY <1>1, <2>5, FoundDriver
      <3>3. OnCursor(Fresh(c), r.p, x) /\ ~r.p.done /\ r.p.priv[x] = x
        BY <3>1, <3>2, CursorDeclareOk
      <3>4. TouchesOne(x, c)
        <4>1. \A d \in ConnIds : conn'[d].session = conn[d].session
          BY <1>3, <1>7, <2>5, <3>2 DEF DeclaredOn, ConnTypeOK, Connection
        <4>2. cursor[x].conn = NoConn /\ cursor'[x].conn = c
          BY <1>3, <1>7, <2>2, <2>3 DEF OdCursors, CurTypeOK
        <4>3. /\ source' \in [CursorNames -> StmtNames \cup {NoStmt}]
              /\ \A y \in cursors : source'[y] = source[y]
              /\ \A y \in CursorNames \ {x} : cursor'[y] = cursor[y] /\ source'[y] = source[y]
          BY <1>3, <1>7, <2>1 DEF OdCursors, CurTypeOK
        <4> QED
          BY <1>3, <1>7, <4>1, <4>2, <4>3 DEF TouchesOne, registry
      <3>5. x # NoStmt
        BY OdbcAssumption
      <3>6. PICK q : q = r.p
        OBVIOUS
      <3>7. /\ Becomes(c, q) /\ OnCursor(Fresh(c), q, x) /\ ~q.done
            /\ q.priv[x] \in {NoStmt, x, source'[x]} /\ q.priv[x] # NoStmt
        BY <3>1, <3>3, <3>5, <3>6
      <3> QED
        BY <1>2, <1>3, <3>2, <3>4, <3>7, OneCursorStep
    <2> QED
      BY <2>4, <2>5
  <1>8. \/ x \in cursors
        \/ x \notin cursors /\ UNCHANGED <<conn, curVars>> /\ ret'.rc # "SUCCESS" /\ c # NoConn
        \/ /\ x \notin cursors
           /\ cursors' = cursors \cup {x}
           /\ cursor' = [cursor EXCEPT ![x] = NewCursor(c, n, host, hold)]
           /\ conn' = DeclaredOn(c)
           /\ ret'.rc = "SUCCESS"
    <2>1. Fail("cursor", get(n), DBERR_DECLARE_CURSOR_FAILED) => ret'.rc # "SUCCESS"
      BY ReturnIs DEF Fail
    <2>2. Succeed("cursor", get(n)) => ret'.rc = "SUCCESS"
      BY ReturnIs DEF Succeed
    <2> QED
      BY <1>1, <1>4, <2>1, <2>2 DEF Declare
  <1> QED
    BY <1>5, <1>6, <1>7, <1>8

\* What OPEN does to the registries when it has a connection.
LEMMA OpenTouches ==
    ASSUME OdInv, NEW x \in cursors, NEW hv, GIXSQLCursorOpen(x, hv),
           NEW c \in ConnIds, c = OpenConnection(x, hv), UNCHANGED source
    PROVE  /\ TouchesOne(x, c)
           /\ cursor'[x].drv = "open" => ret'.rc = "SUCCESS"
  <1>1. /\ x \in CursorNames /\ cursor[x] \in Cursor /\ CursorGood(cursor[x])
        /\ CurTypeOK /\ ConnTypeOK /\ OdCursors /\ c # NoConn
    BY CursorsGood DEF OdInv, StateInv, NoConn, ConnIds
  <1>2. /\ UNCHANGED <<registry, cursors>>
        /\ \/ OpenDeclareFails(x, c)
           \/ OpenCloseFails(x, c)
           \/ OpenFails(x, c)
           \/ OpenOk(x, c)
    BY <1>1 DEF GIXSQLCursorOpen, NoSuchCursor
  <1>3. cursor[x].conn \in {NoConn, c}
    BY DEF OpenConnection
  <1>4. \A d \in ConnIds : conn'[d].session = conn[d].session
    <2>1. conn' = conn \/ conn' = DeclaredOn(c)
      BY <1>2 DEF OpenDeclareFails, OpenCloseFails, OpenFails, OpenOk
    <2> QED
      BY <1>1, <2>1 DEF DeclaredOn, ConnTypeOK, Connection
  <1>5. PICK new : /\ cursor' = [cursor EXCEPT ![x] = new] /\ new.conn = c
                   /\ new.drv = "open" => ret'.rc = "SUCCESS"
    <2>1. CASE OpenDeclareFails(x, c)
      <3>1. [cursor[x] EXCEPT !.conn = c].conn = c /\ [cursor[x] EXCEPT !.conn = c].drv # "open"
        BY <1>1, <2>1 DEF OpenDeclareFails, CursorGood, Cursor
      <3>2. cursor' = [cursor EXCEPT ![x] = [cursor[x] EXCEPT !.conn = c]]
        BY <2>1 DEF OpenDeclareFails
      <3> QED
        BY <3>1, <3>2
    <2>2. CASE OpenCloseFails(x, c) \/ OpenFails(x, c)
      <3>1. cursor' = [cursor EXCEPT ![x] = Reclosed(x, c)]
        BY <2>2 DEF OpenCloseFails, OpenFails
      <3>2. Reclosed(x, c).conn = c /\ Reclosed(x, c).drv # "open"
        BY <1>1 DEF Reclosed, DriverClosed, Bound, Cursor, DriverStates
      <3> QED
        BY <3>1, <3>2
    <2>3. CASE OpenOk(x, c)
      <3>1. cursor' = [cursor EXCEPT ![x] = [Bound(x, c) EXCEPT !.open = TRUE, !.drv = "open"]]
        BY <2>3 DEF OpenOk
      <3>2. [Bound(x, c) EXCEPT !.open = TRUE, !.drv = "open"].conn = c
        BY <1>1 DEF Bound, Cursor
      <3>3. ret'.rc = "SUCCESS"
        BY <2>3, ReturnIs DEF OpenOk, Succeed
      <3> QED
        BY <3>1, <3>2, <3>3
    <2> QED
      BY <1>2, <2>1, <2>2, <2>3
  <1>6. /\ cursor'[x] = new /\ \A y \in CursorNames \ {x} : cursor'[y] = cursor[y]
        /\ cursors' = cursors \cup {x}
    BY <1>1, <1>2, <1>5 DEF CurTypeOK
  <1> QED
    BY <1>1, <1>2, <1>3, <1>4, <1>5, <1>6 DEF TouchesOne, registry, OdCursors

\* The driver after OPEN has declared the cursor, if need be.
LEMMA DeclaredDriver ==
    ASSUME OdInv, NEW x \in CursorNames, NEW c \in ConnIds, cursor[x].conn \in {NoConn, c},
           NEW d \in Declared(c, x)
    PROVE  /\ OnCursor(Fresh(c), d.p, x) /\ DriverOk(d.p) /\ ~d.p.done
           /\ d.p.priv[x] \in {NoStmt, x, source[x]}
  <1>1. /\ OdDrivers /\ OdCursors /\ DriverOk(Fresh(c)) /\ ~Fresh(c).done
        /\ Fresh(c).priv = od[c].priv
    BY FreshIs DEF OdInv, Quiet
  <1>2. od[c].priv[x] \in {NoStmt, x, source[x]}
    BY <1>1 DEF OdCursors
  <1>3. CASE cursor[x].conn = NoConn
    <2>1. d \in cursor_declare(Fresh(c), x)
      BY <1>3 DEF Declared
    <2>2. /\ OnCursor(Fresh(c), d.p, x) /\ ~d.p.done
          /\ d.p.priv[x] = Fresh(c).priv[x] \/ d.p.priv[x] = x
      BY <1>1, <2>1, CursorDeclareOk
    <2> QED
      BY <1>1, <1>2, <2>2 DEF OnCursor, Evolves
  <1>4. CASE cursor[x].conn # NoConn
    <2>1. d.p = Fresh(c)
      BY <1>4 DEF Declared, Returns
    <2> QED
      BY <1>1, <1>2, <2>1, IdleRefl, IdleOnCursor
  <1> QED
    BY <1>3, <1>4

\* The driver after OPEN has closed the cursor, if need be.
LEMMA ReclosedDriver ==
    ASSUME NEW x \in CursorNames, NEW p, DriverOk(p), ~p.done,
           source[x] \in StmtNames \cup {NoStmt}, p.priv[x] \in {NoStmt, x, source[x]},
           NEW q \in Closings(p, x)
    PROVE  /\ OnCursor(p, q.p, x) /\ DriverOk(q.p) /\ ~q.p.done
           /\ q.p.priv[x] \in {NoStmt, x, source[x]}
  <1>1. CASE cursor[x].open
    <2>1. q \in cursor_close(p, x, source[x])
      BY <1>1 DEF Closings
    <2> QED
      BY <2>1, CursorCloseOk DEF OnCursor, Evolves
  <1>2. CASE ~cursor[x].open
    <2>1. q.p = p
      BY <1>2 DEF Closings, Returns
    <2> QED
      BY <2>1, IdleRefl, IdleOnCursor
  <1> QED
    BY <1>1, <1>2

LEMMA OdOpenGood ==
    ASSUME OdInv, NEW x \in CursorNames, NEW hv \in Names \cup {NoName}, OdOpen(x, hv)
    PROVE  GoodStep
  <1>1. /\ AnyCall /\ UNCHANGED source /\ answer' = NoAnswer
        /\ OdDrivers /\ OdCursors /\ StateInv /\ CurTypeOK
    BY DEF OdOpen, AnyCall, OdInv, StateInv
  <1>2. CASE x \notin cursors \/ OpenConnection(x, hv) = NoConn
    <2>1. od' = Untouched /\ UNCHANGED <<connVars, curVars>>
      BY <1>2 DEF OdOpen, GIXSQLCursorOpen, NoSuchCursor, StateUnchanged
    <2> QED
      BY <1>1, <2>1, SameRuntime, UntouchedStep
  <1>3. CASE x \in cursors /\ OpenConnection(x, hv) # NoConn
    <2>1. PICK c : c = OpenConnection(x, hv)
      OBVIOUS
    <2>2. c \in ConnIds /\ cursor[x].conn \in {NoConn, c}
      <3>1. cursor[x] \in Cursor
        BY <1>1 DEF CurTypeOK
      <3>2. CASE cursor[x].conn # NoConn
        BY <2>1, <3>1, <3>2 DEF OpenConnection, Cursor
      <3>3. CASE cursor[x].conn = NoConn
        <4>1. PICK n \in Names \cup {NoName} : c = get(n)
          BY <2>1, <3>1, <3>3 DEF OpenConnection, Cursor
        <4> QED
          BY <1>3, <2>1, <3>3, <4>1, FoundDriver
      <3> QED
        BY <3>2, <3>3
    <2>3. GIXSQLCursorOpen(x, hv)
      BY DEF OdOpen
    <2>4. TouchesOne(x, c) /\ (cursor'[x].drv = "open" => ret'.rc = "SUCCESS")
      BY <1>1, <1>3, <2>1, <2>2, <2>3, OpenTouches
    <2>5. PICK d \in Declared(c, x) :
             IF d.rc # DBERR_NO_ERROR
             THEN cursor'[x].drv = "undeclared" /\ ret'.rc = "FAILED" /\ Becomes(c, d.p)
             ELSE \E q \in Closings(d.p, x) :
                     IF q.rc # DBERR_NO_ERROR
                     THEN Reports(q, DBERR_CLOSE_CURSOR_FAILED) /\ Becomes(c, q.p)
                     ELSE \E r \in cursor_open(q.p, x, source[x]) :
                             Reports(r, DBERR_OPEN_CURSOR_FAILED) /\ Becomes(c, r.p)
      BY <1>3, <2>1 DEF OdOpen
    <2>6. /\ OnCursor(Fresh(c), d.p, x) /\ DriverOk(d.p) /\ ~d.p.done
          /\ d.p.priv[x] \in {NoStmt, x, source[x]}
          /\ source[x] \in StmtNames \cup {NoStmt}
      BY <1>1, <2>2, <2>5, DeclaredDriver DEF OdCursors
    <2>7. CASE d.rc # DBERR_NO_ERROR
      <3>1. PICK q : q = d.p
        OBVIOUS
      <3>2. /\ Becomes(c, q) /\ OnCursor(Fresh(c), q, x) /\ ~q.done
            /\ q.priv[x] \in {NoStmt, x, source'[x]} /\ cursor'[x].drv # "open"
        BY <1>1, <2>5, <2>6, <2>7, <3>1
      <3> QED
        BY <1>1, <2>2, <2>4, <3>2, OneCursorStep
    <2>8. CASE d.rc = DBERR_NO_ERROR
      <3>1. PICK q \in Closings(d.p, x) :
               IF q.rc # DBERR_NO_ERROR
               THEN Reports(q, DBERR_CLOSE_CURSOR_FAILED) /\ Becomes(c, q.p)
               ELSE \E r \in cursor_open(q.p, x, source[x]) :
                       Reports(r, DBERR_OPEN_CURSOR_FAILED) /\ Becomes(c, r.p)
        BY <2>5, <2>8
      <3>2. PICK p, o : p = d.p /\ o = q.p
        OBVIOUS
      <3>3. /\ OnCursor(p, o, x) /\ DriverOk(o) /\ ~o.done
            /\ o.priv[x] \in {NoStmt, x, source[x]}
        BY <2>6, <3>1, <3>2, ReclosedDriver
      <3>4. OnCursor(Fresh(c), o, x)
        BY <2>6, <3>2, <3>3, OnCursorTrans
      <3>5. CASE q.rc # DBERR_NO_ERROR
        <4>1. Becomes(c, o) /\ ret'.rc = "FAILED"
          BY <3>1, <3>2, <3>5 DEF Reports
        <4> QED
          BY <1>1, <2>2, <2>4, <3>3, <3>4, <4>1, OneCursorStep
      <3>6. CASE q.rc = DBERR_NO_ERROR
        <4>1. PICK r \in cursor_open(o, x, source[x]) :
                 Reports(r, DBERR_OPEN_CURSOR_FAILED) /\ Becomes(c, r.p)
          BY <3>1, <3>2, <3>6
        <4>2. /\ OnCursor(o, r.p, x) /\ Honest(r)
              /\ r.rc = DBERR_NO_ERROR => r.p.priv[x] \in {x, source[x]} \ {NoStmt}
              /\ r.rc # DBERR_NO_ERROR => r.p.priv[x] = o.priv[x]
          BY <2>6, <3>3, <4>1, CursorOpenOk
        <4>3. r.p \in Driver
          BY <4>2 DEF OnCursor, Evolves, DriverOk
        <4>4. ret'.rc = "SUCCESS" => r.rc = DBERR_NO_ERROR
          BY <4>1 DEF Reports
        <4>5. (/\ ret'.call # "first_row" /\ ret'.rc = "FAILED" /\ sqlcode' = "error"
               /\ 0 \notin InfoCodes) => ~r.p.done
          <5>1. DBERR_OPEN_CURSOR_FAILED # DBERR_NO_ERROR /\ ~is_data_error(DBERR_OPEN_CURSOR_FAILED)
            BY DEF DBERR_OPEN_CURSOR_FAILED, DBERR_NO_ERROR, is_data_error, DBERR_NUM_OUT_OF_RANGE
          <5> QED
            BY <4>1, <4>2, <4>3, <5>1, ReportsHonestly
        <4>6. PICK e : e = r.p
          OBVIOUS
        <4>7. OnCursor(Fresh(c), e, x)
          BY <3>4, <4>2, <4>6, OnCursorTrans
        <4>8. /\ Becomes(c, e) /\ e.priv[x] \in {NoStmt, x, source'[x]}
              /\ cursor'[x].drv = "open" => e.priv[x] # NoStmt
          BY <1>1, <2>4, <3>3, <4>1, <4>2, <4>4, <4>6
        <4> QED
          BY <1>1, <2>2, <2>4, <4>5, <4>6, <4>7, <4>8, OneCursorStep
      <3> QED
        BY <3>5, <3>6
    <2> QED
      BY <2>7, <2>8
  <1> QED
    BY <1>2, <1>3

---------------------------------------------------------------------------
(* FETCH.                                                                  *)

\* What FETCH leaves as it is in the drivers.
FetchKeeps ==
    /\ od' \in [ConnIds -> Driver]
    /\ \A c \in ConnIds :
          /\ DriverOk(od'[c])
          /\ od'[c].conn_handle = od[c].conn_handle
          /\ od'[c].priv = od[c].priv
          /\ ~od'[c].done

LEMMA FetchInv ==
    ASSUME OdInv, AnyCall, UNCHANGED <<connVars, curVars, source>>, FetchKeeps
    PROVE  OdInv' /\ ErrorTruth
  <1>1. StateInv'
    BY AnyCallStateInv DEF OdInv
  <1>2. OdDrivers'
    BY DEF OdInv, OdDrivers, FetchKeeps, connVars, registry
  <1>3. OdCursors'
    BY DEF OdInv, OdCursors, FetchKeeps, curVars
  <1> QED
    BY <1>1, <1>2, <1>3 DEF OdInv, ErrorTruth, FetchKeeps

\* The view of a cursor before and after.
LEMMA FetchViews ==
    ASSUME OdInv, OdInv', UNCHANGED <<curVars, source>>, FetchKeeps,
           NEW y \in CursorNames, NEW c, c = cursor[y].conn
    PROVE  /\ CursorView(y) = IF Opens(od, c, source[y], y) THEN View(od[c].stmt[y]) ELSE ClosedView
           /\ CursorView(y)' = IF Opens(od', c, source[y], y) THEN View(od'[c].stmt[y]) ELSE ClosedView
  <1>1. /\ CurTypeOK /\ OdDrivers /\ OdCursors /\ CurTypeOK' /\ OdDrivers' /\ OdCursors'
        /\ cursor' = cursor /\ source' = source
    BY DEF OdInv, StateInv, curVars
  <1>2. /\ CursorView(y) = ViewOf(od, c, source[y], y)
        /\ CursorView(y)' = ViewOf(od', c, source[y], y)
    BY <1>1, ViewsAre
  <1>3. /\ c \in ConnIds \cup {NoConn}
        /\ c # NoConn => DriverOk(od[c]) /\ od[c].priv[y] \in {y, source[y], NoStmt}
    BY <1>1, BoundViews
  <1>4. c # NoConn => DriverOk(od'[c]) /\ od'[c].priv[y] \in {y, source[y], NoStmt}
    BY <1>1, BoundViewsNext
  <1> QED
    BY <1>2, <1>3, <1>4, ViewIs

LEMMA FetchSameView ==
    ASSUME OdInv, OdInv', UNCHANGED <<curVars, source>>, FetchKeeps, NEW y \in CursorNames,
           source[y] = NoStmt => \A c \in ConnIds : od'[c].stmt[y] = od[c].stmt[y]
    PROVE  CursorView(y)' = CursorView(y)
  <1>1. PICK c : c = cursor[y].conn
    OBVIOUS
  <1>2. Opens(od', c, source[y], y) <=> Opens(od, c, source[y], y)
    BY DEF Opens, FetchKeeps
  <1>3. Opens(od, c, source[y], y) => od'[c].stmt[y] = od[c].stmt[y]
    BY DEF Opens
  <1> QED
    BY <1>1, <1>2, <1>3, FetchViews

LEMMA SameViews ==
    ASSUME \A y \in CursorNames : CursorView(y)' = CursorView(y)
    PROVE  [y \in CursorNames |-> CursorView(y)]' = [y \in CursorNames |-> CursorView(y)]
  OBVIOUS

\* A FETCH that tells the abstract specification nothing, or that moves nothing.
LEMMA FetchStays ==
    ASSUME OdInv, UNCHANGED source, \A y \in CursorNames : CursorView(y)' = CursorView(y),
           NEW x \in CursorNames, answer'.x = x,
           \/ source[x] # NoStmt
           \/ answer' = [kind |-> "error", x |-> x, row |-> 0]
    PROVE  Abstract!Next
  <1>1. x # NoStmt
    BY OdbcAssumption
  <1>2. CASE source[x] # NoStmt
    <2>1. Abstract!Call
      BY <1>1, <1>2 DEF Abstract!Call, Abstract!NoAnswer, NoAnswer
    <2> QED
      BY <2>1 DEF Abstract!Next
  <1>3. CASE source[x] = NoStmt
    <2>1. Abstract!FetchError(x)
      BY <1>1, <1>3, SameViews DEF Abstract!FetchError, Abstract!Error
    <2> QED
      BY <2>1 DEF Abstract!Next
  <1> QED
    BY <1>2, <1>3

LEMMA FetchEnds ==
    ASSUME OdInv, UNCHANGED source, \A y \in CursorNames : CursorView(y)' = CursorView(y),
           NEW x \in CursorNames, source[x] = NoStmt,
           answer' = [kind |-> "nodata", x |-> x, row |-> 0],
           NEW st, CursorView(x) = View(st), st.at = st.rows
    PROVE  Abstract!Next
  <1>1. x # NoStmt
    BY OdbcAssumption
  <1>2. CursorView(x).open /\ CursorView(x).at = CursorView(x).rows
    BY DEF View
  <1>3. Abstract!FetchNoData(x)
    BY <1>1, <1>2, SameViews DEF Abstract!FetchNoData, Abstract!NoData
  <1> QED
    BY <1>3 DEF Abstract!Next

LEMMA MoveOn ==
    ASSUME NEW o, NEW r, NEW a, NEW b, NEW v, v = [open |-> o, rows |-> r, at |-> a]
    PROVE  [v EXCEPT !.at = b] = [open |-> o, rows |-> r, at |-> b]
  OBVIOUS

LEMMA FetchMoves ==
    ASSUME OdInv, UNCHANGED source, NEW x \in CursorNames, source[x] = NoStmt,
           \A y \in CursorNames \ {x} : CursorView(y)' = CursorView(y),
           NEW st \in Stmt, CursorView(x) = View(st), st.at < st.rows,
           CursorView(x)' = View([st EXCEPT !.at = @ + 1]),
           \/ answer' = [kind |-> "error", x |-> x, row |-> 0]
           \/ answer' = [kind |-> "row", x |-> x, row |-> st.at + 1]
    PROVE  Abstract!Next
  <1>1. x # NoStmt
    BY OdbcAssumption
  <1>2. /\ CursorView(x).open /\ CursorView(x).at < CursorView(x).rows
        /\ CursorView(x).at = st.at
    BY DEF View
  <1>3. CursorView(x)' = [CursorView(x) EXCEPT !.at = @ + 1]
    <2>1. PICK st1 : st1 = [st EXCEPT !.at = @ + 1]
      OBVIOUS
    <2>2. st1.rows = st.rows /\ st1.at = st.at + 1
      BY <2>1 DEF Stmt
    <2>3. CursorView(x)' = [open |-> TRUE, rows |-> st.rows, at |-> st.at + 1]
      BY <2>1, <2>2 DEF View
    <2>4. CursorView(x) = [open |-> TRUE, rows |-> st.rows, at |-> st.at]
      BY DEF View
    <2>5. PICK v, rows, at, n : v = CursorView(x) /\ rows = st.rows /\ at = st.at /\ n = at + 1
      OBVIOUS
    <2>6. v = [open |-> TRUE, rows |-> rows, at |-> at]
      BY <2>4, <2>5
    <2>7. v.at = at
      BY ONLY <2>6
    <2>8. PICK o : o = TRUE
      OBVIOUS
    <2>9. v = [open |-> o, rows |-> rows, at |-> at]
      BY <2>6, <2>8
    <2>10. [v EXCEPT !.at = n] = [open |-> o, rows |-> rows, at |-> n]
      BY ONLY <2>9, MoveOn
    <2>11. CursorView(x)' = [open |-> o, rows |-> rows, at |-> n]
      BY <2>3, <2>5, <2>8
    <2> QED
      BY ONLY <2>5, <2>7, <2>10, <2>11
  <1>4. PICK f, g : /\ f = [y \in CursorNames |-> CursorView(y)]
                    /\ g = [y \in CursorNames |-> CursorView(y)]'
    OBVIOUS
  <1>5. g = [f EXCEPT ![x].at = @ + 1]
    BY <1>3, <1>4
  <1>6. f[x] = CursorView(x)
    BY <1>4
  <1>7. Abstract!FetchRow(x)
    BY <1>1, <1>2, <1>4, <1>5, <1>6 DEF Abstract!FetchRow, Abstract!Row, Abstract!Error
  <1> QED
    BY <1>7 DEF Abstract!Next

\* An error code of a FETCH that had a statement is not the one of "no record".
LEMMA NotNorec ==
    ASSUME NorecCode > 0, NEW code \in InfoCodes \cup {0, -Native},
           NEW err \in {DBERR_FETCH_ROW_FAILED, DBERR_FIELD_COUNT_MISMATCH,
                        DBERR_INVALID_COLUMN_DATA, DBERR_NUM_OUT_OF_RANGE}
    PROVE  Status(code, err) # "norec"
  <1>1. code \in Int /\ code # NorecCode /\ NorecCode \in Int
    BY OdbcAssumption, NorecAssumption DEF Native
  <1> QED
    BY <1>1 DEF Status, Outcome, setStatus, is_data_error, DBERR_FETCH_ROW_FAILED,
               DBERR_FIELD_COUNT_MISMATCH, DBERR_INVALID_COLUMN_DATA, DBERR_NUM_OUT_OF_RANGE,
               DBERR_NO_ERROR, DBERR_NO_DATA

\* The codes a failing FETCH comes with.
FetchErrors == {DBERR_FETCH_ROW_FAILED, DBERR_FIELD_COUNT_MISMATCH,
                DBERR_INVALID_COLUMN_DATA, DBERR_NUM_OUT_OF_RANGE}

LEMMA FetchReportsWhat ==
    ASSUME NEW r, NEW x, DriverOk(r.p), NEW q, FetchReports(r, x, q)
    PROVE  \/ ret'.rc = "FETCH_ROW_FAILED" /\ r.rc = DBERR_NO_DATA
           \/ ret'.rc = "SUCCESS" /\ r.rc = DBERR_NO_ERROR
           \/ /\ ret'.rc = "FAILED" /\ r.rc # DBERR_NO_DATA
              /\ \E code \in InfoCodes \cup {0, -Native, r.p.last_rc}, err \in FetchErrors :
                    sqlcode' = Status(code, err)
  <1>1. ASSUME ColumnsFail(r.p, q)
        PROVE  /\ ret'.rc = "FAILED"
               /\ \E code \in InfoCodes \cup {0, -Native, r.p.last_rc}, err \in FetchErrors :
                     sqlcode' = Status(code, err)
    <2>1. ret'.rc = "FAILED"
      BY <1>1 DEF ColumnsFail
    <2>2. CASE sqlcode' = Status(r.p.last_rc, DBERR_NUM_OUT_OF_RANGE)
      BY <2>1, <2>2 DEF FetchErrors
    <2>3. ASSUME NEW e \in Refused(r.p, DBERR_INVALID_COLUMN_DATA),
                 sqlcode' = Status(e.p.last_rc, e.rc)
          PROVE  \E code \in InfoCodes \cup {0, -Native, r.p.last_rc}, err \in FetchErrors :
                     sqlcode' = Status(code, err)
      <3>1. e.rc = DBERR_INVALID_COLUMN_DATA /\ e.p.last_rc \in InfoCodes \cup {0, -Native}
        BY RefusedOk
      <3> QED
        BY <2>3, <3>1 DEF FetchErrors
    <2> QED
      BY <1>1, <2>1, <2>2, <2>3 DEF ColumnsFail
  <1>2. ASSUME NEW err \in FetchErrors, sqlcode' = Status(r.p.last_rc, err)
        PROVE  \E code \in InfoCodes \cup {0, -Native, r.p.last_rc}, e \in FetchErrors :
                  sqlcode' = Status(code, e)
    BY <1>2
  <1>3. {DBERR_FETCH_ROW_FAILED, DBERR_FIELD_COUNT_MISMATCH} \subseteq FetchErrors
    BY DEF FetchErrors
  <1> QED
    BY <1>1, <1>2, <1>3 DEF FetchReports, DBERR_NO_ERROR, DBERR_NO_DATA

\* A FETCH of a cursor that is not open for the runtime.
LEMMA FetchClosed ==
    ASSUME OdInv, NEW x \in CursorNames, OdFetch(x), x \notin cursors \/ ~cursor[x].open
    PROVE  GoodStep
  <1>1. /\ AnyCall /\ UNCHANGED <<connVars, curVars, source>> /\ od' = Untouched
        /\ answer' = FetchAnswer(x, NullDriver) /\ ret'.rc = "FAILED"
    <2>1. NoName \in Names \cup {NoName} /\ GIXSQLCursorFetchOne(x)
      BY DEF OdFetch
    <2>2. AnyCall
      BY <2>1 DEF AnyCall
    <2>3. UNCHANGED <<connVars, curVars>> /\ ret'.rc = "FAILED"
      BY <2>1, ReturnIs DEF GIXSQLCursorFetchOne, NoSuchCursor, StateUnchanged, Fail
    <2> QED
      BY <2>2, <2>3 DEF OdFetch
  <1>2. answer' = [kind |-> "error", x |-> x, row |-> 0]
    BY <1>1 DEF FetchAnswer
  <1>3. FetchKeeps /\ \A c \in ConnIds : od'[c].stmt = od[c].stmt
    <2>1. \A c \in ConnIds : /\ Fresh(c) \in Driver /\ DriverOk(Fresh(c)) /\ Quiet(od[c], Fresh(c))
                             /\ ~Fresh(c).done /\ Fresh(c).stmt = od[c].stmt
                             /\ od'[c] = Fresh(c)
      BY <1>1, FreshIs DEF OdInv, DriverOk, Untouched
    <2> QED
      BY <1>1, <2>1 DEF FetchKeeps, Quiet, Evolves, Untouched
  <1>4. OdInv' /\ ErrorTruth
    BY <1>1, <1>3, FetchInv
  <1>5. \A y \in CursorNames : CursorView(y)' = CursorView(y)
    BY <1>1, <1>3, <1>4, FetchSameView
  <1>6. Abstract!Next
    BY <1>1, <1>2, <1>5, FetchStays
  <1>7. FetchTruth
    <2>1. cursor[x].drv # "open"
      BY DEF OdInv, OdCursors, StateInv, CursorStateAgreement, NoConn, ConnIds
    <2> QED
      BY <1>2, <2>1 DEF FetchTruth
  <1> QED
    BY <1>4, <1>6, <1>7 DEF GoodStep

LEMMA FetchOpen ==
    ASSUME OdInv, NEW x \in CursorNames, OdFetch(x), x \in cursors, cursor[x].open
    PROVE  GoodStep
  <1>1. PICK c : c = cursor[x].conn
    OBVIOUS
  <1>2. PICK r, q :
           /\ r \in cursor_fetch_one(Fresh(c), x)
           /\ q \in AfterColumns(r.p)
           /\ FetchReports(r, x, q)
           /\ Becomes(c, q)
           /\ answer' = FetchAnswer(x, q)
    BY <1>1 DEF OdFetch
  <1>3. /\ AnyCall /\ UNCHANGED <<connVars, curVars, source>>
        /\ OdDrivers /\ OdCursors /\ StateInv /\ CurTypeOK
    <2>1. NoName \in Names \cup {NoName} /\ GIXSQLCursorFetchOne(x)
      BY DEF OdFetch
    <2>2. AnyCall
      BY <2>1 DEF AnyCall
    <2>3. UNCHANGED <<connVars, curVars>>
      BY <2>1 DEF GIXSQLCursorFetchOne, NoSuchCursor, StateUnchanged
    <2> QED
      BY <2>2, <2>3 DEF OdFetch, OdInv, StateInv
  <1>4. /\ c \in ConnIds /\ DriverOk(Fresh(c)) /\ ~Fresh(c).done
        /\ Fresh(c).priv = od[c].priv /\ Fresh(c).stmt = od[c].stmt
        /\ Fresh(c).conn_handle = od[c].conn_handle
    <2>1. c \in ConnIds
      BY <1>1, <1>3 DEF StateInv, NoNullInterface, CurTypeOK, Cursor
    <2> QED
      BY <1>3, <2>1, FreshIs DEF Quiet
  <1>5. PICK h : h = od[c].priv[x]
    OBVIOUS
  <1>6. h \in {NoStmt, x, source[x]} /\ x # NoStmt /\ source[x] # x
    BY <1>3, <1>4, <1>5, OdbcAssumption DEF OdCursors
  <1>7. /\ h = NoStmt => r.p = Fresh(c) /\ r.rc = DBERR_FETCH_ROW_FAILED
        /\ h # NoStmt => Fetched(Fresh(c), r, h)
    BY <1>2, <1>4, <1>5, CursorFetchOk
  <1>17. /\ DriverOk(r.p) /\ r.p.conn_handle = od[c].conn_handle
         /\ r.p.priv = od[c].priv /\ ~r.p.done
    BY <1>4, <1>7 DEF Fetched
  <1>18. Idle(r.p, q) /\ q.priv = r.p.priv /\ q.stmt = r.p.stmt
    BY <1>2, <1>17, AfterColumnsOk DEF Idle, Quiet
  <1>8. /\ FetchKeeps
        /\ od'[c].stmt = r.p.stmt /\ od'[c].priv = r.p.priv
        /\ \A d \in ConnIds \ {c} : od'[d].stmt = od[d].stmt
    <2>1. /\ DriverOk(q) /\ q.conn_handle = od[c].conn_handle
          /\ q.priv = od[c].priv /\ ~q.done
      BY <1>17, <1>18 DEF Idle, Quiet, Evolves
    <2>2. /\ od' \in [ConnIds -> Driver]
          /\ od'[c] = q
          /\ \A d \in ConnIds \ {c} : od'[d] = Fresh(d)
      BY <1>2, <1>3, <1>4, <2>1, BecomesIs DEF DriverOk
    <2>3. \A d \in ConnIds \ {c} :
             /\ DriverOk(Fresh(d)) /\ Quiet(od[d], Fresh(d)) /\ ~Fresh(d).done
             /\ Fresh(d).stmt = od[d].stmt
      BY <1>3, FreshIs
    <2> QED
      BY <1>18, <2>1, <2>2, <2>3 DEF FetchKeeps, Quiet, Evolves
  <1>9. OdInv' /\ ErrorTruth
    BY <1>3, <1>8, FetchInv
  <1>10. \A y \in CursorNames \ {x} : CursorView(y)' = CursorView(y)
    <2> SUFFICES ASSUME NEW y \in CursorNames \ {x} PROVE CursorView(y)' = CursorView(y)
      OBVIOUS
    <2>1. y \in Handles /\ y # h
      BY <1>3, <1>6, OdbcAssumption DEF Handles, OdCursors
    <2>2. od'[c].stmt[y] = od[c].stmt[y]
      BY <1>4, <1>7, <1>8, <2>1 DEF Fetched
    <2>3. \A d \in ConnIds : od'[d].stmt[y] = od[d].stmt[y]
      BY <1>8, <2>2
    <2> QED
      BY <1>3, <1>8, <1>9, <2>3, FetchSameView
  <1>11. /\ answer'.x = x
         /\ ret'.rc = "FAILED" => answer' = [kind |-> "error", x |-> x, row |-> 0]
         /\ ret'.rc = "FETCH_ROW_FAILED" => answer' = [kind |-> "nodata", x |-> x, row |-> 0]
         /\ ret'.rc = "SUCCESS" => answer' = [kind |-> "row", x |-> x,
                                              row |-> r.p.stmt[r.p.priv[x]].at]
    BY <1>2, <1>18 DEF FetchAnswer
  <1>12. \/ ret'.rc = "FETCH_ROW_FAILED" /\ r.rc = DBERR_NO_DATA
         \/ ret'.rc = "SUCCESS" /\ r.rc = DBERR_NO_ERROR
         \/ /\ ret'.rc = "FAILED" /\ r.rc # DBERR_NO_DATA
            /\ \E code \in InfoCodes \cup {0, -Native, r.p.last_rc}, err \in FetchErrors :
                  sqlcode' = Status(code, err)
    BY <1>2, <1>17, FetchReportsWhat
  <1>13. NorecCode > 0 => FetchTruth
    <2> SUFFICES ASSUME NorecCode > 0, answer'.kind = "error", cursor[x].drv = "open"
                 PROVE  sqlcode' # "norec"
      BY <1>11 DEF FetchTruth
    <2>1. h # NoStmt
      BY <1>1, <1>3, <1>5 DEF OdCursors
    <2>2. ret'.rc = "FAILED"
      BY <1>11, <1>12
    <2>3. r.p.last_rc \in InfoCodes \cup {0, -Native}
      BY <1>7, <1>12, <2>1, <2>2 DEF Fetched
    <2> QED
      BY <1>12, <2>2, <2>3, NotNorec DEF FetchErrors
  <1>14. ASSUME source[x] = NoStmt => \A d \in ConnIds : od'[d].stmt[x] = od[d].stmt[x]
         PROVE  \A y \in CursorNames : CursorView(y)' = CursorView(y)
    <2>1. CursorView(x)' = CursorView(x)
      BY <1>3, <1>8, <1>9, <1>14, FetchSameView
    <2> QED
      BY <1>10, <2>1
  <1>15. CASE h = NoStmt \/ source[x] # NoStmt
    <2>1. source[x] = NoStmt => \A d \in ConnIds : od'[d].stmt[x] = od[d].stmt[x]
      BY <1>4, <1>7, <1>8, <1>15
    <2>2. source[x] = NoStmt => ret'.rc = "FAILED"
      BY <1>7, <1>12, <1>15 DEF DBERR_FETCH_ROW_FAILED, DBERR_NO_DATA, DBERR_NO_ERROR
    <2>3. \A y \in CursorNames : CursorView(y)' = CursorView(y)
      BY <1>14, <2>1
    <2> QED
      BY <1>3, <1>9, <1>11, <1>13, <2>2, <2>3, FetchStays DEF GoodStep
  <1>16. CASE h # NoStmt /\ source[x] = NoStmt
    <2>1. h = x /\ x \in Handles /\ Fetched(Fresh(c), r, x) /\ r.p.priv[x] = x
      BY ZenonT(60), <1>4, <1>5, <1>6, <1>7, <1>16 DEF Handles, Fetched
    <2>2. PICK st : st = od[c].stmt[x]
      OBVIOUS
    <2>3. st \in Stmt
      BY <1>3, <1>4, <2>1, <2>2 DEF OdDrivers, Driver
    <2>4. /\ CursorView(x) = IF st.open THEN View(st) ELSE ClosedView
          /\ CursorView(x)' = IF r.p.stmt[x].open THEN View(r.p.stmt[x]) ELSE ClosedView
      <3>1. Opens(od, c, source[x], x) <=> st.open
        BY <1>4, <1>5, <1>16, <2>1, <2>2 DEF Opens
      <3>2. Opens(od', c, source[x], x) <=> r.p.stmt[x].open
        BY <1>4, <1>8, <1>16, <2>1 DEF Opens
      <3> QED
        BY <1>1, <1>3, <1>8, <1>9, <2>2, <3>1, <3>2, FetchViews
    <2>5. CASE r.rc # DBERR_NO_ERROR /\ r.p.stmt[x] = st
      <3>1. \A d \in ConnIds : od'[d].stmt[x] = od[d].stmt[x]
        BY <1>8, <2>2, <2>5
      <3>2. \A y \in CursorNames : CursorView(y)' = CursorView(y)
        BY <1>14, <3>1
      <3>3. CASE r.rc = DBERR_NO_DATA
        <4>1. st.open /\ st.at = st.rows
          BY <1>4, <2>1, <2>2, <3>3 DEF Fetched
        <4>2. answer' = [kind |-> "nodata", x |-> x, row |-> 0]
          BY <1>11, <1>12, <3>3 DEF DBERR_NO_DATA, DBERR_NO_ERROR
        <4>3. CursorView(x) = View(st)
          BY <2>4, <4>1
        <4> QED
          BY <1>3, <1>9, <1>13, <1>16, <3>2, <4>1, <4>2, <4>3, FetchEnds DEF GoodStep
      <3>4. CASE r.rc # DBERR_NO_DATA
        <4>1. answer' = [kind |-> "error", x |-> x, row |-> 0]
          BY <1>11, <1>12, <2>5, <3>4
        <4> QED
          BY <1>3, <1>9, <1>11, <1>13, <3>2, <4>1, FetchStays DEF GoodStep
      <3> QED
        BY <3>3, <3>4
    <2>6. CASE /\ r.rc # DBERR_NO_DATA
               /\ st.open
               /\ st.at < st.rows
               /\ r.p.stmt[x] = [st EXCEPT !.at = @ + 1]
      <3>1. r.p.stmt[x].open /\ r.p.stmt[x].at = st.at + 1
        BY <2>3, <2>6 DEF Stmt
      <3>2. CursorView(x) = View(st) /\ CursorView(x)' = View([st EXCEPT !.at = @ + 1])
        BY <2>4, <2>6, <3>1
      <3>3. \/ answer' = [kind |-> "error", x |-> x, row |-> 0]
            \/ answer' = [kind |-> "row", x |-> x, row |-> st.at + 1]
        BY <1>11, <1>12, <2>1, <2>6, <3>1
      <3>4. Abstract!Next
        BY <1>3, <1>10, <1>16, <2>3, <2>6, <3>2, <3>3, FetchMoves
      <3> QED
        BY <1>9, <1>13, <3>4 DEF GoodStep
    <2> QED
      BY <1>4, <2>1, <2>2, <2>5, <2>6 DEF Fetched
  <1> QED
    BY <1>15, <1>16

LEMMA OdFetchGood ==
    ASSUME OdInv, NEW x \in CursorNames, OdFetch(x)
    PROVE  GoodStep
  BY FetchClosed, FetchOpen

---------------------------------------------------------------------------
(* The theorems.                                                           *)

LEMMA OdNextGood ==
    ASSUME OdInv, OdNext
    PROVE  GoodStep
  <1>1. /\ ConnectNames \subseteq Names /\ AtNames \subseteq Names \cup {NoName}
        /\ HostIds \subseteq BOOLEAN
    BY RuntimeAssumption
  <1>2. ASSUME NEW n \in ConnectNames \cup {NoName}, OdConnect(n)
        PROVE  GoodStep
    BY <1>1, <1>2, OdConnectGood
  <1>3. CASE OdResetAll \/ OdVarLists
    BY <1>3, OdResetAllGood, OdVarListsGood
  <1>4. ASSUME NEW n \in AtNames, OdConnectReset(n)
        PROVE  GoodStep
    BY <1>1, <1>4, OdConnectResetGood
  <1>5. ASSUME NEW n \in AtNames, NEW s \in Statements,
               OdExec(n, s) \/ \E name \in StmtNames : OdPrepare(n, name, s)
        PROVE  GoodStep
    BY <1>1, <1>5, OdExecGood, OdPrepareGood
  <1>6. ASSUME NEW n \in AtNames, NEW nRes \in 0..MaxVars,
               \/ OdSelectInto(n, nRes)
               \/ \E s \in StmtNames : OdExecPreparedInto(n, s, nRes)
        PROVE  GoodStep
    BY <1>1, <1>6, OdSelectIntoGood, OdExecPreparedIntoGood
  <1>7. ASSUME NEW n \in AtNames, NEW s \in StmtNames, OdExecPrepared(n, s)
        PROVE  GoodStep
    BY <1>1, <1>7, OdExecPreparedGood
  <1>8. ASSUME NEW n \in AtNames, NEW y \in CursorNames, NEW host \in HostIds,
               NEW hold \in BOOLEAN, NEW s \in StmtNames \cup {NoStmt},
               OdDeclare(y, n, host, hold, s)
        PROVE  GoodStep
    BY <1>1, <1>8, OdDeclareGood
  <1>9. ASSUME NEW x \in CursorNames,
               (\E hv \in AtNames : OdOpen(x, hv)) \/ OdFetch(x) \/ OdClose(x)
        PROVE  GoodStep
    BY <1>1, <1>9, OdOpenGood, OdFetchGood, OdCloseGood
  <1> QED
    BY <1>2, <1>3, <1>4, <1>5, <1>6, <1>7, <1>8, <1>9 DEF OdNext

LEMMA UnchangedOdInv ==
    ASSUME OdInv, UNCHANGED odVars
    PROVE  OdInv'
  <1>1. UNCHANGED <<connVars, curVars, loopVars, sqlcode, ret, od, source>>
    BY DEF odVars, vars
  <1>2. StateInv'
    BY <1>1, UnchangedStateInv DEF OdInv
  <1>3. OdDrivers' /\ OdCursors'
    BY <1>1 DEF OdInv, connVars, registry, curVars, OdDrivers, OdCursors
  <1> QED
    BY <1>2, <1>3 DEF OdInv

(***************************************************************************)
(* The registries and the drivers always fit together: what StateInv says  *)
(* of the first, that no handle outlives its session, and that a cursor's  *)
(* statement is at the connection of the cursor.                           *)
(***************************************************************************)
THEOREM OdInvariant == OdSpec => []OdInv
  <1>1. OdInv /\ [OdNext]_odVars => OdInv'
    BY OdNextGood, UnchangedOdInv DEF GoodStep
  <1> QED
    BY <1>1, InitOdInv, PTL DEF OdSpec

(***************************************************************************)
(* Neither the sweep of a COMMIT or ROLLBACK nor a failing OPEN or DECLARE *)
(* nor another user of a prepared statement takes the statement of a       *)
(* cursor away that FETCH goes on to use.                                  *)
(***************************************************************************)
THEOREM StatementsAreThere == OdSpec => []OpenCursorsHaveStatements
  <1>1. OdInv => OpenCursorsHaveStatements
    <2> SUFFICES ASSUME OdInv, NEW x \in cursors,
                        cursor[x].drv = "open" \/ (cursor[x].open /\ cursor[x].hold)
                 PROVE  HasStatement(od[cursor[x].conn], x)
      BY DEF OpenCursorsHaveStatements
    <2>1. /\ StateInv /\ OdDrivers /\ OdCursors
          /\ x \in CursorNames /\ cursor[x].drv = "open"
      BY CursorsGood DEF OdInv, CursorGood, StateInv, CursorStateAgreement
    <2>2. cursor[x].conn \in ConnIds /\ od[cursor[x].conn].priv[x] # NoStmt
      BY <2>1 DEF OdCursors
    <2> QED
      BY <2>1, <2>2, HasStatementIs DEF OdDrivers
  <1> QED
    BY <1>1, OdInvariant, PTL

(***************************************************************************)
(* A FETCH that fails is not mistaken for the end of the data, unless      *)
(* GIXSQL_NOREC_CODE makes "no record" one of the error codes.             *)
(***************************************************************************)
THEOREM FailedFetchIsNoEnd ==
    ASSUME NorecCode > 0
    PROVE  OdSpec => NorecMeansEndOfData
  <1>1. OdInv /\ [OdNext]_odVars =>
            [answer'.kind = "error" /\ cursor[answer'.x].drv = "open"
                => sqlcode' # "norec"]_odVars
    BY OdNextGood DEF GoodStep, FetchTruth
  <1> QED
    BY <1>1, OdInvariant, PTL DEF OdSpec, NorecMeansEndOfData

\* Work done with a warning is not reported with the code of an error.
THEOREM ErrorsAreTruthful == OdSpec => ErrorsChangeNothing
  <1>1. OdInv /\ [OdNext]_odVars =>
            [(ret'.call \in {"exec", "prepare", "cursor"} /\ ret'.rc = "FAILED"
                  /\ sqlcode' = "error" /\ 0 \notin InfoCodes) =>
                \A c \in ConnIds : ~(od'[c].done /\ ret'.conn = c)]_odVars
    BY OdNextGood DEF GoodStep, ErrorTruth
  <1> QED
    BY <1>1, OdInvariant, PTL DEF OdSpec, ErrorsChangeNothing

\* A driver without a session refuses every call.
LEMMA NoSessionRefuses ==
    ASSUME NEW p, DriverOk(p), ~p.conn_handle
    PROVE  /\ \A op \in Statements : \A r \in exec(p, op) : r.rc # DBERR_NO_ERROR
           /\ \A s \in StmtNames :
                 /\ \A r \in prepare(p, s, "SELECT") : r.rc # DBERR_NO_ERROR
                 /\ \A r \in exec_prepared(p, s) : r.rc # DBERR_NO_ERROR
           /\ \A x \in CursorNames :
                 /\ \A r \in cursor_declare(p, x) : r.rc # DBERR_NO_ERROR
                 /\ \A s \in StmtNames \cup {NoStmt} :
                       \A r \in cursor_open(p, x, s) : r.rc # DBERR_NO_ERROR
                 /\ \A r \in cursor_fetch_one(p, x) : r.rc # DBERR_NO_ERROR
  <1> USE DEF DBERR_NO_ERROR, DBERR_SQL_ERROR, DBERR_PREPARE_FAILED, DBERR_DECLARE_CURSOR_FAILED,
              DBERR_OPEN_CURSOR_FAILED, DBERR_FETCH_ROW_FAILED
  <1>1. /\ \A h \in Handles : p.stmt[h] = NoStatement
        /\ \A x \in CursorNames : ~HasStatement(p, x)
    <2>1. \A h \in Handles : p.stmt[h] = NoStatement
      BY DEF DriverOk
    <2>2. \A x \in CursorNames : p.priv[x] \in Handles \cup {NoStmt}
      BY DEF DriverOk, Handles
    <2> QED
      BY <2>1, <2>2 DEF HasStatement
  <1>2. ASSUME NEW op, NEW x \in CursorNames \cup {NoStmt}, NEW r \in odbc_exec(p, op, x)
        PROVE  r.rc = DBERR_SQL_ERROR
    <2>1. PICK q : q = Dropped(p, x)
      OBVIOUS
    <2>2. ~q.conn_handle
      BY <2>1 DEF Dropped, DriverOk, Driver
    <2>3. r \in {Returns(b, DBERR_SQL_ERROR) : b \in {NoDiagnostics(q, SQL_ERROR), q}}
      BY <1>2, <2>1, <2>2 DEF odbc_exec
    <2>4. PICK b : r = Returns(b, DBERR_SQL_ERROR)
      BY <2>3
    <2> QED
      BY <2>4, ReturnsFields
  <1>3. ASSUME NEW op, NEW r \in exec(p, op)
        PROVE  r.rc # DBERR_NO_ERROR
    BY <1>2, <1>3 DEF exec
  <1>4. ASSUME NEW s \in StmtNames
        PROVE  /\ \A r \in prepare(p, s, "SELECT") : r.rc # DBERR_NO_ERROR
               /\ \A r \in exec_prepared(p, s) : r.rc # DBERR_NO_ERROR
    <2>1. p.stmt[s] = NoStatement
      BY <1>1 DEF Handles
    <2> QED
      BY <2>1, ReturnsFields DEF prepare, exec_prepared
  <1>5. ASSUME NEW x \in CursorNames, NEW r \in cursor_declare(p, x)
        PROVE  r.rc # DBERR_NO_ERROR
    BY <1>5, ReturnsFields DEF cursor_declare
  <1>6. ASSUME NEW x \in CursorNames, NEW s \in StmtNames \cup {NoStmt},
               NEW r \in cursor_open(p, x, s)
        PROVE  r.rc # DBERR_NO_ERROR
    <2>1. CASE s = NoStmt
      <3>1. PICK e \in odbc_exec(p, "SELECT", x) : r = Opened(e)
        BY <1>6, <2>1 DEF cursor_open
      <3> QED
        BY <1>2, <3>1, ReturnsFields DEF Opened
    <2>2. CASE s \in StmtNames
      <3>1. p.stmt[s] = NoStatement /\ s # NoStmt
        BY <1>1, <2>2, OdbcAssumption DEF Handles
      <3> QED
        BY <1>6, <3>1, ReturnsFields DEF cursor_open
    <2> QED
      BY <2>1, <2>2
  <1>7. ASSUME NEW x \in CursorNames, NEW r \in cursor_fetch_one(p, x)
        PROVE  r.rc # DBERR_NO_ERROR
    BY <1>1, <1>7, ReturnsFields DEF cursor_fetch_one
  <1> QED
    BY <1>3, <1>4, <1>5, <1>6, <1>7

(***************************************************************************)
(* A connection whose session has gone is never used again, although a     *)
(* DISCONNECT that failed leaves it in the registry.                       *)
(***************************************************************************)
THEOREM LostSessionsAreRefused == OdSpec => []LostSessionRefused
  <1>1. OdInv => LostSessionRefused
    <2> SUFFICES ASSUME OdInv
                 PROVE  \A c \in connections :
                            conn[c].session # "live" => DriverOk(od[c]) /\ ~od[c].conn_handle
      BY NoSessionRefuses DEF LostSessionRefused
    <2> TAKE c \in connections
    <2> HAVE conn[c].session # "live"
    <2>1. c \in ConnIds
      BY DEF OdInv, StateInv, ConnTypeOK
    <2> QED
      BY <2>1 DEF OdInv, OdDrivers
  <1> QED
    BY <1>1, OdInvariant, PTL

(***************************************************************************)
(* The driver implements AbstractCursor: FETCH gives the rows of a cursor  *)
(* in order, none twice, says "no data" exactly at the end, and no other   *)
(* call moves a cursor that stays open.                                    *)
(***************************************************************************)
THEOREM CursorsAreImplemented == OdSpec => ImplementsAbstractCursor
  <1>1. OdInit => Abstract!Init
    <2> SUFFICES ASSUME OdInit PROVE Abstract!Init
      BY SMTT(40)
    <2>1. \A x \in CursorNames : CursorView(x) = Abstract!Closed
      <3>1. \A x \in CursorNames : cursor[x].conn = NoConn
        BY DEF OdInit, Init, CurInit, NullCursor
      <3> QED
        BY <3>1 DEF CursorView, Abstract!Closed
    <2> QED
      BY <2>1 DEF OdInit, NoAnswer, Abstract!Init, Abstract!NoAnswer
  <1>2. OdInv /\ [OdNext]_odVars => [Abstract!Next]_(Abstract!vars)
    <2>1. ASSUME OdInv, OdNext
          PROVE  Abstract!Next
      BY <2>1, OdNextGood DEF GoodStep
    <2>2. ASSUME UNCHANGED odVars
          PROVE  UNCHANGED Abstract!vars
      <3>1. UNCHANGED <<curVars, od, source, answer>>
        BY <2>2 DEF odVars, vars
      <3>2. \A x \in CursorNames : CursorView(x)' = CursorView(x)
        BY <3>1 DEF CursorView, curVars
      <3> QED
        BY <3>1, <3>2 DEF Abstract!vars
    <2> QED
      BY <2>1, <2>2
  <1> QED
    BY <1>1, <1>2, OdInvariant, PTL DEF OdSpec, ImplementsAbstractCursor, Abstract!Spec

=============================================================================
