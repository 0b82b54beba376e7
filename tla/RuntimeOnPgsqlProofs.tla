------------------------ MODULE RuntimeOnPgsqlProofs ------------------------
(***************************************************************************)
(* The properties of the runtime on the PostgreSQL driver, for any number  *)
(* of connections, cursors and prepared statements and for results of any  *)
(* length, with native and with emulated cursors.                          *)
(***************************************************************************)
EXTENDS RuntimeOnPgsql, GixSqlRuntimeProofs, WellFoundedInduction, FiniteSetTheorems

---------------------------------------------------------------------------
(* One driver.                                                             *)

TxEnds == {"COMMIT", "COMMIT_WORK", "ROLLBACK"}

PortalOk(a) ==
    /\ a.kind = "none" => a = NoPortal
    /\ a.at <= a.rows

\* A driver without a session has no transaction, no portals and no results.
DriverOk(p) ==
    /\ p \in Driver
    /\ \A x \in CursorNames : PortalOk(p.portal[x])
    /\ p.tx = "idle" => ~p.dirty
    /\ ~p.connaddr => /\ p.tx = "idle"
                      /\ \A x \in CursorNames : p.portal[x] = NoPortal /\ p.priv[x] = NoResult

\* What may become of a portal that no command of its own cursor is about.
Carried(a, b) ==
    \/ b = a
    \/ b = NoPortal /\ a.kind # "held"
    \/ a.kind = "hold" /\ b = [a EXCEPT !.kind = "held"]

\* The fields of the driver that a command of the server cannot reach.
SameClient(p, q) ==
    /\ q.connaddr = p.connaddr /\ q.off = p.off /\ q.cur = p.cur /\ q.priv = p.priv
    /\ q.text = p.text /\ q.res = p.res /\ q.last_rc = p.last_rc

\* The work of a failed transaction.
Doomed(p) == p.tx = "failed" /\ p.dirty

---------------------------------------------------------------------------
(* The invariant of the composition.                                       *)

PgDrivers ==
    \A c \in ConnIds : /\ DriverOk(pg[c])
                       /\ pg[c].connaddr => c <= next_conn_id

(***************************************************************************)
(* A driver has a portal or a result for a cursor only while the cursor is *)
(* bound to its connection.  A cursor the runtime takes for open although  *)
(* a COMMIT or ROLLBACK has closed it has no portal left: a native FETCH   *)
(* would bring its result back to life.                                    *)
(***************************************************************************)
PgCursors ==
    \A x \in CursorNames :
        /\ x \notin cursors => cursor[x].conn = NoConn
        /\ \A c \in ConnIds :
              /\ pg[c].portal[x].kind # "none" => cursor[x].conn = c
              /\ pg[c].portal[x].kind \in {"hold", "held"} => cursor[x].hold
              /\ pg[c].priv[x] # NoResult => cursor[x].conn = c /\ cursor[x].drv = "open"
              /\ cursor[x].conn = c /\ cursor[x].open /\ cursor[x].drv # "open" =>
                    pg[c].portal[x].kind = "none"
              /\ cursor[x].conn = c /\ cursor[x].drv = "open" /\ source[x] = NoStmt =>
                    pg[c].priv[x] # NoResult

\* Every error code of a failed transaction makes SQLCODE an error or a warning.
CodesTold == NorecCode \notin {PGRES_FATAL_ERROR, -(10000 + PGRES_FATAL_ERROR)}

\* With emulated cursors the program knows of every transaction that has failed.
PgWarned ==
    ~NativeCursors /\ CodesTold => \A c \in ConnIds : Doomed(pg[c]) => warned[c]

PgInv ==
    /\ StateInv
    /\ PgTypeOK
    /\ PgDrivers
    /\ PgCursors
    /\ PgWarned

---------------------------------------------------------------------------
(* The server.                                                             *)

LEMMA AnswerFields ==
    ASSUME NEW p, NEW st, NEW cols, NEW rows
    PROVE  LET a == Answer(p, st, cols, rows)
           IN  a.p = p /\ a.st = st /\ a.cols = cols /\ a.rows = rows
  BY DEF Answer

LEMMA ReturnsFields ==
    ASSUME NEW p, NEW rc
    PROVE  Returns(p, rc).p = p /\ Returns(p, rc).rc = rc
  BY DEF Returns

LEMMA NoPortalOk == NoPortal \in Portal /\ PortalOk(NoPortal) /\ NoPortal.kind = "none"
  BY PgsqlAssumption DEF NoPortal, Portal, PortalOk

\* The status and the shape of an answer.
AnswerOk(a) ==
    /\ a = Answer(a.p, a.st, a.cols, a.rows)
    /\ a.st \in {PGRES_COMMAND_OK, PGRES_TUPLES_OK, PGRES_FATAL_ERROR}
    /\ a.cols \in 0..1
    /\ a.rows \in 0..MaxRows

(***************************************************************************)
(* What a command that does not end the transaction does to the session: y *)
(* is the cursor it is about, NoStmt if there is none.                     *)
(***************************************************************************)
Serves(p, y, a) ==
    /\ AnswerOk(a)
    /\ DriverOk(a.p)
    /\ SameClient(p, a.p)
    /\ \A x \in CursorNames \ {y} : a.p.portal[x] = p.portal[x]
    /\ a.p.fate = p.fate
    /\ p.tx # "idle" => a.p.tx # "idle"
    /\ Doomed(a.p) => Doomed(p) \/ a.st = PGRES_FATAL_ERROR
    /\ ~p.connaddr => a.st = PGRES_FATAL_ERROR
    /\ a.st = PGRES_FATAL_ERROR => a.p.portal = p.portal

\* What COMMIT and ROLLBACK do.
EndsTx(p, op, a) ==
    /\ AnswerOk(a)
    /\ a.st \in {PGRES_COMMAND_OK, PGRES_FATAL_ERROR}
    /\ DriverOk(a.p)
    /\ SameClient(p, a.p)
    /\ a.p.tx = "idle"
    /\ \A x \in CursorNames : /\ Carried(p.portal[x], a.p.portal[x])
                              /\ a.p.portal[x].kind \in {"none", "held"}
    /\ ~p.connaddr => a.st = PGRES_FATAL_ERROR
    /\ (/\ op \in {"COMMIT", "COMMIT_WORK"} /\ a.st = PGRES_COMMAND_OK
        /\ p.fate = "none" /\ a.p.fate = "lost") => Doomed(p)

LEMMA StatusesDiffer ==
    /\ PGRES_COMMAND_OK # PGRES_FATAL_ERROR /\ PGRES_TUPLES_OK # PGRES_FATAL_ERROR
    /\ PGRES_COMMAND_OK # PGRES_TUPLES_OK
  BY DEF PGRES_COMMAND_OK, PGRES_TUPLES_OK, PGRES_FATAL_ERROR

LEMMA CountsOk == 0 \in 0..MaxRows /\ 1 \in 0..MaxRows /\ 0 \in 0..1 /\ 1 \in 0..1
  BY PgsqlAssumption

LEMMA RefuseOk ==
    ASSUME NEW p, DriverOk(p), NEW y
    PROVE  /\ Serves(p, y, Refuse(p))
           /\ Refuse(p).st = PGRES_FATAL_ERROR
           /\ ~p.connaddr => Refuse(p).p.tx = "idle"
  <1>1. PICK q : q = [p EXCEPT !.tx = IF @ = "open" THEN "failed" ELSE @]
    OBVIOUS
  <1>2. /\ q \in Driver /\ SameClient(p, q) /\ q.portal = p.portal /\ q.fate = p.fate
        /\ q.dirty = p.dirty /\ q.tx = IF p.tx = "open" THEN "failed" ELSE p.tx
    BY <1>1 DEF DriverOk, Driver, SameClient
  <1>3. DriverOk(q)
    BY <1>2 DEF DriverOk, SameClient
  <1>4. /\ Refuse(p).p = q /\ Refuse(p).st = PGRES_FATAL_ERROR
        /\ Refuse(p).cols = 0 /\ Refuse(p).rows = 0
        /\ Refuse(p) = Answer(q, PGRES_FATAL_ERROR, 0, 0)
    BY <1>1, AnswerFields DEF Refuse
  <1> QED
    BY <1>2, <1>3, <1>4, CountsOk DEF Serves, AnswerOk, DriverOk

\* A command that leaves the session as it is.
LEMMA PlainAnswer ==
    ASSUME NEW p, DriverOk(p), p.connaddr, NEW y,
           NEW st \in {PGRES_COMMAND_OK, PGRES_TUPLES_OK},
           NEW cols \in 0..1, NEW rows \in 0..MaxRows
    PROVE  Serves(p, y, Answer(p, st, cols, rows))
  <1>1. PICK a : a = Answer(p, st, cols, rows)
    OBVIOUS
  <1>2. a.p = p /\ a.st = st /\ a.cols = cols /\ a.rows = rows
    BY <1>1, AnswerFields
  <1>3. AnswerOk(a) /\ st # PGRES_FATAL_ERROR
    BY <1>1, <1>2, StatusesDiffer DEF AnswerOk
  <1> QED
    BY <1>1, <1>2, <1>3 DEF Serves, SameClient

LEMMA WrittenOk ==
    ASSUME NEW p, DriverOk(p), p.connaddr, p.tx # "failed", NEW y, NEW rows \in 0..MaxRows
    PROVE  Serves(p, y, Answer(Written(p), PGRES_COMMAND_OK, 0, rows))
  <1>1. PICK q : q = Written(p)
    OBVIOUS
  <1>2. /\ q \in Driver /\ SameClient(p, q) /\ q.portal = p.portal /\ q.fate = p.fate
        /\ q.tx = p.tx /\ q.dirty = (p.tx = "open")
    BY <1>1 DEF DriverOk, Driver, SameClient, Written
  <1>3. DriverOk(q)
    BY <1>2 DEF DriverOk, SameClient
  <1>4. PICK a : a = Answer(Written(p), PGRES_COMMAND_OK, 0, rows)
    OBVIOUS
  <1>5. a.p = q /\ a.st = PGRES_COMMAND_OK /\ a.cols = 0 /\ a.rows = rows
    BY <1>1, <1>4, AnswerFields
  <1>6. AnswerOk(a) /\ a.st # PGRES_FATAL_ERROR
    BY <1>1, <1>4, <1>5, StatusesDiffer, CountsOk DEF AnswerOk
  <1> QED
    BY <1>2, <1>3, <1>4, <1>5, <1>6 DEF Serves, Doomed

LEMMA BeginOk ==
    ASSUME NEW p, DriverOk(p), NEW a \in Server(p, Sql("BEGIN"))
    PROVE  /\ Serves(p, NoStmt, a)
           /\ p.connaddr /\ p.tx = "idle" => a.st = PGRES_COMMAND_OK /\ a.p.tx = "open" /\ ~a.p.dirty
  <1>1. CASE a = Refuse(p) /\ (~p.connaddr \/ p.tx = "failed")
    BY <1>1, RefuseOk
  <1>2. CASE a = Answer([p EXCEPT !.tx = "open"], PGRES_COMMAND_OK, 0, 0) /\ p.connaddr
             /\ p.tx # "failed"
    <2>1. PICK q : q = [p EXCEPT !.tx = "open"]
      OBVIOUS
    <2>2. /\ q \in Driver /\ SameClient(p, q) /\ q.portal = p.portal /\ q.fate = p.fate
          /\ q.tx = "open" /\ q.dirty = p.dirty
      BY <2>1 DEF DriverOk, Driver, SameClient
    <2>3. DriverOk(q)
      BY <1>2, <2>2 DEF DriverOk, SameClient
    <2>4. a.p = q /\ a.st = PGRES_COMMAND_OK /\ a.cols = 0 /\ a.rows = 0
      BY <1>2, <2>1, AnswerFields
    <2>5. AnswerOk(a) /\ a.st # PGRES_FATAL_ERROR
      BY <1>2, <2>1, <2>4, StatusesDiffer, CountsOk DEF AnswerOk
    <2>6. Serves(p, NoStmt, a)
      BY <1>2, <2>2, <2>3, <2>4, <2>5 DEF Serves, Doomed
    <2> QED
      BY <2>2, <2>4, <2>6 DEF DriverOk
  <1> QED
    BY <1>1, <1>2 DEF Server, Sql

\* The answers to a command that neither ends the transaction nor starts one.
LEMMA QueryOk ==
    ASSUME NEW p, DriverOk(p), NEW op \in {"INSERT", "UPDATE", "SELECT"},
           NEW a \in Server(p, Sql(op))
    PROVE  Serves(p, NoStmt, a)
  <1>1. CASE a = Refuse(p)
    BY <1>1, RefuseOk
  <1>2. CASE a # Refuse(p)
    <2>1. p.connaddr /\ p.tx # "failed"
      BY <1>2 DEF Server, Sql
    <2>2. CASE op = "SELECT"
      <3>1. a \in {Answer(p, PGRES_TUPLES_OK, 1, n) : n \in 0..MaxRows}
        BY <1>2, <2>1, <2>2 DEF Server, Sql
      <3>2. PICK n \in 0..MaxRows : a = Answer(p, PGRES_TUPLES_OK, 1, n)
        BY <3>1
      <3> QED
        BY <2>1, <3>2, CountsOk, PlainAnswer
    <2>3. CASE op # "SELECT"
      <3>1. \/ a = Answer(p, PGRES_COMMAND_OK, 0, 0)
            \/ a = Answer(Written(p), PGRES_COMMAND_OK, 0, 1)
        BY <1>2, <2>1, <2>3 DEF Server, Sql
      <3> QED
        BY <2>1, <3>1, CountsOk, PlainAnswer, WrittenOk
    <2> QED
      BY <2>2, <2>3
  <1> QED
    BY <1>1, <1>2

LEMMA SqlOk ==
    ASSUME NEW p, DriverOk(p), NEW op \in AllStatements \ TxEnds, NEW a \in Server(p, Sql(op))
    PROVE  Serves(p, NoStmt, a)
  <1>1. op = "BEGIN" \/ op \in {"INSERT", "UPDATE", "SELECT"}
    BY DEF AllStatements, TxEnds
  <1> QED
    BY <1>1, BeginOk, QueryOk

LEMMA ParseOk ==
    ASSUME NEW p, DriverOk(p), NEW op \in AllStatements, NEW a \in Server(p, Parse_(op))
    PROVE  Serves(p, NoStmt, a)
  <1>1. a = Refuse(p) \/ (a = Answer(p, PGRES_COMMAND_OK, 0, 0) /\ p.connaddr)
    BY DEF Server, Parse_
  <1> QED
    BY <1>1, CountsOk, RefuseOk, PlainAnswer

\* The session at the end of its transaction.
LEMMA EndTxOk ==
    ASSUME NEW p, DriverOk(p), NEW keep \in BOOLEAN
    PROVE  LET q == EndTx(p, keep)
           IN  /\ DriverOk(q)
               /\ SameClient(p, q)
               /\ q.tx = "idle"
               /\ ~q.dirty
               /\ \A x \in CursorNames : /\ Carried(p.portal[x], q.portal[x])
                                         /\ q.portal[x].kind \in {"none", "held"}
               /\ p.fate = "none" /\ q.fate = "lost" => p.dirty /\ ~keep
  <1>1. PICK f : f = [x \in CursorNames |->
                         IF p.portal[x].kind = "held" THEN p.portal[x]
                         ELSE IF p.portal[x].kind = "hold" /\ keep
                         THEN [p.portal[x] EXCEPT !.kind = "held"]
                         ELSE NoPortal]
    OBVIOUS
  <1>2. PICK g : g = IF ~p.dirty THEN p.fate ELSE IF keep THEN "committed" ELSE "lost"
    OBVIOUS
  <1>3. PICK q : q = EndTx(p, keep)
    OBVIOUS
  <1>4. q = [[[[p EXCEPT !.tx = "idle"] EXCEPT !.dirty = FALSE] EXCEPT !.fate = g]
                 EXCEPT !.portal = f]
    BY <1>1, <1>2, <1>3 DEF EndTx, DriverOk, Driver
  <1>5. /\ p.portal \in [CursorNames -> Portal] /\ p.fate \in {"none", "committed", "lost"}
        /\ \A x \in CursorNames : PortalOk(p.portal[x])
    BY DEF DriverOk, Driver
  <1>6. ASSUME NEW x \in CursorNames
        PROVE  /\ f[x] \in Portal
               /\ PortalOk(f[x])
               /\ Carried(p.portal[x], f[x])
               /\ f[x].kind \in {"none", "held"}
               /\ p.portal[x] = NoPortal => f[x] = NoPortal
    <2>1. PICK b : b = p.portal[x]
      OBVIOUS
    <2>2. b \in Portal /\ PortalOk(b)
      BY <1>5, <2>1
    <2>3. CASE b.kind = "hold" /\ keep
      <3>1. f[x] = [b EXCEPT !.kind = "held"]
        BY <1>1, <2>1, <2>3
      <3>2. f[x] \in Portal /\ f[x].kind = "held" /\ f[x].at = b.at /\ f[x].rows = b.rows
        BY <2>2, <3>1 DEF Portal
      <3> QED
        BY <2>1, <2>2, <2>3, <3>1, <3>2, NoPortalOk DEF PortalOk, Carried
    <2>4. CASE ~(b.kind = "hold" /\ keep)
      <3>1. f[x] = IF b.kind = "held" THEN b ELSE NoPortal
        BY <1>1, <2>1, <2>4
      <3> QED
        BY <2>1, <2>2, <3>1, NoPortalOk DEF Carried
    <2> QED
      BY <2>3, <2>4
  <1>7. f \in [CursorNames -> Portal] /\ g \in {"none", "committed", "lost"}
    BY <1>1, <1>2, <1>5, <1>6
  <1>8. /\ q \in Driver /\ SameClient(p, q) /\ q.tx = "idle" /\ q.dirty = FALSE
        /\ q.fate = g /\ q.portal = f
    BY <1>4, <1>7 DEF DriverOk, Driver, SameClient
  <1>9. DriverOk(q)
    BY <1>6, <1>8 DEF DriverOk, SameClient
  <1>10. p.fate = "none" /\ q.fate = "lost" => p.dirty /\ ~keep
    BY <1>2, <1>8
  <1> QED
    BY <1>3, <1>6, <1>8, <1>9, <1>10

LEMMA EndOk ==
    ASSUME NEW p, DriverOk(p), NEW op \in TxEnds, NEW a \in Server(p, Sql(op))
    PROVE  EndsTx(p, op, a)
  <1>1. CASE ~p.connaddr
    <2>1. a = Refuse(p)
      BY <1>1 DEF Server
    <2>2. Serves(p, NoStmt, a) /\ a.st = PGRES_FATAL_ERROR /\ a.p.tx = "idle"
      BY <1>1, <2>1, RefuseOk
    <2>3. \A x \in CursorNames : p.portal[x] = NoPortal /\ a.p.portal[x] = NoPortal
      BY <1>1, <2>2 DEF Serves, DriverOk
    <2>4. a.st # PGRES_COMMAND_OK
      BY <2>2, StatusesDiffer
    <2> QED
      BY <2>2, <2>3, <2>4, NoPortalOk DEF EndsTx, Serves, Carried
  <1>2. CASE p.connaddr
    <2>1. PICK keep \in BOOLEAN, st \in {PGRES_COMMAND_OK, PGRES_FATAL_ERROR} :
             /\ a = Answer(EndTx(p, keep), st, 0, 0)
             /\ op # "ROLLBACK" /\ st = PGRES_COMMAND_OK => keep = (p.tx = "open")
      <3>1. CASE op = "ROLLBACK"
        <4>1. a = Answer(EndTx(p, FALSE), PGRES_COMMAND_OK, 0, 0)
          BY <1>2, <3>1 DEF Server, Sql
        <4> QED
          BY <3>1, <4>1
      <3>2. CASE op # "ROLLBACK"
        <4>1. a \in ServerCommit(p)
          BY <1>2, <3>2 DEF Server, Sql, TxEnds
        <4>2. \/ a = Answer(EndTx(p, p.tx = "open"), PGRES_COMMAND_OK, 0, 0)
              \/ a = Answer(EndTx(p, FALSE), PGRES_FATAL_ERROR, 0, 0)
          BY <4>1 DEF ServerCommit
        <4>3. PICK k \in BOOLEAN : k = (p.tx = "open")
          OBVIOUS
        <4> QED
          BY <4>2, <4>3, StatusesDiffer
      <3> QED
        BY <3>1, <3>2
    <2>2. PICK q : q = EndTx(p, keep)
      OBVIOUS
    <2>3. a.p = q /\ a.st = st /\ a.cols = 0 /\ a.rows = 0
      BY <2>1, <2>2, AnswerFields
    <2>4. AnswerOk(a)
      BY <2>1, <2>2, <2>3, CountsOk DEF AnswerOk
    <2>5. /\ DriverOk(q)
          /\ SameClient(p, q)
          /\ q.tx = "idle"
          /\ \A x \in CursorNames : /\ Carried(p.portal[x], q.portal[x])
                                    /\ q.portal[x].kind \in {"none", "held"}
          /\ p.fate = "none" /\ q.fate = "lost" => p.dirty /\ ~keep
      BY <2>2, EndTxOk
    <2>6. p.tx \in {"idle", "open", "failed"} /\ (p.dirty /\ p.tx # "open" => p.tx = "failed")
      BY DEF DriverOk, Driver
    <2>7. (/\ op \in {"COMMIT", "COMMIT_WORK"} /\ a.st = PGRES_COMMAND_OK
           /\ p.fate = "none" /\ a.p.fate = "lost") => Doomed(p)
      BY <2>1, <2>3, <2>5, <2>6 DEF Doomed
    <2> QED
      BY <1>2, <2>3, <2>4, <2>5, <2>7 DEF EndsTx
  <1> QED
    BY <1>1, <1>2

\* The portal of cursor y becomes b.
WithPortal(p, y, b) == [p EXCEPT !.portal[y] = b]

LEMMA PortalAnswer ==
    ASSUME NEW p, DriverOk(p), p.connaddr, NEW y \in CursorNames,
           NEW b \in Portal, PortalOk(b),
           NEW st \in {PGRES_COMMAND_OK, PGRES_TUPLES_OK}, NEW cols \in 0..1, NEW rows \in 0..MaxRows,
           NEW a, a = Answer(WithPortal(p, y, b), st, cols, rows)
    PROVE  Serves(p, y, a) /\ a.st # PGRES_FATAL_ERROR /\ a.p.portal[y] = b
  <1>1. PICK q : q = WithPortal(p, y, b)
    OBVIOUS
  <1>2. /\ q \in Driver /\ SameClient(p, q)
        /\ q.fate = p.fate /\ q.tx = p.tx /\ q.dirty = p.dirty
    BY <1>1 DEF DriverOk, Driver, SameClient, WithPortal
  <1>3. \A x \in CursorNames : q.portal[x] = IF x = y THEN b ELSE p.portal[x]
    BY <1>1 DEF DriverOk, Driver, WithPortal
  <1>4. DriverOk(q)
    BY <1>2, <1>3 DEF DriverOk, SameClient
  <1>5. a.p = q /\ a.st = st /\ a.cols = cols /\ a.rows = rows
    BY <1>1, AnswerFields
  <1>6. AnswerOk(a) /\ a.st # PGRES_FATAL_ERROR
    BY <1>1, <1>5, StatusesDiffer DEF AnswerOk
  <1>7. /\ DriverOk(a.p) /\ SameClient(p, a.p) /\ a.p.fate = p.fate /\ a.p.tx = p.tx
        /\ a.p.portal[y] = b /\ \A x \in CursorNames \ {y} : a.p.portal[x] = p.portal[x]
    BY <1>2, <1>3, <1>4, <1>5
  <1>8. Doomed(a.p) <=> Doomed(p)
    BY <1>2, <1>5 DEF Doomed
  <1> QED
    BY <1>6, <1>7, <1>8 DEF Serves

\* DECLARE gives the cursor a new portal, one that may outlive the transaction
\* only WITH HOLD.
LEMMA DeclareOk ==
    ASSUME NEW p, DriverOk(p), NEW y \in CursorNames, NEW hold \in BOOLEAN, NEW body,
           NEW a \in Server(p, Declare_(y, hold, body))
    PROVE  /\ Serves(p, y, a)
           /\ a.st # PGRES_FATAL_ERROR =>
                 a.p.portal[y].at = 0 /\ (a.p.portal[y].kind \in {"hold", "held"} => hold)
           /\ a.cols = 0
  <1>1. CASE a = Refuse(p)
    <2>1. a.cols = 0
      BY <1>1, AnswerFields DEF Refuse
    <2> QED
      BY <1>1, <2>1, RefuseOk
  <1>2. CASE a # Refuse(p)
    <2>1. PICK c : c = Declare_(y, hold, body)
      OBVIOUS
    <2>2. c.op = "DECLARE" /\ c.x = y /\ c.hold = hold
      BY <2>1 DEF Declare_
    <2>3. p.connaddr /\ p.tx # "failed" /\ a \in ServerDeclare(p, c)
      BY <1>2, <2>1, <2>2 DEF Server
    <2>4. PICK kind : kind = IF ~hold THEN "tx" ELSE IF p.tx = "idle" THEN "held" ELSE "hold"
      OBVIOUS
    <2>5. PICK n \in 0..MaxRows :
             a = Answer(WithPortal(p, y, [kind |-> kind, rows |-> n, at |-> 0]),
                        PGRES_COMMAND_OK, 0, 0)
      BY <2>2, <2>3, <2>4 DEF ServerDeclare, WithPortal
    <2>6. PICK b : b = [kind |-> kind, rows |-> n, at |-> 0]
      OBVIOUS
    <2>7. b \in Portal /\ PortalOk(b) /\ b.at = 0 /\ (b.kind \in {"hold", "held"} => hold)
      BY <2>4, <2>6, CountsOk, PgsqlAssumption DEF Portal, PortalOk
    <2>8. Serves(p, y, a) /\ a.p.portal[y] = b
      BY <2>3, <2>5, <2>6, <2>7, CountsOk, PortalAnswer
    <2>9. a.cols = 0
      BY <2>5, AnswerFields
    <2> QED
      BY <2>7, <2>8, <2>9
  <1> QED
    BY <1>1, <1>2

\* FETCH answers with the next row of the portal, with no row at its end.
LEMMA FetchOk ==
    ASSUME NEW p, DriverOk(p), NEW y \in CursorNames, NEW a \in Server(p, Fetch_(y))
    PROVE  /\ Serves(p, y, a)
           /\ a.st # PGRES_FATAL_ERROR =>
                 /\ p.portal[y].kind # "none"
                 /\ a.cols = 1
                 /\ \/ /\ a.rows = 1 /\ p.portal[y].at < p.portal[y].rows
                       /\ a.p.portal[y] = [p.portal[y] EXCEPT !.at = @ + 1]
                    \/ /\ a.rows = 0 /\ p.portal[y].at = p.portal[y].rows
                       /\ a.p.portal[y] = p.portal[y]
  <1>1. CASE a = Refuse(p)
    BY <1>1, RefuseOk
  <1>2. CASE a # Refuse(p)
    <2>1. PICK b : b = p.portal[y]
      OBVIOUS
    <2>2. p.connaddr /\ a \in ServerFetch(p, y)
      BY <1>2 DEF Server, Fetch_
    <2>3. b.kind # "none" /\ b \in Portal /\ PortalOk(b)
      BY <2>1, <2>2 DEF ServerFetch, DriverOk, Driver
    <2>7. b.at \in 0..MaxRows /\ b.rows \in 0..MaxRows /\ b.at <= b.rows /\ MaxRows \in Nat
      BY <2>3, PgsqlAssumption DEF Portal, PortalOk
    <2>4. CASE b.at < b.rows
      <3>1. a = Answer([p EXCEPT !.portal[y].at = @ + 1], PGRES_TUPLES_OK, 1, 1)
        BY <2>1, <2>2, <2>3, <2>4 DEF ServerFetch
      <3>2. PICK d : d = [b EXCEPT !.at = @ + 1]
        OBVIOUS
      <3>3. [p EXCEPT !.portal[y].at = @ + 1] = WithPortal(p, y, d)
        BY <2>1, <3>2 DEF DriverOk, Driver, WithPortal
      <3>4. d \in Portal /\ d.at = b.at + 1 /\ d.rows = b.rows /\ d.kind = b.kind
        BY <2>3, <2>4, <2>7, <3>2 DEF Portal
      <3>5. PortalOk(d)
        BY <2>3, <2>4, <2>7, <3>4 DEF PortalOk
      <3>6. a = Answer(WithPortal(p, y, d), PGRES_TUPLES_OK, 1, 1)
        BY <3>1, <3>3
      <3>7. Serves(p, y, a) /\ a.p.portal[y] = d
        BY <2>2, <3>4, <3>5, <3>6, CountsOk, PortalAnswer
      <3>8. a.cols = 1 /\ a.rows = 1
        BY <3>6, AnswerFields
      <3> QED
        BY <2>1, <2>3, <2>4, <3>2, <3>7, <3>8
    <2>5. CASE ~(b.at < b.rows)
      <3>1. a = Answer(p, PGRES_TUPLES_OK, 1, 0)
        BY <2>1, <2>2, <2>3, <2>5 DEF ServerFetch
      <3>2. Serves(p, y, a) /\ a.p = p /\ a.cols = 1 /\ a.rows = 0
        BY <2>2, <3>1, CountsOk, PlainAnswer, AnswerFields
      <3>3. b.at = b.rows
        BY <2>5, <2>7
      <3> QED
        BY <2>1, <2>3, <3>2, <3>3
    <2> QED
      BY <2>4, <2>5
  <1> QED
    BY <1>1, <1>2

\* CLOSE has one answer: it may leave the portal only of a failed transaction.
LEMMA CloseOk ==
    ASSUME NEW p, DriverOk(p), NEW y \in CursorNames
    PROVE  \E a : /\ Server(p, Close_(y)) = {a}
                  /\ Serves(p, y, a)
                  /\ a.p.portal[y] \in {p.portal[y], NoPortal}
  <1>1. CASE Server(p, Close_(y)) = {Refuse(p)}
    <2>1. Serves(p, y, Refuse(p)) /\ Refuse(p).p.portal = p.portal
      BY RefuseOk DEF Serves
    <2> QED
      BY <1>1, <2>1
  <1>2. CASE /\ Server(p, Close_(y)) =
                   {Answer(WithPortal(p, y, NoPortal), PGRES_COMMAND_OK, 0, 0)}
             /\ p.connaddr
    <2>1. PICK a : a = Answer(WithPortal(p, y, NoPortal), PGRES_COMMAND_OK, 0, 0)
      OBVIOUS
    <2>2. Serves(p, y, a) /\ a.p.portal[y] = NoPortal
      BY <1>2, <2>1, CountsOk, NoPortalOk, PortalAnswer
    <2> QED
      BY <1>2, <2>1, <2>2
  <1> QED
    BY <1>1, <1>2 DEF Server, Close_, ServerClose, WithPortal

---------------------------------------------------------------------------
(* The methods of the driver.                                              *)

\* The session, and what is prepared in it.
SameSession(p, q) ==
    /\ q.connaddr = p.connaddr /\ q.off = p.off /\ q.tx = p.tx /\ q.dirty = p.dirty
    /\ q.fate = p.fate /\ q.portal = p.portal /\ q.text = p.text

LEMMA SameDoomed ==
    ASSUME NEW p, NEW q, SameSession(p, q)
    PROVE  Doomed(q) <=> Doomed(p)
  BY DEF SameSession, Doomed

LEMMA NoResultIs == NoResult \notin Result /\ NoResult.idx = -2
  BY DEF NoResult, Result

LEMMA NewResultOk ==
    ASSUME NEW cols \in 0..1, NEW rows \in 0..MaxRows
    PROVE  /\ NewResult(cols, rows) \in Result
           /\ NewResult(cols, rows) # NoResult
           /\ NewResult(cols, rows).cols = cols
           /\ NewResult(cols, rows).rows = rows
           /\ NewResult(cols, rows).idx = -1
  <1>1. -1 \in -1..MaxRows
    BY PgsqlAssumption
  <1> QED
    BY <1>1, NoResultIs DEF NewResult, Result

LEMMA CodeOk ==
    ASSUME NEW p, DriverOk(p), NEW code \in Int, NEW q, q = [p EXCEPT !.last_rc = code]
    PROVE  /\ DriverOk(q) /\ SameSession(p, q)
           /\ q.priv = p.priv /\ q.cur = p.cur /\ q.res = p.res /\ q.last_rc = code
  <1>1. /\ q \in Driver /\ SameSession(p, q)
        /\ q.priv = p.priv /\ q.cur = p.cur /\ q.res = p.res /\ q.last_rc = code
    BY DEF DriverOk, Driver, SameSession
  <1> QED
    BY <1>1 DEF DriverOk, SameSession

LEMMA CurrentOk ==
    ASSUME NEW p, DriverOk(p), NEW r \in Result \cup {NoResult}, NEW q, q = [p EXCEPT !.cur = r]
    PROVE  /\ DriverOk(q) /\ SameSession(p, q)
           /\ q.priv = p.priv /\ q.cur = r /\ q.res = p.res /\ q.last_rc = p.last_rc
  <1>1. /\ q \in Driver /\ SameSession(p, q)
        /\ q.priv = p.priv /\ q.cur = r /\ q.res = p.res /\ q.last_rc = p.last_rc
    BY DEF DriverOk, Driver, SameSession
  <1> QED
    BY <1>1 DEF DriverOk, SameSession

\* The private data of cursor x becomes r.
WithPrivate(p, x, r) == [p EXCEPT !.priv[x] = r]

LEMMA PrivateOk ==
    ASSUME NEW p, DriverOk(p), NEW x \in CursorNames, NEW r \in Result \cup {NoResult},
           r # NoResult => p.connaddr, NEW q, q = WithPrivate(p, x, r)
    PROVE  /\ DriverOk(q) /\ SameSession(p, q)
           /\ \A z \in CursorNames : q.priv[z] = IF z = x THEN r ELSE p.priv[z]
           /\ q.cur = p.cur /\ q.res = p.res /\ q.last_rc = p.last_rc
  <1>1. /\ q \in Driver /\ SameSession(p, q)
        /\ q.cur = p.cur /\ q.res = p.res /\ q.last_rc = p.last_rc
    BY DEF DriverOk, Driver, SameSession, WithPrivate
  <1>2. \A z \in CursorNames : q.priv[z] = IF z = x THEN r ELSE p.priv[z]
    BY DEF DriverOk, Driver, WithPrivate
  <1>3. DriverOk(q)
    BY <1>1, <1>2 DEF DriverOk, SameSession
  <1> QED
    BY <1>1, <1>2, <1>3

\* The code of a command that the server refused.
Refusal == -(10000 + PGRES_FATAL_ERROR)

\* What the end of _pgsql_exec() makes of the driver p that has the answer.
Finished(p, x, r) ==
    /\ DriverOk(r.p)
    /\ SameSession(p, r.p)
    /\ r.rc \in {DBERR_NO_ERROR, DBERR_SQL_ERROR}
    /\ \A z \in CursorNames :
          \/ r.p.priv[z] = p.priv[z] /\ (z = x => r.rc # DBERR_NO_ERROR)
          \/ z = x /\ r.rc = DBERR_NO_ERROR

LEMMA FinishOk ==
    ASSUME NEW b, AnswerOk(b), DriverOk(b.p), ~b.p.connaddr => b.st = PGRES_FATAL_ERROR,
           NEW c, NEW x \in CursorNames \cup {NoStmt}, NEW r, r = Finish(b, c, x)
    PROVE  /\ Finished(b.p, x, r)
           /\ b.st = PGRES_FATAL_ERROR => r.rc # DBERR_NO_ERROR /\ r.p.last_rc = Refusal
           /\ r.rc = DBERR_NO_ERROR => b.p.connaddr
           /\ r.rc = DBERR_NO_ERROR /\ x \in CursorNames => r.p.priv[x] = NewResult(b.cols, b.rows)
           /\ r.rc # DBERR_NO_ERROR /\ c.op # "UPDATE" => b.st = PGRES_FATAL_ERROR
  <1> USE DEF DBERR_NO_ERROR, DBERR_SQL_ERROR
  <1>1. CASE b.st = PGRES_COMMAND_OK /\ is_update_or_delete_statement(c) /\ b.rows = 0
    <2>1. r.p = [b.p EXCEPT !.last_rc = 100] /\ r.rc = DBERR_SQL_ERROR
      BY <1>1, ReturnsFields DEF Finish
    <2>2. DriverOk(r.p) /\ SameSession(b.p, r.p) /\ r.p.priv = b.p.priv
      BY <2>1, CodeOk
    <2>3. c.op = "UPDATE" /\ b.st # PGRES_FATAL_ERROR
      BY <1>1, StatusesDiffer DEF is_update_or_delete_statement
    <2> QED
      BY <2>1, <2>2, <2>3 DEF Finished
  <1>2. CASE b.st = PGRES_FATAL_ERROR
    <2>1. r = Returns([b.p EXCEPT !.last_rc = -(10000 + b.st)], DBERR_SQL_ERROR)
      BY <1>2, StatusesDiffer DEF Finish
    <2>2. r.p = [b.p EXCEPT !.last_rc = Refusal] /\ r.rc = DBERR_SQL_ERROR /\ Refusal \in Int
      BY <1>2, <2>1, ReturnsFields DEF Refusal, PGRES_FATAL_ERROR
    <2>3. DriverOk(r.p) /\ SameSession(b.p, r.p) /\ r.p.priv = b.p.priv /\ r.p.last_rc = Refusal
      BY <2>2, CodeOk
    <2> QED
      BY <1>2, <2>2, <2>3 DEF Finished
  <1>3. CASE /\ b.st # PGRES_FATAL_ERROR
             /\ ~(b.st = PGRES_COMMAND_OK /\ is_update_or_delete_statement(c) /\ b.rows = 0)
    <2>1. PICK d, new : d = [b.p EXCEPT !.last_rc = b.st] /\ new = NewResult(b.cols, b.rows)
      OBVIOUS
    <2>2. r.p = Keep(d, x, new) /\ r.rc = DBERR_NO_ERROR
      BY <1>3, <2>1, ReturnsFields DEF Finish
    <2>3. b.st \in Int /\ b.p.connaddr
      BY <1>3 DEF AnswerOk, PGRES_COMMAND_OK, PGRES_TUPLES_OK, PGRES_FATAL_ERROR
    <2>4. DriverOk(d) /\ SameSession(b.p, d) /\ d.priv = b.p.priv
      BY <2>1, <2>3, CodeOk
    <2>5. new \in Result
      BY <2>1, NewResultOk DEF AnswerOk
    <2>6. CASE x \in CursorNames
      <3>1. r.p = WithPrivate(d, x, new)
        BY <2>2, <2>6 DEF Keep, WithPrivate
      <3>2. d.connaddr
        BY <2>3, <2>4 DEF SameSession
      <3>3. /\ DriverOk(r.p) /\ SameSession(d, r.p)
            /\ \A z \in CursorNames : r.p.priv[z] = IF z = x THEN new ELSE d.priv[z]
        BY <2>4, <2>5, <2>6, <3>1, <3>2, PrivateOk
      <3>4. SameSession(b.p, r.p)
        BY <2>4, <3>3 DEF SameSession
      <3> QED
        BY <1>3, <2>1, <2>2, <2>3, <2>4, <2>6, <3>3, <3>4 DEF Finished
    <2>7. CASE x \notin CursorNames
      <3>1. r.p = [d EXCEPT !.cur = new]
        BY <2>2, <2>7 DEF Keep
      <3>2. DriverOk(r.p) /\ SameSession(d, r.p) /\ r.p.priv = d.priv
        BY <2>4, <2>5, <3>1, CurrentOk
      <3>3. SameSession(b.p, r.p)
        BY <2>4, <3>2 DEF SameSession
      <3> QED
        BY <1>3, <2>2, <2>3, <2>4, <2>7, <3>2, <3>3 DEF Finished
    <2> QED
      BY <2>6, <2>7
  <1> QED
    BY <1>1, <1>2, <1>3

(***************************************************************************)
(* What a command does to the driver, whatever the command: y is the       *)
(* cursor it is about and x the one that gets the result.  A transaction   *)
(* that fails with the command is reported.                                *)
(***************************************************************************)
Runs(p, y, x, r) ==
    /\ DriverOk(r.p)
    /\ r.p.connaddr = p.connaddr /\ r.p.off = p.off /\ r.p.text = p.text
    /\ r.rc \in {DBERR_NO_ERROR, DBERR_SQL_ERROR}
    /\ r.rc = DBERR_NO_ERROR => p.connaddr
    /\ \A z \in CursorNames \ {y} : Carried(p.portal[z], r.p.portal[z])
    /\ \A z \in CursorNames :
          \/ r.p.priv[z] = p.priv[z]
          \/ z = x /\ r.rc = DBERR_NO_ERROR /\ r.p.priv[z].idx = -1
    /\ p.off /\ p.tx # "idle" /\ r.rc = DBERR_NO_ERROR => r.p.tx # "idle"
    /\ Doomed(r.p) => Doomed(p) \/ (r.rc # DBERR_NO_ERROR /\ r.p.last_rc = Refusal)

\* The driver as the command finds it.
Entry(p, x) == IF x \in CursorNames THEN p ELSE [p EXCEPT !.cur = NoResult]

LEMMA SameSessionRefl ==
    ASSUME NEW p
    PROVE  SameSession(p, p)
  BY DEF SameSession

LEMMA EntryOk ==
    ASSUME NEW p, DriverOk(p), NEW x, NEW q, q = Entry(p, x)
    PROVE  DriverOk(q) /\ SameSession(p, q) /\ q.priv = p.priv
  BY CurrentOk, SameSessionRefl DEF Entry

\* The answer, with cur for the current result set of its driver.
NowCurrent(a, cur) == [a EXCEPT !.p.cur = cur]

LEMMA AnswerWithCurrent ==
    ASSUME NEW a, AnswerOk(a), DriverOk(a.p), NEW b, NEW cur \in Result \cup {NoResult},
           b = NowCurrent(a, cur)
    PROVE  /\ AnswerOk(b) /\ b.st = a.st /\ b.cols = a.cols /\ b.rows = a.rows
           /\ b.p = [a.p EXCEPT !.cur = cur]
  <1>1. PICK p, st, cols, rows : a = [p |-> p, st |-> st, cols |-> cols, rows |-> rows]
    BY DEF AnswerOk, Answer
  <1>2. b = [p |-> [p EXCEPT !.cur = cur], st |-> st, cols |-> cols, rows |-> rows]
    BY <1>1 DEF NowCurrent
  <1> QED
    BY <1>1, <1>2 DEF AnswerOk, Answer

\* A command that does not end the transaction: the answer is all there is to it.
LEMMA PlainExecIs ==
    ASSUME NEW p, DriverOk(p), NEW c, c.op \notin TxEnds, NEW x,
           \A a \in Server(Entry(p, x), c) : AnswerOk(a) /\ DriverOk(a.p),
           NEW r \in pgsql_exec(p, c, x)
    PROVE  \E a \in Server(Entry(p, x), c) : r = Finish(a, c, x)
  <1>1. ~is_tx_termination_statement(c)
    BY DEF is_tx_termination_statement, TxEnds
  <1>2. PICK a \in Server(Entry(p, x), c) : r = Finish([a EXCEPT !.p.cur = a.p.cur], c, x)
    BY <1>1 DEF pgsql_exec, Entry
  <1>3. [a EXCEPT !.p.cur = a.p.cur] = a
    <2>1. AnswerOk(a) /\ a.p \in Driver
      BY DEF DriverOk
    <2>2. [a.p EXCEPT !.cur = a.p.cur] = a.p
      BY <2>1 DEF Driver
    <2>3. PICK q, st, cols, rows : a = [p |-> q, st |-> st, cols |-> cols, rows |-> rows]
      BY <2>1 DEF AnswerOk, Answer
    <2> QED
      BY <2>2, <2>3
  <1> QED
    BY <1>2, <1>3

LEMMA CarriedRefl ==
    ASSUME NEW b
    PROVE  Carried(b, b)
  BY DEF Carried

LEMMA CarriedTrans ==
    ASSUME NEW a \in Portal, NEW b, NEW d, Carried(a, b), Carried(b, d)
    PROVE  Carried(a, d)
  <1>1. [a EXCEPT !.kind = "held"].kind = "held"
    BY DEF Portal
  <1> QED
    BY <1>1, NoPortalOk DEF Carried

LEMMA PlainRuns ==
    ASSUME NEW p, DriverOk(p), NEW c, c.op \notin TxEnds, NEW x \in CursorNames \cup {NoStmt},
           NEW y, \A a \in Server(Entry(p, x), c) : Serves(Entry(p, x), y, a),
           NEW r \in pgsql_exec(p, c, x)
    PROVE  /\ Runs(p, y, x, r)
           /\ p.tx # "idle" => r.p.tx # "idle"
           /\ \E a \in Server(Entry(p, x), c) :
                 /\ r.p.portal = a.p.portal
                 /\ r.rc = DBERR_NO_ERROR => a.st # PGRES_FATAL_ERROR
                 /\ r.rc = DBERR_NO_ERROR /\ x \in CursorNames =>
                       r.p.priv[x] = NewResult(a.cols, a.rows)
                 /\ r.rc # DBERR_NO_ERROR /\ c.op # "UPDATE" => a.st = PGRES_FATAL_ERROR
  <1>1. PICK q : q = Entry(p, x)
    OBVIOUS
  <1>2. DriverOk(q) /\ SameSession(p, q) /\ q.priv = p.priv
    BY <1>1, EntryOk
  <1>3. PICK a \in Server(q, c) : r = Finish(a, c, x)
    BY <1>1, PlainExecIs DEF Serves
  <1>4. Serves(q, y, a)
    BY <1>1
  <1>5. AnswerOk(a) /\ DriverOk(a.p) /\ SameClient(q, a.p) /\ (~a.p.connaddr => a.st = PGRES_FATAL_ERROR)
    BY <1>4 DEF Serves, SameClient
  <1>6. /\ Finished(a.p, x, r)
        /\ a.st = PGRES_FATAL_ERROR => r.rc # DBERR_NO_ERROR /\ r.p.last_rc = Refusal
        /\ r.rc = DBERR_NO_ERROR => a.p.connaddr
        /\ r.rc = DBERR_NO_ERROR /\ x \in CursorNames => r.p.priv[x] = NewResult(a.cols, a.rows)
        /\ r.rc # DBERR_NO_ERROR /\ c.op # "UPDATE" => a.st = PGRES_FATAL_ERROR
    BY <1>3, <1>5, FinishOk
  <1>7. /\ DriverOk(r.p) /\ SameSession(a.p, r.p) /\ r.rc \in {DBERR_NO_ERROR, DBERR_SQL_ERROR}
        /\ \A z \in CursorNames :
              \/ r.p.priv[z] = a.p.priv[z]
              \/ z = x /\ r.rc = DBERR_NO_ERROR
    BY <1>6 DEF Finished
  <1>8. /\ r.p.connaddr = p.connaddr /\ r.p.off = p.off /\ r.p.text = p.text
        /\ a.p.priv = p.priv /\ a.p.connaddr = p.connaddr
        /\ p.tx # "idle" => r.p.tx # "idle"
    BY <1>2, <1>4, <1>5, <1>7 DEF SameSession, SameClient, Serves
  <1>9. \A z \in CursorNames \ {y} : Carried(p.portal[z], r.p.portal[z])
    <2>1. \A z \in CursorNames \ {y} : r.p.portal[z] = p.portal[z]
      BY <1>2, <1>4, <1>7 DEF SameSession, Serves
    <2> QED
      BY <2>1, CarriedRefl
  <1>10. \A z \in CursorNames :
            \/ r.p.priv[z] = p.priv[z]
            \/ z = x /\ r.rc = DBERR_NO_ERROR /\ r.p.priv[z].idx = -1
    <2>1. NewResult(a.cols, a.rows).idx = -1
      BY <1>5, NewResultOk DEF AnswerOk
    <2> QED
      BY <1>6, <1>7, <1>8, <2>1
  <1>11. Doomed(r.p) => Doomed(p) \/ (r.rc # DBERR_NO_ERROR /\ r.p.last_rc = Refusal)
    <2>1. (Doomed(r.p) <=> Doomed(a.p)) /\ (Doomed(q) <=> Doomed(p))
      BY <1>2, <1>7, SameDoomed
    <2> QED
      BY <1>4, <1>6, <2>1 DEF Serves
  <1>12. Runs(p, y, x, r)
    BY <1>6, <1>7, <1>8, <1>9, <1>10, <1>11 DEF Runs
  <1>13. r.p.portal = a.p.portal
    BY <1>7 DEF SameSession
  <1> QED
    BY <1>1, <1>3, <1>6, <1>8, <1>12, <1>13

\* The transaction that follows the one that ended.
LEMMA RestartOk ==
    ASSUME NEW p, DriverOk(p), p.connaddr, p.tx = "idle", NEW r \in Restart(p)
    PROVE  /\ DriverOk(r.p) /\ r.rc = DBERR_NO_ERROR /\ r.p.tx = "open" /\ ~r.p.dirty
           /\ r.p.connaddr = p.connaddr /\ r.p.off = p.off /\ r.p.text = p.text
           /\ r.p.priv = p.priv /\ r.p.portal = p.portal /\ r.p.fate = p.fate
  <1>1. PICK b \in Server(p, Sql("BEGIN")) :
           r = Returns([b.p EXCEPT !.last_rc = b.st, !.cur = NoResult],
                       IF b.st = PGRES_COMMAND_OK THEN DBERR_NO_ERROR ELSE DBERR_SQL_ERROR)
    BY DEF Restart
  <1>2. Serves(p, NoStmt, b) /\ b.st = PGRES_COMMAND_OK /\ b.p.tx = "open" /\ ~b.p.dirty
    BY BeginOk
  <1>3. PICK d : d = [b.p EXCEPT !.last_rc = b.st]
    OBVIOUS
  <1>4. r.p = [d EXCEPT !.cur = NoResult] /\ r.rc = DBERR_NO_ERROR
    BY <1>1, <1>2, <1>3, ReturnsFields
  <1>5. DriverOk(b.p) /\ SameClient(p, b.p) /\ b.st \in Int /\ b.p.fate = p.fate
    BY <1>2 DEF Serves, PGRES_COMMAND_OK
  <1>6. DriverOk(d) /\ SameSession(b.p, d) /\ d.priv = b.p.priv
    BY <1>3, <1>5, CodeOk
  <1>7. DriverOk(r.p) /\ SameSession(d, r.p) /\ r.p.priv = d.priv
    BY <1>4, <1>6, CurrentOk
  <1>8. SameSession(b.p, r.p) /\ r.p.priv = b.p.priv
    BY <1>6, <1>7 DEF SameSession
  <1>9. r.p.portal = p.portal
    <2>1. NoStmt \notin CursorNames
      BY PgsqlAssumption
    <2>2. \A z \in CursorNames : b.p.portal[z] = p.portal[z]
      BY <1>2, <2>1 DEF Serves
    <2>3. b.p.portal = p.portal
      BY <1>5, <2>2 DEF DriverOk, Driver
    <2> QED
      BY <1>8, <2>3 DEF SameSession
  <1> QED
    BY <1>2, <1>4, <1>5, <1>7, <1>8, <1>9 DEF SameSession, SameClient

\* How _pgsql_exec() goes on after COMMIT or ROLLBACK.
LEMMA EndExecIs ==
    ASSUME NEW p, DriverOk(p), NEW op \in TxEnds, NEW x, NEW r \in pgsql_exec(p, Sql(op), x)
    PROVE  \E a \in Server(Entry(p, x), Sql(op)) :
              \/ p.off /\ a.st = PGRES_COMMAND_OK /\ r \in Restart(a.p)
              \/ /\ p.off => a.st # PGRES_COMMAND_OK
                 /\ \E cur \in {NoResult, a.p.cur} :
                       r = Finish(NowCurrent(a, cur), Sql(op), x)
  <1>1. is_tx_termination_statement(Sql(op))
    BY DEF is_tx_termination_statement, TxEnds, Sql
  <1> QED
    BY <1>1 DEF pgsql_exec, Entry, NowCurrent

LEMMA EndRuns ==
    ASSUME NEW p, DriverOk(p), NEW op \in TxEnds, NEW x \in CursorNames \cup {NoStmt},
           NEW r \in pgsql_exec(p, Sql(op), x)
    PROVE  /\ Runs(p, NoStmt, x, r)
           /\ \A z \in CursorNames : r.p.portal[z].kind \in {"none", "held"}
           /\ (/\ op \in {"COMMIT", "COMMIT_WORK"} /\ r.rc = DBERR_NO_ERROR
               /\ p.fate = "none" /\ r.p.fate = "lost") => Doomed(p)
  <1>1. PICK q : q = Entry(p, x)
    OBVIOUS
  <1>2. DriverOk(q) /\ SameSession(p, q) /\ q.priv = p.priv
    BY <1>1, EntryOk
  <1>3. PICK a \in Server(q, Sql(op)) :
           \/ p.off /\ a.st = PGRES_COMMAND_OK /\ r \in Restart(a.p)
           \/ /\ p.off => a.st # PGRES_COMMAND_OK
              /\ \E cur \in {NoResult, a.p.cur} :
                    r = Finish(NowCurrent(a, cur), Sql(op), x)
    BY <1>1, EndExecIs
  <1>4. EndsTx(q, op, a)
    BY <1>2, EndOk
  <1>5. /\ AnswerOk(a) /\ DriverOk(a.p) /\ SameClient(q, a.p) /\ a.p.tx = "idle"
        /\ ~q.connaddr => a.st = PGRES_FATAL_ERROR
        /\ a.p.connaddr = p.connaddr /\ a.p.off = p.off /\ a.p.text = p.text /\ a.p.priv = p.priv
        /\ q.connaddr = p.connaddr
    BY <1>2, <1>4 DEF EndsTx, SameClient, SameSession
  <1>6. \A z \in CursorNames : /\ Carried(p.portal[z], a.p.portal[z])
                               /\ a.p.portal[z].kind \in {"none", "held"}
    BY <1>2, <1>4 DEF EndsTx, SameSession
  <1>7. (/\ op \in {"COMMIT", "COMMIT_WORK"} /\ a.st = PGRES_COMMAND_OK
         /\ p.fate = "none" /\ a.p.fate = "lost") => Doomed(p)
    BY <1>2, <1>4, SameDoomed DEF EndsTx, SameSession
  <1>8. CASE p.off /\ a.st = PGRES_COMMAND_OK /\ r \in Restart(a.p)
    <2>1. p.connaddr
      BY <1>5, <1>8, StatusesDiffer
    <2>2. /\ DriverOk(r.p) /\ r.rc = DBERR_NO_ERROR /\ r.p.tx = "open" /\ ~r.p.dirty
          /\ r.p.connaddr = a.p.connaddr /\ r.p.off = a.p.off /\ r.p.text = a.p.text
          /\ r.p.priv = a.p.priv /\ r.p.portal = a.p.portal /\ r.p.fate = a.p.fate
      BY <1>5, <1>8, <2>1, RestartOk
    <2>3. Runs(p, NoStmt, x, r)
      BY <1>5, <1>6, <2>1, <2>2 DEF Runs, Doomed
    <2> QED
      BY <1>6, <1>7, <1>8, <2>2, <2>3
  <1>9. CASE /\ p.off => a.st # PGRES_COMMAND_OK
             /\ \E cur \in {NoResult, a.p.cur} :
                   r = Finish(NowCurrent(a, cur), Sql(op), x)
    <2>1. PICK cur \in {NoResult, a.p.cur} : r = Finish(NowCurrent(a, cur), Sql(op), x)
      BY <1>9
    <2>2. cur \in Result \cup {NoResult}
      BY <1>5 DEF DriverOk, Driver
    <2>3. PICK b : b = NowCurrent(a, cur)
      OBVIOUS
    <2>4. /\ AnswerOk(b) /\ b.st = a.st /\ b.cols = a.cols /\ b.rows = a.rows
          /\ b.p = [a.p EXCEPT !.cur = cur]
      BY <1>5, <2>2, <2>3, AnswerWithCurrent
    <2>5. DriverOk(b.p) /\ SameSession(a.p, b.p) /\ b.p.priv = a.p.priv
      BY <1>5, <2>2, <2>4, CurrentOk
    <2>6. ~b.p.connaddr => b.st = PGRES_FATAL_ERROR
      BY <1>5, <2>4, <2>5 DEF SameSession
    <2>7. /\ Finished(b.p, x, r)
          /\ b.st = PGRES_FATAL_ERROR => r.rc # DBERR_NO_ERROR /\ r.p.last_rc = Refusal
          /\ r.rc = DBERR_NO_ERROR => b.p.connaddr
          /\ r.rc = DBERR_NO_ERROR /\ x \in CursorNames => r.p.priv[x] = NewResult(b.cols, b.rows)
      <3>1. PICK c : c = Sql(op)
        OBVIOUS
      <3>2. r = Finish(b, c, x) /\ AnswerOk(b) /\ DriverOk(b.p)
        BY <2>1, <2>3, <2>4, <2>5, <3>1
      <3> QED
        BY <2>6, <3>2, FinishOk
    <2>8. /\ DriverOk(r.p) /\ SameSession(a.p, r.p) /\ r.rc \in {DBERR_NO_ERROR, DBERR_SQL_ERROR}
          /\ \A z \in CursorNames :
                \/ r.p.priv[z] = a.p.priv[z]
                \/ z = x /\ r.rc = DBERR_NO_ERROR
      BY <2>5, <2>7 DEF Finished, SameSession
    <2>9. NewResult(b.cols, b.rows).idx = -1
      BY <2>4, NewResultOk DEF AnswerOk
    <2>10. \A z \in CursorNames :
              \/ r.p.priv[z] = p.priv[z]
              \/ z = x /\ r.rc = DBERR_NO_ERROR /\ r.p.priv[z].idx = -1
      BY <1>5, <2>7, <2>8, <2>9
    <2>11. /\ r.p.connaddr = p.connaddr /\ r.p.off = p.off /\ r.p.text = p.text
           /\ r.p.tx = "idle" /\ r.p.fate = a.p.fate /\ r.p.portal = a.p.portal
           /\ r.rc = DBERR_NO_ERROR => p.connaddr
      BY <1>5, <2>5, <2>7, <2>8 DEF SameSession
    <2>12. r.rc = DBERR_NO_ERROR => a.st = PGRES_COMMAND_OK /\ ~p.off
      <3>1. a.st \in {PGRES_COMMAND_OK, PGRES_FATAL_ERROR}
        BY <1>4 DEF EndsTx
      <3> QED
        BY <1>9, <2>4, <2>7, <3>1
    <2>13. Runs(p, NoStmt, x, r)
      BY <1>6, <2>8, <2>10, <2>11, <2>12 DEF Runs, Doomed
    <2> QED
      BY <1>6, <1>7, <2>11, <2>12, <2>13
  <1> QED
    BY <1>3, <1>8, <1>9

\* Any statement, for a cursor or for none.
LEMMA SqlRuns ==
    ASSUME NEW p, DriverOk(p), NEW op \in AllStatements, NEW x \in CursorNames \cup {NoStmt},
           NEW r \in pgsql_exec(p, Sql(op), x)
    PROVE  /\ Runs(p, NoStmt, x, r)
           /\ op = "SELECT" /\ r.rc = DBERR_NO_ERROR /\ x \in CursorNames => r.p.priv[x] # NoResult
  <1>1. CASE op \in TxEnds
    BY <1>1, EndRuns DEF TxEnds
  <1>2. CASE op \notin TxEnds
    <2>1. PICK q, c : q = Entry(p, x) /\ c = Sql(op)
      OBVIOUS
    <2>2. DriverOk(q) /\ c.op = op
      BY <2>1, EntryOk DEF Sql
    <2>3. \A a \in Server(q, c) : Serves(q, NoStmt, a)
      BY <1>2, <2>1, <2>2, SqlOk
    <2>4. /\ Runs(p, NoStmt, x, r)
          /\ \E a \in Server(q, c) :
                r.rc = DBERR_NO_ERROR /\ x \in CursorNames =>
                       r.p.priv[x] = NewResult(a.cols, a.rows)
      BY <1>2, <2>1, <2>2, <2>3, PlainRuns
    <2>5. PICK a \in Server(q, c) :
             r.rc = DBERR_NO_ERROR /\ x \in CursorNames =>
                    r.p.priv[x] = NewResult(a.cols, a.rows)
      BY <2>4
    <2>6. NewResult(a.cols, a.rows) # NoResult
      BY <2>3, NewResultOk DEF Serves, AnswerOk
    <2> QED
      BY <2>4, <2>5, <2>6
  <1> QED
    BY <1>1, <1>2

\* The call leaves the cursors of the driver what they have, but for what the end
\* of the transaction does to the portals.
Quiet(p, q) ==
    /\ DriverOk(q)
    /\ q.connaddr = p.connaddr /\ q.off = p.off
    /\ \A z \in CursorNames : Carried(p.portal[z], q.portal[z])
    /\ q.priv = p.priv

\* A transaction that fails with the call fails the call, with a code of its own.
Told(p, r) ==
    Doomed(r.p) => Doomed(p) \/ (/\ r.rc # DBERR_NO_ERROR
                                 /\ r.p.last_rc \in {PGRES_FATAL_ERROR, Refusal})

\* With autocommit off a call that succeeds leaves the session in a transaction.
Restarted(p, r) == p.off /\ p.tx # "idle" /\ r.p.tx = "idle" => r.rc # DBERR_NO_ERROR

\* A COMMIT loses work only of a transaction that has failed before.
NotLost(p, op, r) ==
    (/\ op \in {"COMMIT", "COMMIT_WORK"} /\ r.rc = DBERR_NO_ERROR
     /\ p.fate = "none" /\ r.p.fate = "lost") => Doomed(p)

LEMMA RunsQuiet ==
    ASSUME NEW p, DriverOk(p), NEW r, Runs(p, NoStmt, NoStmt, r)
    PROVE  Quiet(p, r.p) /\ Told(p, r) /\ Restarted(p, r)
  <1>1. NoStmt \notin CursorNames
    BY PgsqlAssumption
  <1>2. \A z \in CursorNames : /\ Carried(p.portal[z], r.p.portal[z])
                               /\ r.p.priv[z] = p.priv[z]
    BY <1>1 DEF Runs
  <1>3. r.p.priv = p.priv
    BY <1>2 DEF Runs, DriverOk, Driver
  <1> QED
    BY <1>2, <1>3 DEF Runs, Quiet, Told, Restarted

LEMMA ExecOk ==
    ASSUME NEW p, DriverOk(p), NEW op \in AllStatements, NEW r \in exec(p, op)
    PROVE  /\ Quiet(p, r.p) /\ Told(p, r) /\ Restarted(p, r) /\ NotLost(p, op, r)
           /\ op \in TxEnds => \A z \in CursorNames : r.p.portal[z].kind \in {"none", "held"}
  <1>1. NoStmt \in CursorNames \cup {NoStmt} /\ r \in pgsql_exec(p, Sql(op), NoStmt)
    BY DEF exec
  <1>2. Runs(p, NoStmt, NoStmt, r)
    BY <1>1, SqlRuns
  <1>3. Quiet(p, r.p) /\ Told(p, r) /\ Restarted(p, r)
    BY <1>2, RunsQuiet
  <1>4. op \in TxEnds => /\ NotLost(p, op, r)
                         /\ \A z \in CursorNames : r.p.portal[z].kind \in {"none", "held"}
    BY <1>1, EndRuns DEF NotLost
  <1>5. op \notin TxEnds => NotLost(p, op, r)
    BY DEF NotLost, TxEnds
  <1> QED
    BY <1>3, <1>4, <1>5

\* A driver whose statements and code alone have changed.
LEMMA SameQuiet ==
    ASSUME NEW p, NEW q, DriverOk(q), SameSession(p, q), q.priv = p.priv
    PROVE  Quiet(p, q) /\ (Doomed(q) <=> Doomed(p)) /\ q.tx = p.tx
  BY CarriedRefl, SameDoomed DEF Quiet, SameSession

LEMMA ServesQuiet ==
    ASSUME NEW p, NEW a, Serves(p, NoStmt, a)
    PROVE  /\ Quiet(p, a.p)
           /\ Doomed(a.p) => Doomed(p) \/ a.st = PGRES_FATAL_ERROR
           /\ p.tx # "idle" => a.p.tx # "idle"
           /\ a.p.text = p.text
           /\ a.st \in {PGRES_COMMAND_OK, PGRES_TUPLES_OK, PGRES_FATAL_ERROR} /\ a.st \in Int
  <1>1. NoStmt \notin CursorNames
    BY PgsqlAssumption
  <1>2. \A z \in CursorNames : Carried(p.portal[z], a.p.portal[z])
    BY <1>1, CarriedRefl DEF Serves
  <1>3. a.st \in {PGRES_COMMAND_OK, PGRES_TUPLES_OK, PGRES_FATAL_ERROR} /\ a.st \in Int
    BY DEF Serves, AnswerOk, PGRES_COMMAND_OK, PGRES_TUPLES_OK, PGRES_FATAL_ERROR
  <1> QED
    BY <1>2, <1>3 DEF Serves, Quiet, SameClient

LEMMA QuietThenSame ==
    ASSUME NEW p, NEW q, NEW s, Quiet(p, q), DriverOk(s), SameSession(q, s), s.priv = q.priv
    PROVE  Quiet(p, s) /\ (Doomed(s) <=> Doomed(q)) /\ s.tx = q.tx
  BY SameDoomed DEF Quiet, SameSession

LEMMA PrepareOk ==
    ASSUME NEW p, DriverOk(p), NEW s \in StmtNames, NEW op \in AllStatements,
           NEW r \in prepare(p, s, op)
    PROVE  Quiet(p, r.p) /\ Told(p, r) /\ Restarted(p, r)
  <1> USE DEF DBERR_PREPARE_FAILED, DBERR_NO_ERROR
  <1>1. CASE p.text[s] # NoStmt
    <2>1. r.p = p
      BY <1>1, ReturnsFields DEF prepare
    <2> QED
      BY <2>1, SameQuiet, SameSessionRefl DEF Told, Restarted
  <1>2. CASE p.text[s] = NoStmt
    <2>1. PICK a \in Server(p, Parse_(op)) :
             r = IF a.st = PGRES_COMMAND_OK
                 THEN Returns([a.p EXCEPT !.last_rc = a.st, !.text[s] = op], DBERR_NO_ERROR)
                 ELSE Returns([a.p EXCEPT !.last_rc = a.st], DBERR_PREPARE_FAILED)
      BY <1>2 DEF prepare
    <2>2. /\ Quiet(p, a.p)
          /\ Doomed(a.p) => Doomed(p) \/ a.st = PGRES_FATAL_ERROR
          /\ p.tx # "idle" => a.p.tx # "idle"
          /\ a.st \in {PGRES_COMMAND_OK, PGRES_TUPLES_OK, PGRES_FATAL_ERROR} /\ a.st \in Int
      BY ParseOk, ServesQuiet
    <2>3. a.st # PGRES_TUPLES_OK
      <3>1. a = Refuse(p) \/ a = Answer(p, PGRES_COMMAND_OK, 0, 0)
        BY DEF Server, Parse_
      <3> QED
        BY <3>1, RefuseOk, AnswerFields, StatusesDiffer
    <2>4. PICK d : d = [a.p EXCEPT !.last_rc = a.st]
      OBVIOUS
    <2>5. DriverOk(d) /\ SameSession(a.p, d) /\ d.priv = a.p.priv /\ d.last_rc = a.st
      BY <2>2, <2>4, CodeOk DEF Quiet
    <2>6. Quiet(p, d) /\ (Doomed(d) <=> Doomed(a.p)) /\ d.tx = a.p.tx
      BY <2>2, <2>5, QuietThenSame
    <2>7. CASE a.st # PGRES_COMMAND_OK
      <3>1. r.p = d /\ r.rc # DBERR_NO_ERROR
        BY <2>1, <2>4, <2>7, ReturnsFields
      <3> QED
        BY <2>2, <2>3, <2>5, <2>6, <2>7, <3>1 DEF Told, Restarted
    <2>8. CASE a.st = PGRES_COMMAND_OK
      <3>1. r.p = [d EXCEPT !.text[s] = op]
        BY <2>1, <2>4, <2>8, ReturnsFields
      <3>2. /\ r.p \in Driver /\ r.p.connaddr = d.connaddr /\ r.p.off = d.off /\ r.p.tx = d.tx
            /\ r.p.dirty = d.dirty /\ r.p.portal = d.portal /\ r.p.priv = d.priv
        BY <2>5, <3>1 DEF DriverOk, Driver
      <3>3. DriverOk(r.p)
        BY <2>5, <3>2 DEF DriverOk
      <3>4. Quiet(p, r.p) /\ (Doomed(r.p) <=> Doomed(d))
        BY <2>6, <3>2, <3>3 DEF Quiet, Doomed
      <3> QED
        BY <2>2, <2>6, <2>8, <3>2, <3>4, StatusesDiffer DEF Told, Restarted
    <2> QED
      BY <2>7, <2>8
  <1> QED
    BY <1>1, <1>2

\* What exec_prepared() makes of the answer.
Performed(a, s) ==
    IF a.st # PGRES_FATAL_ERROR
    THEN Returns([a.p EXCEPT !.last_rc = a.st, !.res[s] = NewResult(a.cols, a.rows)],
                 DBERR_NO_ERROR)
    ELSE Returns([a.p EXCEPT !.last_rc = -(10000 + a.st)], DBERR_SQL_ERROR)

LEMMA ExecPreparedOk ==
    ASSUME NEW p, DriverOk(p), NEW s \in StmtNames, NEW r \in exec_prepared(p, s)
    PROVE  Quiet(p, r.p) /\ Told(p, r) /\ NotLost(p, p.text[s], r)
  <1> USE DEF DBERR_NO_ERROR, DBERR_SQL_ERROR
  <1>1. CASE p.text[s] = NoStmt
    <2>1. r.p = p /\ r.rc # DBERR_NO_ERROR
      BY <1>1, ReturnsFields DEF exec_prepared
    <2> QED
      BY <2>1, SameQuiet, SameSessionRefl DEF Told, NotLost
  <1>2. CASE p.text[s] # NoStmt
    <2>1. PICK op : op = p.text[s]
      OBVIOUS
    <2>2. op \in AllStatements
      BY SMTT(40), <1>2, <2>1 DEF DriverOk, Driver
    <2>8. exec_prepared(p, s) = {Performed(a, s) : a \in Server(p, Sql(op))}
      BY <1>2, <2>1 DEF exec_prepared, Performed
    <2>3. PICK a \in Server(p, Sql(op)) : r = Performed(a, s)
      BY <2>8
    <2>4. /\ Quiet(p, a.p) /\ AnswerOk(a)
          /\ Doomed(a.p) => Doomed(p) \/ a.st = PGRES_FATAL_ERROR
          /\ (/\ op \in {"COMMIT", "COMMIT_WORK"} /\ a.st # PGRES_FATAL_ERROR
              /\ p.fate = "none" /\ a.p.fate = "lost") => Doomed(p)
      <3>1. CASE op \in TxEnds
        <4>1. EndsTx(p, op, a)
          BY <3>1, EndOk
        <4> QED
          BY <4>1 DEF EndsTx, Quiet, SameClient, Doomed
      <3>2. CASE op \notin TxEnds
        <4>1. Serves(p, NoStmt, a)
          BY <2>2, <3>2, SqlOk
        <4> QED
          BY <3>2, <4>1, ServesQuiet DEF Serves, TxEnds
      <3> QED
        BY <3>1, <3>2
    <2>5. a.st \in Int /\ DriverOk(a.p)
      BY <2>4 DEF AnswerOk, Quiet, PGRES_COMMAND_OK, PGRES_TUPLES_OK, PGRES_FATAL_ERROR
    <2>6. CASE a.st = PGRES_FATAL_ERROR
      <3>1. r.p = [a.p EXCEPT !.last_rc = Refusal] /\ r.rc # DBERR_NO_ERROR
        BY <2>3, <2>6, ReturnsFields DEF Performed, Refusal
      <3>2. Refusal \in Int
        BY DEF Refusal, PGRES_FATAL_ERROR
      <3>3. DriverOk(r.p) /\ SameSession(a.p, r.p) /\ r.p.priv = a.p.priv /\ r.p.last_rc = Refusal
        BY <2>5, <3>1, <3>2, CodeOk
      <3>4. Quiet(p, r.p)
        BY <2>4, <3>3, QuietThenSame
      <3> QED
        BY <3>1, <3>3, <3>4 DEF Told, NotLost
    <2>7. CASE a.st # PGRES_FATAL_ERROR
      <3>1. PICK d, new : d = [a.p EXCEPT !.last_rc = a.st] /\ new = NewResult(a.cols, a.rows)
        OBVIOUS
      <3>2. r.p = [d EXCEPT !.res[s] = new] /\ r.rc = DBERR_NO_ERROR /\ new \in Result
        BY <2>3, <2>4, <2>7, <3>1, ReturnsFields, NewResultOk DEF Performed, AnswerOk
      <3>3. DriverOk(d) /\ SameSession(a.p, d) /\ d.priv = a.p.priv
        BY <2>5, <3>1, CodeOk
      <3>4. r.p \in Driver /\ SameSession(d, r.p) /\ r.p.priv = d.priv
        BY <3>2, <3>3 DEF DriverOk, Driver, SameSession
      <3>5. DriverOk(r.p) /\ SameSession(a.p, r.p) /\ r.p.priv = a.p.priv
        BY <3>3, <3>4 DEF DriverOk, SameSession
      <3>6. Quiet(p, r.p) /\ (Doomed(r.p) <=> Doomed(a.p)) /\ r.p.fate = a.p.fate
        BY <2>4, <3>5, QuietThenSame DEF SameSession
      <3> QED
        BY <2>1, <2>4, <2>7, <3>6 DEF Told, NotLost
    <2> QED
      BY <2>6, <2>7
  <1> QED
    BY <1>1, <1>2

LEMMA MoveToFirstOk ==
    ASSUME NEW p, DriverOk(p), NEW s, NEW m, m = move_to_first_record(p, s)
    PROVE  DriverOk(m.p) /\ SameSession(p, m.p) /\ m.p.priv = p.priv
  <1>1. \/ m.p = p
        \/ m.p = [p EXCEPT !.last_rc = DBERR_MOVE_TO_FIRST_FAILED]
        \/ m.p = [p EXCEPT !.last_rc = DBERR_NO_DATA]
    BY ReturnsFields DEF move_to_first_record
  <1>2. DBERR_MOVE_TO_FIRST_FAILED \in Int /\ DBERR_NO_DATA \in Int
    BY DEF DBERR_MOVE_TO_FIRST_FAILED, DBERR_NO_DATA
  <1> QED
    BY <1>1, <1>2, CodeOk, SameSessionRefl

(***************************************************************************)
(* What closing the cursors of s leaves of driver p: they have no result   *)
(* any more, and no portal unless the server refused, and the others keep  *)
(* theirs.                                                                 *)
(***************************************************************************)
SweptOf(p, s, q) ==
    /\ DriverOk(q)
    /\ q.connaddr = p.connaddr /\ q.off = p.off
    /\ p.tx # "idle" => q.tx # "idle"
    /\ \A z \in CursorNames :
          /\ q.priv[z] = IF z \in s THEN NoResult ELSE p.priv[z]
          /\ z \notin s => q.portal[z] = p.portal[z]
          /\ z \in s => q.portal[z] \in {p.portal[z], NoPortal}
    /\ ~NativeCursors => SameSession(p, q)

\* cursor_close() sends one CLOSE and always has its result.
LEMMA CloseResult ==
    ASSUME NEW p, DriverOk(p), NEW x \in CursorNames
    PROVE  \E r : r \in pgsql_exec(p, Close_(x), NoStmt)
  <1>1. PICK q, c : q = Entry(p, NoStmt) /\ c = Close_(x)
    OBVIOUS
  <1>2. PICK a : a \in Server(q, c)
    BY <1>1, EntryOk, CloseOk
  <1>3. ~is_tx_termination_statement(c)
    BY <1>1 DEF is_tx_termination_statement, Close_
  <1>4. PICK r : r = Finish([a EXCEPT !.p.cur = IF p.off /\ is_tx_termination_statement(c)
                                                THEN NoResult ELSE @], c, NoStmt)
    OBVIOUS
  <1>5. r \in pgsql_exec(p, c, NoStmt)
    BY <1>1, <1>2, <1>3, <1>4 DEF pgsql_exec, Entry
  <1> QED
    BY <1>1, <1>5

LEMMA CloseRuns ==
    ASSUME NEW p, DriverOk(p), NEW x \in CursorNames, NEW r \in pgsql_exec(p, Close_(x), NoStmt)
    PROVE  /\ Runs(p, x, NoStmt, r)
           /\ p.tx # "idle" => r.p.tx # "idle"
           /\ r.p.portal[x] \in {p.portal[x], NoPortal}
           /\ \A z \in CursorNames \ {x} : r.p.portal[z] = p.portal[z]
  <1>1. PICK q, c, y : q = Entry(p, y) /\ c = Close_(x) /\ y = NoStmt
    OBVIOUS
  <1>2. DriverOk(q) /\ SameSession(p, q) /\ c.op \notin TxEnds
    BY <1>1, EntryOk DEF Close_, TxEnds
  <1>3. PICK a : /\ Server(q, c) = {a}
                 /\ Serves(q, x, a)
                 /\ a.p.portal[x] \in {q.portal[x], NoPortal}
    BY <1>1, <1>2, CloseOk
  <1>4. \A b \in Server(q, c) : b = a
    BY <1>3
  <1>6. \A b \in Server(Entry(p, y), c) : Serves(Entry(p, y), x, b)
    BY <1>1, <1>3, <1>4
  <1>7. /\ Runs(p, x, y, r)
        /\ p.tx # "idle" => r.p.tx # "idle"
        /\ \E b \in Server(Entry(p, y), c) : r.p.portal = b.p.portal
    <2>1. y \in CursorNames \cup {NoStmt} /\ r \in pgsql_exec(p, c, y)
      BY <1>1
    <2> QED
      BY <1>2, <1>6, <2>1, PlainRuns
  <1>8. r.p.portal = a.p.portal
    BY <1>1, <1>4, <1>7
  <1>9. \A z \in CursorNames \ {x} : r.p.portal[z] = p.portal[z]
    BY <1>2, <1>3, <1>8 DEF Serves, SameSession
  <1> QED
    BY <1>1, <1>2, <1>3, <1>7, <1>8, <1>9 DEF SameSession

\* The driver after the CLOSE.
AfterClose(p, x) ==
    IF NativeCursors THEN (CHOOSE e \in pgsql_exec(p, Close_(x), NoStmt) : TRUE).p ELSE p

LEMMA CursorCloseOk ==
    ASSUME NEW p, DriverOk(p), NEW x \in CursorNames
    PROVE  SweptOf(p, {x}, cursor_close(p, x))
  <1>1. PICK q : q = AfterClose(p, x)
    OBVIOUS
  <1>2. cursor_close(p, x) = WithPrivate(q, x, NoResult)
    BY <1>1 DEF cursor_close, WithPrivate, AfterClose
  <1>3. /\ DriverOk(q) /\ q.connaddr = p.connaddr /\ q.off = p.off
        /\ p.tx # "idle" => q.tx # "idle"
        /\ q.priv = p.priv
        /\ q.portal[x] \in {p.portal[x], NoPortal}
        /\ \A z \in CursorNames \ {x} : q.portal[z] = p.portal[z]
        /\ ~NativeCursors => SameSession(p, q)
    <2>1. CASE NativeCursors
      <3>1. PICK r \in pgsql_exec(p, Close_(x), NoStmt) : q = r.p
        <4>1. (CHOOSE e \in pgsql_exec(p, Close_(x), NoStmt) : TRUE) \in pgsql_exec(p, Close_(x), NoStmt)
          BY CloseResult
        <4> QED
          BY <1>1, <2>1, <4>1 DEF AfterClose
      <3>3. /\ Runs(p, x, NoStmt, r)
            /\ p.tx # "idle" => r.p.tx # "idle"
            /\ r.p.portal[x] \in {p.portal[x], NoPortal}
            /\ \A z \in CursorNames \ {x} : r.p.portal[z] = p.portal[z]
        BY <3>1, CloseRuns
      <3>4. NoStmt \notin CursorNames
        BY PgsqlAssumption
      <3>5. \A z \in CursorNames : r.p.priv[z] = p.priv[z]
        BY <3>3, <3>4 DEF Runs
      <3>6. r.p.priv = p.priv
        BY <3>3, <3>5 DEF Runs, DriverOk, Driver
      <3> QED
        BY <2>1, <3>1, <3>3, <3>6 DEF Runs
    <2>2. CASE ~NativeCursors
      BY <1>1, <2>2, SameSessionRefl DEF AfterClose
    <2> QED
      BY <2>1, <2>2
  <1>4. PICK o : o = WithPrivate(q, x, NoResult)
    OBVIOUS
  <1>5. /\ DriverOk(o) /\ SameSession(q, o)
        /\ \A z \in CursorNames : o.priv[z] = IF z = x THEN NoResult ELSE q.priv[z]
    BY <1>3, <1>4, PrivateOk
  <1>6. ~NativeCursors => SameSession(p, o)
    BY <1>3, <1>5 DEF SameSession
  <1> QED
    BY <1>2, <1>3, <1>4, <1>5, <1>6 DEF SweptOf, SameSession

(***************************************************************************)
(* What OPEN does: cursor x may have a new portal or a new result, before  *)
(* its first row, and without a prepared statement has one if OPEN         *)
(* succeeds.                                                               *)
(***************************************************************************)
OpenedBy(p, x, hold, s, r) ==
    /\ DriverOk(r.p)
    /\ r.p.connaddr = p.connaddr /\ r.p.off = p.off
    /\ r.rc = DBERR_NO_ERROR => p.connaddr
    /\ \A z \in CursorNames \ {x} : /\ Carried(p.portal[z], r.p.portal[z])
                                    /\ r.p.priv[z] = p.priv[z]
    /\ \/ Carried(p.portal[x], r.p.portal[x])
       \/ /\ r.p.portal[x].at = 0
          /\ r.p.portal[x].kind \in {"hold", "held"} => hold
          /\ r.rc = DBERR_NO_ERROR
    /\ \/ r.p.priv[x] = p.priv[x]
       \/ r.rc = DBERR_NO_ERROR /\ r.p.priv[x].idx = -1
    /\ r.rc = DBERR_NO_ERROR /\ s = NoStmt => r.p.priv[x] # NoResult
    /\ Told(p, r) /\ Restarted(p, r)

LEMMA DeclareRuns ==
    ASSUME NEW p, DriverOk(p), NEW x \in CursorNames, NEW hold \in BOOLEAN, NEW body, NEW s,
           NEW r \in pgsql_exec(p, Declare_(x, hold, body), x)
    PROVE  OpenedBy(p, x, hold, s, r)
  <1>1. PICK c : c = Declare_(x, hold, body)
    OBVIOUS
  <1>2. Entry(p, x) = p /\ c.op \notin TxEnds /\ c.op # "UPDATE"
    BY <1>1 DEF Entry, Declare_, TxEnds
  <1>3. \A a \in Server(p, c) :
           /\ Serves(p, x, a)
           /\ a.st # PGRES_FATAL_ERROR =>
                 a.p.portal[x].at = 0 /\ (a.p.portal[x].kind \in {"hold", "held"} => hold)
           /\ a.cols = 0
    BY <1>1, DeclareOk
  <1>4. \A a \in Server(Entry(p, x), c) : Serves(Entry(p, x), x, a)
    BY <1>2, <1>3
  <1>5. r \in pgsql_exec(p, c, x) /\ x \in CursorNames \cup {NoStmt}
    BY <1>1
  <1>6. /\ Runs(p, x, x, r)
        /\ p.tx # "idle" => r.p.tx # "idle"
        /\ \E a \in Server(Entry(p, x), c) :
                 /\ r.p.portal = a.p.portal
                 /\ r.rc = DBERR_NO_ERROR => a.st # PGRES_FATAL_ERROR
                 /\ r.rc = DBERR_NO_ERROR /\ x \in CursorNames =>
                       r.p.priv[x] = NewResult(a.cols, a.rows)
                 /\ r.rc # DBERR_NO_ERROR /\ c.op # "UPDATE" => a.st = PGRES_FATAL_ERROR
    BY <1>2, <1>4, <1>5, PlainRuns
  <1>7. PICK a \in Server(p, c) :
                 /\ r.p.portal = a.p.portal
                 /\ r.rc = DBERR_NO_ERROR => a.st # PGRES_FATAL_ERROR
                 /\ r.rc = DBERR_NO_ERROR => r.p.priv[x] = NewResult(a.cols, a.rows)
                 /\ r.rc # DBERR_NO_ERROR => a.st = PGRES_FATAL_ERROR
    BY <1>2, <1>6
  <1>8. NewResult(a.cols, a.rows) # NoResult
    BY <1>3, NewResultOk DEF Serves, AnswerOk
  <1>9. r.rc # DBERR_NO_ERROR => r.p.portal = p.portal
    BY <1>3, <1>7 DEF Serves
  <1>10. \A z \in CursorNames \ {x} : /\ Carried(p.portal[z], r.p.portal[z])
                                      /\ r.p.priv[z] = p.priv[z]
    BY <1>6 DEF Runs
  <1>11. \/ Carried(p.portal[x], r.p.portal[x])
         \/ /\ r.p.portal[x].at = 0
            /\ r.p.portal[x].kind \in {"hold", "held"} => hold
            /\ r.rc = DBERR_NO_ERROR
    BY <1>3, <1>7, <1>9, CarriedRefl
  <1>12. \/ r.p.priv[x] = p.priv[x]
         \/ r.rc = DBERR_NO_ERROR /\ r.p.priv[x].idx = -1
    BY <1>6 DEF Runs
  <1>13. Told(p, r) /\ Restarted(p, r)
    BY <1>6 DEF Runs, Told, Restarted
  <1> QED
    BY <1>6, <1>7, <1>8, <1>10, <1>11, <1>12, <1>13 DEF OpenedBy, Runs

LEMMA OpenQueryOk ==
    ASSUME NEW p, DriverOk(p), NEW x \in CursorNames, NEW hold \in BOOLEAN,
           NEW body \in AllStatements, NEW s, s = NoStmt => body = "SELECT",
           NEW r \in OpenQuery(p, x, hold, body)
    PROVE  OpenedBy(p, x, hold, s, r)
  <1>1. PICK c : c = IF NativeCursors THEN Declare_(x, hold, body) ELSE Sql(body)
    OBVIOUS
  <1>2. PICK e \in pgsql_exec(p, c, x) :
           r = IF e.rc = DBERR_NO_ERROR THEN e ELSE Returns(e.p, DBERR_OPEN_CURSOR_FAILED)
    BY <1>1 DEF OpenQuery
  <1>3. OpenedBy(p, x, hold, s, e)
    <2>1. CASE NativeCursors
      BY <1>1, <1>2, <2>1, DeclareRuns
    <2>2. CASE ~NativeCursors
      <3>1. e \in pgsql_exec(p, Sql(body), x) /\ x \in CursorNames \cup {NoStmt}
            /\ NoStmt \notin CursorNames
        BY <1>1, <1>2, <2>2, PgsqlAssumption
      <3>2. /\ Runs(p, NoStmt, x, e)
            /\ body = "SELECT" /\ e.rc = DBERR_NO_ERROR => e.p.priv[x] # NoResult
        BY <3>1, SqlRuns
      <3>3. Told(p, e) /\ Restarted(p, e)
        BY <3>2 DEF Runs, Told, Restarted
      <3> QED
        BY <3>1, <3>2, <3>3 DEF OpenedBy, Runs
    <2> QED
      BY <2>1, <2>2
  <1>4. CASE e.rc = DBERR_NO_ERROR
    BY <1>2, <1>3, <1>4
  <1>5. CASE e.rc # DBERR_NO_ERROR
    <2>1. r.p = e.p /\ r.rc # DBERR_NO_ERROR
      BY <1>2, <1>5, ReturnsFields DEF DBERR_NO_ERROR, DBERR_OPEN_CURSOR_FAILED
    <2>2. Told(p, r) /\ Restarted(p, r)
      BY <1>3, <1>5, <2>1 DEF OpenedBy, Told, Restarted
    <2> QED
      BY <1>3, <1>5, <2>1, <2>2 DEF OpenedBy
  <1> QED
    BY <1>4, <1>5

\* What the answer to the catalogue query comes to.
Looked(p, s, a) ==
    IF a.st = PGRES_FATAL_ERROR
    THEN Returns([a.p EXCEPT !.last_rc = a.st], DBERR_OPEN_CURSOR_FAILED)
    ELSE IF p.text[s] = NoStmt
    THEN Returns([a.p EXCEPT !.last_rc = 42704], DBERR_OPEN_CURSOR_FAILED)
    ELSE Returns([a.p EXCEPT !.last_rc = a.st], DBERR_NO_ERROR)

LEMMA RetrieveOk ==
    ASSUME NEW p, DriverOk(p), NEW s \in StmtNames,
           NEW r \in retrieve_prepared_statement_source(p, s)
    PROVE  /\ Quiet(p, r.p) /\ Told(p, r)
           /\ p.tx # "idle" => r.p.tx # "idle"
           /\ r.rc = DBERR_NO_ERROR => p.text[s] # NoStmt
  <1> USE DEF DBERR_OPEN_CURSOR_FAILED, DBERR_NO_ERROR
  <1>1. retrieve_prepared_statement_source(p, s) =
           {Looked(p, s, a) : a \in Server(p, Sql("SELECT"))}
    BY DEF retrieve_prepared_statement_source, Looked
  <1>2. PICK a \in Server(p, Sql("SELECT")) : r = Looked(p, s, a)
    BY <1>1
  <1>3. Serves(p, NoStmt, a)
    BY QueryOk
  <1>4. /\ Quiet(p, a.p)
        /\ Doomed(a.p) => Doomed(p) \/ a.st = PGRES_FATAL_ERROR
        /\ p.tx # "idle" => a.p.tx # "idle"
        /\ a.st \in Int
    BY <1>3, ServesQuiet
  <1>5. PICK code \in Int :
           /\ r.p = [a.p EXCEPT !.last_rc = code]
           /\ a.st = PGRES_FATAL_ERROR => code = a.st /\ r.rc # DBERR_NO_ERROR
           /\ r.rc = DBERR_NO_ERROR => p.text[s] # NoStmt
    <2>1. CASE a.st = PGRES_FATAL_ERROR
      BY <1>2, <1>4, <2>1, ReturnsFields DEF Looked
    <2>2. CASE a.st # PGRES_FATAL_ERROR /\ p.text[s] = NoStmt
      <3>1. r = Returns([a.p EXCEPT !.last_rc = 42704], DBERR_OPEN_CURSOR_FAILED)
        BY <1>2, <2>2 DEF Looked
      <3> QED
        BY <2>2, <3>1, ReturnsFields
    <2>3. CASE a.st # PGRES_FATAL_ERROR /\ p.text[s] # NoStmt
      <3>1. r = Returns([a.p EXCEPT !.last_rc = a.st], DBERR_NO_ERROR)
        BY <1>2, <2>3 DEF Looked
      <3> QED
        BY <1>4, <2>3, <3>1, ReturnsFields
    <2> QED
      BY <2>1, <2>2, <2>3
  <1>6. DriverOk(r.p) /\ SameSession(a.p, r.p) /\ r.p.priv = a.p.priv /\ r.p.last_rc = code
    BY <1>4, <1>5, CodeOk DEF Quiet
  <1>7. Quiet(p, r.p) /\ (Doomed(r.p) <=> Doomed(a.p)) /\ r.p.tx = a.p.tx
    BY <1>4, <1>6, QuietThenSame
  <1> QED
    BY <1>4, <1>5, <1>6, <1>7 DEF Told

LEMMA QuietThenOpened ==
    ASSUME NEW p, DriverOk(p), NEW o, NEW x \in CursorNames, NEW hold, NEW s, NEW r,
           Quiet(p, o), Doomed(o) => Doomed(p), p.tx # "idle" => o.tx # "idle",
           OpenedBy(o, x, hold, s, r)
    PROVE  OpenedBy(p, x, hold, s, r)
  <1>1. /\ o.connaddr = p.connaddr /\ o.off = p.off /\ o.priv = p.priv
        /\ \A z \in CursorNames : p.portal[z] \in Portal /\ Carried(p.portal[z], o.portal[z])
    BY DEF Quiet, DriverOk, Driver
  <1>2. \A z \in CursorNames \ {x} : Carried(p.portal[z], r.p.portal[z])
    BY <1>1, CarriedTrans DEF OpenedBy
  <1>3. \/ Carried(p.portal[x], r.p.portal[x])
        \/ /\ r.p.portal[x].at = 0
           /\ r.p.portal[x].kind \in {"hold", "held"} => hold
           /\ r.rc = DBERR_NO_ERROR
    BY <1>1, CarriedTrans DEF OpenedBy
  <1>4. Told(p, r) /\ Restarted(p, r)
    BY <1>1 DEF OpenedBy, Told, Restarted
  <1> QED
    BY <1>1, <1>2, <1>3, <1>4 DEF OpenedBy

LEMMA CursorOpenOk ==
    ASSUME NEW p, DriverOk(p), NEW x \in CursorNames, NEW hold \in BOOLEAN,
           NEW s \in StmtNames \cup {NoStmt}, NEW r \in cursor_open(p, x, hold, s)
    PROVE  OpenedBy(p, x, hold, s, r)
  <1>1. CASE s = NoStmt
    <2>1. "SELECT" \in AllStatements /\ r \in OpenQuery(p, x, hold, "SELECT")
      BY <1>1 DEF AllStatements, cursor_open
    <2> QED
      BY <1>1, <2>1, OpenQueryOk
  <1>2. CASE s # NoStmt
    <2>1. PICK e \in retrieve_prepared_statement_source(p, s) :
             r \in IF e.rc = DBERR_NO_ERROR THEN OpenQuery(e.p, x, hold, p.text[s]) ELSE {e}
      BY <1>2 DEF cursor_open
    <2>2. /\ Quiet(p, e.p) /\ Told(p, e)
          /\ p.tx # "idle" => e.p.tx # "idle"
          /\ e.rc = DBERR_NO_ERROR => p.text[s] # NoStmt
      BY <1>2, RetrieveOk
    <2>3. CASE e.rc = DBERR_NO_ERROR
      <3>1. PICK body, o : body = p.text[s] /\ o = e.p
        OBVIOUS
      <3>2. body \in AllStatements /\ DriverOk(o) /\ r \in OpenQuery(o, x, hold, body)
        BY <1>2, <2>1, <2>2, <2>3, <3>1 DEF DriverOk, Driver, Quiet
      <3>3. OpenedBy(o, x, hold, s, r)
        BY <1>2, <3>2, OpenQueryOk
      <3>4. Doomed(o) => Doomed(p)
        BY <2>2, <2>3, <3>1 DEF Told
      <3> QED
        BY <2>2, <3>1, <3>3, <3>4, QuietThenOpened
    <2>4. CASE e.rc # DBERR_NO_ERROR
      <3>1. r = e
        BY <2>1, <2>4
      <3>2. Restarted(p, e)
        BY <2>4 DEF Restarted
      <3> QED
        BY <2>2, <2>4, <3>1, <3>2 DEF OpenedBy, Quiet
    <2> QED
      BY <2>3, <2>4
  <1> QED
    BY <1>1, <1>2

(***************************************************************************)
(* What a FETCH does: only cursor x moves, by one row if it delivers one,  *)
(* and with emulated cursors the session does not even notice.             *)
(***************************************************************************)
Row(p, x) == IF NativeCursors THEN p.portal[x].at ELSE p.priv[x].idx + 1
Length(p, x) == IF NativeCursors THEN p.portal[x].rows ELSE p.priv[x].rows

FetchedBy(p, x, r) ==
    /\ DriverOk(r.p)
    /\ r.p.connaddr = p.connaddr /\ r.p.off = p.off
    /\ p.tx # "idle" => r.p.tx # "idle"
    /\ ~NativeCursors => SameSession(p, r.p)
    /\ \A z \in CursorNames \ {x} : r.p.portal[z] = p.portal[z] /\ r.p.priv[z] = p.priv[z]
    /\ r.p.portal[x].kind = p.portal[x].kind /\ r.p.portal[x].rows = p.portal[x].rows
    /\ r.rc \in {DBERR_NO_ERROR, DBERR_NO_DATA, DBERR_SQL_ERROR}
    /\ r.rc # DBERR_SQL_ERROR /\ NativeCursors =>
          p.portal[x].kind # "none" /\ r.p.priv[x] # NoResult
    /\ NativeCursors => r.p.last_rc \in {DBERR_NO_ERROR, DBERR_SQL_ERROR}
    /\ r.rc = DBERR_SQL_ERROR =>
          NativeCursors /\ r.p.portal = p.portal /\ r.p.priv = p.priv

\* The private data of the cursor with another current row.
AtRow(p, x, i) == [p EXCEPT !.priv[x].idx = i]

LEMMA FetchEmulatedOk ==
    ASSUME NEW p, DriverOk(p), NEW x \in CursorNames, ~NativeCursors, p.priv[x] # NoResult,
           NEW r \in FetchEmulated(p, x)
    PROVE  /\ FetchedBy(p, x, r)
           /\ r.p.portal = p.portal
           /\ r.p.priv[x].rows = p.priv[x].rows /\ r.p.priv[x] # NoResult
           /\ r.rc = DBERR_NO_ERROR =>
                 p.priv[x].idx + 1 < p.priv[x].rows /\ r.p.priv[x].idx = p.priv[x].idx + 1
           /\ r.rc = DBERR_NO_DATA =>
                 /\ p.priv[x].idx + 1 >= p.priv[x].rows
                 /\ r.p.priv[x].idx + 1 >= p.priv[x].rows
  <1> USE DEF DBERR_NO_ERROR, DBERR_NO_DATA, DBERR_SQL_ERROR
  <1>1. PICK b : b = p.priv[x]
    OBVIOUS
  <1>2. b \in Result /\ p.connaddr
    BY <1>1 DEF DriverOk, Driver
  <1>3. PICK i : i = IF b.idx < b.rows THEN b.idx + 1 ELSE b.idx
    OBVIOUS
  <1>4. b.idx \in -1..MaxRows /\ b.rows \in 0..MaxRows /\ MaxRows \in Nat
    BY <1>2, PgsqlAssumption DEF Result
  <1>5. i \in -1..MaxRows
    BY <1>3, <1>4
  <1>6. PICK d : d = [b EXCEPT !.idx = i]
    OBVIOUS
  <1>7. d \in Result /\ d.idx = i /\ d.rows = b.rows
    BY <1>2, <1>5, <1>6 DEF Result
  <1>8. AtRow(p, x, i) = WithPrivate(p, x, d)
    BY <1>1, <1>6 DEF AtRow, WithPrivate, DriverOk, Driver
  <1>9. /\ r.p = AtRow(p, x, i)
        /\ r.rc = IF i >= b.rows THEN DBERR_NO_DATA ELSE DBERR_NO_ERROR
    BY <1>1, <1>3, ReturnsFields DEF FetchEmulated, AtRow
  <1>10. /\ DriverOk(r.p) /\ SameSession(p, r.p)
         /\ \A z \in CursorNames : r.p.priv[z] = IF z = x THEN d ELSE p.priv[z]
    BY <1>2, <1>7, <1>8, <1>9, PrivateOk
  <1>11. r.p.priv[x] = d /\ d # NoResult /\ r.p.portal = p.portal
    BY <1>7, <1>10, NoResultIs DEF SameSession
  <1>12. FetchedBy(p, x, r)
    BY <1>9, <1>10, <1>11 DEF FetchedBy, SameSession
  <1> QED
    BY <1>1, <1>3, <1>4, <1>7, <1>9, <1>11, <1>12

\* What FETCH makes of the result of the command.
Delivered(e, x) ==
    LET q == [e.p EXCEPT !.last_rc = e.rc]
    IN  IF e.rc # DBERR_NO_ERROR THEN Returns(q, DBERR_SQL_ERROR)
        ELSE Returns(q, IF e.p.priv[x].rows = 0 THEN DBERR_NO_DATA ELSE DBERR_NO_ERROR)

LEMMA FetchNativeOk ==
    ASSUME NEW p, DriverOk(p), NEW x \in CursorNames, NativeCursors,
           NEW r \in FetchNative(p, x)
    PROVE  /\ FetchedBy(p, x, r)
           /\ r.rc = DBERR_NO_ERROR =>
                 p.portal[x].at < p.portal[x].rows /\ r.p.portal[x].at = p.portal[x].at + 1
           /\ r.rc = DBERR_NO_DATA =>
                 p.portal[x].at = p.portal[x].rows /\ r.p.portal[x] = p.portal[x]
  <1> USE DEF DBERR_NO_ERROR, DBERR_NO_DATA, DBERR_SQL_ERROR
  <1>1. PICK c : c = Fetch_(x)
    OBVIOUS
  <1>2. Entry(p, x) = p /\ c.op \notin TxEnds /\ c.op # "UPDATE"
    BY <1>1 DEF Entry, Fetch_, TxEnds
  <1>3. \A a \in Server(p, c) :
           /\ Serves(p, x, a)
           /\ a.st # PGRES_FATAL_ERROR =>
                 /\ p.portal[x].kind # "none"
                 /\ a.cols = 1
                 /\ \/ /\ a.rows = 1 /\ p.portal[x].at < p.portal[x].rows
                       /\ a.p.portal[x] = [p.portal[x] EXCEPT !.at = @ + 1]
                    \/ /\ a.rows = 0 /\ p.portal[x].at = p.portal[x].rows
                       /\ a.p.portal[x] = p.portal[x]
    BY <1>1, FetchOk
  <1>4. \A a \in Server(Entry(p, x), c) : Serves(Entry(p, x), x, a)
    BY <1>2, <1>3
  <1>5. FetchNative(p, x) = {Delivered(e, x) : e \in pgsql_exec(p, c, x)}
    BY <1>1 DEF FetchNative, Delivered
  <1>6. PICK e \in pgsql_exec(p, c, x) : r = Delivered(e, x)
    BY <1>5
  <1>7. x \in CursorNames \cup {NoStmt}
    OBVIOUS
  <1>8. /\ Runs(p, x, x, e)
        /\ p.tx # "idle" => e.p.tx # "idle"
        /\ \E a \in Server(Entry(p, x), c) :
                 /\ e.p.portal = a.p.portal
                 /\ e.rc = DBERR_NO_ERROR => a.st # PGRES_FATAL_ERROR
                 /\ e.rc = DBERR_NO_ERROR /\ x \in CursorNames =>
                       e.p.priv[x] = NewResult(a.cols, a.rows)
                 /\ e.rc # DBERR_NO_ERROR /\ c.op # "UPDATE" => a.st = PGRES_FATAL_ERROR
    BY <1>2, <1>4, <1>6, <1>7, PlainRuns
  <1>9. PICK a \in Server(p, c) :
                 /\ e.p.portal = a.p.portal
                 /\ e.rc = DBERR_NO_ERROR => a.st # PGRES_FATAL_ERROR
                 /\ e.rc = DBERR_NO_ERROR => e.p.priv[x] = NewResult(a.cols, a.rows)
                 /\ e.rc # DBERR_NO_ERROR => a.st = PGRES_FATAL_ERROR
    BY <1>2, <1>8
  <1>10. /\ NewResult(a.cols, a.rows) # NoResult
         /\ NewResult(a.cols, a.rows).rows = a.rows
    BY <1>3, NewResultOk DEF Serves, AnswerOk
  <1>11. \A z \in CursorNames \ {x} : e.p.portal[z] = p.portal[z] /\ e.p.priv[z] = p.priv[z]
    BY <1>3, <1>8, <1>9 DEF Serves, Runs
  <1>12. p.portal[x] \in Portal
    BY DEF DriverOk, Driver
  <1>13. PICK t : t = p.portal[x]
    OBVIOUS
  <1>14. /\ e.p.portal[x].kind = t.kind /\ e.p.portal[x].rows = t.rows
         /\ e.rc = DBERR_NO_ERROR =>
               /\ t.kind # "none"
               /\ \/ a.rows = 1 /\ t.at < t.rows /\ e.p.portal[x].at = t.at + 1
                  \/ a.rows = 0 /\ t.at = t.rows /\ e.p.portal[x] = t
         /\ e.rc # DBERR_NO_ERROR => e.p.portal = p.portal
    <2>1. CASE a.st = PGRES_FATAL_ERROR
      BY <1>3, <1>9, <1>13, <2>1 DEF Serves
    <2>2. CASE a.st # PGRES_FATAL_ERROR
      <3>1. \/ a.rows = 1 /\ t.at < t.rows /\ e.p.portal[x] = [t EXCEPT !.at = @ + 1]
            \/ a.rows = 0 /\ t.at = t.rows /\ e.p.portal[x] = t
        BY <1>3, <1>9, <1>13, <2>2
      <3> QED
        BY <1>3, <1>9, <1>12, <1>13, <2>2, <3>1 DEF Portal
    <2> QED
      BY <2>1, <2>2
  <1>15. e.rc \in {DBERR_NO_ERROR, DBERR_SQL_ERROR} /\ DriverOk(e.p)
         /\ e.p.connaddr = p.connaddr /\ e.p.off = p.off /\ e.rc \in Int
    BY <1>8 DEF Runs
  <1>16. e.rc # DBERR_NO_ERROR => e.p.priv = p.priv
    <2>1. e.rc # DBERR_NO_ERROR => \A z \in CursorNames : e.p.priv[z] = p.priv[z]
      BY <1>8 DEF Runs
    <2> QED
      BY <1>15, <2>1 DEF DriverOk, Driver
  <1>17. PICK q : q = [e.p EXCEPT !.last_rc = e.rc]
    OBVIOUS
  <1>18. /\ r.p = q
         /\ r.rc = IF e.rc # DBERR_NO_ERROR THEN DBERR_SQL_ERROR
                   ELSE IF e.p.priv[x].rows = 0 THEN DBERR_NO_DATA ELSE DBERR_NO_ERROR
    BY <1>6, <1>17, ReturnsFields DEF Delivered
  <1>19. /\ DriverOk(q) /\ SameSession(e.p, q) /\ q.priv = e.p.priv /\ q.last_rc = e.rc
    BY <1>15, <1>17, CodeOk
  <1>20. /\ q.portal = e.p.portal /\ q.tx = e.p.tx /\ q.connaddr = e.p.connaddr /\ q.off = e.p.off
    BY <1>19 DEF SameSession
  <1>21. r.rc # DBERR_SQL_ERROR => r.p.priv[x] # NoResult /\ p.portal[x].kind # "none"
    BY <1>9, <1>10, <1>13, <1>14, <1>15, <1>18, <1>19
  <1>22. r.rc = DBERR_SQL_ERROR => r.p.portal = p.portal /\ r.p.priv = p.priv
    BY <1>14, <1>16, <1>18, <1>19, <1>20
  <1>23. FetchedBy(p, x, r)
    BY <1>8, <1>11, <1>13, <1>14, <1>15, <1>18, <1>19, <1>20, <1>21, <1>22 DEF FetchedBy
  <1> QED
    BY <1>9, <1>10, <1>13, <1>14, <1>15, <1>18, <1>20, <1>23

LEMMA NullDriverOk ==
    /\ DriverOk(NullDriver) /\ NullDriver \in Driver
    /\ ~NullDriver.connaddr /\ NullDriver.tx = "idle" /\ ~NullDriver.dirty
    /\ \A x \in CursorNames : NullDriver.portal[x] = NoPortal /\ NullDriver.priv[x] = NoResult
  <1>1. NullDriver \in Driver
    BY NoPortalOk DEF NullDriver, Driver
  <1> QED
    BY <1>1, NoPortalOk DEF NullDriver, DriverOk

\* A driver that has nothing of any cursor and no transaction that could be lost.
Blank(q) ==
    /\ DriverOk(q)
    /\ ~q.dirty
    /\ \A x \in CursorNames : q.portal[x] = NoPortal /\ q.priv[x] = NoResult

LEMMA TerminatedDriver ==
    ASSUME NEW p, DriverOk(p), NEW q, q = terminate_connection(p)
    PROVE  Blank(q) /\ ~q.connaddr
  <1>1. /\ p.off \in BOOLEAN /\ p.last_rc \in Int
        /\ p.text \in [StmtNames -> AllStatements \cup {NoStmt}]
        /\ p.res \in [StmtNames -> Result \cup {NoResult}]
    BY DEF DriverOk, Driver
  <1>2. PICK f \in {"none", "committed", "lost"} : f = IF p.dirty THEN "lost" ELSE "none"
    OBVIOUS
  <1>3. q = [NullDriver EXCEPT !.off = p.off, !.text = p.text, !.res = p.res,
                               !.last_rc = p.last_rc, !.fate = f]
    BY <1>2 DEF terminate_connection
  <1>4. /\ q \in Driver /\ q.portal = NullDriver.portal /\ q.priv = NullDriver.priv
        /\ q.connaddr = NullDriver.connaddr /\ q.tx = NullDriver.tx /\ q.dirty = NullDriver.dirty
    BY <1>1, <1>2, <1>3, NullDriverOk DEF Driver
  <1> QED
    BY <1>4, NullDriverOk DEF Blank, DriverOk

LEMMA ConnectedDriver ==
    ASSUME NEW off \in BOOLEAN, NEW q, q = connect(off)
    PROVE  Blank(q) /\ q.connaddr
  <1>1. PICK t \in {"idle", "open", "failed"} : t = IF off THEN "open" ELSE "idle"
    OBVIOUS
  <1>2. q = [NullDriver EXCEPT !.connaddr = TRUE, !.off = off, !.tx = t]
    BY <1>1 DEF connect
  <1>3. /\ q \in Driver /\ q.portal = NullDriver.portal /\ q.priv = NullDriver.priv
        /\ q.connaddr /\ q.dirty = NullDriver.dirty
    BY <1>1, <1>2, NullDriverOk DEF Driver
  <1> QED
    BY <1>3, NullDriverOk DEF Blank, DriverOk

---------------------------------------------------------------------------
(* What the abstract cursors are.                                          *)

\* The server, or with emulated cursors the driver, has rows for the cursor.
Live(p, x) == IF NativeCursors THEN p.portal[x].kind # "none" ELSE p.priv[x] # NoResult

ClosedView == [open |-> FALSE, rows |-> 0, at |-> 0]

View(p, x) ==
    IF Live(p, x)
    THEN [open |-> TRUE, rows |-> Length(p, x),
          at |-> IF Row(p, x) < Length(p, x) THEN Row(p, x) ELSE Length(p, x)]
    ELSE ClosedView

\* No cursor is moved: one that has rows has those it had or is before its first.
ViewsKept(p, q) ==
    \A x \in CursorNames : Live(q, x) =>
        \/ Row(q, x) = 0
        \/ Live(p, x) /\ Row(q, x) = Row(p, x) /\ Length(q, x) = Length(p, x)

LEMMA ViewsAre ==
    ASSUME NEW x
    PROVE  /\ CursorView(x) = IF cursor[x].conn = NoConn THEN ClosedView
                              ELSE View(pg[cursor[x].conn], x)
           /\ CursorView(x)' = IF cursor'[x].conn = NoConn THEN ClosedView
                               ELSE View(pg'[cursor'[x].conn], x)
  BY DEF CursorView, View, Live, Row, Length, ClosedView

LEMMA LengthOk ==
    ASSUME NEW p, DriverOk(p), NEW x \in CursorNames, Live(p, x)
    PROVE  Length(p, x) \in 0..MaxRows /\ Row(p, x) \in Int
  <1>1. CASE NativeCursors
    BY <1>1, PgsqlAssumption DEF Length, Row, DriverOk, Driver, Portal
  <1>2. CASE ~NativeCursors
    <2>1. p.priv[x] \in Result
      BY <1>2 DEF Live, DriverOk, Driver
    <2> QED
      BY <1>2, <2>1, PgsqlAssumption DEF Length, Row, Result
  <1> QED
    BY <1>1, <1>2

\* A cursor that has rows is bound to the connection of the driver.
LEMMA LiveIsBound ==
    ASSUME PgCursors, NEW x \in CursorNames, NEW c \in ConnIds, Live(pg[c], x)
    PROVE  cursor[x].conn = c
  BY DEF PgCursors, Live

\* A call other than FETCH is one of the abstract specification.
LEMMA CallView ==
    ASSUME PgCursors, PgDrivers', CurTypeOK',
           \A c \in ConnIds : ViewsKept(pg[c], pg'[c]),
           answer' = NoAnswer
    PROVE  Abstract!Call
  <1>1. ASSUME NEW x \in CursorNames
        PROVE  CursorView(x)' \in {[open |-> TRUE, rows |-> n, at |-> 0] : n \in 0..MaxRows}
                                     \cup {ClosedView, CursorView(x)}
    <2>1. PICK d : d = cursor'[x].conn
      OBVIOUS
    <2>2. d \in ConnIds \cup {NoConn} /\ NoConn \notin ConnIds
      BY <2>1 DEF CurTypeOK, Cursor, NoConn, ConnIds
    <2>3. CASE d = NoConn
      BY <2>1, <2>3, ViewsAre
    <2>4. CASE d # NoConn
      <3>1. CursorView(x)' = View(pg'[d], x) /\ d \in ConnIds /\ DriverOk(pg'[d])
        BY <2>1, <2>2, <2>4, ViewsAre DEF PgDrivers
      <3>2. CASE ~Live(pg'[d], x)
        BY <3>1, <3>2 DEF View
      <3>3. CASE Live(pg'[d], x) /\ Row(pg'[d], x) = 0
        <4>1. Length(pg'[d], x) \in 0..MaxRows
          BY <3>1, <3>3, LengthOk
        <4>3. 0 < Length(pg'[d], x) \/ Length(pg'[d], x) = 0
          BY <4>1, PgsqlAssumption
        <4>2. View(pg'[d], x) = [open |-> TRUE, rows |-> Length(pg'[d], x), at |-> 0]
          BY <3>3, <4>3 DEF View
        <4> QED
          BY <3>1, <4>1, <4>2
      <3>4. CASE /\ Live(pg'[d], x) /\ Live(pg[d], x)
                 /\ Row(pg'[d], x) = Row(pg[d], x) /\ Length(pg'[d], x) = Length(pg[d], x)
        <4>1. cursor[x].conn = d
          BY <3>1, <3>4, LiveIsBound
        <4>2. CursorView(x) = View(pg[d], x)
          BY <2>4, <4>1, ViewsAre
        <4>3. View(pg'[d], x) = View(pg[d], x)
          BY <3>4 DEF View
        <4> QED
          BY <3>1, <4>2, <4>3
      <3> QED
        BY <3>1, <3>2, <3>3, <3>4 DEF ViewsKept
    <2> QED
      BY <2>3, <2>4
  <1> QED
    BY <1>1 DEF Abstract!Call, Abstract!NoAnswer, Abstract!Opened, Abstract!Closed, NoAnswer, ClosedView

---------------------------------------------------------------------------
(* What the action properties say of one step.                             *)

HeldTruth ==
    \A c \in ConnIds, x \in CursorNames :
        sent'.by # "none" /\ pg[c].portal[x].kind = "held" => pg'[c].portal[x] = pg[c].portal[x]

RestartTruth ==
    \A c \in ConnIds :
        (pg[c].off /\ pg[c].tx # "idle" /\ pg'[c].connaddr /\ pg'[c].tx = "idle") =>
            ret'.rc = "FAILED" \/ sent'.by \in {"prepared", "prepared_into"}

LossTruth ==
    ~NativeCursors /\ CodesTold =>
        \A c \in ConnIds :
            (/\ alive'
             /\ ret'.conn = c
             /\ pg'[c].fate = "lost"
             /\ sent'.stmt \in {"COMMIT", "COMMIT_WORK"}
             /\ ret'.rc = "SUCCESS") => warned[c]

FetchTruth ==
    NativeCursors /\ NorecCode > 0 => (answer'.kind = "error" => sqlcode' # "norec")

GoodStep ==
    /\ PgInv'
    /\ HeldTruth
    /\ RestartTruth
    /\ LossTruth
    /\ FetchTruth
    /\ Abstract!Next

\* The call has reported an error of connection c, so that warned is set.
Alarmed(c) ==
    ret'.conn = c /\ ret'.rc = "FAILED" /\ sqlcode' \in {"warning", "error"}

\* With emulated cursors a transaction that fails is reported.
AlarmTruth ==
    ~NativeCursors /\ CodesTold =>
        \A c \in ConnIds : Doomed(pg'[c]) => Doomed(pg[c]) \/ Alarmed(c)

\* What the observer records of a call.
LEMMA ObserveIs ==
    ASSUME PgWarned, AlarmTruth, PgDrivers', NEW by \in Ways,
           NEW stmt \in AllStatements \cup {NoStmt}, Observe(by, stmt)
    PROVE  /\ PgWarned'
           /\ sent'.by = by /\ sent'.stmt = stmt
           /\ warned' \in [ConnIds -> BOOLEAN]
  <1>1. /\ sent'.by = by /\ sent'.stmt = stmt
        /\ warned' = [c \in ConnIds |-> pg'[c].dirty /\ (warned[c] \/ Alarmed(c))]
    BY DEF Observe, Alarmed
  <1>2. warned' \in [ConnIds -> BOOLEAN]
    BY <1>1
  <1>3. ASSUME ~NativeCursors, CodesTold, NEW c \in ConnIds, Doomed(pg'[c])
        PROVE  warned'[c]
    BY <1>1, <1>3 DEF PgWarned, AlarmTruth, Doomed
  <1>4. PgWarned'
    BY <1>3 DEF PgWarned, CodesTold, Doomed
  <1> QED
    BY <1>1, <1>2, <1>4

LEMMA NoAnswerType ==
    ASSUME answer' = NoAnswer
    PROVE  /\ answer'.kind = "none" /\ answer'.x \in CursorNames \cup {NoStmt}
           /\ answer'.row \in 0..MaxRows
  BY CountsOk DEF NoAnswer

\* What every call but FETCH has to show.
LEMMA CallStep ==
    ASSUME PgInv, AnyCall, pg' \in [ConnIds -> Driver], PgDrivers', PgCursors',
           source' \in [CursorNames -> StmtNames \cup {NoStmt}],
           \A c \in ConnIds : ViewsKept(pg[c], pg'[c]),
           answer' = NoAnswer,
           NEW by \in Ways, NEW stmt \in AllStatements \cup {NoStmt}, Observe(by, stmt),
           HeldTruth, RestartTruth, LossTruth, AlarmTruth
    PROVE  GoodStep
  <1>1. StateInv'
    BY AnyCallStateInv DEF PgInv
  <1>2. CurTypeOK'
    BY <1>1 DEF StateInv
  <1>3. Abstract!Next
    BY <1>2, CallView DEF Abstract!Next, PgInv
  <1>4. PgWarned' /\ sent'.by = by /\ sent'.stmt = stmt /\ warned' \in [ConnIds -> BOOLEAN]
    BY ObserveIs DEF PgInv
  <1>5. PgTypeOK'
    BY <1>4, NoAnswerType DEF PgTypeOK
  <1>6. FetchTruth
    BY NoAnswerType DEF FetchTruth
  <1> QED
    BY <1>1, <1>3, <1>4, <1>5, <1>6 DEF GoodStep, PgInv

---------------------------------------------------------------------------
(* Calls that leave the registries as they are, or close cursors.          *)

RuntimeKept ==
    /\ UNCHANGED <<next_conn_id, cursors>>
    /\ \A x \in CursorNames :
          /\ cursor'[x].conn = cursor[x].conn
          /\ cursor'[x].hold = cursor[x].hold
          /\ cursor'[x].open => cursor[x].open

\* The driver keeps what it has of the cursor, and the runtime what it knows.
KeptCursor(c, x) ==
    /\ Carried(pg[c].portal[x], pg'[c].portal[x])
    /\ pg'[c].priv[x] = pg[c].priv[x]
    /\ cursor[x].conn = c => cursor'[x].drv = cursor[x].drv

\* The driver has closed the cursor.
ShutCursor(c, x) ==
    /\ pg'[c].priv[x] = NoResult
    /\ \/ Carried(pg[c].portal[x], pg'[c].portal[x])
       \/ pg'[c].portal[x] = NoPortal
    /\ cursor[x].conn = c =>
          /\ cursor'[x].drv # "open"
          /\ cursor'[x].open => pg'[c].portal[x].kind = "none"

DriversShed ==
    /\ pg' \in [ConnIds -> Driver]
    /\ \A c \in ConnIds :
          /\ DriverOk(pg'[c])
          /\ pg'[c].connaddr => pg[c].connaddr
          /\ \A x \in CursorNames : KeptCursor(c, x) \/ ShutCursor(c, x)

LEMMA CarriedKinds ==
    ASSUME NEW a \in Portal, NEW b, Carried(a, b), PortalOk(a)
    PROVE  /\ b.kind # "none" => a.kind # "none" /\ b.rows = a.rows /\ b.at = a.at
           /\ b.kind \in {"hold", "held"} => a.kind \in {"hold", "held"}
           /\ a.kind = "held" => b = a
  <1>1. CASE b = a \/ b = NoPortal
    BY <1>1, NoPortalOk DEF Carried
  <1>2. CASE a.kind = "hold" /\ b = [a EXCEPT !.kind = "held"]
    BY <1>2 DEF Portal
  <1> QED
    BY <1>1, <1>2 DEF Carried

\* A portal that is carried or closed.
LEMMA ShedKinds ==
    ASSUME NEW a \in Portal, NEW b, Carried(a, b) \/ b = NoPortal, PortalOk(a)
    PROVE  /\ b.kind # "none" => a.kind # "none" /\ b.rows = a.rows /\ b.at = a.at
           /\ b.kind \in {"hold", "held"} => a.kind \in {"hold", "held"}
  BY CarriedKinds, NoPortalOk

LEMMA ShedViews ==
    ASSUME PgDrivers, DriversShed, NEW c \in ConnIds
    PROVE  ViewsKept(pg[c], pg'[c])
  <1> SUFFICES ASSUME NEW x \in CursorNames, Live(pg'[c], x)
               PROVE  /\ Live(pg[c], x) /\ Row(pg'[c], x) = Row(pg[c], x)
                      /\ Length(pg'[c], x) = Length(pg[c], x)
    BY DEF ViewsKept
  <1>1. pg[c].portal[x] \in Portal /\ PortalOk(pg[c].portal[x])
    BY DEF PgDrivers, DriverOk, Driver
  <1>2. /\ Carried(pg[c].portal[x], pg'[c].portal[x]) \/ pg'[c].portal[x] = NoPortal
        /\ pg'[c].priv[x] \in {pg[c].priv[x], NoResult}
    BY DEF DriversShed, KeptCursor, ShutCursor
  <1>3. PICK a, b : a = pg[c].portal[x] /\ b = pg'[c].portal[x]
    OBVIOUS
  <1>4. b.kind # "none" => a.kind # "none" /\ b.rows = a.rows /\ b.at = a.at
    BY <1>1, <1>2, <1>3, ShedKinds
  <1> QED
    BY <1>2, <1>3, <1>4 DEF Live, Row, Length

LEMMA ShedCursors ==
    ASSUME PgInv, RuntimeKept, DriversShed, UNCHANGED source
    PROVE  PgCursors'
  <1> SUFFICES ASSUME NEW x \in CursorNames
               PROVE  /\ x \notin cursors' => cursor'[x].conn = NoConn
                      /\ \A c \in ConnIds :
                            /\ pg'[c].portal[x].kind # "none" => cursor'[x].conn = c
                            /\ pg'[c].portal[x].kind \in {"hold", "held"} => cursor'[x].hold
                            /\ pg'[c].priv[x] # NoResult =>
                                  cursor'[x].conn = c /\ cursor'[x].drv = "open"
                            /\ cursor'[x].conn = c /\ cursor'[x].open /\ cursor'[x].drv # "open" =>
                                  pg'[c].portal[x].kind = "none"
                            /\ cursor'[x].conn = c /\ cursor'[x].drv = "open" /\ source'[x] = NoStmt =>
                                  pg'[c].priv[x] # NoResult
    BY DEF PgCursors
  <1>1. PgDrivers /\ PgCursors
    BY DEF PgInv
  <1>2. x \notin cursors' => cursor'[x].conn = NoConn
    BY <1>1 DEF PgCursors, RuntimeKept
  <1>3. ASSUME NEW c \in ConnIds
        PROVE  /\ pg'[c].portal[x].kind # "none" => cursor'[x].conn = c
               /\ pg'[c].portal[x].kind \in {"hold", "held"} => cursor'[x].hold
               /\ pg'[c].priv[x] # NoResult =>
                     cursor'[x].conn = c /\ cursor'[x].drv = "open"
               /\ cursor'[x].conn = c /\ cursor'[x].open /\ cursor'[x].drv # "open" =>
                     pg'[c].portal[x].kind = "none"
               /\ cursor'[x].conn = c /\ cursor'[x].drv = "open" /\ source'[x] = NoStmt =>
                     pg'[c].priv[x] # NoResult
    <2>1. PICK a, b : a = pg[c].portal[x] /\ b = pg'[c].portal[x]
      OBVIOUS
    <2>2. a \in Portal /\ PortalOk(a)
      BY <1>1, <2>1 DEF PgDrivers, DriverOk, Driver
    <2>3. /\ b.kind # "none" => a.kind # "none"
          /\ b.kind \in {"hold", "held"} => a.kind \in {"hold", "held"}
      BY <2>1, <2>2, ShedKinds DEF DriversShed, KeptCursor, ShutCursor
    <2>4. /\ a.kind # "none" => cursor[x].conn = c
          /\ a.kind \in {"hold", "held"} => cursor[x].hold
          /\ pg[c].priv[x] # NoResult => cursor[x].conn = c /\ cursor[x].drv = "open"
          /\ cursor[x].conn = c /\ cursor[x].open /\ cursor[x].drv # "open" => a.kind = "none"
          /\ cursor[x].conn = c /\ cursor[x].drv = "open" /\ source[x] = NoStmt =>
                pg[c].priv[x] # NoResult
      BY <1>1, <2>1 DEF PgCursors
    <2>5. /\ cursor'[x].conn = cursor[x].conn /\ cursor'[x].hold = cursor[x].hold
          /\ cursor'[x].open => cursor[x].open
      BY DEF RuntimeKept
    <2>6. CASE KeptCursor(c, x)
      BY <2>1, <2>3, <2>4, <2>5, <2>6 DEF KeptCursor
    <2>7. CASE ShutCursor(c, x)
      BY <2>1, <2>3, <2>4, <2>5, <2>7 DEF ShutCursor
    <2> QED
      BY <2>6, <2>7 DEF DriversShed
  <1> QED
    BY <1>2, <1>3

LEMMA ShedStep ==
    ASSUME PgInv, AnyCall, RuntimeKept, DriversShed, UNCHANGED source, answer' = NoAnswer,
           NEW by \in Ways, NEW stmt \in AllStatements \cup {NoStmt}, Observe(by, stmt),
           HeldTruth, RestartTruth, LossTruth, AlarmTruth
    PROVE  GoodStep
  <1>1. PgDrivers /\ source \in [CursorNames -> StmtNames \cup {NoStmt}]
    BY DEF PgInv, PgTypeOK
  <1>2. PgDrivers'
    BY <1>1 DEF PgDrivers, RuntimeKept, DriversShed
  <1>3. PgCursors'
    BY ShedCursors
  <1>4. \A c \in ConnIds : ViewsKept(pg[c], pg'[c])
    BY <1>1, ShedViews
  <1>5. pg' \in [ConnIds -> Driver]
    BY DEF DriversShed
  <1> QED
    BY <1>1, <1>2, <1>3, <1>4, <1>5, CallStep

\* A call that does not come to a driver.
LEMMA UntouchedStep ==
    ASSUME PgInv, AnyCall, RuntimeKept, UNCHANGED <<pg, source>>, answer' = NoAnswer,
           \A x \in CursorNames : cursor'[x].drv = cursor[x].drv,
           NEW by \in Ways, NEW stmt \in AllStatements \cup {NoStmt}, Observe(by, stmt),
           ret'.rc = "FAILED" \/ stmt = NoStmt
    PROVE  GoodStep
  <1>1. pg \in [ConnIds -> Driver] /\ PgDrivers /\ pg' = pg
    BY DEF PgInv, PgTypeOK
  <1>2. DriversShed
    BY <1>1, CarriedRefl DEF DriversShed, KeptCursor, PgDrivers
  <1>3. HeldTruth /\ RestartTruth /\ AlarmTruth
    BY <1>1 DEF HeldTruth, RestartTruth, AlarmTruth
  <1>4. sent'.stmt = stmt /\ NoStmt \notin {"COMMIT", "COMMIT_WORK"}
    BY PgsqlAssumption DEF Observe, AllStatements
  <1>5. LossTruth
    BY <1>4 DEF LossTruth
  <1> QED
    BY <1>2, <1>3, <1>5, ShedStep

---------------------------------------------------------------------------
(* Calls that reach the driver of one connection.                          *)

LEMMA FreshIs ==
    ASSUME PgDrivers, NEW c \in ConnIds
    PROVE  /\ DriverOk(Fresh(c)) /\ Fresh(c).fate = "none"
           /\ Fresh(c).connaddr = pg[c].connaddr /\ Fresh(c).off = pg[c].off
           /\ Fresh(c).tx = pg[c].tx /\ Fresh(c).dirty = pg[c].dirty
           /\ Fresh(c).portal = pg[c].portal /\ Fresh(c).priv = pg[c].priv
           /\ Fresh(c).text = pg[c].text
           /\ Doomed(Fresh(c)) <=> Doomed(pg[c])
  <1>1. PICK p, q : p = pg[c] /\ q = Fresh(c)
    OBVIOUS
  <1>2. DriverOk(p) /\ p \in Driver /\ q = [p EXCEPT !.fate = "none"]
    BY <1>1 DEF PgDrivers, DriverOk, Fresh
  <1>3. /\ q \in Driver /\ q.fate = "none" /\ q.connaddr = p.connaddr /\ q.off = p.off
        /\ q.tx = p.tx /\ q.dirty = p.dirty /\ q.portal = p.portal /\ q.priv = p.priv
        /\ q.text = p.text
    BY <1>2 DEF Driver
  <1> QED
    BY <1>1, <1>2, <1>3 DEF DriverOk, Doomed

LEMMA BecomesIs ==
    ASSUME PgTypeOK, NEW c \in ConnIds, NEW q \in Driver, Becomes(c, q)
    PROVE  /\ pg' \in [ConnIds -> Driver]
           /\ pg'[c] = q
           /\ \A d \in ConnIds \ {c} : pg'[d] = pg[d]
  BY DEF PgTypeOK, Becomes

\* What the action properties say of the driver of connection c.
OneTruth(c, by, stmt) ==
    /\ by # "none" => \A x \in CursorNames :
                         pg[c].portal[x].kind = "held" => pg'[c].portal[x] = pg[c].portal[x]
    /\ pg[c].off /\ pg[c].tx # "idle" /\ pg'[c].connaddr /\ pg'[c].tx = "idle" =>
          ret'.rc = "FAILED" \/ by \in {"prepared", "prepared_into"}
    /\ ~NativeCursors /\ CodesTold =>
          /\ (/\ pg'[c].fate = "lost" /\ stmt \in {"COMMIT", "COMMIT_WORK"}
              /\ ret'.rc = "SUCCESS") => Doomed(pg[c])
          /\ Doomed(pg'[c]) => Doomed(pg[c]) \/ Alarmed(c)

LEMMA OneTruths ==
    ASSUME PgWarned, NEW c \in ConnIds, \A d \in ConnIds \ {c} : pg'[d] = pg[d],
           NEW by, NEW stmt, Observe(by, stmt), OneTruth(c, by, stmt),
           stmt = NoStmt \/ ret'.conn = c
    PROVE  HeldTruth /\ RestartTruth /\ LossTruth /\ AlarmTruth
  <1>1. sent'.by = by /\ sent'.stmt = stmt /\ NoStmt \notin {"COMMIT", "COMMIT_WORK"}
    BY PgsqlAssumption DEF Observe, AllStatements
  <1>2. HeldTruth
    BY <1>1 DEF HeldTruth, OneTruth
  <1>3. RestartTruth
    BY <1>1 DEF RestartTruth, OneTruth
  <1>4. LossTruth
    BY <1>1 DEF LossTruth, OneTruth, PgWarned
  <1>5. AlarmTruth
    BY DEF AlarmTruth, OneTruth
  <1> QED
    BY <1>2, <1>3, <1>4, <1>5

LEMMA OneStep ==
    ASSUME PgInv, AnyCall, RuntimeKept, NEW c \in ConnIds,
           NEW q, Becomes(c, q), DriverOk(q), q.connaddr = pg[c].connaddr,
           \A x \in CursorNames : KeptCursor(c, x) \/ ShutCursor(c, x),
           \A x \in CursorNames : cursor[x].conn # c => cursor'[x].drv = cursor[x].drv,
           UNCHANGED source, answer' = NoAnswer,
           NEW by \in Ways, NEW stmt \in AllStatements \cup {NoStmt}, Observe(by, stmt),
           OneTruth(c, by, stmt), stmt = NoStmt \/ ret'.conn = c
    PROVE  GoodStep
  <1>1. PgTypeOK /\ PgDrivers /\ PgWarned /\ q \in Driver
    BY DEF PgInv, DriverOk
  <1>2. /\ pg' \in [ConnIds -> Driver]
        /\ pg'[c] = q
        /\ \A d \in ConnIds \ {c} : pg'[d] = pg[d]
    BY <1>1, BecomesIs
  <1>3. DriversShed
    <2>1. \A d \in ConnIds \ {c}, x \in CursorNames : KeptCursor(d, x)
      BY <1>2, CarriedRefl DEF KeptCursor
    <2> QED
      BY <1>1, <1>2, <2>1 DEF DriversShed, PgDrivers
  <1>4. HeldTruth /\ RestartTruth /\ LossTruth /\ AlarmTruth
    BY <1>1, <1>2, OneTruths
  <1> QED
    BY <1>3, <1>4, ShedStep

LEMMA FoundDriver ==
    ASSUME PgInv, NEW n \in Names \cup {NoName}, NEW c, c = get(n), c # NoConn
    PROVE  c \in ConnIds /\ c \in connections /\ DriverOk(Fresh(c))
  <1>1. StateInv /\ PgDrivers /\ ConnTypeOK
    BY DEF PgInv, StateInv
  <1>2. c \in ConnIds /\ c \in connections
    BY <1>1, GetType, GetRegistered DEF ConnTypeOK
  <1> QED
    BY <1>1, <1>2, FreshIs

\* An error code of a failed transaction is an error or a warning for the program.
LEMMA ToldIsAlarm ==
    ASSUME NEW p, NEW r, Told(p, r), Doomed(r.p), ~Doomed(p), CodesTold,
           r.rc # DBERR_NO_ERROR => Reports(r), NEW c, ret'.conn = c
    PROVE  Alarmed(c)
  <1>1. r.rc # DBERR_NO_ERROR /\ r.p.last_rc \in {PGRES_FATAL_ERROR, Refusal}
    BY DEF Told
  <1>2. ret'.rc = "FAILED" /\ sqlcode' = Status(r.p.last_rc, DBERR_SQL_ERROR)
    BY <1>1 DEF Reports
  <1>3. Status(r.p.last_rc, DBERR_SQL_ERROR) \in {"warning", "error"}
    BY <1>1 DEF CodesTold, Refusal, PGRES_FATAL_ERROR, Status, Outcome, setStatus, is_data_error,
                DBERR_SQL_ERROR, DBERR_NO_ERROR, DBERR_NO_DATA, DBERR_NUM_OUT_OF_RANGE
  <1> QED
    BY <1>2, <1>3 DEF Alarmed

---------------------------------------------------------------------------
(***************************************************************************)
(* closeConnectionCursors() is a fold over the set of the cursors it       *)
(* closes.  FoldSet is the choice of a function on the subsets of that     *)
(* set; that there is one is shown for finite sets, by least               *)
(* counterexample, and so is what the driver is after any of these folds.  *)
(***************************************************************************)

FoldStep(g, base, s) ==
    IF s = {} THEN base ELSE LET x == CHOOSE y \in s : TRUE IN cursor_close(g[s \ {x}], x)

Iterates(g, base, S) == g = [s \in SUBSET S |-> FoldStep(g, base, s)]

LEMMA FoldIs ==
    ASSUME NEW base, NEW S
    PROVE  FoldSet(LAMBDA x, p : cursor_close(p, x), base, S)
           = (CHOOSE g : Iterates(g, base, S))[S]
  BY DEF FoldSet, MapThenFoldSet, Iterates, FoldStep

LEMMA LeastNat ==
    ASSUME NEW T \in SUBSET Nat, T # {}
    PROVE  \E n \in T : \A m \in T : n <= m
  <1>1. PICK j \in T : \A i \in T : ~ (<<i, j>> \in OpToRel(<, Nat))
    BY NatLessThanWellFounded, WFMin
  <1>2. \A i \in T : ~ (i < j)
    <2> SUFFICES ASSUME NEW i \in T, i < j
                 PROVE  <<i, j>> \in OpToRel(<, Nat)
      BY <1>1
    <2>1. i \in Nat /\ j \in Nat
      OBVIOUS
    <2> QED
      BY <2>1 DEF OpToRel
  <1>3. \A i \in T : i \in Nat /\ j \in Nat
    OBVIOUS
  <1> QED
    BY <1>2, <1>3

\* A subset with one element less.
LEMMA OneLess ==
    ASSUME NEW S, IsFiniteSet(S), NEW s \in SUBSET S
    PROVE  /\ IsFiniteSet(s) /\ Cardinality(s) \in Nat
           /\ Cardinality(s) = 0 <=> s = {}
           /\ s # {} => LET x == CHOOSE y \in s : TRUE
                        IN  /\ x \in s /\ s \ {x} \in SUBSET S
                            /\ Cardinality(s \ {x}) = Cardinality(s) - 1
  BY FS_Subset, FS_CardinalityType, FS_RemoveElement, FS_EmptySet

\* The subsets with at most n elements, and the fold on them.
Small(S, n) == {s \in SUBSET S : Cardinality(s) <= n}

Upto(g, base, S, n) == g = [s \in Small(S, n) |-> FoldStep(g, base, s)]

LEMMA UptoZero ==
    ASSUME NEW base, NEW S, IsFiniteSet(S)
    PROVE  \E g : Upto(g, base, S, 0)
  <1>1. \A s \in Small(S, 0) : s = {}
    <2> SUFFICES ASSUME NEW s \in Small(S, 0) PROVE s = {}
      OBVIOUS
    <2>1. s \in SUBSET S /\ Cardinality(s) <= 0
      BY DEF Small
    <2>2. Cardinality(s) \in Nat /\ (Cardinality(s) = 0 <=> s = {})
      BY <2>1, OneLess
    <2> QED
      BY <2>1, <2>2
  <1>2. PICK g : g = [s \in Small(S, 0) |-> base]
    OBVIOUS
  <1>3. \A s \in Small(S, 0) : FoldStep(g, base, s) = base
    BY <1>1 DEF FoldStep
  <1>4. [s \in Small(S, 0) |-> FoldStep(g, base, s)] = [s \in Small(S, 0) |-> base]
    BY <1>3
  <1> QED
    BY <1>2, <1>4 DEF Upto

LEMMA UptoNext ==
    ASSUME NEW base, NEW S, IsFiniteSet(S), NEW n \in Nat, NEW f, Upto(f, base, S, n)
    PROVE  \E g : Upto(g, base, S, n + 1)
  <1>1. PICK g : g = [s \in Small(S, n + 1) |-> FoldStep(f, base, s)]
    OBVIOUS
  <1>2. \A s \in Small(S, n) : s \in Small(S, n + 1)
    <2> SUFFICES ASSUME NEW s \in Small(S, n) PROVE s \in Small(S, n + 1)
      OBVIOUS
    <2>1. s \in SUBSET S /\ Cardinality(s) <= n
      BY DEF Small
    <2>2. Cardinality(s) \in Nat
      BY <2>1, OneLess
    <2> QED
      BY <2>1, <2>2 DEF Small
  <1>3. \A s \in Small(S, n) : g[s] = f[s]
    BY <1>1, <1>2 DEF Upto
  <1>4. ASSUME NEW s \in Small(S, n + 1)
        PROVE  FoldStep(f, base, s) = FoldStep(g, base, s)
    <2>1. CASE s = {}
      BY <2>1 DEF FoldStep
    <2>2. CASE s # {}
      <3>1. PICK x : x = CHOOSE y \in s : TRUE
        OBVIOUS
      <3>2. s \in SUBSET S /\ Cardinality(s) <= n + 1
        BY DEF Small
      <3>3. /\ Cardinality(s) \in Nat
            /\ s \ {x} \in SUBSET S /\ Cardinality(s \ {x}) = Cardinality(s) - 1
        BY <2>2, <3>1, <3>2, OneLess
      <3>4. s \ {x} \in Small(S, n)
        BY <3>2, <3>3 DEF Small
      <3>5. f[s \ {x}] = g[s \ {x}]
        BY <1>3, <3>4
      <3> QED
        BY <2>2, <3>1, <3>5 DEF FoldStep
    <2> QED
      BY <2>1, <2>2
  <1>5. Upto(g, base, S, n + 1)
    BY <1>1, <1>4 DEF Upto
  <1> QED
    BY <1>5

LEMMA IterationExists ==
    ASSUME NEW base, NEW S, IsFiniteSet(S)
    PROVE  \E g : Iterates(g, base, S)
  <1>1. PICK T : T = {n \in Nat : ~ \E g : Upto(g, base, S, n)}
    OBVIOUS
  <1>2. T = {}
    <2> SUFFICES ASSUME T # {} PROVE FALSE
      OBVIOUS
    <2>1. T \in SUBSET Nat
      BY <1>1
    <2>2. PICK n \in T : \A m \in T : n <= m
      BY <2>1, LeastNat
    <2>3. n \in Nat /\ n # 0
      BY <1>1, UptoZero
    <2>4. PICK k : k = n - 1
      OBVIOUS
    <2>5. k \in Nat /\ k + 1 = n /\ ~(n <= k)
      BY <2>3, <2>4
    <2>6. k \notin T
      BY <2>2, <2>5
    <2>7. PICK f : Upto(f, base, S, k)
      BY <1>1, <2>5, <2>6
    <2>8. \E g : Upto(g, base, S, n)
      BY <2>5, <2>7, UptoNext
    <2> QED
      BY <1>1, <2>8
  <1>3. Cardinality(S) \in Nat /\ Small(S, Cardinality(S)) = SUBSET S
    BY FS_Subset, FS_CardinalityType DEF Small
  <1>4. PICK g : Upto(g, base, S, Cardinality(S))
    BY <1>1, <1>2, <1>3
  <1>5. Iterates(g, base, S)
    BY <1>3, <1>4 DEF Iterates, Upto
  <1> QED
    BY <1>5

\* One more cursor_close() after those of s.
LEMMA SweepOne ==
    ASSUME NEW p, NEW x \in CursorNames, NEW s \in SUBSET CursorNames,
           NEW o, SweptOf(p, s, o), NEW q, q = cursor_close(o, x)
    PROVE  SweptOf(p, s \cup {x}, q)
  <1>1. SweptOf(o, {x}, q)
    BY CursorCloseOk DEF SweptOf
  <1>2. ~NativeCursors => SameSession(p, q)
    BY <1>1 DEF SweptOf, SameSession
  <1>3. \A z \in CursorNames :
           /\ q.priv[z] = IF z \in s \cup {x} THEN NoResult ELSE p.priv[z]
           /\ z \notin s \cup {x} => q.portal[z] = p.portal[z]
           /\ z \in s \cup {x} => q.portal[z] \in {p.portal[z], NoPortal}
    BY <1>1 DEF SweptOf
  <1>4. /\ DriverOk(q) /\ q.connaddr = p.connaddr /\ q.off = p.off
        /\ p.tx # "idle" => q.tx # "idle"
    BY <1>1 DEF SweptOf
  <1> QED
    BY <1>2, <1>3, <1>4 DEF SweptOf

LEMMA SweepNone ==
    ASSUME NEW p, DriverOk(p)
    PROVE  SweptOf(p, {}, p)
  BY SameSessionRefl DEF SweptOf

LEMMA SweepAll ==
    ASSUME NEW p, DriverOk(p), NEW S \in SUBSET CursorNames,
           NEW g, Iterates(g, p, S), IsFiniteSet(S)
    PROVE  SweptOf(p, S, g[S])
  <1>1. \A s \in SUBSET S : g[s] = FoldStep(g, p, s)
    BY DEF Iterates
  <1>2. PICK T : T = {s \in SUBSET S : ~SweptOf(p, s, g[s])}
    OBVIOUS
  <1>3. T = {}
    <2> SUFFICES ASSUME T # {} PROVE FALSE
      OBVIOUS
    <2>1. PICK N : N = {Cardinality(s) : s \in T}
      OBVIOUS
    <2>2. \A s \in T : s \in SUBSET S /\ Cardinality(s) \in Nat /\ Cardinality(s) \in N
      BY <1>2, <2>1, OneLess
    <2>3. N \in SUBSET Nat /\ N # {}
      BY <2>1, <2>2
    <2>4. PICK n \in N : \A m \in N : n <= m
      BY <2>3, LeastNat
    <2>5. PICK s \in T : n = Cardinality(s)
      BY <2>1, <2>4
    <2>6. s \in SUBSET S /\ s \in SUBSET CursorNames /\ Cardinality(s) \in Nat
      BY <1>2, <2>2
    <2>7. SweptOf(p, s, g[s])
      <3>1. CASE s = {}
        <4>1. g[s] = p
          BY <1>1, <2>6, <3>1 DEF FoldStep
        <4> QED
          BY <3>1, <4>1, SweepNone
      <3>2. CASE s # {}
        <4>1. PICK x : x = CHOOSE y \in s : TRUE
          OBVIOUS
        <4>2. PICK t : t = s \ {x}
          OBVIOUS
        <4>3. /\ x \in s /\ t \in SUBSET S /\ Cardinality(t) = Cardinality(s) - 1
          BY <2>6, <3>2, <4>1, <4>2, OneLess
        <4>4. t \notin T
          <5>1. Cardinality(t) \in N => n <= Cardinality(t)
            BY <2>4
          <5>2. ~(n <= Cardinality(t))
            BY <2>5, <2>6, <4>3
          <5> QED
            BY <2>2, <5>1, <5>2
        <4>5. PICK o : o = g[t]
          OBVIOUS
        <4>6. SweptOf(p, t, o)
          BY <1>2, <4>3, <4>4, <4>5
        <4>7. g[s] = cursor_close(o, x)
          BY <1>1, <2>6, <3>2, <4>1, <4>2, <4>5 DEF FoldStep
        <4>8. x \in CursorNames /\ t \in SUBSET CursorNames /\ t \cup {x} = s
          BY <2>6, <4>2, <4>3
        <4> QED
          BY <4>6, <4>7, <4>8, SweepOne
      <3> QED
        BY <3>1, <3>2
    <2> QED
      BY <1>2, <2>7
  <1> QED
    BY <1>2, <1>3

\* The cursors that a statement on connection c closes in the driver.
Closes(c, s) ==
    IF QueryKind(s) = "tx_end" THEN {x \in CursorsOf(c) : ~cursor[x].hold} ELSE {}

LEMMA SweptIs ==
    ASSUME PgInv, NEW c \in ConnIds, NEW s
    PROVE  SweptOf(Fresh(c), Closes(c, s), Swept(c, s))
  <1>1. PICK p, S : p = Fresh(c) /\ S = Closes(c, s)
    OBVIOUS
  <1>2. DriverOk(p) /\ CurTypeOK
    BY <1>1, FreshIs DEF PgInv, StateInv
  <1>3. S \in SUBSET CursorNames /\ IsFiniteSet(S)
    <2>1. S \subseteq CursorNames
      BY <1>1, <1>2 DEF Closes, CursorsOf, CurTypeOK
    <2> QED
      BY <2>1, CursorNamesAssumption, FS_Subset
  <1>4. CASE QueryKind(s) = "tx_end"
    <2>1. PICK g : g = CHOOSE h : Iterates(h, p, S)
      OBVIOUS
    <2>2. Iterates(g, p, S)
      BY <1>3, <2>1, IterationExists
    <2>3. Swept(c, s) = FoldSet(LAMBDA x, q : cursor_close(q, x), Fresh(c), Closes(c, s))
      BY <1>4 DEF Swept, is_commit_or_rollback_statement, Closes
    <2>4. FoldSet(LAMBDA x, q : cursor_close(q, x), Fresh(c), Closes(c, s)) = g[S]
      BY <1>1, <2>1, FoldIs
    <2>5. SweptOf(p, S, g[S])
      BY <1>2, <1>3, <2>2, SweepAll
    <2> QED
      BY <1>1, <2>3, <2>4, <2>5
  <1>5. CASE QueryKind(s) # "tx_end"
    <2>1. Swept(c, s) = p /\ S = {}
      BY <1>1, <1>5 DEF Swept, is_commit_or_rollback_statement, Closes
    <2> QED
      BY <1>1, <1>2, <2>1, SweepNone
  <1> QED
    BY <1>4, <1>5

---------------------------------------------------------------------------
(* Statements.                                                             *)

LEMMA KeptRuntime ==
    ASSUME CurTypeOK, RegistriesKept
    PROVE  RuntimeKept
  BY DEF CurTypeOK, RegistriesKept, RuntimeKept, DriverClosed, Cursor, connVars, registry

\* A call that leaves the registries alone.
LEMMA SameRuntime ==
    ASSUME UNCHANGED <<connVars, curVars>>
    PROVE  RuntimeKept /\ \A x \in CursorNames : cursor'[x].drv = cursor[x].drv
  BY DEF RuntimeKept, connVars, registry, curVars

LEMMA StatementIsCall ==
    ASSUME NEW n \in Names \cup {NoName}, StatementOn(n)
    PROVE  AnyCall
  BY DEF StatementOn, AnyCall

\* A statement on no connection.
LEMMA NotFoundStep ==
    ASSUME PgInv, NEW n \in Names \cup {NoName}, StatementOn(n), get(n) = NoConn,
           UNCHANGED <<cursor, pg, source>>, answer' = NoAnswer,
           NEW by \in Ways, NEW stmt \in AllStatements \cup {NoStmt}, Observe(by, stmt)
    PROVE  GoodStep
  <1>1. CurTypeOK
    BY DEF PgInv, StateInv
  <1>2. RuntimeKept /\ ret'.rc = "FAILED"
    BY <1>1, StatementShared, KeptRuntime
  <1>3. \A x \in CursorNames : cursor'[x].drv = cursor[x].drv
    OBVIOUS
  <1> QED
    BY <1>2, <1>3, StatementIsCall, UntouchedStep

\* What a statement op does to the driver of c if it closes the cursors of S first.
Executed(c, S, op, r) ==
    /\ DriverOk(r.p)
    /\ r.p.connaddr = pg[c].connaddr
    /\ \A x \in CursorNames :
          /\ x \notin S => /\ Carried(pg[c].portal[x], r.p.portal[x])
                           /\ r.p.priv[x] = pg[c].priv[x]
          /\ x \in S => r.p.portal[x] = NoPortal /\ r.p.priv[x] = NoResult
    /\ ~NativeCursors =>
          /\ Told(pg[c], r)
          /\ (/\ r.p.fate = "lost" /\ op \in {"COMMIT", "COMMIT_WORK"}
              /\ r.rc = DBERR_NO_ERROR) => Doomed(pg[c])

LEMMA QuietExecuted ==
    ASSUME PgInv, NEW c \in ConnIds, NEW op, NEW r, Quiet(Fresh(c), r.p), Told(Fresh(c), r),
           NotLost(Fresh(c), op, r)
    PROVE  Executed(c, {}, op, r)
  <1>1. /\ Fresh(c).connaddr = pg[c].connaddr /\ Fresh(c).portal = pg[c].portal
        /\ Fresh(c).priv = pg[c].priv /\ Fresh(c).fate = "none"
        /\ Doomed(Fresh(c)) <=> Doomed(pg[c])
    BY FreshIs DEF PgInv
  <1> QED
    BY <1>1 DEF Executed, Quiet, Told, NotLost

LEMMA ExecExecuted ==
    ASSUME PgInv, NEW c \in ConnIds, NEW s \in Statements, NEW r \in exec(Swept(c, s), s)
    PROVE  Executed(c, Closes(c, s), s, r) /\ Restarted(pg[c], r)
  <1>1. PICK p, o, S : p = Fresh(c) /\ o = Swept(c, s) /\ S = Closes(c, s)
    OBVIOUS
  <1>2. /\ PgDrivers /\ PgCursors /\ CurTypeOK /\ s \in AllStatements /\ NoConn \notin ConnIds
    BY PgsqlAssumption DEF PgInv, StateInv, NoConn, ConnIds
  <1>3. /\ p.connaddr = pg[c].connaddr /\ p.portal = pg[c].portal /\ p.off = pg[c].off
        /\ p.priv = pg[c].priv /\ p.fate = "none" /\ p.tx = pg[c].tx
        /\ Doomed(p) <=> Doomed(pg[c])
    BY <1>1, <1>2, FreshIs
  <1>4. SweptOf(p, S, o)
    BY <1>1, SweptIs
  <1>5. /\ Quiet(o, r.p) /\ Told(o, r) /\ Restarted(o, r) /\ NotLost(o, s, r)
        /\ s \in TxEnds => \A z \in CursorNames : r.p.portal[z].kind \in {"none", "held"}
    BY <1>1, <1>2, <1>4, ExecOk DEF SweptOf
  <1>6. ASSUME NEW x \in CursorNames, x \notin S
        PROVE  Carried(pg[c].portal[x], r.p.portal[x]) /\ r.p.priv[x] = pg[c].priv[x]
    BY <1>3, <1>4, <1>5, <1>6 DEF SweptOf, Quiet
  <1>7. ASSUME NEW x \in CursorNames, x \in S
        PROVE  r.p.portal[x] = NoPortal /\ r.p.priv[x] = NoResult
    <2>1. s \in TxEnds /\ ~cursor[x].hold
      BY <1>1, <1>7 DEF Closes, QueryKind, TxEnds
    <2>2. PICK a, b, d : a = p.portal[x] /\ b = o.portal[x] /\ d = r.p.portal[x]
      OBVIOUS
    <2>3. a.kind \notin {"hold", "held"}
      BY <1>2, <1>3, <2>1, <2>2 DEF PgCursors
    <2>4. b.kind \notin {"hold", "held"} /\ b \in Portal
      BY <1>4, <1>7, <2>2, <2>3, NoPortalOk DEF SweptOf, DriverOk, Driver
    <2>5. d.kind \in {"none", "held"} /\ Carried(b, d) /\ PortalOk(d)
      BY <1>5, <2>1, <2>2 DEF Quiet, DriverOk
    <2>6. d = NoPortal
      BY <2>4, <2>5 DEF Carried, PortalOk
    <2>7. r.p.priv[x] = NoResult
      BY <1>4, <1>5, <1>7 DEF SweptOf, Quiet
    <2> QED
      BY <2>2, <2>6, <2>7
  <1>8. /\ DriverOk(r.p) /\ r.p.connaddr = pg[c].connaddr
    BY <1>3, <1>4, <1>5 DEF SweptOf, Quiet
  <1>9. Restarted(pg[c], r)
    BY <1>3, <1>4, <1>5 DEF SweptOf, Restarted
  <1>10. ~NativeCursors => (Doomed(o) <=> Doomed(pg[c])) /\ o.fate = "none"
    BY <1>3, <1>4, SameDoomed DEF SweptOf, SameSession
  <1>11. ~NativeCursors =>
          /\ Told(pg[c], r)
          /\ (/\ r.p.fate = "lost" /\ s \in {"COMMIT", "COMMIT_WORK"}
              /\ r.rc = DBERR_NO_ERROR) => Doomed(pg[c])
    BY <1>5, <1>10 DEF Told, NotLost
  <1> QED
    BY <1>1, <1>6, <1>7, <1>8, <1>9, <1>11 DEF Executed

\* The runtime closes the cursors that the driver closes.
LEMMA CloseTogether ==
    ASSUME PgInv, NEW c \in ConnIds, NEW s, cursor' = CursorsAtExec(c, QueryKind(s))
    PROVE  \A x \in CursorNames :
              /\ x \in Closes(c, s) => cursor[x].conn = c /\ ~cursor[x].hold /\ cursor'[x].drv # "open"
              /\ x \notin Closes(c, s) => cursor'[x] = cursor[x]
  <1>1. CurTypeOK
    BY DEF PgInv, StateInv
  <1> SUFFICES ASSUME NEW x \in CursorNames
               PROVE  /\ x \in Closes(c, s) => cursor[x].conn = c /\ ~cursor[x].hold /\ cursor'[x].drv # "open"
                      /\ x \notin Closes(c, s) => cursor'[x] = cursor[x]
    OBVIOUS
  <1>2. cursor'[x] = IF x \in Closes(c, s) THEN DriverClosed(cursor[x]) ELSE cursor[x]
    BY DEF CursorsAtExec, is_commit_or_rollback_statement, closeConnectionCursors, Closes
  <1>3. cursor[x] \in Cursor
    BY <1>1 DEF CurTypeOK
  <1>4. DriverClosed(cursor[x]).drv # "open"
    BY <1>3 DEF DriverClosed, Cursor
  <1> QED
    BY <1>2, <1>4 DEF Closes, CursorsOf

\* A statement that the driver of its connection has seen: q is what it has become.
LEMMA StatementStep ==
    ASSUME PgInv, NEW n \in Names \cup {NoName}, StatementOn(n), NEW c, c = get(n), c # NoConn,
           NEW S, NEW op, NEW r, Executed(c, S, op, r),
           \A x \in CursorNames :
              /\ x \in S => cursor[x].conn = c /\ ~cursor[x].hold /\ cursor'[x].drv # "open"
              /\ x \notin S => cursor'[x] = cursor[x],
           NEW q, DriverOk(q), SameSession(r.p, q), q.priv = r.p.priv, Becomes(c, q),
           r.rc # DBERR_NO_ERROR => Reports(r),
           UNCHANGED source, answer' = NoAnswer,
           NEW by \in Ways, NEW stmt \in AllStatements \cup {NoStmt}, Observe(by, stmt),
           stmt \in {op, NoStmt}, by \in {"prepared", "prepared_into"} \/ Restarted(pg[c], r)
    PROVE  GoodStep
  <1>1. CurTypeOK /\ PgTypeOK /\ PgDrivers /\ c \in ConnIds /\ q \in Driver /\ ret'.conn = c
        /\ RuntimeKept /\ AnyCall
    <2>1. CurTypeOK /\ PgTypeOK /\ PgDrivers
      BY DEF PgInv, StateInv
    <2>2. c \in ConnIds /\ q \in Driver
      BY FoundDriver DEF DriverOk
    <2>3. RuntimeKept /\ ret'.conn = c
      BY <2>1, StatementShared, KeptRuntime
    <2> QED
      BY <2>1, <2>2, <2>3, StatementIsCall
  <1>2. pg'[c] = q
    BY <1>1, BecomesIs
  <1>3. \A x \in CursorNames : KeptCursor(c, x) \/ ShutCursor(c, x)
    <2> SUFFICES ASSUME NEW x \in CursorNames PROVE KeptCursor(c, x) \/ ShutCursor(c, x)
      OBVIOUS
    <2>1. q.portal[x] = r.p.portal[x] /\ q.priv[x] = r.p.priv[x]
      BY DEF SameSession
    <2>2. CASE x \in S
      BY <1>2, <2>1, <2>2, NoPortalOk DEF ShutCursor, Executed
    <2>3. CASE x \notin S
      BY <1>2, <2>1, <2>3 DEF KeptCursor, Executed
    <2> QED
      BY <2>2, <2>3
  <1>4. \A x \in CursorNames : cursor[x].conn # c => cursor'[x].drv = cursor[x].drv
    OBVIOUS
  <1>5. /\ r.rc # DBERR_NO_ERROR => ret'.rc = "FAILED"
        /\ ret'.rc = "SUCCESS" => r.rc = DBERR_NO_ERROR
    BY DEF Reports
  <1>6. OneTruth(c, by, stmt)
    <2>1. ASSUME NEW x \in CursorNames, pg[c].portal[x].kind = "held"
          PROVE  pg'[c].portal[x] = pg[c].portal[x]
      <3>1. cursor[x].hold /\ pg[c].portal[x] \in Portal /\ PortalOk(pg[c].portal[x])
        BY <1>1, <2>1 DEF PgInv, PgCursors, PgDrivers, DriverOk, Driver
      <3>2. x \notin S
        BY <3>1
      <3> QED
        BY <1>2, <2>1, <3>1, <3>2, CarriedKinds DEF Executed, SameSession
    <2>2. pg[c].off /\ pg[c].tx # "idle" /\ pg'[c].connaddr /\ pg'[c].tx = "idle" =>
             ret'.rc = "FAILED" \/ by \in {"prepared", "prepared_into"}
      BY <1>2, <1>5 DEF Restarted, SameSession
    <2>3. ASSUME ~NativeCursors, pg'[c].fate = "lost", stmt \in {"COMMIT", "COMMIT_WORK"},
                 ret'.rc = "SUCCESS"
          PROVE  Doomed(pg[c])
      <3>1. NoStmt \notin {"COMMIT", "COMMIT_WORK"}
        BY PgsqlAssumption DEF AllStatements
      <3> QED
        BY <1>2, <1>5, <2>3, <3>1 DEF Executed, SameSession
    <2>4. ASSUME ~NativeCursors, CodesTold, Doomed(pg'[c]), ~Doomed(pg[c])
          PROVE  Alarmed(c)
      <3>1. Doomed(r.p)
        BY <1>2, <2>4, SameDoomed
      <3> QED
        BY <1>1, <2>4, <3>1, ToldIsAlarm DEF Executed
    <2> QED
      BY <2>1, <2>2, <2>3, <2>4 DEF OneTruth
  <1>7. q.connaddr = pg[c].connaddr
    BY DEF Executed, SameSession
  <1> QED
    BY <1>1, <1>3, <1>4, <1>6, <1>7, OneStep

\* What the observer is told of.
LEMMA StatementsType ==
    ASSUME PgInv, NEW c \in ConnIds, NEW s \in StmtNames
    PROVE  pg[c].text[s] \in AllStatements \cup {NoStmt} /\ pg[c].text[s] = Fresh(c).text[s]
  BY FreshIs DEF PgInv, PgDrivers, DriverOk, Driver


LEMMA PgExecGood ==
    ASSUME PgInv, NEW n \in Names \cup {NoName}, NEW s \in Statements, PgExec(n, s)
    PROVE  GoodStep
  <1>1. PICK c : c = get(n)
    OBVIOUS
  <1>2. /\ StatementOn(n) /\ UNCHANGED source /\ answer' = NoAnswer
        /\ Observe("exec", s) /\ "exec" \in Ways /\ s \in AllStatements \cup {NoStmt}
    BY RuntimeAssumption, PgsqlAssumption DEF PgExec, StatementOn, Queries, QueryKind, Ways
  <1>3. CASE c = NoConn
    <2>1. UNCHANGED <<cursor, pg>>
      BY <1>1, <1>3 DEF PgExec, GIXSQLExec, StatementRejected, StateUnchanged, curVars,
                        Run, StatementAccepted
    <2> QED
      BY <1>1, <1>2, <1>3, <2>1, NotFoundStep
  <1>4. CASE c # NoConn
    <2>1. PICK r \in exec(Swept(c, s), s) : Reports(r) /\ Becomes(c, r.p)
      BY <1>1, <1>4 DEF PgExec
    <2>2. c \in ConnIds
      BY <1>1, <1>4, FoundDriver
    <2>3. Executed(c, Closes(c, s), s, r) /\ Restarted(pg[c], r)
      BY <2>2, ExecExecuted
    <2>4. cursor' = CursorsAtExec(c, QueryKind(s))
      BY <1>1, <1>4 DEF PgExec, GIXSQLExec, StatementRejected, Run, QueryKind
    <2>5. \A x \in CursorNames :
             /\ x \in Closes(c, s) => cursor[x].conn = c /\ ~cursor[x].hold /\ cursor'[x].drv # "open"
             /\ x \notin Closes(c, s) => cursor'[x] = cursor[x]
      BY <2>2, <2>4, CloseTogether
    <2>6. PICK q, S : q = r.p /\ S = Closes(c, s)
      OBVIOUS
    <2>7. DriverOk(q) /\ SameSession(r.p, q) /\ q.priv = r.p.priv /\ Becomes(c, q)
      BY <2>1, <2>3, <2>6, SameSessionRefl DEF Executed
    <2> QED
      BY <1>1, <1>2, <1>4, <2>1, <2>3, <2>5, <2>6, <2>7, StatementStep
  <1> QED
    BY <1>3, <1>4

LEMMA PgPrepareGood ==
    ASSUME PgInv, NEW n \in Names \cup {NoName}, NEW s \in StmtNames, NEW text \in Statements,
           PgPrepare(n, s, text)
    PROVE  GoodStep
  <1>1. PICK c : c = get(n)
    OBVIOUS
  <1>2. /\ StatementOn(n) /\ UNCHANGED <<source, cursor>> /\ answer' = NoAnswer
        /\ Observe("none", NoStmt) /\ "none" \in Ways /\ text \in AllStatements
    <2>1. UNCHANGED cursor
      BY DEF PgPrepare, GIXSQLPrepareStatement, StatementRejected, StateUnchanged, curVars
    <2> QED
      BY <2>1, RuntimeAssumption, PgsqlAssumption
         DEF PgPrepare, StatementOn, Queries, ObserveOther, Ways
  <1>3. CASE c = NoConn
    BY <1>1, <1>2, <1>3, NotFoundStep DEF PgPrepare
  <1>4. CASE c # NoConn
    <2>1. PICK r \in prepare(Fresh(c), s, text) : Reports(r) /\ Becomes(c, r.p)
      BY <1>1, <1>4 DEF PgPrepare
    <2>2. c \in ConnIds /\ DriverOk(Fresh(c)) /\ PgDrivers
      BY <1>1, <1>4, FoundDriver DEF PgInv
    <2>3. Quiet(Fresh(c), r.p) /\ Told(Fresh(c), r) /\ Restarted(Fresh(c), r)
      BY <1>2, <2>2, PrepareOk
    <2>4. PICK S, op : S = {} /\ op = NoStmt
      OBVIOUS
    <2>5. NotLost(Fresh(c), op, r)
      BY <2>4, PgsqlAssumption DEF NotLost, AllStatements
    <2>6. Executed(c, S, op, r)
      BY <2>2, <2>3, <2>4, <2>5, QuietExecuted
    <2>7. Restarted(pg[c], r)
      BY <2>2, <2>3, FreshIs DEF Restarted
    <2>8. \A x \in CursorNames :
             /\ x \in S => cursor[x].conn = c /\ ~cursor[x].hold /\ cursor'[x].drv # "open"
             /\ x \notin S => cursor'[x] = cursor[x]
      BY <1>2, <2>4
    <2>9. PICK q : q = r.p
      OBVIOUS
    <2>10. DriverOk(q) /\ SameSession(r.p, q) /\ q.priv = r.p.priv /\ Becomes(c, q)
      BY <2>1, <2>6, <2>9, SameSessionRefl DEF Executed
    <2> QED
      BY <1>1, <1>2, <1>4, <2>1, <2>6, <2>7, <2>8, <2>10, StatementStep
  <1> QED
    BY <1>3, <1>4

LEMMA PgExecPreparedGood ==
    ASSUME PgInv, NEW n \in Names \cup {NoName}, NEW s \in StmtNames, PgExecPrepared(n, s)
    PROVE  GoodStep
  <1>1. PICK c, op : c = get(n) /\ op = IF c = NoConn THEN NoStmt ELSE pg[c].text[s]
    OBVIOUS
  <1>2. /\ StatementOn(n) /\ UNCHANGED <<source, cursor>> /\ answer' = NoAnswer
        /\ Observe("prepared", op) /\ "prepared" \in Ways
    <2>1. UNCHANGED cursor
      BY DEF PgExecPrepared, GIXSQLExecPrepared, StatementRejected, StateUnchanged, curVars,
             Run, CursorsAtExec, is_commit_or_rollback_statement
    <2> QED
      BY <1>1, <2>1, RuntimeAssumption DEF PgExecPrepared, StatementOn, Queries, Ways
  <1>3. CASE c = NoConn
    <2>1. op \in AllStatements \cup {NoStmt} /\ UNCHANGED pg
      BY <1>1, <1>3 DEF PgExecPrepared
    <2> QED
      BY <1>1, <1>2, <1>3, <2>1, NotFoundStep
  <1>4. CASE c # NoConn
    <2>1. PICK r \in exec_prepared(Fresh(c), s) : Reports(r) /\ Becomes(c, r.p)
      BY <1>1, <1>4 DEF PgExecPrepared
    <2>2. c \in ConnIds /\ DriverOk(Fresh(c))
      BY <1>1, <1>4, FoundDriver
    <2>3. op = Fresh(c).text[s] /\ op \in AllStatements \cup {NoStmt}
      BY <1>1, <1>4, <2>2, StatementsType
    <2>4. Quiet(Fresh(c), r.p) /\ Told(Fresh(c), r) /\ NotLost(Fresh(c), op, r)
      BY <2>2, <2>3, ExecPreparedOk
    <2>5. PICK S : S = {}
      OBVIOUS
    <2>6. Executed(c, S, op, r)
      BY <2>2, <2>4, <2>5, QuietExecuted
    <2>8. \A x \in CursorNames :
             /\ x \in S => cursor[x].conn = c /\ ~cursor[x].hold /\ cursor'[x].drv # "open"
             /\ x \notin S => cursor'[x] = cursor[x]
      BY <1>2, <2>5
    <2>9. PICK q : q = r.p
      OBVIOUS
    <2>10. DriverOk(q) /\ SameSession(r.p, q) /\ q.priv = r.p.priv /\ Becomes(c, q)
      BY <2>1, <2>6, <2>9, SameSessionRefl DEF Executed
    <2> QED
      BY <1>1, <1>2, <1>4, <2>1, <2>3, <2>6, <2>8, <2>10, StatementStep
  <1> QED
    BY <1>3, <1>4

\* SELECT INTO and EXECUTE INTO, after the statement has run.
LEMMA IntoDriver ==
    ASSUME NEW c, NEW r, DriverOk(r.p), NEW s, NEW nRes, Into(c, r, s, nRes)
    PROVE  \E q : /\ DriverOk(q) /\ SameSession(r.p, q) /\ q.priv = r.p.priv /\ Becomes(c, q)
                  /\ r.rc # DBERR_NO_ERROR => Reports(r)
  <1>1. CASE r.rc # DBERR_NO_ERROR
    BY <1>1, SameSessionRefl DEF Into
  <1>2. CASE r.rc = DBERR_NO_ERROR
    <2>1. PICK m : m = move_to_first_record(r.p, s)
      OBVIOUS
    <2>2. Becomes(c, m.p)
      BY <1>2, <2>1 DEF Into
    <2>3. DriverOk(m.p) /\ SameSession(r.p, m.p) /\ m.p.priv = r.p.priv
      BY <2>1, MoveToFirstOk
    <2> QED
      BY <1>2, <2>2, <2>3
  <1> QED
    BY <1>1, <1>2

LEMMA PgSelectIntoGood ==
    ASSUME PgInv, NEW n \in Names \cup {NoName}, NEW s \in Statements, NEW nRes \in 0..MaxVars,
           PgSelectInto(n, s, nRes)
    PROVE  GoodStep
  <1>1. PICK c : c = get(n)
    OBVIOUS
  <1>2. /\ StatementOn(n) /\ UNCHANGED source /\ answer' = NoAnswer
        /\ Observe("select_into", s) /\ "select_into" \in Ways /\ s \in AllStatements \cup {NoStmt}
    BY RuntimeAssumption, PgsqlAssumption DEF PgSelectInto, StatementOn, Queries, QueryKind, Ways
  <1>3. CASE c = NoConn
    <2>1. UNCHANGED <<cursor, pg>>
      BY <1>1, <1>3 DEF PgSelectInto, GIXSQLExecSelectIntoOne, StatementRejected, StateUnchanged,
                        curVars, RunInto, StatementAccepted
    <2> QED
      BY <1>1, <1>2, <1>3, <2>1, NotFoundStep
  <1>4. CASE c # NoConn
    <2>1. PICK r \in exec(Swept(c, s), s) : Into(c, r, NoStmt, nRes)
      BY <1>1, <1>4 DEF PgSelectInto
    <2>2. c \in ConnIds
      BY <1>1, <1>4, FoundDriver
    <2>3. Executed(c, Closes(c, s), s, r) /\ Restarted(pg[c], r)
      BY <2>2, ExecExecuted
    <2>4. cursor' = CursorsAtExec(c, QueryKind(s))
      BY <1>1, <1>4 DEF PgSelectInto, GIXSQLExecSelectIntoOne, StatementRejected, RunInto, QueryKind
    <2>5. \A x \in CursorNames :
             /\ x \in Closes(c, s) => cursor[x].conn = c /\ ~cursor[x].hold /\ cursor'[x].drv # "open"
             /\ x \notin Closes(c, s) => cursor'[x] = cursor[x]
      BY <2>2, <2>4, CloseTogether
    <2>6. PICK S : S = Closes(c, s)
      OBVIOUS
    <2>7. PICK q : /\ DriverOk(q) /\ SameSession(r.p, q) /\ q.priv = r.p.priv /\ Becomes(c, q)
                   /\ r.rc # DBERR_NO_ERROR => Reports(r)
      BY <2>1, <2>3, IntoDriver DEF Executed
    <2> QED
      BY <1>1, <1>2, <1>4, <2>3, <2>5, <2>6, <2>7, StatementStep
  <1> QED
    BY <1>3, <1>4

LEMMA PgExecPreparedIntoGood ==
    ASSUME PgInv, NEW n \in Names \cup {NoName}, NEW s \in StmtNames,
           NEW nRes \in 0..MaxVars, PgExecPreparedInto(n, s, nRes)
    PROVE  GoodStep
  <1>1. PICK c, op : c = get(n) /\ op = IF c = NoConn THEN NoStmt ELSE pg[c].text[s]
    OBVIOUS
  <1>2. /\ StatementOn(n) /\ UNCHANGED <<source, cursor>> /\ answer' = NoAnswer
        /\ Observe("prepared_into", op) /\ "prepared_into" \in Ways
    <2>1. UNCHANGED cursor
      BY DEF PgExecPreparedInto, GIXSQLExecPreparedInto, StatementRejected, StateUnchanged, curVars,
             RunInto, CursorsAtExec, is_commit_or_rollback_statement
    <2> QED
      BY <1>1, <2>1, RuntimeAssumption DEF PgExecPreparedInto, StatementOn, Queries, Ways
  <1>3. CASE c = NoConn
    <2>1. op \in AllStatements \cup {NoStmt} /\ UNCHANGED pg
      BY <1>1, <1>3 DEF PgExecPreparedInto
    <2> QED
      BY <1>1, <1>2, <1>3, <2>1, NotFoundStep
  <1>4. CASE c # NoConn
    <2>1. PICK r \in exec_prepared(Fresh(c), s) : Into(c, r, s, nRes)
      BY <1>1, <1>4 DEF PgExecPreparedInto
    <2>2. c \in ConnIds /\ DriverOk(Fresh(c))
      BY <1>1, <1>4, FoundDriver
    <2>3. op = Fresh(c).text[s] /\ op \in AllStatements \cup {NoStmt}
      BY <1>1, <1>4, <2>2, StatementsType
    <2>4. Quiet(Fresh(c), r.p) /\ Told(Fresh(c), r) /\ NotLost(Fresh(c), op, r)
      BY <2>2, <2>3, ExecPreparedOk
    <2>5. PICK S : S = {}
      OBVIOUS
    <2>6. Executed(c, S, op, r)
      BY <2>2, <2>4, <2>5, QuietExecuted
    <2>7. PICK q : /\ DriverOk(q) /\ SameSession(r.p, q) /\ q.priv = r.p.priv /\ Becomes(c, q)
                   /\ r.rc # DBERR_NO_ERROR => Reports(r)
      BY <2>1, <2>6, IntoDriver DEF Executed
    <2>8. \A x \in CursorNames :
             /\ x \in S => cursor[x].conn = c /\ ~cursor[x].hold /\ cursor'[x].drv # "open"
             /\ x \notin S => cursor'[x] = cursor[x]
      BY <1>2, <2>5
    <2> QED
      BY <1>1, <1>2, <1>4, <2>3, <2>6, <2>7, <2>8, StatementStep
  <1> QED
    BY <1>3, <1>4

LEMMA PgVarListsGood ==
    ASSUME PgInv, PgVarLists
    PROVE  GoodStep
  <1>1. /\ GIXSQLStartSQL \/ GIXSQLSetResultParams
        /\ UNCHANGED <<pg, source>> /\ answer' = NoAnswer /\ Observe("none", NoStmt)
        /\ "none" \in Ways
    BY DEF PgVarLists, ObserveOther, Ways
  <1>2. AnyCall /\ UNCHANGED <<connVars, curVars>>
    BY <1>1 DEF AnyCall, GIXSQLStartSQL, GIXSQLSetResultParams, VarListCall
  <1> QED
    BY <1>1, <1>2, SameRuntime, UntouchedStep

---------------------------------------------------------------------------
(* Connections.                                                            *)

\* Drivers are started or terminated, and the cursors of those that were are gone.
LEMMA BlankStep ==
    ASSUME PgInv, AnyCall, UNCHANGED source, answer' = NoAnswer, Observe("none", NoStmt),
           pg' \in [ConnIds -> Driver],
           \A c \in ConnIds :
              \/ pg'[c] = pg[c]
              \/ /\ Blank(pg'[c])
                 /\ pg'[c].connaddr => ~pg[c].connaddr
                 /\ \A x \in CursorNames :
                       cursor'[x].conn = c /\ cursor'[x].drv = "open" => source[x] # NoStmt,
           \A c \in ConnIds : pg'[c].connaddr => c <= next_conn_id',
           \A x \in CursorNames :
              /\ x \notin cursors' => cursor'[x].conn = NoConn
              /\ \/ cursor'[x] = cursor[x]
                 \/ /\ cursor'[x] = NullCursor
                    /\ \E c \in ConnIds : cursor[x].conn = c /\ Blank(pg'[c])
    PROVE  GoodStep
  <1>1. /\ PgDrivers /\ PgCursors /\ source \in [CursorNames -> StmtNames \cup {NoStmt}]
        /\ NoConn \notin ConnIds /\ "none" \in Ways
    BY DEF PgInv, PgTypeOK, Ways, NoConn, ConnIds
  <1>2. PgDrivers'
    BY <1>1 DEF PgDrivers, Blank
  <1>3. PgCursors'
    <2> SUFFICES ASSUME NEW x \in CursorNames, NEW c \in ConnIds
                 PROVE  /\ pg'[c].portal[x].kind # "none" => cursor'[x].conn = c
                        /\ pg'[c].portal[x].kind \in {"hold", "held"} => cursor'[x].hold
                        /\ pg'[c].priv[x] # NoResult =>
                              cursor'[x].conn = c /\ cursor'[x].drv = "open"
                        /\ cursor'[x].conn = c /\ cursor'[x].open /\ cursor'[x].drv # "open" =>
                              pg'[c].portal[x].kind = "none"
                        /\ cursor'[x].conn = c /\ cursor'[x].drv = "open" /\ source'[x] = NoStmt =>
                              pg'[c].priv[x] # NoResult
      BY DEF PgCursors
    <2>1. CASE Blank(pg'[c]) /\ (cursor'[x].conn = c /\ cursor'[x].drv = "open" => source[x] # NoStmt)
      BY <2>1, NoPortalOk DEF Blank
    <2>2. CASE pg'[c] = pg[c] /\ cursor'[x] = cursor[x]
      BY <1>1, <2>2 DEF PgCursors
    <2>3. CASE /\ pg'[c] = pg[c] /\ cursor'[x] = NullCursor
               /\ \E d \in ConnIds : cursor[x].conn = d /\ Blank(pg'[d])
      <3>1. cursor'[x].conn = NoConn
        BY <2>3 DEF NullCursor
      <3>2. pg'[c].portal[x].kind = "none" /\ pg'[c].priv[x] = NoResult
        BY <1>1, <2>3, NoPortalOk DEF PgCursors, Blank
      <3> QED
        BY <1>1, <3>1, <3>2
    <2> QED
      BY <2>1, <2>2, <2>3
  <1>4. \A c \in ConnIds : ViewsKept(pg[c], pg'[c])
    BY NoPortalOk DEF ViewsKept, Live, Blank
  <1>5. sent'.by = "none" /\ sent'.stmt = NoStmt /\ NoStmt \notin {"COMMIT", "COMMIT_WORK"}
    BY PgsqlAssumption DEF Observe, AllStatements
  <1>6. HeldTruth /\ LossTruth
    BY <1>5 DEF HeldTruth, LossTruth
  <1>7. RestartTruth
    BY <1>1 DEF RestartTruth, PgDrivers, DriverOk
  <1>8. AlarmTruth
    BY DEF AlarmTruth, Doomed, Blank
  <1> QED
    BY <1>1, <1>2, <1>3, <1>4, <1>6, <1>7, <1>8, CallStep

LEMMA TerminatedStep ==
    ASSUME PgInv, AnyCall, NEW c \in ConnIds, clearConnectionCursors(c), UNCHANGED next_conn_id,
           Terminated(c), UNCHANGED source, answer' = NoAnswer, Observe("none", NoStmt)
    PROVE  GoodStep
  <1>1. /\ PgTypeOK /\ CurTypeOK /\ PgDrivers /\ PgCursors /\ NoConn \notin ConnIds
    BY DEF PgInv, StateInv, NoConn, ConnIds
  <1>2. PICK q : q = terminate_connection(pg[c])
    OBVIOUS
  <1>3. Blank(q) /\ ~q.connaddr /\ q \in Driver
    BY <1>1, <1>2, TerminatedDriver DEF PgDrivers, Blank, DriverOk
  <1>4. /\ pg' \in [ConnIds -> Driver]
        /\ pg'[c] = q
        /\ \A d \in ConnIds \ {c} : pg'[d] = pg[d]
    BY <1>1, <1>2, <1>3, BecomesIs DEF Terminated
  <1>5. \A x \in CursorNames :
           /\ cursor[x].conn = c => cursor'[x] = NullCursor
           /\ cursor[x].conn # c => cursor'[x] = cursor[x]
           /\ x \notin cursors' => x \notin cursors \/ cursor[x].conn = c
    BY <1>1 DEF clearConnectionCursors, CursorsOf, CurTypeOK, PgCursors
  <1>6. NullCursor.conn = NoConn
    BY DEF NullCursor
  <1>7. \A x \in CursorNames : cursor'[x].conn # c
    BY <1>1, <1>5, <1>6
  <1>8. \A d \in ConnIds :
           \/ pg'[d] = pg[d]
           \/ /\ Blank(pg'[d])
              /\ pg'[d].connaddr => ~pg[d].connaddr
              /\ \A x \in CursorNames :
                    cursor'[x].conn = d /\ cursor'[x].drv = "open" => source[x] # NoStmt
    BY <1>3, <1>4, <1>7
  <1>9. \A d \in ConnIds : pg'[d].connaddr => d <= next_conn_id'
    BY <1>1, <1>3, <1>4 DEF PgDrivers
  <1>10. \A x \in CursorNames :
            /\ x \notin cursors' => cursor'[x].conn = NoConn
            /\ \/ cursor'[x] = cursor[x]
               \/ /\ cursor'[x] = NullCursor
                  /\ \E d \in ConnIds : cursor[x].conn = d /\ Blank(pg'[d])
    BY <1>1, <1>3, <1>4, <1>5, <1>6 DEF PgCursors
  <1> QED
    BY <1>4, <1>8, <1>9, <1>10, BlankStep

LEMMA PgConnectResetGood ==
    ASSUME PgInv, NEW n \in Names \cup {NoName}, PgConnectReset(n)
    PROVE  GoodStep
  <1>1. PICK c : c = get(n)
    OBVIOUS
  <1>2. /\ AnyCall /\ UNCHANGED source /\ answer' = NoAnswer /\ Observe("none", NoStmt)
        /\ Terminated(c) /\ "none" \in Ways
    BY <1>1 DEF PgConnectReset, AnyCall, ObserveOther, Ways
  <1>3. CASE c = NoConn
    <2>1. UNCHANGED pg /\ UNCHANGED <<connVars, curVars>>
      BY <1>1, <1>2, <1>3 DEF PgConnectReset, GIXSQLConnectReset, ResetNotFound, Terminated
    <2> QED
      BY <1>2, <2>1, SameRuntime, UntouchedStep
  <1>4. CASE c # NoConn
    <2>1. c \in ConnIds
      BY <1>1, <1>4, FoundDriver
    <2>2. ResetFails("reset", c) \/ ResetOk("reset", c)
      BY <1>1, <1>4 DEF PgConnectReset, GIXSQLConnectReset
    <2>3. clearConnectionCursors(c) /\ UNCHANGED next_conn_id
      BY <2>2 DEF ResetFails, ResetOk, registry
    <2> QED
      BY <1>2, <2>1, <2>3, TerminatedStep
  <1> QED
    BY <1>3, <1>4

LEMMA PgDisconnectGood ==
    ASSUME PgInv, NEW n \in Names \cup {NoName}, PgDisconnect(n)
    PROVE  GoodStep
  <1>1. PICK c : c = get(n)
    OBVIOUS
  <1>2. /\ AnyCall /\ UNCHANGED source /\ answer' = NoAnswer /\ Observe("none", NoStmt)
        /\ Terminated(c) /\ "none" \in Ways
    BY <1>1 DEF PgDisconnect, AnyCall, ObserveOther, Ways
  <1>3. CASE c = NoConn
    <2>1. UNCHANGED pg /\ UNCHANGED <<connVars, curVars>>
      BY <1>1, <1>2, <1>3 DEF PgDisconnect, GIXSQLDisconnect, Terminated
    <2> QED
      BY <1>2, <2>1, SameRuntime, UntouchedStep
  <1>4. CASE c # NoConn
    <2>1. c \in ConnIds
      BY <1>1, <1>4, FoundDriver
    <2>2. clearConnectionCursors(c) /\ UNCHANGED next_conn_id
      BY <1>1, <1>4 DEF PgDisconnect, GIXSQLDisconnect, registry
    <2> QED
      BY <1>2, <2>1, <2>2, TerminatedStep
  <1> QED
    BY <1>3, <1>4

LEMMA PgResetAllGood ==
    ASSUME PgInv, PgResetAll
    PROVE  GoodStep
  <1>1. /\ UNCHANGED source /\ answer' = NoAnswer /\ Observe("none", NoStmt) /\ StateInv
        /\ "none" \in Ways
    BY DEF PgResetAll, ObserveOther, PgInv, Ways
  <1>2. CASE (ResetAllBegin \/ ResetAllEnd) /\ UNCHANGED pg
    <2>1. AnyCall /\ UNCHANGED <<connVars, curVars>>
      BY <1>2 DEF ResetAllBegin, ResetAllEnd, AnyCall
    <2> QED
      BY <1>1, <1>2, <2>1, SameRuntime, UntouchedStep
  <1>3. CASE ResetAllStep /\ Terminated(ret'.conn)
    <2>1. AnyCall
      BY <1>3 DEF AnyCall
    <2>2. PICK d, t :
             /\ d \in pending
             /\ t = get(conn[d].name)
             /\ \/ t = NoConn /\ ResetNotFound("resetall")
                \/ t # NoConn /\ ResetFails("resetall", t)
                \/ t # NoConn /\ ResetOk("resetall", t)
      BY <1>3 DEF ResetAllStep
    <2>3. conn[d].name \in Names
      BY <1>1, <2>2 DEF StateInv, ConnectionsNamed
    <2>4. CASE t = NoConn /\ ResetNotFound("resetall")
      <3>1. ret'.conn = NoConn
        BY <2>4, ReturnIs DEF ResetNotFound, Fail
      <3>2. UNCHANGED pg /\ UNCHANGED <<connVars, curVars>>
        BY <1>3, <2>4, <3>1 DEF ResetNotFound, Terminated
      <3> QED
        BY <1>1, <2>1, <3>2, SameRuntime, UntouchedStep
    <2>5. CASE t # NoConn /\ (ResetFails("resetall", t) \/ ResetOk("resetall", t))
      <3>1. ret'.conn = t
        BY <2>5, ReturnIs DEF ResetFails, DriverFail, ResetOk, Succeed
      <3>2. Terminated(t)
        BY <1>3, <3>1
      <3>3. t \in ConnIds
        BY <2>2, <2>3, <2>5, FoundDriver
      <3>4. clearConnectionCursors(t) /\ UNCHANGED next_conn_id
        BY <2>5 DEF ResetFails, ResetOk, registry
      <3> QED
        BY <1>1, <2>1, <3>2, <3>3, <3>4, TerminatedStep
    <2> QED
      BY <2>2, <2>4, <2>5
  <1> QED
    BY <1>2, <1>3 DEF PgResetAll

\* No cursor is bound to a connection whose driver is replaced.
LEMMA PgConnectOkGood ==
    ASSUME PgInv, NEW n \in Names \cup {NoName}, PgConnect(n), ConnectOk(n)
    PROVE  GoodStep
  <1>1. PICK id, old : id = next_conn_id + 1 /\ old = Replaced(n)
    OBVIOUS
  <1>2. /\ CurTypeOK /\ ConnTypeOK /\ PgDrivers /\ PgCursors /\ PgTypeOK
        /\ NoConn \notin ConnIds
    BY DEF PgInv, StateInv, NoConn, ConnIds
  <1>3. AnyCall /\ UNCHANGED source /\ answer' = NoAnswer /\ Observe("none", NoStmt)
    BY DEF PgConnect, AnyCall, ObserveOther
  <1>4. /\ id \in ConnIds /\ next_conn_id \in Nat
        /\ next_conn_id' = id /\ id # next_conn_id
        /\ UNCHANGED curVars
    BY <1>1, <1>2, NamesAssumption DEF ConnectOk, add, ConnTypeOK, ConnIds
  <1>5. PICK off \in OffModes :
              pg' = [c \in ConnIds |->
                        IF c = id THEN connect(off)
                        ELSE IF conn'[c].session = conn[c].session THEN pg[c]
                        ELSE terminate_connection(pg[c])]
    BY <1>4 DEF PgConnect
  <1>6. Blank(connect(off)) /\ connect(off) \in Driver
    BY ConnectedDriver, CompositionAssumption DEF Blank, DriverOk
  <1>7. ~pg[id].connaddr
    BY <1>1, <1>2, <1>4 DEF PgDrivers
  <1>8. PICK s \in SessionsAfterReplacing(old) :
              conn' = [i \in ConnIds |->
                          IF i = id THEN [name |-> NameFor(n, id), dbi |-> TRUE,
                                          pinned |-> FALSE, session |-> "live"]
                          ELSE IF i = old THEN [conn[i] EXCEPT !.session = s]
                          ELSE conn[i]]
    BY <1>1 DEF ConnectOk
  <1>9. \A c \in ConnIds : conn[c] \in Connection
    BY <1>2 DEF ConnTypeOK
  <1>10. \A c \in ConnIds : c # id /\ conn'[c].session # conn[c].session =>
                              c = old /\ CursorsOf(old) = {}
    <2>1. \A c \in ConnIds : c # id /\ conn'[c].session # conn[c].session =>
                                c = old /\ s # conn[c].session
      BY <1>8, <1>9 DEF Connection
    <2> QED
      BY <1>2, <1>8, <2>1 DEF SessionsAfterReplacing, Destroyed
  <1>11. \A c \in ConnIds : /\ Blank(terminate_connection(pg[c]))
                            /\ ~terminate_connection(pg[c]).connaddr
                            /\ terminate_connection(pg[c]) \in Driver /\ pg[c] \in Driver
    BY <1>2, TerminatedDriver DEF PgDrivers, Blank, DriverOk
  <1>12. /\ pg' \in [ConnIds -> Driver]
         /\ \A c \in ConnIds :
              \/ c # id /\ pg'[c] = pg[c]
              \/ c # id /\ pg'[c] = terminate_connection(pg[c]) /\ CursorsOf(c) = {}
              \/ c = id /\ pg'[c] = connect(off)
    BY <1>5, <1>6, <1>10, <1>11
  <1>13. ASSUME NEW c \in ConnIds
         PROVE  \/ pg'[c] = pg[c]
                \/ /\ Blank(pg'[c])
                   /\ pg'[c].connaddr => ~pg[c].connaddr
                   /\ \A x \in CursorNames :
                         cursor'[x].conn = c /\ cursor'[x].drv = "open" => source[x] # NoStmt
    <2>1. CASE pg'[c] = terminate_connection(pg[c]) /\ CursorsOf(c) = {}
      <3>1. \A x \in CursorNames : cursor'[x].conn # c
        BY <1>2, <1>4, <2>1 DEF CursorsOf, PgCursors, curVars
      <3> QED
        BY <1>11, <2>1, <3>1
    <2>2. CASE c = id /\ pg'[c] = connect(off)
      <3>1. \A x \in CursorNames : pg[c].priv[x] = NoResult
        BY <1>2, <1>7, <2>2 DEF PgDrivers, DriverOk
      <3>2. \A x \in CursorNames :
               cursor'[x].conn = c /\ cursor'[x].drv = "open" => source[x] # NoStmt
        BY <1>2, <1>4, <3>1 DEF PgCursors, curVars
      <3> QED
        BY <1>6, <1>7, <2>2, <3>2
    <2> QED
      BY <1>12, <2>1, <2>2
  <1>14. ASSUME NEW c \in ConnIds, pg'[c].connaddr
         PROVE  c <= next_conn_id'
    <2>1. c \in Nat
      BY NamesAssumption DEF ConnIds
    <2>2. CASE c = id
      BY <1>4, <2>1, <2>2
    <2>3. CASE pg'[c] = pg[c]
      BY <1>1, <1>2, <1>4, <1>14, <2>1, <2>3 DEF PgDrivers
    <2> QED
      BY <1>11, <1>12, <1>14, <2>2, <2>3
  <1>15. \A x \in CursorNames :
            /\ x \notin cursors' => cursor'[x].conn = NoConn
            /\ cursor'[x] = cursor[x]
    BY <1>2, <1>4 DEF PgCursors, curVars
  <1> QED
    BY <1>3, <1>12, <1>13, <1>14, <1>15, BlankStep

LEMMA PgConnectGood ==
    ASSUME PgInv, NEW n \in Names \cup {NoName}, PgConnect(n)
    PROVE  GoodStep
  <1>1. CASE ConnectOk(n)
    BY <1>1, PgConnectOkGood
  <1>2. CASE ConnectDuplicate(n) \/ ConnectFails(n) \/ ConnectNoLibrary(n)
    <2>1. /\ AnyCall /\ UNCHANGED source /\ answer' = NoAnswer /\ Observe("none", NoStmt)
          /\ "none" \in Ways
      BY DEF PgConnect, AnyCall, ObserveOther, Ways
    <2>2. UNCHANGED <<connVars, curVars>>
      BY <1>2 DEF ConnectDuplicate, ConnectFails, ConnectNoLibrary, StateUnchanged
    <2>3. UNCHANGED pg
      BY <2>2 DEF PgConnect, connVars, registry
    <2> QED
      BY <2>1, <2>2, <2>3, SameRuntime, UntouchedStep
  <1> QED
    BY <1>1, <1>2 DEF PgConnect, GIXSQLConnect

---------------------------------------------------------------------------
(* Cursors.                                                                *)

\* The cursor call is one of the runtime's, whatever comes of it.
LEMMA PlainCursorCall ==
    ASSUME NEW x \in CursorNames, GIXSQLCursorFetchOne(x) \/ GIXSQLCursorClose(x)
    PROVE  AnyCall
  <1>1. NoName \in Names \cup {NoName}
    OBVIOUS
  <1> QED
    BY <1>1 DEF AnyCall

\* The connection of an open cursor.
LEMMA OpenIsConnected ==
    ASSUME PgInv, NEW x \in cursors, cursor[x].open, NEW c, c = cursor[x].conn
    PROVE  c \in ConnIds /\ x \in CursorNames /\ cursor[x] \in Cursor
  <1>1. cursor[x] \in Cursor /\ c # NoConn /\ x \in CursorNames
    BY CursorsGood DEF PgInv, CursorGood
  <1> QED
    BY <1>1 DEF Cursor

LEMMA PgCloseGood ==
    ASSUME PgInv, NEW x \in CursorNames, PgClose(x)
    PROVE  GoodStep
  <1>1. PICK c : c = cursor[x].conn
    OBVIOUS
  <1>2. /\ AnyCall /\ UNCHANGED source /\ answer' = NoAnswer /\ Observe("none", NoStmt)
        /\ "none" \in Ways /\ CurTypeOK /\ PgDrivers
    <2>1. GIXSQLCursorClose(x)
      BY DEF PgClose
    <2> QED
      BY <2>1, PlainCursorCall DEF PgClose, ObserveOther, Ways, PgInv, StateInv
  <1>3. CASE ~(x \in cursors /\ cursor[x].open)
    <2>1. UNCHANGED pg /\ UNCHANGED <<connVars, curVars>>
      BY <1>3 DEF PgClose, GIXSQLCursorClose, NoSuchCursor, StateUnchanged
    <2> QED
      BY <1>2, <2>1, SameRuntime, UntouchedStep
  <1>4. CASE x \in cursors /\ cursor[x].open
    <2>1. PICK p, q : p = Fresh(c) /\ q = cursor_close(p, x)
      OBVIOUS
    <2>2. Becomes(c, q) /\ ret'.rc = "SUCCESS"
      BY <1>1, <1>4, <2>1 DEF PgClose
    <2>3. c \in ConnIds /\ cursor[x] \in Cursor
      BY <1>1, <1>4, OpenIsConnected
    <2>4. /\ DriverOk(p) /\ p.connaddr = pg[c].connaddr /\ p.portal = pg[c].portal
          /\ p.priv = pg[c].priv /\ p.tx = pg[c].tx /\ (Doomed(p) <=> Doomed(pg[c]))
      BY <1>2, <2>1, <2>3, FreshIs
    <2>5. SweptOf(p, {x}, q)
      BY <2>1, <2>4, CursorCloseOk
    <2>6. /\ UNCHANGED <<connVars, cursors>>
          /\ cursor' = [cursor EXCEPT ![x] = Reclosed(x, c)]
      BY <1>1, <1>4 DEF PgClose, GIXSQLCursorClose, NoSuchCursor
    <2>7. /\ Reclosed(x, c).conn = c /\ Reclosed(x, c).drv # "open" /\ ~Reclosed(x, c).open
          /\ Reclosed(x, c).hold = cursor[x].hold
      BY <1>1, <2>3 DEF Reclosed, DriverClosed, Bound, Cursor, DriverStates
    <2>8. /\ cursor'[x].drv # "open" /\ ~cursor'[x].open
          /\ \A y \in CursorNames \ {x} : cursor'[y] = cursor[y]
          /\ cursor'[x].conn = c /\ cursor'[x].hold = cursor[x].hold
      BY <1>2, <2>6, <2>7 DEF CurTypeOK
    <2>9. RuntimeKept
      BY <1>1, <2>6, <2>8 DEF RuntimeKept, connVars, registry
    <2>10. pg'[c] = q
      BY <2>2, <2>3, <2>5, BecomesIs DEF PgInv, SweptOf, DriverOk
    <2>11. \A y \in CursorNames : KeptCursor(c, y) \/ ShutCursor(c, y)
      <3>1. ShutCursor(c, x)
        BY <2>4, <2>5, <2>8, <2>10, CarriedRefl DEF ShutCursor, SweptOf
      <3>2. \A y \in CursorNames \ {x} : KeptCursor(c, y)
        BY <2>4, <2>5, <2>8, <2>10, CarriedRefl DEF KeptCursor, SweptOf
      <3> QED
        BY <3>1, <3>2
    <2>12. NoStmt \notin {"COMMIT", "COMMIT_WORK"}
      BY PgsqlAssumption DEF AllStatements
    <2>13. ~NativeCursors => (Doomed(q) <=> Doomed(pg[c]))
      BY <2>4, <2>5, SameDoomed DEF SweptOf
    <2>14. pg[c].tx # "idle" => q.tx # "idle"
      BY <2>4, <2>5 DEF SweptOf
    <2>15. OneTruth(c, "none", NoStmt)
      BY <2>10, <2>12, <2>13, <2>14 DEF OneTruth
    <2>16. DriverOk(q) /\ q.connaddr = pg[c].connaddr
      BY <2>4, <2>5 DEF SweptOf
    <2>17. \A y \in CursorNames : cursor[y].conn # c => cursor'[y].drv = cursor[y].drv
      BY <1>1, <2>8
    <2> QED
      BY <1>2, <2>2, <2>3, <2>9, <2>11, <2>15, <2>16, <2>17, OneStep
  <1> QED
    BY <1>3, <1>4

\* DECLARE of a new cursor is nothing to any driver.
LEMMA PgDeclareNew ==
    ASSUME PgInv, AnyCall, NEW x \in CursorNames, x \notin cursors,
           NEW s \in StmtNames \cup {NoStmt}, source' = [source EXCEPT ![x] = s],
           cursors' = cursors \cup {x}, NEW new, cursor' = [cursor EXCEPT ![x] = new],
           new.drv # "open", ~new.open, UNCHANGED <<registry, pg>>,
           answer' = NoAnswer, Observe("none", NoStmt)
    PROVE  GoodStep
  <1>1. /\ CurTypeOK /\ PgTypeOK /\ PgDrivers /\ PgCursors /\ NoConn \notin ConnIds
        /\ pg' = pg /\ next_conn_id' = next_conn_id /\ "none" \in Ways
    BY DEF PgInv, StateInv, NoConn, ConnIds, registry, Ways
  <1>2. PgDrivers' /\ pg' \in [ConnIds -> Driver]
    BY <1>1 DEF PgDrivers, PgTypeOK
  <1>3. /\ cursor'[x] = new
        /\ \A y \in CursorNames \ {x} : /\ cursor'[y] = cursor[y] /\ source'[y] = source[y]
                                        /\ y \in cursors' <=> y \in cursors
        /\ source' \in [CursorNames -> StmtNames \cup {NoStmt}]
    BY <1>1 DEF CurTypeOK, PgTypeOK
  <1>4. \A c \in ConnIds : pg[c].portal[x].kind = "none" /\ pg[c].priv[x] = NoResult
    BY <1>1 DEF PgCursors
  <1>5. PgCursors'
    BY <1>1, <1>3, <1>4 DEF PgCursors
  <1>6. \A c \in ConnIds : ViewsKept(pg[c], pg'[c])
    BY <1>1 DEF ViewsKept
  <1>7. sent'.by = "none" /\ sent'.stmt = NoStmt /\ NoStmt \notin {"COMMIT", "COMMIT_WORK"}
    BY PgsqlAssumption DEF Observe, AllStatements
  <1>8. HeldTruth /\ RestartTruth /\ LossTruth /\ AlarmTruth
    BY <1>1, <1>7 DEF HeldTruth, RestartTruth, LossTruth, AlarmTruth
  <1> QED
    BY <1>1, <1>2, <1>3, <1>5, <1>6, <1>8, CallStep

LEMMA PgDeclareGood ==
    ASSUME PgInv, NEW x \in CursorNames, NEW n \in Names \cup {NoName},
           NEW host \in BOOLEAN, NEW hold \in BOOLEAN,
           NEW s \in StmtNames \cup {NoStmt}, PgDeclare(x, n, host, hold, s)
    PROVE  GoodStep
  <1>1. AnyCall
    <2>1. "other" \in Queries /\ 0 \in 0..MaxVars
      BY RuntimeAssumption DEF Queries
    <2>2. GIXSQLCursorDeclare(x, n, host, hold, "other")
      BY DEF PgDeclare
    <2> QED
      BY <2>1, <2>2 DEF AnyCall
  <1>2. /\ answer' = NoAnswer /\ Observe("none", NoStmt) /\ "none" \in Ways
        /\ UNCHANGED <<registry, pg>>
    BY DEF PgDeclare, GIXSQLCursorDeclare, ObserveOther, Ways
  <1>3. Declare(x, n, host, hold)
    BY DEF PgDeclare, GIXSQLCursorDeclare
  <1>4. CASE x \in cursors
    <2>1. UNCHANGED <<connVars, curVars, source>>
      BY <1>2, <1>3, <1>4 DEF PgDeclare, Declare, connVars
    <2> QED
      BY <1>1, <1>2, <2>1, SameRuntime, UntouchedStep
  <1>5. CASE x \notin cursors
    <2>1. ret'.rc = "SUCCESS" /\ source' = [source EXCEPT ![x] = s]
      BY <1>5 DEF PgDeclare
    <2>2. PICK new : new = NewCursor(get(n), n, host, hold)
      OBVIOUS
    <2>3. cursors' = cursors \cup {x} /\ cursor' = [cursor EXCEPT ![x] = new]
      <3>1. ~Fail("cursor", get(n), DBERR_DECLARE_CURSOR_FAILED)
        BY <2>1, ReturnIs DEF Fail
      <3> QED
        BY <1>3, <1>5, <2>2, <3>1 DEF Declare
    <2>4. new.drv # "open" /\ ~new.open
      BY <2>2 DEF NewCursor
    <2> QED
      BY <1>1, <1>2, <1>5, <2>1, <2>3, <2>4, PgDeclareNew
  <1> QED
    BY <1>4, <1>5

\* What OPEN does to the registries when it has a connection.
OpenBinds(x, c) ==
    /\ UNCHANGED <<next_conn_id, cursors>>
    /\ \A y \in CursorNames \ {x} : cursor'[y] = cursor[y]
    /\ cursor[x].conn \in {NoConn, c}
    /\ cursor'[x].conn = c
    /\ cursor'[x].hold = cursor[x].hold
    /\ cursor'[x].drv = "open" <=> ret'.rc = "SUCCESS"
    /\ cursor'[x].open => cursor'[x].drv = "open"
    /\ ret'.conn = c

LEMMA OpenBindsIs ==
    ASSUME PgInv, NEW x \in cursors, NEW hv, GIXSQLCursorOpen(x, hv),
           NEW c \in ConnIds, c = OpenConnection(x, hv), cursor'[x].drv # "undeclared"
    PROVE  OpenBinds(x, c)
  <1>1. /\ x \in CursorNames /\ cursor[x] \in Cursor /\ CursorGood(cursor[x])
        /\ CurTypeOK /\ c # NoConn
    BY CursorsGood DEF PgInv, StateInv, NoConn, ConnIds
  <1>2. /\ UNCHANGED <<registry, cursors>>
        /\ \/ OpenDeclareFails(x, c)
           \/ OpenCloseFails(x, c)
           \/ OpenFails(x, c)
           \/ OpenOk(x, c)
    BY <1>1 DEF GIXSQLCursorOpen, NoSuchCursor
  <1>3. cursor[x].conn \in {NoConn, c}
    BY DEF OpenConnection
  <1>4. PICK new : /\ cursor' = [cursor EXCEPT ![x] = new] /\ new.conn = c
                   /\ new.hold = cursor[x].hold
                   /\ new.drv = "open" <=> ret'.rc = "SUCCESS"
                   /\ new.open => new.drv = "open"
                   /\ ret'.conn = c
    <2>1. CASE OpenDeclareFails(x, c)
      <3>1. PICK new : new = [cursor[x] EXCEPT !.conn = c]
        OBVIOUS
      <3>2. new.drv = "undeclared"
        BY <1>1, <2>1, <3>1 DEF OpenDeclareFails, CursorGood, Cursor
      <3>3. cursor' = [cursor EXCEPT ![x] = new]
        BY <2>1, <3>1 DEF OpenDeclareFails
      <3> QED
        BY <1>1, <3>2, <3>3 DEF CurTypeOK
    <2>2. CASE OpenCloseFails(x, c) \/ OpenFails(x, c)
      <3>1. PICK new : new = Reclosed(x, c)
        OBVIOUS
      <3>2. cursor' = [cursor EXCEPT ![x] = new]
        BY <2>2, <3>1 DEF OpenCloseFails, OpenFails
      <3>3. new.conn = c /\ new.drv # "open" /\ ~new.open /\ new.hold = cursor[x].hold
        BY <1>1, <3>1 DEF Reclosed, DriverClosed, Bound, Cursor, DriverStates
      <3>4. ret'.rc = "FAILED" /\ ret'.conn = c
        BY <2>2, ReturnIs DEF OpenCloseFails, OpenFails, DriverFail
      <3> QED
        BY <3>2, <3>3, <3>4
    <2>3. CASE OpenOk(x, c)
      <3>1. PICK new : new = [Bound(x, c) EXCEPT !.open = TRUE, !.drv = "open"]
        OBVIOUS
      <3>2. cursor' = [cursor EXCEPT ![x] = new]
        BY <2>3, <3>1 DEF OpenOk
      <3>3. new.conn = c /\ new.drv = "open" /\ new.hold = cursor[x].hold
        BY <1>1, <3>1 DEF Bound, Cursor
      <3>4. ret'.rc = "SUCCESS" /\ ret'.conn = c
        BY <2>3, ReturnIs DEF OpenOk, Succeed
      <3> QED
        BY <3>2, <3>3, <3>4
    <2> QED
      BY <1>2, <2>1, <2>2, <2>3
  <1>5. cursor'[x] = new /\ \A y \in CursorNames \ {x} : cursor'[y] = cursor[y]
    BY <1>1, <1>4 DEF CurTypeOK
  <1> QED
    BY <1>2, <1>3, <1>4, <1>5 DEF OpenBinds, registry

\* The driver after OPEN has closed the cursor, if need be.
Reopens(c, x) == IF cursor[x].open THEN cursor_close(Fresh(c), x) ELSE Fresh(c)

LEMMA ReopensIs ==
    ASSUME PgInv, NEW c \in ConnIds, NEW x \in cursors, NEW p, p = Reopens(c, x)
    PROVE  /\ DriverOk(p) /\ p.connaddr = pg[c].connaddr /\ p.off = pg[c].off
           /\ pg[c].tx # "idle" => p.tx # "idle"
           /\ p.priv[x] = NoResult /\ p.portal[x] \in {pg[c].portal[x], NoPortal}
           /\ \A z \in CursorNames \ {x} : /\ p.priv[z] = pg[c].priv[z]
                                           /\ p.portal[z] = pg[c].portal[z]
           /\ ~NativeCursors => (Doomed(p) <=> Doomed(pg[c]))
  <1>1. PICK q : q = Fresh(c)
    OBVIOUS
  <1>2. /\ DriverOk(q) /\ q.connaddr = pg[c].connaddr /\ q.portal = pg[c].portal
        /\ q.priv = pg[c].priv /\ q.tx = pg[c].tx /\ q.off = pg[c].off
        /\ Doomed(q) <=> Doomed(pg[c])
    BY <1>1, FreshIs DEF PgInv
  <1>3. x \in CursorNames /\ CursorGood(cursor[x]) /\ PgCursors
    BY CursorsGood DEF PgInv
  <1>4. CASE cursor[x].open
    <2>1. SweptOf(q, {x}, p)
      BY <1>1, <1>2, <1>3, <1>4, CursorCloseOk DEF Reopens
    <2>2. ~NativeCursors => (Doomed(p) <=> Doomed(pg[c]))
      BY <1>2, <2>1, SameDoomed DEF SweptOf
    <2> QED
      BY <1>2, <1>3, <2>1, <2>2 DEF SweptOf
  <1>5. CASE ~cursor[x].open
    <2>1. p = q /\ pg[c].priv[x] = NoResult
      BY <1>1, <1>3, <1>5 DEF Reopens, PgCursors, CursorGood
    <2> QED
      BY <1>2, <2>1
  <1> QED
    BY <1>4, <1>5

\* What OPEN makes of the driver of c, compared with what it was.
Reopened(c, x, r) ==
    /\ DriverOk(r.p)
    /\ r.p.connaddr = pg[c].connaddr
    /\ \A z \in CursorNames \ {x} : /\ Carried(pg[c].portal[z], r.p.portal[z])
                                    /\ r.p.priv[z] = pg[c].priv[z]
    /\ \/ Carried(pg[c].portal[x], r.p.portal[x]) \/ r.p.portal[x] = NoPortal
       \/ /\ r.p.portal[x].at = 0
          /\ r.p.portal[x].kind \in {"hold", "held"} => cursor[x].hold
    /\ r.p.priv[x] = NoResult \/ (r.rc = DBERR_NO_ERROR /\ r.p.priv[x].idx = -1)
    /\ r.rc = DBERR_NO_ERROR /\ source[x] = NoStmt => r.p.priv[x] # NoResult
    /\ Restarted(pg[c], r)
    /\ ~NativeCursors => Told(pg[c], r)

LEMMA ReopenedIs ==
    ASSUME PgInv, NEW c \in ConnIds, NEW x \in cursors, NEW p, p = Reopens(c, x),
           NEW r \in cursor_open(p, x, cursor[x].hold, source[x])
    PROVE  Reopened(c, x, r)
  <1>1. /\ x \in CursorNames /\ cursor[x].hold \in BOOLEAN
        /\ source[x] \in StmtNames \cup {NoStmt}
    BY CursorsGood DEF PgInv, PgTypeOK, Cursor
  <1>2. /\ DriverOk(p) /\ p.connaddr = pg[c].connaddr /\ p.off = pg[c].off
        /\ pg[c].tx # "idle" => p.tx # "idle"
        /\ p.priv[x] = NoResult /\ p.portal[x] \in {pg[c].portal[x], NoPortal}
        /\ \A z \in CursorNames \ {x} : /\ p.priv[z] = pg[c].priv[z]
                                        /\ p.portal[z] = pg[c].portal[z]
        /\ ~NativeCursors => (Doomed(p) <=> Doomed(pg[c]))
    BY ReopensIs
  <1>3. OpenedBy(p, x, cursor[x].hold, source[x], r)
    BY <1>1, <1>2, CursorOpenOk
  <1>4. \/ Carried(pg[c].portal[x], r.p.portal[x]) \/ r.p.portal[x] = NoPortal
        \/ /\ r.p.portal[x].at = 0
           /\ r.p.portal[x].kind \in {"hold", "held"} => cursor[x].hold
    BY <1>2, <1>3, NoPortalOk DEF OpenedBy, Carried
  <1>5. Restarted(pg[c], r)
    BY <1>2, <1>3 DEF OpenedBy, Restarted
  <1>6. ~NativeCursors => Told(pg[c], r)
    BY <1>2, <1>3 DEF OpenedBy, Told
  <1> QED
    BY <1>2, <1>3, <1>4, <1>5, <1>6 DEF OpenedBy, Reopened

LEMMA OpenCursors ==
    ASSUME PgInv, NEW x \in cursors, NEW c \in ConnIds, OpenBinds(x, c), UNCHANGED source,
           NEW r, Reopened(c, x, r), Reports(r), pg'[c] = r.p,
           \A d \in ConnIds \ {c} : pg'[d] = pg[d]
    PROVE  PgCursors'
  <1>1. PgDrivers /\ PgCursors /\ NoConn \notin ConnIds /\ x \in CursorNames
    BY DEF PgInv, StateInv, CurTypeOK, NoConn, ConnIds
  <1>2. /\ r.rc = DBERR_NO_ERROR <=> cursor'[x].drv = "open"
        /\ cursor'[x].conn = c /\ cursor'[x].hold = cursor[x].hold
        /\ cursor'[x].open => cursor'[x].drv = "open"
        /\ cursors' = cursors /\ source' = source
    BY DEF Reports, OpenBinds
  <1> SUFFICES ASSUME NEW y \in CursorNames
               PROVE  /\ y \notin cursors' => cursor'[y].conn = NoConn
                      /\ \A d \in ConnIds :
                            /\ pg'[d].portal[y].kind # "none" => cursor'[y].conn = d
                            /\ pg'[d].portal[y].kind \in {"hold", "held"} => cursor'[y].hold
                            /\ pg'[d].priv[y] # NoResult =>
                                  cursor'[y].conn = d /\ cursor'[y].drv = "open"
                            /\ cursor'[y].conn = d /\ cursor'[y].open /\ cursor'[y].drv # "open" =>
                                  pg'[d].portal[y].kind = "none"
                            /\ cursor'[y].conn = d /\ cursor'[y].drv = "open" /\ source'[y] = NoStmt =>
                                  pg'[d].priv[y] # NoResult
    BY DEF PgCursors
  <1>3. CASE y = x
    <2>1. /\ pg'[c].portal[x].kind \in {"hold", "held"} => cursor'[x].hold
          /\ pg'[c].priv[x] # NoResult => cursor'[x].drv = "open"
          /\ cursor'[x].drv = "open" /\ source'[x] = NoStmt => pg'[c].priv[x] # NoResult
      <3>1. PICK a, b : a = pg[c].portal[x] /\ b = pg'[c].portal[x]
        OBVIOUS
      <3>2. a \in Portal /\ PortalOk(a) /\ (a.kind \in {"hold", "held"} => cursor[x].hold)
        BY <1>1, <3>1 DEF PgDrivers, DriverOk, Driver, PgCursors
      <3>3. \/ Carried(a, b) \/ b = NoPortal
            \/ b.kind \in {"hold", "held"} => cursor[x].hold
        BY <3>1 DEF Reopened
      <3>4. b.kind \in {"hold", "held"} => cursor[x].hold
        BY <3>2, <3>3, ShedKinds
      <3> QED
        BY <1>2, <3>1, <3>4 DEF Reopened
    <2>2. ASSUME NEW d \in ConnIds, d # c
          PROVE  pg'[d].portal[x].kind = "none" /\ pg'[d].priv[x] = NoResult
      BY <1>1, <2>2 DEF PgCursors, OpenBinds
    <2> QED
      BY <1>2, <1>3, <2>1, <2>2
  <1>4. CASE y # x
    <2>1. /\ cursor'[y] = cursor[y] /\ source'[y] = source[y] /\ (y \in cursors' <=> y \in cursors)
      BY <1>2, <1>4 DEF OpenBinds
    <2>2. ASSUME NEW d \in ConnIds
          PROVE  /\ pg'[d].portal[y].kind # "none" => pg[d].portal[y].kind # "none"
                 /\ pg'[d].portal[y].kind \in {"hold", "held"} => pg[d].portal[y].kind \in {"hold", "held"}
                 /\ pg'[d].priv[y] = pg[d].priv[y]
      <3>1. PICK a, b : a = pg[d].portal[y] /\ b = pg'[d].portal[y]
        OBVIOUS
      <3>2. a \in Portal /\ PortalOk(a)
        BY <1>1, <3>1 DEF PgDrivers, DriverOk, Driver
      <3>3. Carried(a, b) /\ pg'[d].priv[y] = pg[d].priv[y]
        BY <1>4, <3>1, CarriedRefl DEF Reopened
      <3> QED
        BY <3>1, <3>2, <3>3, CarriedKinds
    <2> QED
      BY <1>1, <2>1, <2>2 DEF PgCursors
  <1> QED
    BY <1>3, <1>4

LEMMA OpenViews ==
    ASSUME PgInv, NEW x \in CursorNames, NEW c \in ConnIds, NEW r, Reopened(c, x, r)
    PROVE  ViewsKept(pg[c], r.p)
  <1> SUFFICES ASSUME NEW y \in CursorNames, Live(r.p, y)
               PROVE  \/ Row(r.p, y) = 0
                      \/ /\ Live(pg[c], y) /\ Row(r.p, y) = Row(pg[c], y)
                         /\ Length(r.p, y) = Length(pg[c], y)
    BY DEF ViewsKept
  <1>1. PICK a, b : a = pg[c].portal[y] /\ b = r.p.portal[y]
    OBVIOUS
  <1>2. a \in Portal /\ PortalOk(a)
    BY <1>1 DEF PgInv, PgDrivers, DriverOk, Driver
  <1>3. \/ b.kind # "none" => a.kind # "none" /\ b.rows = a.rows /\ b.at = a.at
        \/ b.at = 0
    BY <1>1, <1>2, ShedKinds DEF Reopened
  <1>4. \/ r.p.priv[y] = pg[c].priv[y]
        \/ r.p.priv[y] = NoResult
        \/ r.p.priv[y].idx = -1
    BY DEF Reopened
  <1>5. CASE NativeCursors
    BY <1>1, <1>3, <1>5 DEF Live, Row, Length
  <1>6. CASE ~NativeCursors
    BY <1>4, <1>6 DEF Live, Row, Length
  <1> QED
    BY <1>5, <1>6

LEMMA OpenFound ==
    ASSUME PgInv, NEW x \in cursors, NEW hv \in Names \cup {NoName},
           NEW c, c = OpenConnection(x, hv), c # NoConn
    PROVE  c \in ConnIds
  BY OpenConnectionType DEF PgInv

LEMMA PgOpenGood ==
    ASSUME PgInv, NEW x \in CursorNames, NEW hv \in Names \cup {NoName}, PgOpen(x, hv)
    PROVE  GoodStep
  <1>1. /\ AnyCall /\ UNCHANGED source /\ answer' = NoAnswer /\ Observe("none", NoStmt)
        /\ "none" \in Ways /\ PgTypeOK /\ PgDrivers /\ PgWarned
    BY DEF PgOpen, AnyCall, ObserveOther, Ways, PgInv
  <1>2. CASE x \notin cursors \/ OpenConnection(x, hv) = NoConn
    <2>1. UNCHANGED pg /\ UNCHANGED <<connVars, curVars>>
      BY <1>2 DEF PgOpen, GIXSQLCursorOpen, NoSuchCursor, StateUnchanged
    <2> QED
      BY <1>1, <2>1, SameRuntime, UntouchedStep
  <1>3. CASE x \in cursors /\ OpenConnection(x, hv) # NoConn
    <2>1. PICK c, p : c = OpenConnection(x, hv) /\ p = Reopens(c, x)
      OBVIOUS
    <2>2. c \in ConnIds
      BY <1>3, <2>1, OpenFound
    <2>3. PICK r \in cursor_open(p, x, cursor[x].hold, source[x]) : Reports(r) /\ Becomes(c, r.p)
      BY <1>3, <2>1 DEF PgOpen, Reopens
    <2>4. GIXSQLCursorOpen(x, hv) /\ cursor'[x].drv # "undeclared"
      BY <1>3, <2>1 DEF PgOpen
    <2>5. OpenBinds(x, c)
      BY <1>3, <2>1, <2>2, <2>4, OpenBindsIs
    <2>6. Reopened(c, x, r)
      BY <1>3, <2>1, <2>2, <2>3, ReopenedIs
    <2>7. PICK q : q = r.p
      OBVIOUS
    <2>8. Becomes(c, q) /\ q \in Driver /\ DriverOk(q) /\ q.connaddr = pg[c].connaddr
      BY <2>3, <2>6, <2>7 DEF Reopened, DriverOk
    <2>9. /\ pg' \in [ConnIds -> Driver]
          /\ pg'[c] = q
          /\ \A d \in ConnIds \ {c} : pg'[d] = pg[d]
      BY <1>1, <2>2, <2>8, BecomesIs
    <2>10. PgCursors'
      BY <1>1, <1>3, <2>2, <2>3, <2>5, <2>6, <2>7, <2>9, OpenCursors
    <2>11. PgDrivers'
      BY <1>1, <2>5, <2>8, <2>9 DEF PgDrivers, OpenBinds
    <2>12. \A d \in ConnIds : ViewsKept(pg[d], pg'[d])
      <3>1. ViewsKept(pg[c], pg'[c])
        BY <2>2, <2>6, <2>7, <2>9, OpenViews
      <3>2. \A d \in ConnIds \ {c} : ViewsKept(pg[d], pg'[d])
        BY <2>9 DEF ViewsKept
      <3> QED
        BY <3>1, <3>2
    <2>13. OneTruth(c, "none", NoStmt)
      <3>1. NoStmt \notin {"COMMIT", "COMMIT_WORK"}
        BY PgsqlAssumption DEF AllStatements
      <3>2. r.rc # DBERR_NO_ERROR => ret'.rc = "FAILED"
        BY <2>3 DEF Reports
      <3>3. pg[c].off /\ pg[c].tx # "idle" /\ pg'[c].connaddr /\ pg'[c].tx = "idle" =>
               ret'.rc = "FAILED"
        BY <2>6, <2>7, <2>9, <3>2 DEF Reopened, Restarted
      <3>4. ASSUME ~NativeCursors, CodesTold, Doomed(pg'[c]), ~Doomed(pg[c])
            PROVE  Alarmed(c)
        <4>1. Told(pg[c], r) /\ Doomed(r.p) /\ ret'.conn = c
          BY <2>5, <2>6, <2>7, <2>9, <3>4 DEF Reopened, OpenBinds
        <4> QED
          BY <2>3, <3>4, <4>1, ToldIsAlarm
      <3> QED
        BY <3>1, <3>3, <3>4 DEF OneTruth
    <2>14. HeldTruth /\ RestartTruth /\ LossTruth /\ AlarmTruth
      BY <1>1, <2>2, <2>9, <2>13, OneTruths
    <2>15. source' \in [CursorNames -> StmtNames \cup {NoStmt}]
      BY <1>1 DEF PgTypeOK
    <2> QED
      BY <1>1, <2>9, <2>10, <2>11, <2>12, <2>14, <2>15, CallStep
  <1> QED
    BY <1>2, <1>3

---------------------------------------------------------------------------
(* FETCH.                                                                  *)

\* What FETCH leaves as it is in the drivers.
FetchKeeps ==
    /\ pg' \in [ConnIds -> Driver]
    /\ \A c \in ConnIds :
          /\ DriverOk(pg'[c])
          /\ pg'[c].connaddr = pg[c].connaddr
          /\ pg[c].tx # "idle" => pg'[c].tx # "idle"
          /\ ~NativeCursors => (Doomed(pg'[c]) <=> Doomed(pg[c]))
          /\ \A y \in CursorNames :
                /\ pg'[c].portal[y].kind = pg[c].portal[y].kind
                /\ \/ pg'[c].priv[y] = pg[c].priv[y]
                   \/ /\ pg'[c].priv[y] # NoResult
                      /\ cursor[y].conn = c /\ cursor[y].drv = "open"

LEMMA FetchInv ==
    ASSUME PgInv, AnyCall, UNCHANGED <<connVars, curVars, source>>, FetchKeeps,
           Observe("none", NoStmt), answer'.kind \in {"none", "error", "nodata", "row"},
           answer'.x \in CursorNames, answer'.row \in 0..MaxRows
    PROVE  PgInv' /\ HeldTruth /\ RestartTruth /\ LossTruth
  <1>1. StateInv'
    BY AnyCallStateInv DEF PgInv
  <1>2. PgDrivers /\ PgCursors /\ PgWarned /\ PgTypeOK /\ "none" \in Ways
    BY DEF PgInv, Ways
  <1>3. PgDrivers'
    BY <1>2 DEF PgDrivers, FetchKeeps, connVars, registry
  <1>4. PgCursors'
    BY <1>2 DEF PgCursors, FetchKeeps, curVars
  <1>5. AlarmTruth
    BY DEF AlarmTruth, FetchKeeps
  <1>6. PgWarned' /\ sent'.by = "none" /\ sent'.stmt = NoStmt /\ warned' \in [ConnIds -> BOOLEAN]
    BY <1>2, <1>3, <1>5, ObserveIs
  <1>7. PgTypeOK'
    BY <1>2, <1>6 DEF PgTypeOK, FetchKeeps
  <1>8. NoStmt \notin {"COMMIT", "COMMIT_WORK"}
    BY PgsqlAssumption DEF AllStatements
  <1>9. HeldTruth /\ LossTruth
    BY <1>6, <1>8 DEF HeldTruth, LossTruth
  <1>10. RestartTruth
    BY DEF RestartTruth, FetchKeeps
  <1> QED
    BY <1>1, <1>3, <1>4, <1>6, <1>7, <1>9, <1>10 DEF PgInv

LEMMA SameViews ==
    ASSUME \A y \in CursorNames : CursorView(y)' = CursorView(y)
    PROVE  [y \in CursorNames |-> CursorView(y)]' = [y \in CursorNames |-> CursorView(y)]
  OBVIOUS

\* A FETCH that moves nothing.
LEMMA FetchStays ==
    ASSUME \A y \in CursorNames : CursorView(y)' = CursorView(y), NEW x \in CursorNames,
           answer' = [kind |-> "error", x |-> x, row |-> 0]
    PROVE  Abstract!Next
  <1>1. Abstract!FetchError(x)
    BY SameViews DEF Abstract!FetchError, Abstract!Error
  <1> QED
    BY <1>1 DEF Abstract!Next

LEMMA FetchEnds ==
    ASSUME \A y \in CursorNames : CursorView(y)' = CursorView(y), NEW x \in CursorNames,
           answer' = [kind |-> "nodata", x |-> x, row |-> 0],
           NEW rows, CursorView(x) = [open |-> TRUE, rows |-> rows, at |-> rows]
    PROVE  Abstract!Next
  <1>1. CursorView(x).open /\ CursorView(x).at = CursorView(x).rows
    OBVIOUS
  <1>2. Abstract!FetchNoData(x)
    BY <1>1, SameViews DEF Abstract!FetchNoData, Abstract!NoData
  <1> QED
    BY <1>2 DEF Abstract!Next

LEMMA MoveOn ==
    ASSUME NEW o, NEW r, NEW a, NEW b, NEW v, v = [open |-> o, rows |-> r, at |-> a]
    PROVE  [v EXCEPT !.at = b] = [open |-> o, rows |-> r, at |-> b]
  OBVIOUS

LEMMA FetchMoves ==
    ASSUME NEW x \in CursorNames, \A y \in CursorNames \ {x} : CursorView(y)' = CursorView(y),
           NEW rows, NEW at, NEW n, n = at + 1, at < rows,
           CursorView(x) = [open |-> TRUE, rows |-> rows, at |-> at],
           CursorView(x)' = [open |-> TRUE, rows |-> rows, at |-> n],
           \/ answer' = [kind |-> "error", x |-> x, row |-> 0]
           \/ answer' = [kind |-> "row", x |-> x, row |-> n]
    PROVE  Abstract!Next
  <1>1. CursorView(x).open /\ CursorView(x).at < CursorView(x).rows /\ CursorView(x).at = at
    OBVIOUS
  <1>2. CursorView(x)' = [CursorView(x) EXCEPT !.at = @ + 1]
    <2>1. PICK v, o : v = CursorView(x) /\ o = TRUE
      OBVIOUS
    <2>2. v = [open |-> o, rows |-> rows, at |-> at]
      BY <2>1
    <2>3. v.at = at
      BY ONLY <2>2
    <2>4. [v EXCEPT !.at = n] = [open |-> o, rows |-> rows, at |-> n]
      BY ONLY <2>2, MoveOn
    <2>5. CursorView(x)' = [open |-> o, rows |-> rows, at |-> n]
      BY <2>1
    <2>6. n = v.at + 1
      BY <2>3
    <2> QED
      BY ONLY <2>1, <2>4, <2>5, <2>6
  <1>3. PICK f, g : /\ f = [y \in CursorNames |-> CursorView(y)]
                    /\ g = [y \in CursorNames |-> CursorView(y)]'
    OBVIOUS
  <1>4. g = [f EXCEPT ![x].at = @ + 1]
    BY <1>2, <1>3
  <1>5. f[x] = CursorView(x)
    BY <1>3
  <1>6. Abstract!FetchRow(x)
    BY <1>1, <1>3, <1>4, <1>5 DEF Abstract!FetchRow, Abstract!Row, Abstract!Error
  <1> QED
    BY <1>6 DEF Abstract!Next

\* An error code of a FETCH is not the one of "no record".
LEMMA NotNorec ==
    ASSUME NorecCode > 0, NEW code \in {DBERR_NO_ERROR, DBERR_SQL_ERROR},
           NEW err \in {DBERR_FETCH_ROW_FAILED, DBERR_FIELD_COUNT_MISMATCH,
                        DBERR_INVALID_COLUMN_DATA, DBERR_NUM_OUT_OF_RANGE,
                        DBERR_NO_SUCH_CURSOR, DBERR_CURSOR_CLOSED}
    PROVE  Status(code, err) # "norec"
  <1>1. NorecCode \in Int
    BY NorecAssumption
  <1> QED
    BY <1>1 DEF Status, Outcome, setStatus, is_data_error, DBERR_FETCH_ROW_FAILED,
               DBERR_FIELD_COUNT_MISMATCH, DBERR_INVALID_COLUMN_DATA, DBERR_NUM_OUT_OF_RANGE,
               DBERR_NO_ERROR, DBERR_NO_DATA, DBERR_SQL_ERROR, DBERR_NO_SUCH_CURSOR,
               DBERR_CURSOR_CLOSED

LEMMA FetchReportsWhat ==
    ASSUME NEW r, NEW x, FetchReports(r, x)
    PROVE  \/ ret'.rc = "FETCH_ROW_FAILED" /\ r.rc = DBERR_NO_DATA
           \/ ret'.rc = "SUCCESS" /\ r.rc = DBERR_NO_ERROR
           \/ /\ ret'.rc = "FAILED" /\ r.rc # DBERR_NO_DATA
              /\ \E err \in {DBERR_FETCH_ROW_FAILED, DBERR_FIELD_COUNT_MISMATCH,
                             DBERR_INVALID_COLUMN_DATA, DBERR_NUM_OUT_OF_RANGE} :
                    sqlcode' = Status(r.p.last_rc, err)
  BY DEF FetchReports

\* A FETCH of a cursor that is not open for the runtime.
LEMMA FetchClosed ==
    ASSUME PgInv, NEW x \in CursorNames, PgFetch(x), x \notin cursors \/ ~cursor[x].open
    PROVE  GoodStep
  <1>1. /\ AnyCall /\ UNCHANGED <<connVars, curVars, source>> /\ UNCHANGED pg
        /\ answer' = FetchAnswer(x, NullDriver) /\ Observe("none", NoStmt) /\ ret'.rc = "FAILED"
        /\ \E err \in {DBERR_NO_SUCH_CURSOR, DBERR_CURSOR_CLOSED} : sqlcode' = Status(NoDbi, err)
    <2>1. GIXSQLCursorFetchOne(x)
      BY DEF PgFetch
    <2>2. UNCHANGED <<connVars, curVars>> /\ ret'.rc = "FAILED"
          /\ \E err \in {DBERR_NO_SUCH_CURSOR, DBERR_CURSOR_CLOSED} : sqlcode' = Status(NoDbi, err)
      BY <2>1, ReturnIs DEF GIXSQLCursorFetchOne, NoSuchCursor, StateUnchanged, Fail
    <2> QED
      BY <2>1, <2>2, PlainCursorCall DEF PgFetch
  <1>2. answer' = [kind |-> "error", x |-> x, row |-> 0]
    BY <1>1 DEF FetchAnswer
  <1>3. FetchKeeps
    BY <1>1 DEF PgInv, PgTypeOK, PgDrivers, FetchKeeps
  <1>4. PgInv' /\ HeldTruth /\ RestartTruth /\ LossTruth
    <2>1. answer'.kind = "error" /\ answer'.x = x /\ answer'.row \in 0..MaxRows
      BY <1>2, CountsOk
    <2> QED
      BY <1>1, <1>3, <2>1, FetchInv
  <1>5. \A y \in CursorNames : CursorView(y)' = CursorView(y)
    BY <1>1, ViewsAre DEF curVars
  <1>6. Abstract!Next
    BY <1>2, <1>5, FetchStays
  <1>7. FetchTruth
    BY <1>1, NotNorec DEF FetchTruth, NoDbi, DBERR_NO_ERROR
  <1> QED
    BY <1>4, <1>6, <1>7 DEF GoodStep

\* What FETCH does to the cursor, native or emulated.
Fetches(p, x, r) ==
    /\ FetchedBy(p, x, r)
    /\ r.rc # DBERR_SQL_ERROR => /\ Live(p, x) /\ Live(r.p, x)
                                 /\ r.p.priv[x] # NoResult
                                 /\ Length(r.p, x) = Length(p, x)
    /\ r.rc = DBERR_NO_ERROR => Row(p, x) < Length(p, x) /\ Row(r.p, x) = Row(p, x) + 1
    /\ r.rc = DBERR_NO_DATA => Row(p, x) >= Length(p, x) /\ Row(r.p, x) >= Length(p, x)

LEMMA FetchesIs ==
    ASSUME NEW p, DriverOk(p), NEW x \in CursorNames, ~FetchCrashes(p, x),
           NEW r \in cursor_fetch_one(p, x)
    PROVE  Fetches(p, x, r)
  <1>1. CASE NativeCursors
    <2>1. /\ FetchedBy(p, x, r)
          /\ r.rc = DBERR_NO_ERROR =>
                p.portal[x].at < p.portal[x].rows /\ r.p.portal[x].at = p.portal[x].at + 1
          /\ r.rc = DBERR_NO_DATA =>
                p.portal[x].at = p.portal[x].rows /\ r.p.portal[x] = p.portal[x]
      BY <1>1, FetchNativeOk DEF cursor_fetch_one
    <2>2. p.portal[x].rows \in Int
      BY PgsqlAssumption DEF DriverOk, Driver, Portal
    <2>3. /\ r.rc # DBERR_SQL_ERROR => p.portal[x].kind # "none" /\ r.p.priv[x] # NoResult
          /\ r.p.portal[x].kind = p.portal[x].kind /\ r.p.portal[x].rows = p.portal[x].rows
      BY <1>1, <2>1 DEF FetchedBy
    <2> QED
      BY <1>1, <2>1, <2>2, <2>3 DEF Fetches, Live, Row, Length
  <1>2. CASE ~NativeCursors
    <2>1. p.priv[x] # NoResult
      BY <1>2 DEF FetchCrashes
    <2>2. /\ FetchedBy(p, x, r)
          /\ r.p.priv[x].rows = p.priv[x].rows /\ r.p.priv[x] # NoResult
          /\ r.rc = DBERR_NO_ERROR =>
                p.priv[x].idx + 1 < p.priv[x].rows /\ r.p.priv[x].idx = p.priv[x].idx + 1
          /\ r.rc = DBERR_NO_DATA =>
                /\ p.priv[x].idx + 1 >= p.priv[x].rows
                /\ r.p.priv[x].idx + 1 >= p.priv[x].rows
      BY <1>2, <2>1, FetchEmulatedOk DEF cursor_fetch_one
    <2> QED
      BY <1>2, <2>1, <2>2 DEF Fetches, Live, Row, Length
  <1> QED
    BY <1>1, <1>2

LEMMA RowOk ==
    ASSUME NEW p, DriverOk(p), NEW x \in CursorNames, Live(p, x)
    PROVE  Row(p, x) \in Int /\ Row(p, x) >= 0 /\ Length(p, x) \in 0..MaxRows
  <1>1. CASE NativeCursors
    BY <1>1, PgsqlAssumption DEF Length, Row, DriverOk, Driver, Portal
  <1>2. CASE ~NativeCursors
    <2>1. p.priv[x] \in Result
      BY <1>2 DEF Live, DriverOk, Driver
    <2> QED
      BY <1>2, <2>1, PgsqlAssumption DEF Length, Row, Result
  <1> QED
    BY <1>1, <1>2

\* What the row and the length of a cursor depend on.
LEMMA SameView ==
    ASSUME NEW p, NEW q, NEW x, q.portal[x] = p.portal[x], q.priv[x] = p.priv[x]
    PROVE  View(q, x) = View(p, x) /\ (Live(q, x) <=> Live(p, x))
           /\ Row(q, x) = Row(p, x) /\ Length(q, x) = Length(p, x)
  BY DEF View, Live, Row, Length

\* The view of a cursor that has rows.
LEMMA LiveView ==
    ASSUME NEW p, NEW x, Live(p, x), NEW k \in Int, NEW n \in Int,
           Row(p, x) = k, Length(p, x) = n
    PROVE  /\ k < n => View(p, x) = [open |-> TRUE, rows |-> n, at |-> k]
           /\ k >= n => View(p, x) = [open |-> TRUE, rows |-> n, at |-> n]
  <1>1. PICK i : i = IF k < n THEN k ELSE n
    OBVIOUS
  <1>2. View(p, x) = [open |-> TRUE, rows |-> n, at |-> i]
    BY <1>1 DEF View
  <1>3. (k < n => i = k) /\ (k >= n => i = n)
    BY <1>1
  <1> QED
    BY <1>2, <1>3

LEMMA FetchOpen ==
    ASSUME PgInv, NEW x \in CursorNames, PgFetch(x), x \in cursors, cursor[x].open
    PROVE  GoodStep
  <1> USE DEF DBERR_NO_ERROR, DBERR_NO_DATA, DBERR_SQL_ERROR
  <1>1. PICK c, p : c = cursor[x].conn /\ p = Fresh(c)
    OBVIOUS
  <1>2. PICK r \in cursor_fetch_one(p, x) :
           /\ FetchReports(r, x)
           /\ Becomes(c, r.p)
           /\ answer' = FetchAnswer(x, r.p)
    BY <1>1 DEF PgFetch
  <1>3. /\ AnyCall /\ UNCHANGED <<connVars, curVars, source>> /\ Observe("none", NoStmt)
        /\ PgTypeOK /\ PgDrivers /\ PgCursors /\ ~FetchCrashes(pg[c], x)
    <2>1. GIXSQLCursorFetchOne(x)
      BY DEF PgFetch
    <2>2. UNCHANGED <<connVars, curVars>>
      BY <2>1 DEF GIXSQLCursorFetchOne, NoSuchCursor, StateUnchanged
    <2> QED
      BY <1>1, <2>1, <2>2, PlainCursorCall DEF PgFetch, PgInv
  <1>4. /\ c \in ConnIds /\ c # NoConn /\ DriverOk(p) /\ p.connaddr = pg[c].connaddr
        /\ p.portal = pg[c].portal /\ p.priv = pg[c].priv /\ p.tx = pg[c].tx
        /\ Doomed(p) <=> Doomed(pg[c])
    <2>1. c \in ConnIds /\ NoConn \notin ConnIds
      BY <1>1, OpenIsConnected DEF NoConn, ConnIds
    <2> QED
      BY <1>1, <1>3, <2>1, FreshIs
  <1>5. Fetches(p, x, r)
    BY <1>2, <1>3, <1>4, FetchesIs DEF FetchCrashes
  <1>6. FetchedBy(p, x, r)
    BY <1>5 DEF Fetches
  <1>7. /\ pg' \in [ConnIds -> Driver]
        /\ pg'[c] = r.p
        /\ \A d \in ConnIds \ {c} : pg'[d] = pg[d]
    <2>1. PICK q : q = r.p
      OBVIOUS
    <2>2. q \in Driver /\ Becomes(c, q)
      BY <1>2, <1>6, <2>1 DEF FetchedBy, DriverOk
    <2> QED
      BY <1>3, <1>4, <2>1, <2>2, BecomesIs
  <1>8. FetchKeeps
    <2>1. /\ DriverOk(pg'[c]) /\ pg'[c].connaddr = pg[c].connaddr
          /\ pg[c].tx # "idle" => pg'[c].tx # "idle"
          /\ ~NativeCursors => (Doomed(pg'[c]) <=> Doomed(pg[c]))
      BY <1>4, <1>6, <1>7, SameDoomed DEF FetchedBy
    <2>2. ASSUME NEW y \in CursorNames
          PROVE  /\ pg'[c].portal[y].kind = pg[c].portal[y].kind
                 /\ \/ pg'[c].priv[y] = pg[c].priv[y]
                    \/ /\ pg'[c].priv[y] # NoResult
                       /\ cursor[y].conn = c /\ cursor[y].drv = "open"
      <3>1. CASE y # x
        BY <1>4, <1>6, <1>7, <3>1 DEF FetchedBy
      <3>2. CASE y = x /\ r.rc = DBERR_SQL_ERROR
        BY <1>4, <1>6, <1>7, <3>2 DEF FetchedBy
      <3>3. CASE y = x /\ r.rc # DBERR_SQL_ERROR
        <4>1. r.p.priv[x] # NoResult /\ Live(p, x)
          BY <1>5, <3>3 DEF Fetches
        <4>2. IF NativeCursors THEN pg[c].portal[x].kind # "none" ELSE pg[c].priv[x] # NoResult
          BY <1>4, <4>1 DEF Live
        <4>3. cursor[x].drv = "open"
          BY <1>1, <1>3, <1>4, <4>2 DEF PgCursors
        <4> QED
          BY <1>1, <1>4, <1>6, <1>7, <3>3, <4>1, <4>3 DEF FetchedBy
      <3> QED
        BY <3>1, <3>2, <3>3
    <2> QED
      BY <1>3, <1>7, <2>1, <2>2 DEF FetchKeeps, PgDrivers
  <1>9. /\ answer'.x = x
        /\ ret'.rc = "FAILED" => answer' = [kind |-> "error", x |-> x, row |-> 0]
        /\ ret'.rc = "FETCH_ROW_FAILED" => answer' = [kind |-> "nodata", x |-> x, row |-> 0]
        /\ ret'.rc = "SUCCESS" => answer' = [kind |-> "row", x |-> x, row |-> Row(r.p, x)]
    BY <1>2 DEF FetchAnswer, RowRead, Row
  <1>10. \/ ret'.rc = "FETCH_ROW_FAILED" /\ r.rc = DBERR_NO_DATA
         \/ ret'.rc = "SUCCESS" /\ r.rc = DBERR_NO_ERROR
         \/ /\ ret'.rc = "FAILED" /\ r.rc # DBERR_NO_DATA
            /\ \E err \in {DBERR_FETCH_ROW_FAILED, DBERR_FIELD_COUNT_MISMATCH,
                           DBERR_INVALID_COLUMN_DATA, DBERR_NUM_OUT_OF_RANGE} :
                  sqlcode' = Status(r.p.last_rc, err)
    BY <1>2, FetchReportsWhat
  <1>11. r.rc \in {DBERR_NO_ERROR, DBERR_NO_DATA, DBERR_SQL_ERROR}
    BY <1>6 DEF FetchedBy
  <1>12. \A y \in CursorNames :
            /\ cursor[y].conn # c \/ y # x => CursorView(y)' = CursorView(y)
            /\ cursor[y].conn = c => /\ CursorView(y) = View(pg[c], y)
                                     /\ CursorView(y)' = View(r.p, y)
    <2> SUFFICES ASSUME NEW y \in CursorNames
                 PROVE  /\ cursor[y].conn # c \/ y # x => CursorView(y)' = CursorView(y)
                        /\ cursor[y].conn = c => /\ CursorView(y) = View(pg[c], y)
                                                 /\ CursorView(y)' = View(r.p, y)
      OBVIOUS
    <2>1. cursor' = cursor /\ cursor[y].conn \in ConnIds \cup {NoConn}
      BY <1>3 DEF PgInv, StateInv, CurTypeOK, Cursor, curVars
    <2>2. cursor[y].conn = c => /\ CursorView(y) = View(pg[c], y)
                                /\ CursorView(y)' = View(r.p, y)
      BY <1>4, <1>7, <2>1, ViewsAre
    <2>3. cursor[y].conn # c => CursorView(y)' = CursorView(y)
      BY <1>7, <2>1, ViewsAre
    <2>4. y # x => View(r.p, y) = View(pg[c], y)
      <3>1. y # x => r.p.portal[y] = pg[c].portal[y] /\ r.p.priv[y] = pg[c].priv[y]
        BY <1>4, <1>6 DEF FetchedBy
      <3> QED
        BY <3>1, SameView
    <2> QED
      BY <2>2, <2>3, <2>4
  <1>13. CursorView(x) = View(pg[c], x) /\ CursorView(x)' = View(r.p, x)
    BY <1>1, <1>12
  <1>14. FetchTruth
    <2> SUFFICES ASSUME NativeCursors, NorecCode > 0, answer'.kind = "error"
                 PROVE  sqlcode' # "norec"
      BY DEF FetchTruth
    <2>1. r.p.last_rc \in {DBERR_NO_ERROR, DBERR_SQL_ERROR}
      BY <1>6 DEF FetchedBy
    <2>2. ret'.rc = "FAILED"
      BY <1>9, <1>10
    <2> QED
      BY <1>10, <2>1, <2>2, NotNorec
  <1>15. CASE r.rc = DBERR_SQL_ERROR
    <2>1. answer' = [kind |-> "error", x |-> x, row |-> 0]
      BY <1>9, <1>10, <1>15
    <2>2. r.p.portal = pg[c].portal /\ r.p.priv = pg[c].priv
      BY <1>4, <1>6, <1>15 DEF FetchedBy
    <2>3. \A y \in CursorNames : CursorView(y)' = CursorView(y)
      BY <1>12, <2>2, SameView
    <2>4. Abstract!Next
      BY <2>1, <2>3, FetchStays
    <2>5. answer'.kind = "error" /\ answer'.row \in 0..MaxRows
      BY <2>1, CountsOk
    <2>6. PgInv' /\ HeldTruth /\ RestartTruth /\ LossTruth
      BY <1>3, <1>8, <1>9, <2>5, FetchInv
    <2> QED
      BY <1>14, <2>4, <2>6 DEF GoodStep
  <1>16. CASE r.rc # DBERR_SQL_ERROR
    <2>1. PICK k, n, m : k = Row(pg[c], x) /\ n = Length(pg[c], x) /\ m = Row(r.p, x)
      OBVIOUS
    <2>2. /\ Live(pg[c], x) /\ Live(r.p, x) /\ Length(r.p, x) = n
          /\ r.rc = DBERR_NO_ERROR => k < n /\ m = k + 1
          /\ r.rc = DBERR_NO_DATA => k >= n /\ m >= n
      <3>1. /\ Live(p, x) <=> Live(pg[c], x)
            /\ Row(p, x) = k /\ Length(p, x) = n
        BY <1>4, <2>1, SameView
      <3> QED
        BY <1>5, <1>16, <2>1, <3>1 DEF Fetches
    <2>3. k \in Int /\ k >= 0 /\ n \in 0..MaxRows /\ n \in Int /\ m \in Int /\ m >= 0
      BY <1>3, <1>4, <1>6, <2>1, <2>2, RowOk, PgsqlAssumption DEF PgDrivers, FetchedBy
    <2>4. /\ k < n => CursorView(x) = [open |-> TRUE, rows |-> n, at |-> k]
          /\ k >= n => CursorView(x) = [open |-> TRUE, rows |-> n, at |-> n]
      <3>1. PICK q : q = pg[c]
        OBVIOUS
      <3>2. Live(q, x) /\ Row(q, x) = k /\ Length(q, x) = n /\ CursorView(x) = View(q, x)
        BY <1>13, <2>1, <2>2, <3>1
      <3> QED
        BY <2>3, <3>2, LiveView
    <2>5. /\ m < n => CursorView(x)' = [open |-> TRUE, rows |-> n, at |-> m]
          /\ m >= n => CursorView(x)' = [open |-> TRUE, rows |-> n, at |-> n]
      <3>1. PICK q : q = r.p
        OBVIOUS
      <3>2. Live(q, x) /\ Row(q, x) = m /\ Length(q, x) = n /\ CursorView(x)' = View(q, x)
        BY <1>13, <2>1, <2>2, <3>1
      <3> QED
        BY <2>3, <3>2, LiveView
    <2>6. CASE r.rc = DBERR_NO_DATA
      <3>1. answer' = [kind |-> "nodata", x |-> x, row |-> 0]
        BY <1>9, <1>10, <2>6
      <3>2. CursorView(x) = [open |-> TRUE, rows |-> n, at |-> n] /\ CursorView(x)' = CursorView(x)
        BY <2>2, <2>4, <2>5, <2>6
      <3>3. \A y \in CursorNames : CursorView(y)' = CursorView(y)
        BY <1>12, <3>2
      <3>4. Abstract!Next
        BY <3>1, <3>2, <3>3, FetchEnds
      <3>5. answer'.kind = "nodata" /\ answer'.row \in 0..MaxRows
        BY <3>1, CountsOk
      <3>6. PgInv' /\ HeldTruth /\ RestartTruth /\ LossTruth
        BY <1>3, <1>8, <1>9, <3>5, FetchInv
      <3> QED
        BY <1>14, <3>4, <3>6 DEF GoodStep
    <2>7. CASE r.rc = DBERR_NO_ERROR
      <3>1. \/ answer' = [kind |-> "error", x |-> x, row |-> 0]
            \/ answer' = [kind |-> "row", x |-> x, row |-> m]
        BY <1>9, <1>10, <2>1, <2>7
      <3>2. k < n /\ m = k + 1 /\ m <= n /\ m \in 0..MaxRows
        BY <2>2, <2>3, <2>7, PgsqlAssumption
      <3>3. /\ CursorView(x) = [open |-> TRUE, rows |-> n, at |-> k]
            /\ CursorView(x)' = [open |-> TRUE, rows |-> n, at |-> m]
        <4>1. m < n \/ m = n
          BY <2>3, <3>2
        <4>2. m = n => CursorView(x)' = [open |-> TRUE, rows |-> n, at |-> m]
          BY <2>3, <2>5
        <4> QED
          BY <2>4, <2>5, <3>2, <4>1, <4>2
      <3>4. \A y \in CursorNames \ {x} : CursorView(y)' = CursorView(y)
        BY <1>12
      <3>5. Abstract!Next
        BY <3>1, <3>2, <3>3, <3>4, FetchMoves
      <3>6. answer'.kind \in {"error", "row"} /\ answer'.row \in 0..MaxRows
        BY <3>1, <3>2, CountsOk
      <3>7. PgInv' /\ HeldTruth /\ RestartTruth /\ LossTruth
        BY <1>3, <1>8, <1>9, <3>6, FetchInv
      <3> QED
        BY <1>14, <3>5, <3>7 DEF GoodStep
    <2> QED
      BY <1>11, <1>16, <2>6, <2>7
  <1> QED
    BY <1>15, <1>16

LEMMA PgFetchGood ==
    ASSUME PgInv, NEW x \in CursorNames, PgFetch(x)
    PROVE  GoodStep
  BY FetchClosed, FetchOpen

---------------------------------------------------------------------------
(* The theorems.                                                           *)

LEMMA InitPgInv == PgInit => PgInv
  <1> SUFFICES ASSUME PgInit PROVE PgInv
    OBVIOUS
  <1>1. StateInv
    BY InitStateInv DEF PgInit
  <1>2. \A c \in ConnIds : pg[c] = NullDriver
    BY DEF PgInit
  <1>3. pg \in [ConnIds -> Driver]
    BY NullDriverOk DEF PgInit
  <1>4. PgTypeOK
    BY <1>3, CountsOk DEF PgInit, PgTypeOK, NoAnswer, Ways
  <1>5. PgDrivers
    BY <1>2, NullDriverOk DEF PgDrivers
  <1>6. \A x \in CursorNames : cursor[x].conn = NoConn /\ cursor[x].drv = "undeclared"
    BY DEF PgInit, Init, CurInit, NullCursor
  <1>7. NoConn \notin ConnIds
    BY DEF NoConn, ConnIds
  <1>8. PgCursors
    BY <1>2, <1>6, <1>7, NullDriverOk, NoPortalOk DEF PgCursors
  <1>9. PgWarned
    BY <1>2, NullDriverOk DEF PgWarned, Doomed
  <1> QED
    BY <1>1, <1>4, <1>5, <1>8, <1>9 DEF PgInv

\* The registries, the drivers and the observer are as they were.
LEMMA SamePgInv ==
    ASSUME PgInv, UNCHANGED <<connVars, curVars, loopVars, pg, source, sent, answer, warned>>
    PROVE  PgInv'
  <1>1. StateInv'
    BY UnchangedStateInv DEF PgInv
  <1>2. PgTypeOK'
    BY DEF PgInv, PgTypeOK
  <1>3. PgDrivers'
    BY DEF PgInv, PgDrivers, connVars, registry, DriverOk
  <1>4. PgCursors'
    BY DEF PgInv, PgCursors, curVars
  <1>5. PgWarned'
    BY DEF PgInv, PgWarned, CodesTold, Doomed
  <1> QED
    BY <1>1, <1>2, <1>3, <1>4, <1>5 DEF PgInv

LEMMA SamePgViews ==
    ASSUME UNCHANGED <<curVars, pg, answer>>
    PROVE  UNCHANGED Abstract!vars
  <1>1. \A x \in CursorNames : CursorView(x)' = CursorView(x)
    BY DEF CursorView, curVars
  <1> QED
    BY <1>1 DEF Abstract!vars

\* A step of the process, or its end in an emulated FETCH.
SafeStep ==
    /\ PgInv'
    /\ HeldTruth
    /\ RestartTruth
    /\ LossTruth
    /\ FetchTruth
    /\ Abstract!Next \/ UNCHANGED Abstract!vars

LEMMA PgFetchCrashSafe ==
    ASSUME PgInv, NEW x \in CursorNames, PgFetchCrash(x)
    PROVE  SafeStep
  <1>1. /\ UNCHANGED <<connVars, curVars, loopVars, pg, source, sent, answer, warned>>
        /\ ~alive' /\ ~NativeCursors
    BY DEF PgFetchCrash, FetchCrashes
  <1>2. PgInv' /\ UNCHANGED Abstract!vars
    BY <1>1, SamePgInv, SamePgViews
  <1>3. HeldTruth /\ RestartTruth /\ LossTruth /\ FetchTruth
    BY <1>1 DEF HeldTruth, RestartTruth, LossTruth, FetchTruth
  <1> QED
    BY <1>2, <1>3 DEF SafeStep

LEMMA PgNextSafe ==
    ASSUME PgInv, PgNext
    PROVE  SafeStep
  <1>1. /\ ConnectNames \subseteq Names /\ AtNames \subseteq Names \cup {NoName}
        /\ HostIds \subseteq BOOLEAN
    BY RuntimeAssumption
  <1>2. ASSUME NEW n \in ConnectNames \cup {NoName}, PgConnect(n)
        PROVE  GoodStep
    BY <1>1, <1>2, PgConnectGood
  <1>3. CASE PgResetAll \/ PgVarLists
    <2>1. GoodStep
      BY <1>3, PgResetAllGood, PgVarListsGood
    <2> QED
      BY <2>1 DEF GoodStep, SafeStep
  <1>4. ASSUME NEW n \in AtNames, PgConnectReset(n) \/ PgDisconnect(n)
        PROVE  GoodStep
    BY <1>1, <1>4, PgConnectResetGood, PgDisconnectGood
  <1>5. ASSUME NEW n \in AtNames, NEW s \in Statements,
               \/ PgExec(n, s)
               \/ \E nRes \in 0..MaxVars : PgSelectInto(n, s, nRes)
               \/ \E name \in StmtNames : PgPrepare(n, name, s)
        PROVE  GoodStep
    BY <1>1, <1>5, PgExecGood, PgSelectIntoGood, PgPrepareGood
  <1>6. ASSUME NEW n \in AtNames, NEW s \in StmtNames,
               \/ PgExecPrepared(n, s)
               \/ \E nRes \in 0..MaxVars : PgExecPreparedInto(n, s, nRes)
        PROVE  GoodStep
    BY <1>1, <1>6, PgExecPreparedGood, PgExecPreparedIntoGood
  <1>7. ASSUME NEW n \in AtNames, NEW y \in CursorNames, NEW host \in HostIds,
               NEW hold \in BOOLEAN, NEW s \in StmtNames \cup {NoStmt},
               PgDeclare(y, n, host, hold, s)
        PROVE  GoodStep
    BY <1>1, <1>7, PgDeclareGood
  <1>8. ASSUME NEW x \in CursorNames,
               (\E hv \in AtNames : PgOpen(x, hv)) \/ PgFetch(x) \/ PgClose(x)
        PROVE  GoodStep
    BY <1>1, <1>8, PgOpenGood, PgFetchGood, PgCloseGood
  <1>9. CASE \E x \in CursorNames : PgFetchCrash(x)
    BY <1>9, PgFetchCrashSafe
  <1>10. CASE ~(PgResetAll \/ PgVarLists) /\ ~(\E x \in CursorNames : PgFetchCrash(x))
    <2>1. GoodStep
      BY <1>2, <1>4, <1>5, <1>6, <1>7, <1>8, <1>10 DEF PgNext
    <2> QED
      BY <2>1 DEF GoodStep, SafeStep
  <1> QED
    BY <1>3, <1>9, <1>10

LEMMA UnchangedPgInv ==
    ASSUME PgInv, UNCHANGED pgVars
    PROVE  PgInv'
  BY SamePgInv DEF pgVars, vars

(***************************************************************************)
(* The registries, the drivers and the server's sessions always fit        *)
(* together: a driver keeps a portal or a result of a cursor only while    *)
(* the cursor is bound to its connection, and with emulated cursors the    *)
(* program has been told of every transaction that has failed.             *)
(***************************************************************************)
THEOREM PgInvariant == PgSpec => []PgInv
  <1>1. PgInv /\ [PgNext]_pgVars => PgInv'
    BY PgNextSafe, UnchangedPgInv DEF SafeStep
  <1> QED
    BY <1>1, InitPgInv, PTL DEF PgSpec

\* The drivers, the prepared statements and the answers keep their types.
THEOREM PgTypeCorrect == PgSpec => []PgTypeOK
  <1>1. PgInv => PgTypeOK
    BY DEF PgInv
  <1> QED
    BY <1>1, PgInvariant, PTL

(***************************************************************************)
(* A cursor of its own query that the runtime takes for open in the driver *)
(* has a result set, and a cursor that is not open has none: OPEN, CLOSE,  *)
(* the sweep of COMMIT and ROLLBACK, DISCONNECT and every failure among    *)
(* them keep the runtime and the driver agreed.                            *)
(***************************************************************************)
THEOREM ResultsAreThere == PgSpec => []OpenCursorsHaveResults
  <1>1. PgInv => OpenCursorsHaveResults
    <2> SUFFICES ASSUME PgInv, NEW x \in cursors,
                        cursor[x].conn # NoConn, source[x] = NoStmt
                 PROVE  cursor[x].drv = "open" <=> pg[cursor[x].conn].priv[x] # NoResult
      BY DEF OpenCursorsHaveResults
    <2>1. StateInv /\ PgCursors /\ x \in CursorNames /\ cursor[x] \in Cursor
      BY DEF PgInv, StateInv, CurTypeOK
    <2>2. cursor[x].conn \in ConnIds
      BY <2>1 DEF Cursor, NoConn, ConnIds
    <2> QED
      BY <2>1, <2>2 DEF PgCursors
  <1> QED
    BY <1>1, PgInvariant, PTL

(***************************************************************************)
(* No statement moves or closes a WITH HOLD cursor that a COMMIT has made  *)
(* permanent, neither the ROLLBACK nor the sweep before it.                *)
(***************************************************************************)
THEOREM HeldCursorsAreKept == PgSpec => HeldCursorsStay
  <1>1. PgInv /\ [PgNext]_pgVars =>
            [\A c \in ConnIds, x \in CursorNames :
                sent'.by # "none" /\ pg[c].portal[x].kind = "held" =>
                    pg'[c].portal[x] = pg[c].portal[x]]_pgVars
    BY PgNextSafe DEF SafeStep, HeldTruth
  <1> QED
    BY <1>1, PgInvariant, PTL DEF PgSpec, HeldCursorsStay

(***************************************************************************)
(* With autocommit off no call that succeeds leaves the session outside a  *)
(* transaction, but for an EXECUTE of a prepared COMMIT or ROLLBACK.       *)
(***************************************************************************)
THEOREM TransactionsAreRestarted == PgSpec => TransactionRestarted
  <1>1. PgInv /\ [PgNext]_pgVars =>
            [\A c \in ConnIds :
                (pg[c].off /\ pg[c].tx # "idle" /\ pg'[c].connaddr /\ pg'[c].tx = "idle") =>
                    ret'.rc = "FAILED" \/ sent'.by \in {"prepared", "prepared_into"}]_pgVars
    BY PgNextSafe DEF SafeStep, RestartTruth
  <1> QED
    BY <1>1, PgInvariant, PTL DEF PgSpec, TransactionRestarted

(***************************************************************************)
(* With emulated cursors, and a GIXSQL_NOREC_CODE that does not turn the   *)
(* code of an error into "no record", no COMMIT that reports success has   *)
(* lost work of a transaction in which no call reported an error.  With    *)
(* native cursors this is false: their CLOSE fails in silence.             *)
(***************************************************************************)
THEOREM NothingIsLostInSilence ==
    ASSUME ~NativeCursors, CodesTold
    PROVE  PgSpec => NoSilentLoss
  <1>1. PgInv /\ [PgNext]_pgVars =>
            [\A c \in ConnIds :
                (/\ alive'
                 /\ ret'.conn = c
                 /\ pg'[c].fate = "lost"
                 /\ sent'.stmt \in {"COMMIT", "COMMIT_WORK"}
                 /\ ret'.rc = "SUCCESS") => warned[c]]_pgVars
    BY PgNextSafe DEF SafeStep, LossTruth
  <1> QED
    BY <1>1, PgInvariant, PTL DEF PgSpec, NoSilentLoss

(***************************************************************************)
(* With native cursors a FETCH that fails is not taken for the end of the  *)
(* data, unless GIXSQL_NOREC_CODE makes "no record" one of the error       *)
(* codes.                                                                  *)
(***************************************************************************)
THEOREM FailedFetchIsNoEnd ==
    ASSUME NativeCursors, NorecCode > 0
    PROVE  PgSpec => NorecMeansEndOfData
  <1>1. PgInv /\ [PgNext]_pgVars => [answer'.kind = "error" => sqlcode' # "norec"]_pgVars
    BY PgNextSafe DEF SafeStep, FetchTruth
  <1> QED
    BY <1>1, PgInvariant, PTL DEF PgSpec, NorecMeansEndOfData

(***************************************************************************)
(* The driver implements AbstractCursor, with native and with emulated     *)
(* cursors: FETCH gives the rows of a cursor in order, none twice, says    *)
(* "no data" exactly at the end, and no other call moves a cursor that     *)
(* stays open.                                                             *)
(***************************************************************************)
THEOREM CursorsAreImplemented == PgSpec => ImplementsAbstractCursor
  <1>1. PgInit => Abstract!Init
    <2> SUFFICES ASSUME PgInit PROVE Abstract!Init
      BY SMTT(40)
    <2>1. \A x \in CursorNames : CursorView(x) = Abstract!Closed
      <3>1. \A x \in CursorNames : cursor[x].conn = NoConn
        BY DEF PgInit, Init, CurInit, NullCursor
      <3> QED
        BY <3>1 DEF CursorView, Abstract!Closed
    <2> QED
      BY <2>1 DEF PgInit, NoAnswer, Abstract!Init, Abstract!NoAnswer
  <1>2. PgInv /\ [PgNext]_pgVars => [Abstract!Next]_(Abstract!vars)
    <2>1. ASSUME PgInv, PgNext
          PROVE  [Abstract!Next]_(Abstract!vars)
      BY <2>1, PgNextSafe DEF SafeStep
    <2>2. ASSUME UNCHANGED pgVars
          PROVE  UNCHANGED Abstract!vars
      BY <2>2, SamePgViews DEF pgVars, vars
    <2> QED
      BY <2>1, <2>2
  <1> QED
    BY <1>1, <1>2, PgInvariant, PTL DEF PgSpec, ImplementsAbstractCursor, Abstract!Spec

=============================================================================
