# A TLA+ model of GixSQL

GixSQL is an embedded SQL preprocessor and runtime for COBOL.  `gixpp`
replaces every `EXEC SQL ... END-EXEC` by calls to `libgixsql`; the library keeps
the connections and cursors of the process and passes the work to a driver for
PostgreSQL, MySQL, SQLite, ODBC or Oracle, loaded at CONNECT.  A COBOL program
sees nothing of a call but the SQLCA: it does not read the return value.

The project models the core of `libgixsql`: what the entry points do to the
connection registry, the cursor registry and SQLCODE, over a driver that may fail
any call.  Four more models put a real driver with its database in the place of that
driver: PostgreSQL, SQLite, MySQL and ODBC.  On the other side of the library, one model
runs the program that the preprocessor generates on it, and one has the conversions
between COBOL fields and database text.  TLC checks them on small instances; TLAPS proves
the safety properties of the core, of the four drivers behind it and of the generated
program for every number of connections, cursors and statements, that PostgreSQL, MySQL and
ODBC cursors implement the abstract specification of a cursor, and the conversion of texts
for every length.

## Inventory

| Component | State | Operations | Hard part |
|---|---|---|---|
| Entry points, `runtime/libgixsql/gixsql.cpp` | two host variable lists, the caller's SQLCA | connect, reset, exec, prepare, select into, cursor calls, variable lists | any order of calls, every step can fail, SQLCODE is the only report |
| Status area, `setStatus` in `gixsql.cpp`, `IDbInterface.h` | SQLCA | `setStatus` | precedence of the driver's code, the internal code and the no-record code |
| Connection registry, `ConnectionManager.cpp`, `Connection.cpp` | list, id map, name map, default connection, next id | `add`, `get`, `exists`, `remove`, `list` | generated and chosen names share one map; the default is replaced |
| Cursor registry, `CursorManager.cpp`, `Cursor.cpp` | list and map of cursors; per cursor its connection, its flags and the driver's private data | `add`, `get`, `exists`, `clearConnectionCursors`, `closeConnectionCursors` | logical and driver state of a cursor; binding to a connection delayed until OPEN |
| Host variable lists and codec, `SqlVarList.cpp`, `SqlVar.cpp` | fields and their database text | `AddVar`, `createRealData`, `createCobolData` | overflow and sign of numeric fields, VARYING lengths |
| Driver loading, `DbInterfaceFactory.cpp` | library handles | `getInterface`, `releaseInterface` | a library that is missing, unloading order |
| Data source parsing, `DataSourceInfo.cpp` | parts of the connection string | `init` | optional parts, environment defaults |
| Drivers, `runtime/libgixsql-*/DbInterface*.cpp` | session, declared cursors, prepared statements, current result set, last error | `IDbInterface` | transactions, autocommit, native and emulated cursors, 0-row statements |
| Schema managers, `DbInterfaceManager*.cpp` | none | catalogue queries | not called by the runtime |
| Code generation, `libgixpp/TPESQLProcessor.cpp` | parsed statements, field map | one handler per statement kind | order of the generated calls; cursor initialisation flags |
| Scanner, parser, front end, `gixpp`, `libcpputils` | source text | text processing | - |

How they interact: the generated program calls the entry points from one thread,
one call after the other; an entry point looks up a connection or a cursor, sweeps
the cursor registry at DISCONNECT, COMMIT and ROLLBACK, calls the driver
synchronously and ends in `setStatus`.  The driver holds references to the cursors
declared on it and they to their connection.  There is no concurrency inside the
library and nothing is persisted by it; what is hard is the long sequence of legal
calls, the call that fails half way, and state kept in two places.

Properties that make the parts correct: the three indexes of the connection registry
agree; no call reaches a connection without a driver; the runtime's and the
driver's idea of a cursor agree; a call touches the cursors of one connection only;
definitions survive transactions; DISCONNECT ALL ends and, if it reports success,
has disconnected all; SQLCODE says whether the call succeeded.  With a driver: an open
cursor has something to fetch from; rows come in order, once each, up to the end; what
COMMIT and ROLLBACK report is true; "no data" means the end of the data; a positioned
statement changes the row fetched last.  Of a generated program: its flags and the
cursor registry agree and no statement sees the variables of another.  Of the codec: a
value arrives, and leaves, as COBOL defines it.

## Modules

| Module | Models | Notes |
|---|---|---|
| `Sqlca` | `DBERR_*`, `is_data_error`, `setStatus` | SQLCODE as an integer; a program tells zero, no-record, warning (positive) and error (negative) apart (`Outcome`) |
| `ConnectionManager` | `ConnectionManager.cpp`, `Connection` | the objects (`conn`) apart from the indexes, because an object outlives its registration |
| `CursorManager` | `CursorManager.cpp`, `Cursor` | list and map hold the same cursors: one set of names |
| `GixSqlRuntime` | `gixsql.cpp` | extends the three; one action per entry point, one disjunct per way out of it |
| `MCGixSqlRuntime` | - | names, symmetry and view for TLC |
| `CursorNaming` | - | the names of cursors, shared by runtime and drivers |
| `PgsqlDriver` | `DbInterfacePGSQL.cpp`, the statement tests of its `utils.cpp` | every method an operator from driver and session to its possible results; the server is external |
| `AbstractCursor` | what `IDbInterface` promises about cursors | the abstract specification |
| `RuntimeOnPgsql` | `gixsql.cpp` over `DbInterfacePGSQL.cpp` | extends `GixSqlRuntime` and `PgsqlDriver` |
| `SqliteDriver` | `DbInterfaceSQLite.cpp` | the engine and its one table are external |
| `RuntimeOnSqlite` | `gixsql.cpp` over `DbInterfaceSQLite.cpp` | extends `GixSqlRuntime` and `SqliteDriver` |
| `MysqlDriver` | `DbInterfaceMySQL.cpp` | the client library and the server are external |
| `RuntimeOnMysql` | `gixsql.cpp` over `DbInterfaceMySQL.cpp` | extends `GixSqlRuntime` and `MysqlDriver`; refines `AbstractCursor` |
| `OdbcDriver` | `DbInterfaceODBC.cpp` | the data source may warn or fail at any call |
| `RuntimeOnOdbc` | `gixsql.cpp` over `DbInterfaceODBC.cpp` | extends `GixSqlRuntime` and `OdbcDriver`; refines `AbstractCursor` |
| `GeneratedProgram` | what `libgixpp/TPESQLProcessor.cpp` emits | extends `GixSqlRuntime`; one step per generated call |
| `SqlVarCodec` | `SqlVar.cpp` | stands alone; bytes of storage, ASCII text |
| `MCRuntimeOn...`, `MCGeneratedProgram`, `MCSqlVarCodec` | - | names, symmetry, views, the program and the host variables for TLC |
| `GixSqlRuntimeProofs` | - | theorems about `GixSqlRuntime`; the proofs of the modules built on it extend it |
| `GeneratedProgramProofs`, `RuntimeOnPgsqlProofs`, `RuntimeOnSqliteProofs`, `RuntimeOnMysqlProofs`, `RuntimeOnOdbcProofs`, `SqlVarCodecProofs` | - | theorems about these modules |

Correspondence with the code:

* `connections` is `_connections`; ids only grow and are appended, so the vector is
  its set of ids in increasing order.  `name_map` is `_connection_name_map`,
  `default_connection` and `next_conn_id` are themselves.  `_connection_map` is never
  read.
* `conn[i]` is the `Connection` object: its name, whether it holds a driver (`dbi`),
  the fate of the driver's session and whether the driver's `_declared_cursors` refers
  to a cursor (`pinned`): that cycle of shared pointers decides whether a replaced
  default connection is destroyed.
* `cursor[x]` is the `Cursor` object: `connection`, `connection_name`, the kept host
  variable, WITH HOLD, `is_opened`, and in `drv` what the calls made on the driver so
  far imply about its side.
* `cur_vars` and `res_vars` are the sizes of the two host variable lists.
* `ret` records the last call, the connection it worked on and its return value;
  `sqlcode` what it left in the SQLCA.  No guard reads them.
* `alive` becomes FALSE when the process dies in `load_dblib`.
* A statement is one of three kinds: no text, the text COMMIT or ROLLBACK
  (`is_commit_or_rollback_statement` compares the whole trimmed text), anything else.
* Each entry point is one action, since a program cannot run between its steps.
  DISCONNECT ALL is one action per round of its loop: `ResetAllBegin` copies the list,
  `ResetAllStep` resets the connection that goes by the name of the next element,
  `ResetAllEnd` reports success.  Nothing else runs in between (`Ready`).
* The driver is external to these modules.  `DriverResults` lets it fail any call, and
  succeed unless the session's handle is lost: on a session that was only terminated SQLite
  still runs what was prepared before.  `DriverFail` gives it any error code of
  `DriverCodes`.  A failing `reset()` or `terminate_connection()` exists in the ODBC
  driver only and loses the session handle; a second reset then succeeds.

Left out of these modules: SQLSTATE and SQLERRM, logging, parameter values, row
positions.

The PostgreSQL driver:

* `pg[c]` is the driver of connection c with its session.  Of the driver: `connaddr`,
  `current_resultset_data` (`cur`), `_prepared_stmts` (`text`, `res`), `last_rc`, the
  private data of each cursor (`priv`) and the autocommit mode.  Of the server: the
  transaction state, the cursors (`portal`) and whether the transaction wrote.  `fate`
  says what the last call did to that work; it is read by properties only.
* `Server` is external: PostgreSQL as the driver uses it.  An error aborts the
  transaction; a failed transaction refuses everything but COMMIT and ROLLBACK; COMMIT
  of a failed transaction is a ROLLBACK with status COMMAND_OK; a COMMIT may fail; a
  WITH HOLD cursor becomes permanent at COMMIT; any statement may be refused.
* Each action of `RuntimeOnPgsql` is the action of `GixSqlRuntime` for the entry point
  with the driver calls the entry point makes: what the abstract driver may do
  there, this driver does here.  Every behaviour of `PgSpec` is therefore one of
  `Spec` in the variables of `GixSqlRuntime`, and the theorems hold of it, except
  that `PgFetchCrash` ends the process where `GixSqlRuntime` has no such step.
* `answer`, `sent` and `warned` are what an observer of the calls remembers: the row a
  FETCH delivered, the last statement and how it was given, and for each connection whether
  an error has been reported since its open transaction began to write.
* `FetchEmulated` stops counting at the end of the result, where the code counts on.
  A SELECT has one column; statements have no parameters, so `exec` and `exec_params`,
  which differ in nothing else, are one operator.  A session that the server breaks
  off, encodings and column data are left out.

The SQLite driver, with `updatable_cursors=on`:

* `sq[c]` is the driver with its database: one table with a unique key, so that a row is
  its key, as it is now (`table`) and as it was committed (`base`).  A statement handle
  (`Stmt`) has the row it stands on and `_on_first_row`.
* The engine is external (`Step`, `Write`, `AutoCommit`): it is on the first row when
  OPEN returns, it reads the table as the statement goes on, a statement that has come to
  its end or failed starts over, and COMMIT without a transaction is refused.
* `SqPositioned` is WHERE CURRENT OF, which the driver turns into a condition on the key
  of the cursor's present row (`CurrentRow`); `SqPositionedCrash` are the states in which
  it reads through a null pointer.  `Styles` is how the parameters of a positioned UPDATE
  are written: not at all, `?` or `$n`; with `$n` the key cannot be bound and the statement
  is lost silently, see `sqlite_dollar`.
* `owed`, `reached` and `mark` belong to observers: the rows a cursor has still to
  deliver, the row its last FETCH moved to, the table when the transaction began.

The MySQL driver, with `updatable_cursors=on`:

* `my[c]` is the driver with its session.  The client stores the whole result of a SELECT,
  so a cursor is a copy of the rows at OPEN (`rows`, `pos`).
* `UniqueIndex` says whether the first index the cursor's columns cover is a unique one;
  `has_unique_key` does not look.  The property on positioned statements is conditional on
  it, and the run has it TRUE.  Before the first FETCH the key is an empty string, which
  matches no row of the model (an integer key would read it as 0).
* `Fails` is every path that calls `mysqlRetrieveError`; the others return an error
  and leave `last_rc` alone, which is how a stale 100 reaches SQLCODE.

The ODBC driver:

* `od[c]` is the driver with its session.  A statement handle has the number of its rows
  and the last one fetched; the tables are not modelled.
* The data source is external: every call may fail, or succeed with
  SQL_SUCCESS_WITH_INFO, whose native code is one of `InfoCodes`; the end of a transaction
  keeps the open results or closes them all; the number of changed rows may be unknown.
* A column that cannot be read leaves the code of its own error in `last_rc`, which the
  next column that can be read clears again (`ColumnsFail`, `AfterColumns`).
* `terminate_connection` drops the handle before it looks at the result of
  SQLDisconnect.  `GixSqlRuntime` leaves such a connection registered with session "lost".
* `done` is an observer: the last call changed data or ended a transaction.

In these three, as over PostgreSQL, each action conjoins the action of `GixSqlRuntime`
with the driver calls, so that every behaviour is one of `Spec` in its variables, but
for the steps that end the process inside a driver.

The generated program:

* `handle_esql_stmt` gives the sequence of runtime calls and lines of COBOL that a
  statement becomes; `todo` is what is left of the present one.  Any statement of
  `Program` may follow any other.  EXECUTE registers its parameters before its results
  (`HostFirst`), every other statement its results first (`WithVariables`).
* `flag` is `GIXSQL-CI-F-<cursor>`, which is a space or X; `InitParagraph` is the paragraph that declares a
  cursor, performed by the first OPEN or DECLARE.
* `Whenever` is the code behind a statement: CONTINUE, GO TO, which leaves the statement,
  or PERFORM of a paragraph that executes a ROLLBACK of its own.
* `dropped`, `masked` and `refused` are histories that only properties read.

The codec:

* `mem` is the field with the bytes that follow it in storage, `ind` its indicator.
  `createRealData` and `createCobolData` are functions of them, byte by byte; the reference
  definition is `CobolField`: how the compiler stores a value in that picture.
* `Buffer` is the row buffer as the driver leaves it: SQLite and MySQL write no NUL
  behind a value, so the end of the column before it may follow.  `strtoll` reads it with
  base 0, as the code does: octal after a 0, hexadecimal after 0x.
* Where the code writes past a heap block (`display_to_comp3`) the outcome is a set: the
  process may die there or go on.
* `ReadGap` and `WriteGap` name the cases in which the code does not do what COBOL
  defines; the properties hold outside them, and each is a deviation listed below.
* The length of a VARYING item is two or four bytes, least significant first (`VarlenOf`,
  `VarlenAt`).
* A decimal number is an integer in units of 10^-3; fields have two or three digits, binary
  items also seven, which take four bytes.  Items of eight bytes are defined, and too large
  for TLC's integers.

## Runs

| Run | Checks | Instance |
|---|---|---|
| `registry` | `TypeOK`, `RegistryConsistent`, `ResetAllComplete`, `ResetAllEnds`, `SqlcodeMatchesResult` | 3 connections, the program may use the name DEFAULT3, host variables, statements direct and prepared, a library that may be missing, driver codes 0 and 7 |
| `cursors` | `NoNullInterface`, `CursorStateAgreement`, `OneConnectionPerCall`, `DefinitionsOutliveTransactions`, `SqlcodeMatchesResult` | 2 connections, 2 cursors, literal and host variable ids, driver codes 0, 7 and 100 |
| `pg_emulated` | `PgTypeOK`, `OpenCursorsHaveResults`, `NoSilentLoss`, `ImplementsAbstractCursor` | 1 emulated cursor, 1 prepared statement, COMMIT, INSERT, SELECT, autocommit Off and Native |
| `pg_native` | `TransactionRestarted`, `HeldCursorsStay`, `NorecMeansEndOfData`, `ImplementsAbstractCursor` | 2 native cursors, COMMIT, COMMIT WORK, ROLLBACK, UPDATE, autocommit Off |
| `sqlite` | `OpenCursorsHaveStatements`, `NoRowSkipped`, `PositionedTouchesOnlyFetched`, `TransactionEndsTruthful`, `FailuresAreErrors` | 1 cursor, 1 prepared statement, 2 keys, BEGIN, COMMIT, ROLLBACK, INSERT, SELECT, positioned UPDATE in every parameter style and DELETE, autocommit Off |
| `mysql` | `OpenCursorsHaveStatements`, `PositionedHitsFetchedRow`, `NorecMeansEndOfData`, `ImplementsAbstractCursor` | 1 cursor, 1 prepared statement, 2 keys, COMMIT, ROLLBACK, INSERT, UPDATE, SELECT, positioned UPDATE and DELETE, autocommit Off |
| `odbc` | `LostSessionRefused`, `OpenCursorsHaveStatements`, `NorecMeansEndOfData`, `ErrorsChangeNothing`, `ImplementsAbstractCursor` | 1 cursor, 1 prepared statement, results of up to 2 rows, all six statements, autocommit Off and On |
| `program` | `ProgTypeOK`, `FlagsAgree`, `OpenIsTruthful`, `OwnVariables`, `RefusedIsReported`, `DroppedForGood` | 15 statements, 2 cursors, 2 connections one after the other, the three WHENEVER actions |
| `codec` | `ReadsAreFaithful`, `WritesAreFaithful` | 29 host variables of two, three or seven digits or characters, 18 numbers, 9 texts, 3 row residues, 2 neighbours |

`ImplementsAbstractCursor` is the refinement: `CursorView` maps a cursor to the server's
cursor, or to the driver's result and row index, and `AbstractCursor` delivers rows in
order, none twice, none left out without an error, and "no data" exactly at the end.  It
is checked for PostgreSQL with emulated and with native cursors, MySQL and ODBC; over the
latter two a cursor defined by a prepared statement shares its position with every other
user of it and is mapped to a closed one.  SQLite reads a table that changes under the
cursor, so its rows are not fixed at OPEN: `NoRowSkipped` says what is left of the
promise.  `NoSilentLoss` holds with emulated cursors and fails with native ones, see below.

`SqTypeOK`, `MyTypeOK`, `OdTypeOK` and `CodecTypeOK` give the types of the other modules'
variables.  They hold in these instances and document the state; no run lists them.

`OneConnectionPerCall` has two parts: no call changes a cursor of another connection, and
the connection that a late OPEN gives a cursor is the one its declaration names, whenever
that id finds one (`BoundAsDeclared`).  `PositionedTouchesOnlyFetched` says of WHERE CURRENT
OF what holds in every parameter style, that no row but the fetched one changes and none
after an error, and that the row did change when success is reported for a statement
without `$n`; `PositionedHitsFetchedRow` is the promise of the README without the exception.

`StateInv` is the induction hypothesis of the proofs.  No run lists it: `TypeOK`,
`RegistryConsistent`, `NoNullInterface` and `CursorStateAgreement` are checked as properties
of their own, and the rest, `ConnectionsNamed` and `LoopProgress`, is there for the
induction.

`SqlcodeMatchesResult` is about every step that returns to the program.  It excludes five cases, named in `Silent`: the variable list
calls, which do not touch the SQLCA; the duplicate CONNECT; GIXSQLDisconnect of an
unknown connection; a successful PREPARE; a failing `move_to_first_record()`.

Bounds.  `MaxConnId` bounds the connections ever created (ids start at 2): two are
needed for a default to be replaced and for a chosen name to meet a generated one,
three for a DISCONNECT ALL that fails half way with connections left on both sides.
Two cursors are needed for a sweep to take one and spare the other.  `MaxVars` = 1
gives both too many and too few arguments.  `NorecCode` is 100 and 100 is among the
driver codes of `cursors`, so that a driver code can be mistaken for "no record".

In the runs over a driver `MaxRows` or `MaxKey` = 2 separates no row, one row and several,
which is what SELECT INTO, the end of a cursor and a positioned statement tell apart.
`MCDriverCodes` has one code of each kind SQLCODE tells apart: the driver's `last_rc`
decides which one is taken, so more codes would add no step.  One connection is enough
because a driver object sees one session; `registry` and `cursors` cover the interplay of
connections.  One cursor and one prepared statement give two users of one statement
handle.  `InfoCodes` = {7}: with 0 among them `ErrorsChangeNothing` promises nothing, since
a warning without a native code becomes a negative SQLCODE.

Views leave out what no guard reads: `ret`, `sqlcode` (but not in `program`), `sent`,
`answer`, and of a driver `fate`, `hit`, `done` and what does not matter of `last_rc`,
the current statement and the results of prepared statements; each MC module says why two
states with one view have successors with one view.  Properties of what is left out are action properties, which TLC evaluates
on every step, before the view is taken.  `pg_native` also leaves out `dirty` and
`warned`, which only `NoSilentLoss` reads.  Cursor names are symmetric in `cursors`
and `pg_native`.  Deadlock is checked except where the process may die: `registry`,
`pg_emulated`, `sqlite`, `mysql` and `codec`.

Fairness.  `FairSpec` asks for weak fairness of `ResetAllStep` and `ResetAllEnd` only:
they are the body and the end of a `for` loop in a single thread, which goes on as
long as the process runs.  No driver call is assumed to succeed and no program to
make another call.

Runs that find a disagreement between the code and what the repository says of it:

| Run | What TLC shows |
|---|---|
| `pg_silent_loss` | native cursors: INSERT, DECLARE CURSOR and COMMIT all succeed and the INSERT is rolled back, because the sweep sends CLOSE for a cursor that is not open |
| `sqlite_dollar` | OPEN, FETCH and UPDATE ... WHERE CURRENT OF with parameters written `$n`, gixpp's default, all succeed and the row is as it was: the driver writes the key as `$1` again (`DbInterfaceSQLite.cpp:682`), the bind of the key fails (514) and `false` (517) is the code of success |
| `null_on_fetch` | FETCH of a NULL column leaves 0 in the indicator |

The findings in `PROJECT.json` quote the lines on both sides.

The models have more that a maintainer may want to change, and that no run singles out.

Runtime:

* A CONNECT with an id in use fails with SQLCODE 0 (`ConnectDuplicate`); a successful
  PREPARE leaves the SQLCODE of an earlier failure, against `ChangeLog:31`.
* A cursor declared AT an id that is not connected is opened on the default connection
  (`OpenConnection`).
* A default connection that is replaced while a cursor is declared on it keeps its
  session, out of the program's reach (`SessionsAfterReplacing`); `~Connection` unloads
  the driver's library before the driver object is destroyed.
* A missing driver library ends the process (`ConnectNoLibrary`).
* EXECUTE INTO counts the rows and columns of another statement's result
  (`gixsql.cpp:488`); over SQLite, MySQL and ODBC it works only after a direct SELECT of as
  many columns.

PostgreSQL:

* With autocommit Off a COMMIT that fails, or that was prepared, leaves no transaction
  (`Finish`, `exec_prepared`).
* Emulated cursors: OPEN, COMMIT, FETCH ends the process (`PgFetchCrash`).
* A held cursor closed in a failed transaction stays open in the server (`cursor_close`).
* A refused CONNECT, a failing PREPARE and a SELECT INTO of several rows leave a positive
  SQLCODE (`ConnectCodes`, `prepare`, `IntoReports`).

SQLite:

* With autocommit Off no transaction is begun after COMMIT or ROLLBACK (`Restart`), where
  `README.md:576` promises one.
* FETCH after the end, or after an error, starts again at the first row; FETCH of an empty
  cursor gives SQLCODE 0; SELECT INTO of several rows takes the first.
* WHERE CURRENT OF before the first FETCH changes the first row; on a cursor that was
  never opened, or is past its end, it ends the process.
* `cursor_close` does nothing; cursors over one prepared statement share its position.

MySQL:

* A stale `last_rc` of 100 makes a FETCH on a cursor that COMMIT closed, a duplicate
  PREPARE, an unknown statement and a failing CLOSE look like the end of the data.
* After COMMIT, CLOSE and the first OPEN of a cursor that is not WITH HOLD fail.
* An index that is not unique lets a positioned statement change several rows; one on a
  cursor whose statement has no result ends the process.
* An UPDATE that changes no value gives 100; `mysql_library_end` is called when any one
  connection ends.

ODBC:

* SQL_SUCCESS_WITH_INFO counts as a failure everywhere but in PREPARE: the work is done, or
  the row is passed over, and the program is told of an error, with a negative SQLCODE if
  the warning has no native code.
* An UPDATE of no row that the data source answers with SQL_NO_DATA is an error instead
  of 100; one whose number of rows is unknown is 100 although rows changed.
* The cursor name given at DECLARE goes with the statement handle that OPEN replaces, so
  that WHERE CURRENT OF never finds its cursor (`README.md:594`).
* A prepared SELECT keeps its result open: it cannot be executed twice, and a cursor over
  it cannot be opened again.
* FETCH of a cursor that lost its statement, a duplicate PREPARE and an unknown statement
  name leave `last_rc` alone: a stale 100 makes them look like the end of the data.
* A DISCONNECT that fails loses the session; a second one succeeds.  CLOSE leaks the
  statement handle and DISCONNECT the connection handle.

Generated program:

* The flag of a cursor is never reset: after DISCONNECT and CONNECT its OPEN fails with
  -111 for the rest of the run (`DroppedForGood`), and after CANCEL the runtime refuses to
  declare it again.
* A WHENEVER handler that runs inside the initialisation paragraph hides a declaration
  that failed (`masked`).
* WHENEVER SQLERROR looks at negative codes, SQLWARNING at 1: the other positive codes
  of the drivers select no clause.
* A variable without an indicator is passed with the literal 0 by reference, which the
  runtime writes to (`TPESQLProcessor.cpp:2083`).

Codec (`ReadGap`, `WriteGap`):

* Read: a number with more digits, or more decimals, than a display field with decimals
  has, or more digits than a packed field, arrives wrong or ends the process; a packed field
  with decimals gets all decimals of the value, and with two more than it has the copy runs
  past the end of its heap block (`SqlVar.cpp:813`, `849`); a binary
  field wraps around without -410; the decimals of a binary field are ignored; a negative
  number keeps no sign in an unsigned field.
* The sign of a trailing combined field is looked for with `strlen`, beyond the field.
* Over SQLite and MySQL a binary field may read on into the column before it: its digits,
  or, behind a single zero, an x and the hexadecimal digits after it.
* A text longer than a VARYING item sets its length to that of the whole text.
* Written: an unsigned display field with decimals takes a byte too many; an unsigned
  field with decimals only is sent without its point; a binary field with as many digits as
  its picture loses the last one.  Under `--picx-as varchar` a PIC X field that starts with a
  NUL is sent as an empty text, and one that ends in a tab or other white space loses it
  (`get_trimmed_length` uses `isspace`).

## Proofs

| Module | Theorem | Property |
|---|---|---|
| `GixSqlRuntimeProofs` | `StateInvariant` | `StateInv`, inductive |
| | `TypeCorrect` | `TypeOK` |
| | `RegistrySafe` | `RegistryConsistent` |
| | `InterfaceSafe` | `NoNullInterface` |
| | `CursorsAgree` | `CursorStateAgreement` |
| | `DisconnectAllComplete` | `ResetAllComplete` |
| | `SqlcodeTruthful` | `SqlcodeMatchesResult` |
| | `CallsAreLocal` | `OneConnectionPerCall` |
| | `DefinitionsSurvive` | `DefinitionsOutliveTransactions` |
| `GeneratedProgramProofs` | `ProgramInvariant` | `ProgInv`, inductive |
| | `ProgramTypes` | `ProgTypeOK` |
| | `FlagsAreRight` | `FlagsAgree` |
| | `OpenTellsTheTruth` | `OpenIsTruthful` |
| | `VariablesAreOwn` | `OwnVariables` |
| | `RefusalsAreReported` | `RefusedIsReported` |
| | `DroppedStayDropped` | `DroppedForGood` |
| `RuntimeOnSqliteProofs` | `SqInvariant` | `SqInv`, inductive |
| | `StatementsAreThere` | `OpenCursorsHaveStatements` |
| | `FetchSkipsNothing` | `NoRowSkipped` |
| | `TransactionsEndTruthfully` | `TransactionEndsTruthful` |
| | `PositionedIsRight` | `PositionedTouchesOnlyFetched` |
| | `FailuresLookLikeErrors` | `FailuresAreErrors`, for a positive no-record code |
| `RuntimeOnOdbcProofs` | `OdInvariant` | `OdInv`, inductive |
| | `StatementsAreThere` | `OpenCursorsHaveStatements` |
| | `LostSessionsAreRefused` | `LostSessionRefused` |
| | `FailedFetchIsNoEnd` | `NorecMeansEndOfData`, for a positive no-record code |
| | `ErrorsAreTruthful` | `ErrorsChangeNothing` |
| | `CursorsAreImplemented` | `ImplementsAbstractCursor`, the refinement |
| `RuntimeOnPgsqlProofs` | `PgInvariant` | `PgInv`, inductive |
| | `PgTypeCorrect` | `PgTypeOK` |
| | `ResultsAreThere` | `OpenCursorsHaveResults` |
| | `HeldCursorsAreKept` | `HeldCursorsStay` |
| | `TransactionsAreRestarted` | `TransactionRestarted` |
| | `NothingIsLostInSilence` | `NoSilentLoss`, with emulated cursors |
| | `FailedFetchIsNoEnd` | `NorecMeansEndOfData`, with native cursors, for a positive no-record code |
| | `CursorsAreImplemented` | `ImplementsAbstractCursor`, the refinement, for both kinds of cursors |
| `RuntimeOnMysqlProofs` | `MyInvariant` | `MyInv`, inductive |
| | `MyTypeCorrect` | `MyTypeOK` |
| | `StatementsAreThere` | `OpenCursorsHaveStatements` |
| | `PositionedHitsFetched` | `PositionedHitsFetchedRow` |
| | `FailedFetchIsNoEnd` | `NorecMeansEndOfData`, for a positive no-record code |
| | `CursorsAreImplemented` | `ImplementsAbstractCursor`, the refinement |
| `SqlVarCodecProofs` | `TextIsHeld` | `TextInv`, inductive, for text fields |
| | `TextReadsAreFaithful` | `ReadsAreFaithful`, for text fields |
| | `TextWritesAreFaithful` | `WritesAreFaithful`, for text fields |

All of them hold for every value of the constants that satisfies the modules' assumptions,
which TLC evaluates in the runs.  These say: the no-record code is not zero, generated names
are distinct and the driver has some nonzero code (`NorecAssumption`, `NamesAssumption`,
`RuntimeAssumption`); a program has finitely many cursors (`CursorNamesAssumption`); names of
cursors and of prepared statements are told apart and no warning has the no-record code
(`SqliteAssumption`, `OdbcAssumption`, `PgsqlAssumption`, `MysqlAssumption`, which also says
that the table has some keys; `MysqlCompositionAssumption`); a cursor statement names its cursor and FETCH passes
no parameters (`ProgramAssumption`: the grammar has no other form); a host variable is not empty, the
length of a VARYING item has two or four bytes and can count what the item holds, and
columns and storage are made of bytes (`VarlenAssumption`, `HostVarsAssumption`,
`ColumnsAssumption`).  Some theorems have
hypotheses of their own, without which they are false.  `NorecCode > 0`, and for
`NothingIsLostInSilence` the weaker `CodesTold`: GIXSQL_NOREC_CODE may be any number, and one
that is also the code of an error makes the two indistinguishable.  `~NativeCursors` in `NothingIsLostInSilence`: a
native CLOSE fails without telling anybody (the run `pg_silent_loss`).  `NativeCursors` in
PostgreSQL's `FailedFetchIsNoEnd`: an emulated FETCH leaves `last_rc` to the statement before
it, so after an UPDATE of no row a FETCH that cannot convert a column is reported as 100.
`TextOnly`, in `SqlVarCodecProofs`: the host variables are PIC X and VARYING items.

The runtime.  None of the invariants is inductive alone.  `remove()` erases a name
from the map, which is right only if that name finds the connection being removed:
`RegistryConsistent`.  A reset gives up the driver, which leaves every cursor safe
only because the sweep before it has removed the cursors of that connection, and those
are found through `cursor[x].conn`: `NoNullInterface` with `CursorStateAgreement`.
`StateInv` joins them with the types, `ConnectionsNamed` (an id in the registry has been
handed out and has a name, so the next id is fresh) and `LoopProgress`.

`LoopProgress` is what DISCONNECT ALL needs.  The loop resets by name, so when two
registered connections have one name (a program that calls its own connection
DEFAULT3 before the runtime generates that name) a round may reset another
connection than the one it is at.  A registered connection that is no longer to be
reset has then lost its name to one that still is, and the name now finds nothing: the
loop will fail when it gets there, so it cannot end in success with a connection
left.

`SqlcodeTruthful` rests on `Reported`, a fact about a single call, shown for each
entry point from lemmas about `setStatus`; the action properties rest on
`CursorDiscipline`, shown in the same way from `StateInv`.  The proofs of the compositions
use the runtime through `AnyCall`, the disjunction of all its entry points with any
arguments: `StateInv` and `CursorDiscipline` hold of every such step.

The generated program.  What is left of a statement is a sequence of lines that grows when
a paragraph is performed or a handler runs, so the invariant has to say which sequences
occur: `Shape`, by what may follow a line directly (`Follows`), what may come anywhere
after it (`Together`) and how many variables it passes (`Bounded`).  The rest of `ProgInv`
says what holds when a given line comes next: the lists are empty outside a block and have
room for the variables still to come inside (`ListsInv`); after a refused parameter the call
that counts them is still ahead or has failed, and nothing behind it can hide that
(`RefusedInv`); a cursor whose flag is down is not in the registry unless its paragraph is
just ending (`FlagInv`, `DeclareInv`); DISCONNECT ALL is alone in its statement (`LoopInv`).

SQLite.  `SqInv` adds to `StateInv` that a driver's declared cursors are the cursors bound to
its connection and that an open one has the statement it was declared for (`SqCursors`);
that a transaction began with the committed rows (`SqMarks`); and where a statement stands:
the rows a cursor has still to deliver lie ahead of its position, or at it while
`_on_first_row` is set (`Stands`, `SqOwed`).  `NoRowSkipped` and
`PositionedTouchesOnlyFetched` are then facts about one step.  Each method of the driver has a lemma that says what it
keeps (`Quiet`, `Evolves`), each entry point one that combines them (`GoodStep`).

ODBC.  `OdInv` adds that a driver without a session has no statements, that a handle exists
only for a connection that has been made and is live, and that the private data of a cursor
is at the connection the cursor is bound to, its own statement or the prepared one it was
declared for, and there while the driver has it open.  A COMMIT closes the cursors one after
the other with a fold over the set of them.  `FoldSet` is defined by a function chosen to
satisfy a recursion; that it exists is shown from the least-number principle (`Iterates`,
`IterationExists`), and that every driver the fold produces is one the invariant allows by
the same principle on a counterexample (`SweepAll`): neither needs an induction scheme.  For
the refinement every step but FETCH leaves a cursor's result as it is, replaces it by a new
one or closes it (`ViewsKept`), which is `Call` of `AbstractCursor`; a FETCH is one of its
three others, depending on what SQLFetch did.

PostgreSQL.  `PgInv` adds that a driver without a session has no transaction, no portals and
no results (`PgDrivers`); that a portal or a result of a cursor is at the connection the
cursor is bound to, that only a WITH HOLD cursor has a portal that outlives its transaction,
and that a cursor the runtime takes for open, but whose result a COMMIT or ROLLBACK has
freed, has no portal either (`PgCursors`).  The last is what the refinement with native
cursors needs: FETCH is sent by name and gives a cursor whose portal is still there a result
again, so that `OpenCursorsHaveResults` would not survive it.  `PgWarned` is what
`NoSilentLoss` needs: with emulated cursors every command that can fail is sent on behalf of
a call that reports it, so the work of a failed transaction is lost only when `warned` is
set for its connection.  The server's commands come first, by what they keep (`Serves`, `EndsTx`); then the
methods of the driver (`Runs`, `Quiet`, `FetchedBy`); the sweep of a COMMIT as for ODBC; then
one lemma for each entry point (`GoodStep`).  The step that ends the process changes nothing
else (`SafeStep`).

The proof found `NoSilentLoss` wrong as it was first stated, for several connections.  `fate`
is what the last call on a connection did to its work, and the property did not ask whether
the COMMIT was for that connection: a COMMIT on one would be blamed for the ROLLBACK before
it on the other.  And `warned` was one flag for all connections, so that an error on one
excused a loss on the other.  The runs have one connection and could not show either.  The
property now says `ret'.conn = c`, and `warned` is kept for each connection.

MySQL.  The private data of a cursor names a statement: one of its own, or the prepared one
it was declared for.  `MyInv` adds that a statement of a cursor's own is a SELECT and is there
only while the private data names it, and that a prepared statement is there while a
cursor's private data names it (`MyDrivers`); that private data is only at the connection the
cursor is bound to, that a cursor the driver has open has a statement, and that one of its own
is there only while the cursor is open and stands at the row `reached` records (`MyCursors`).
The last is what `PositionedHitsFetchedRow` needs: the driver takes the key for WHERE CURRENT
OF from the place of the statement, not from what FETCH told the program.  A CLOSE that fails
may leave private data that names a statement that is gone, so "private data means a
statement" is not invariant, and does not have to be: the driver does not have such a cursor
open.  `MyAnswer` says that what the last FETCH told is still true, which the step that ends
the process in a positioned statement needs: it changes nothing else (`SafeStep`).  The sweep
of a COMMIT is done as for ODBC.  For the refinement every call but FETCH keeps the result of
each cursor, loses it or gives it a new one (`Keeps`, `Loses`, `Gains`), which is `Call` of
`AbstractCursor`; FETCH moves to the next row that is left (`Passed`, `NextRows`) or finds
none.

The codec.  For text fields no induction over the bytes is needed: every byte of the storage
is given by its index.  `TextInv` says that a field that is neither NULL nor the outcome of a
read in `ReadGap` has the storage the compiler defines for the text it stands for (`Holds`),
and that the indicator is -1 just when the field is NULL.  Reading shows that what is written
is that storage (`IntoTextIs`, `PutHolds`).  Writing needs that a length comes back from its
bytes (`VarlenBack`, for two bytes and for four), that padding adds nothing to a text but
blanks (`PaddedCore`; that a text has a last character that is no blank is the least-number
principle again), and that `get_trimmed_length` finds that character (`TrimmedIs`).  That
proof found two cases that the runs had not: a leading NUL, and white space other than blanks
at the end; they are now `TrimGap`, and texts of the `codec` run.

Only model-checked: `ResetAllEnds`, a liveness property, which is out of the prover's
reach; and the numeric fields of `SqlVarCodec`, whose functions fold over the digits of a
field, so that what they compute for every input is an induction over data.

## Not modelled

* The Oracle driver.  `DriverResults` stands for it; its handling of statements follows the
  MySQL driver's, over the third-party library `odpi`.
* Of the modelled drivers: parameter values and their binding, column data and encodings,
  `updatable_cursors=off`, a session that the server breaks off.
* Of the codec: leading and separate signs (lost by FETCH, `SqlVar.cpp:537`), national,
  floating point and Japanese fields; the NUL padding of PIC X fields that receive binary
  columns (`SqlVar.cpp:616`, `628`).
* Data source parsing (`DataSourceInfo.cpp`): text processing, of which CONNECT sees only
  whether it fails.
* The scanner and the parser (generated text processing), the front end, copy file
  resolution and map files (sequential I/O), logging, the schema managers (not called by
  the runtime), the vendored `sqlite3.c`, `odpi` and `popl`, and the .NET test suite.

The vendored files are by far the largest part of the repository's lines; the model covers
the program's own runtime and the code generator.

## Plan

Done: the runtime over an abstract driver; the PostgreSQL, SQLite, MySQL and ODBC drivers
composed with it, three of them refining `AbstractCursor`; the generated program; the codec;
and a theorem for every property that the passing runs check, but for those named above as
only model-checked.  Left: the numeric fields of the codec for every length, and the Oracle
driver.
