-------------------------- MODULE GeneratedProgram --------------------------
(***************************************************************************)
(* The COBOL program that gixpp writes (TPESQLProcessor.cpp), running on   *)
(* libgixsql.  An embedded statement becomes a sequence of runtime calls   *)
(* and of a few lines of COBOL around them; handle_esql_stmt gives that    *)
(* sequence, and the program executes it one call at a time.  The order of *)
(* the statements is the program's business: any statement of Program may  *)
(* follow any other.                                                       *)
(*                                                                         *)
(* A cursor is declared in the runtime by a paragraph at the end of the    *)
(* program, performed when the cursor is first opened (or its DECLARE is   *)
(* reached); the flag GIXSQL-CI-F-<cursor> remembers that this was done.   *)
(***************************************************************************)
EXTENDS GixSqlRuntime, Sequences

CONSTANTS
    Program,      \* the embedded statements of the program
    Declaration,  \* cursor -> its DECLARE CURSOR statement
    Handlers      \* the WHENEVER actions in force: CONTINUE, GO TO, PERFORM

Kinds == {"connect", "reset", "resetall", "dml", "select", "declare", "open",
          "close", "fetch", "prepare", "execute", "immediate"}

\* at: the connection id; crs: the cursor; q: the text; np and nr: how many
\* parameters and result variables the statement has.
Statement == [kind : Kinds, at : Names \cup {NoName},
              crs : CursorNames \cup {"none"}, q : {"tx_end", "other"},
              np : 0..MaxVars, nr : 0..MaxVars]

\* A cursor statement names its cursor; FETCH has no input variables.
ASSUME ProgramAssumption ==
    /\ Program \subseteq Statement
    /\ \A s \in Program : s.kind \in {"declare", "open", "fetch", "close"} =>
          s.crs \in CursorNames
    /\ \A s \in Program : s.kind = "fetch" => s.np = 0
    /\ \A x \in CursorNames :
          Declaration[x] \in [at : AtNames, host : HostIds, hold : BOOLEAN,
                              np : 0..MaxVars]
    /\ Handlers \subseteq {"CONTINUE", "GO_TO", "PERFORM"}

VARIABLES
    flag,     \* GIXSQL-CI-F-<cursor>: "SPACE" or "X"
    todo,     \* what is left of the statement being executed
    dropped,  \* history: the cursors that left the registry
    masked,   \* history: the cursors whose failed declaration went to a handler
    refused   \* history: a parameter of this statement was refused

progVars == <<flag, todo, dropped, masked, refused>>
allVars == <<vars, progVars>>

---------------------------------------------------------------------------
(* What the preprocessor emits.                                            *)

\* One line of the sequence: a runtime call or a piece of generated COBOL.
Line(op, s) == [op |-> op, s |-> s]

put_start_exec_sql(s) == <<Line("StartSQL", s)>>
put_end_exec_sql(s) == <<Line("EndSQL", s)>>
put_host_parameters(s) == [i \in 1..s.np |-> Line("SetSQLParams", s)]
put_res_host_parameters(s) == [i \in 1..s.nr |-> Line("SetResultParams", s)]
put_whenever_handler(s) == <<Line("whenever", s)>>

\* A call between StartSQL and EndSQL, with the variables of the statement.
WithVariables(op, s) ==
    put_start_exec_sql(s) \o put_res_host_parameters(s) \o put_host_parameters(s)
        \o <<Line(op, s)>> \o put_end_exec_sql(s)

\* The same for EXECUTE, which registers the results last.
HostFirst(op, s) ==
    put_start_exec_sql(s) \o put_host_parameters(s) \o put_res_host_parameters(s)
        \o <<Line(op, s)>> \o put_end_exec_sql(s)

\* A paragraph that ends the statement only when it has no parameters.
InitParagraph_NoEnd(s) ==
    IF s.np > 0
    THEN put_start_exec_sql(s) \o put_host_parameters(s)
             \o <<Line("CursorDeclareParams", s), Line("paragraph_end", s)>>
    ELSE <<Line("CursorDeclare", s), Line("paragraph_end", s)>>

\* put_cursor_declarations: the paragraph GIXSQL-CI-P-<cursor>.
InitParagraph(s) ==
    IF s.np > 0
    THEN put_start_exec_sql(s) \o put_host_parameters(s)
             \o <<Line("CursorDeclareParams", s)>> \o put_end_exec_sql(s)
             \o <<Line("paragraph_end", s)>>
    ELSE <<Line("CursorDeclare", s), Line("paragraph_end", s)>>

\* put_smart_cursor_init_check; a DECLARE also resets SQLCODE.
put_smart_cursor_init_check(s, reset_sqlcode) ==
    <<Line(IF reset_sqlcode THEN "check_reset" ELSE "check", s)>>

handle_esql_stmt(s) ==
    (CASE s.kind = "connect"   -> <<Line("Connect", s)>>
       [] s.kind = "reset"     -> <<Line("ConnectReset", s)>>
       [] s.kind = "resetall"  -> <<Line("ConnectResetAll", s)>>
       [] s.kind = "dml"       -> WithVariables(IF s.np = 0 THEN "Exec"
                                                ELSE "ExecParams", s)
       [] s.kind = "select"    -> WithVariables("ExecSelectIntoOne", s)
       [] s.kind = "declare"   -> put_smart_cursor_init_check(s, TRUE)
       [] s.kind = "open"      -> put_smart_cursor_init_check(s, FALSE)
                                      \o <<Line("CursorOpen", s)>>
       [] s.kind = "close"     -> <<Line("CursorClose", s)>>
       [] s.kind = "fetch"     -> WithVariables("CursorFetchOne", s)
       [] s.kind = "prepare"   -> <<Line("PrepareStatement", s)>>
       [] s.kind = "execute"   -> HostFirst(IF s.nr = 0 THEN "ExecPrepared"
                                            ELSE "ExecPreparedInto", s)
       [] s.kind = "immediate" -> <<Line("ExecImmediate", s)>>)
    \o (IF s.kind = "declare" THEN <<>> ELSE put_whenever_handler(s))

---------------------------------------------------------------------------
(* Execution.                                                              *)

ProgInit ==
    /\ Init
    /\ flag = [x \in CursorNames |-> "SPACE"]
    /\ todo = <<>>
    /\ dropped = {}
    /\ masked = {}
    /\ refused = FALSE

\* Control reaches statement s.
Begin(s) ==
    /\ Ready
    /\ todo = <<>>
    /\ todo' = handle_esql_stmt(s)
    /\ refused' = FALSE
    /\ UNCHANGED <<vars, flag, dropped, masked>>

\* The runtime call of one line.  The text of PREPARE and EXECUTE IMMEDIATE may
\* come from an empty host variable, and hv is what the variable that names a
\* cursor's connection holds at OPEN.
RuntimeCall(op, s) ==
    LET d == Declaration[s.crs]
    IN  CASE op = "Connect"             -> GIXSQLConnect(s.at)
          [] op = "ConnectReset"        -> GIXSQLConnectReset(s.at)
          [] op = "ConnectResetAll"     -> ResetAllBegin
          [] op = "Exec"                -> GIXSQLExec(s.at, s.q)
          [] op = "ExecImmediate"       -> \E q \in Queries : GIXSQLExec(s.at, q)
          [] op = "ExecParams"          -> GIXSQLExecParams(s.at, s.q, s.np)
          [] op = "ExecSelectIntoOne"   -> GIXSQLExecSelectIntoOne(s.at, s.q, s.nr)
          [] op = "PrepareStatement"    -> \E q \in {"empty", "other"} :
                                              GIXSQLPrepareStatement(s.at, q)
          [] op = "ExecPrepared"        -> GIXSQLExecPrepared(s.at, s.q, s.np)
          [] op = "ExecPreparedInto"    -> GIXSQLExecPreparedInto(s.at, s.q, s.np, s.nr)
          [] op = "CursorDeclare"       -> GIXSQLCursorDeclare(s.crs, d.at, d.host,
                                                               d.hold, "other")
          [] op = "CursorDeclareParams" -> GIXSQLCursorDeclareParams(s.crs, d.at, d.host,
                                                                     d.hold, "other", d.np)
          [] op = "CursorOpen"          -> \E hv \in AtNames : GIXSQLCursorOpen(s.crs, hv)
          [] op = "CursorFetchOne"      -> GIXSQLCursorFetchOne(s.crs)
          [] op = "CursorClose"         -> GIXSQLCursorClose(s.crs)
          [] op \in {"StartSQL", "EndSQL"} -> GIXSQLStartSQL
          [] op = "SetSQLParams"        -> GIXSQLSetSQLParams
          [] op = "SetResultParams"     -> GIXSQLSetResultParams

CobolLines == {"whenever", "paragraph_end", "check", "check_reset", "mark"}

\* OPEN calls the runtime only IF GIXSQL-CI-F-<cursor> = 'X'.
Reached(l) == l.op # "CursorOpen" \/ flag[l.s.crs] = "X"

Call ==
    /\ todo # <<>>
    /\ Head(todo).op \notin CobolLines
    /\ Reached(Head(todo))
    /\ RuntimeCall(Head(todo).op, Head(todo).s)
    /\ todo' = Tail(todo)
    /\ dropped' = dropped \cup (cursors \ cursors')
    /\ refused' = (refused \/ (Head(todo).op = "SetSQLParams" /\ ret'.rc = "FAILED"))
    /\ UNCHANGED <<flag, masked>>

SkipCall ==
    /\ todo # <<>>
    /\ ~Reached(Head(todo))
    /\ todo' = Tail(todo)
    /\ UNCHANGED <<vars, flag, dropped, masked, refused>>

\* The loop inside GIXSQLConnectReset("*").
ResetAll ==
    /\ ResetAllStep \/ ResetAllEnd
    /\ dropped' = dropped \cup (cursors \ cursors')
    /\ UNCHANGED <<flag, todo, masked, refused>>

\* The OPEN or DECLARE statement s with the parameters of the declaration.
Declaring(s) == [s EXCEPT !.np = Declaration[s.crs].np]

\* A check that performs the paragraph whatever the flag says.
Check_NoFlag(l) ==
    /\ todo' = InitParagraph(Declaring(l.s)) \o <<Line("mark", l.s)>> \o Tail(todo)
    /\ UNCHANGED sqlcode

\* IF flag = ' ' PERFORM the paragraph and look at SQLCODE; ELSE MOVE 0 TO SQLCODE.
Check(l) ==
    IF flag[l.s.crs] = "SPACE"
    THEN /\ todo' = InitParagraph(Declaring(l.s)) \o <<Line("mark", l.s)>> \o Tail(todo)
         /\ UNCHANGED sqlcode
    ELSE /\ todo' = Tail(todo)
         /\ sqlcode' = IF l.op = "check_reset" THEN "zero" ELSE sqlcode

CheckFlag ==
    /\ Ready
    /\ todo # <<>>
    /\ Head(todo).op \in {"check", "check_reset"}
    /\ Check(Head(todo))
    /\ UNCHANGED <<connVars, curVars, varLists, loopVars, alive, ret>>
    /\ UNCHANGED <<flag, dropped, masked, refused>>

\* A MOVE that is not under IF SQLCODE = 0, and one of the wrong literal.
Marked_Always(x) == "X"

Marked_Lower(x) == IF sqlcode = "zero" THEN "x" ELSE flag[x]

\* IF SQLCODE = 0 MOVE 'X' TO GIXSQL-CI-F-<cursor>.
Marked(x) == IF sqlcode = "zero" THEN "X" ELSE flag[x]

\* MOVE 0 TO SQLCODE in the wrong branch: after the paragraph.
Mark_Resets ==
    /\ Ready
    /\ todo # <<>>
    /\ Head(todo).op = "mark"
    /\ flag' = [flag EXCEPT ![Head(todo).s.crs] = Marked(Head(todo).s.crs)]
    /\ todo' = Tail(todo)
    /\ sqlcode' = "zero"
    /\ UNCHANGED <<connVars, curVars, varLists, loopVars, alive, ret>>
    /\ UNCHANGED <<dropped, masked, refused>>

Mark ==
    /\ Ready
    /\ todo # <<>>
    /\ Head(todo).op = "mark"
    /\ flag' = [flag EXCEPT ![Head(todo).s.crs] = Marked(Head(todo).s.crs)]
    /\ todo' = Tail(todo)
    /\ UNCHANGED <<vars, dropped, masked, refused>>

\* What a handler does here: it rolls back, under WHENEVER ... CONTINUE.
HandlerStatement(s) ==
    [kind |-> "dml", at |-> s.at, crs |-> s.crs, q |-> "tx_end", np |-> 0, nr |-> 0]

(***************************************************************************)
(* put_whenever_handler: EVALUATE on SQLCODE after the statement and, with *)
(* the actions in force at the end of the source, at the end of the        *)
(* paragraph.  A code that is neither "no record", 1 nor negative selects  *)
(* no clause.                                                              *)
(***************************************************************************)
Whenever(h) ==
    /\ Ready
    /\ todo # <<>>
    /\ Head(todo).op \in {"whenever", "paragraph_end"}
    /\ \/ /\ h = "CONTINUE" \/ sqlcode \in {"zero", "warning"}
          /\ todo' = Tail(todo)
          /\ UNCHANGED masked
       \/ /\ h = "GO_TO"
          /\ sqlcode # "zero"
          /\ todo' = <<>>
          /\ UNCHANGED masked
       \/ /\ h = "PERFORM"
          /\ sqlcode # "zero"
          /\ todo' = WithVariables("Exec", HandlerStatement(Head(todo).s)) \o Tail(todo)
          /\ masked' = IF Head(todo).op = "paragraph_end"
                       THEN masked \cup {Head(todo).s.crs} ELSE masked
    /\ UNCHANGED <<vars, flag, dropped, refused>>

ProgNext ==
    \/ \E s \in Program : Begin(s)
    \/ Call
    \/ SkipCall
    \/ ResetAll
    \/ CheckFlag
    \/ Mark
    \/ \E h \in Handlers : Whenever(h)

ProgSpec == ProgInit /\ [][ProgNext]_allVars

---------------------------------------------------------------------------
(* Properties.                                                             *)

\* Types of the runtime and of what the program adds to it: the flags put in working
\* storage by put_smart_cursor_init_flags, and the observers.
ProgTypeOK ==
    /\ TypeOK
    /\ flag \in [CursorNames -> {"SPACE", "X"}]
    /\ dropped \subseteq CursorNames
    /\ masked \subseteq CursorNames
    /\ refused \in BOOLEAN

(***************************************************************************)
(* Between two statements the flag of a cursor and the cursor registry     *)
(* agree: a cursor is marked as initialised exactly when the runtime has   *)
(* its definition, except for a cursor that went with its connection       *)
(* (nothing resets the flag, so the program can never declare it again)    *)
(* and one whose failed declaration was followed by a handler that left    *)
(* SQLCODE at zero.                                                        *)
(***************************************************************************)
FlagsAgree ==
    todo = <<>> =>
        \A x \in CursorNames :
            /\ x \in cursors => flag[x] = "X"
            /\ flag[x] = "X" => x \in cursors \cup dropped \cup masked

(***************************************************************************)
(* A cursor that went with its connection is lost for the rest of the run: *)
(* its flag is up, so no statement of the program reaches the paragraph    *)
(* that would declare it again, and every OPEN fails with -111.            *)
(***************************************************************************)
DroppedForGood ==
    [][\A x \in dropped \cap dropped' : flag[x] = "X" => x \notin cursors']_allVars

(***************************************************************************)
(* When an OPEN or a DECLARE comes to its end with SQLCODE 0 it has done   *)
(* its work: the cursor is open, or its definition is there (or was, or a  *)
(* handler hid that it is not).                                            *)
(***************************************************************************)
OpenIsTruthful ==
    \A s \in Program :
        /\ s.kind = "open" /\ todo = put_whenever_handler(s) /\ sqlcode = "zero" =>
              s.crs \in cursors /\ cursor[s.crs].open
        /\ s.kind = "declare" /\ todo = <<Line("mark", s)>> /\ sqlcode = "zero" =>
              s.crs \in cursors \cup masked

(***************************************************************************)
(* A statement never meets the host variables of another one: the lists    *)
(* are empty between statements, also when a handler leaves in the middle, *)
(* and the OPEN that declares its cursor on the way passes its own.        *)
(***************************************************************************)
OwnVariables ==
    /\ todo = <<>> => cur_vars = 0 /\ res_vars = 0
    /\ todo # <<>> => \/ Head(todo).op \in CobolLines
                      \/ cur_vars <= Head(todo).s.np /\ res_vars <= Head(todo).s.nr

(***************************************************************************)
(* The program does not look at what SetSQLParams returns; still, a        *)
(* statement one of whose parameters was refused does not end with SQLCODE *)
(* 0, because the runtime counts them.  SELECT INTO does not count.        *)
(***************************************************************************)
RefusedIsReported ==
    todo # <<>> /\ refused /\ Head(todo).op \in {"whenever", "paragraph_end"}
        /\ Head(todo).s.kind # "select" => sqlcode # "zero"

=============================================================================
