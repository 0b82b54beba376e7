-------------------------- MODULE CursorManager --------------------------
(***************************************************************************)
(* CursorManager.cpp and Cursor.cpp: the cursors registered by name and    *)
(* what each one remembers.  Names are unique in the registry, so the list *)
(* and the map hold the same cursors and one set of names stands for both. *)
(***************************************************************************)
EXTENDS ConnectionManager, CursorNaming

VARIABLES
    cursors,    \* the names in _cursor_map
    cursor      \* the Cursor object registered under each name

curVars == <<cursors, cursor>>

(***************************************************************************)
(* conn  connection            hold  is_with_hold                          *)
(* at    connection_name       open  is_opened                             *)
(* ref   a host variable for the connection id is kept (connref_data)      *)
(* drv   what the calls made on the driver so far imply about the cursor:  *)
(*       cursor_declare, then cursor_open and cursor_close                 *)
(***************************************************************************)
DriverStates == {"undeclared", "declared", "open"}

Cursor == [conn : ConnIds \cup {NoConn}, at : Names \cup {NoName},
           ref : BOOLEAN, hold : BOOLEAN, open : BOOLEAN, drv : DriverStates]

NullCursor == [conn |-> NoConn, at |-> NoName, ref |-> FALSE,
               hold |-> FALSE, open |-> FALSE, drv |-> "undeclared"]

CurTypeOK ==
    /\ cursors \subseteq CursorNames
    /\ cursor \in [CursorNames -> Cursor]

CurInit ==
    /\ cursors = {}
    /\ cursor = [x \in CursorNames |-> NullCursor]

---------------------------------------------------------------------------
\* The registered cursors bound to connection c.
CursorsOf(c) == {x \in cursors : cursor[x].conn = c}

\* A clearConnectionCursors that spares held cursors.
clearConnectionCursors_SparesHeld(c) ==
    /\ cursors' = cursors \ {x \in CursorsOf(c) : ~cursor[x].hold}
    /\ cursor' = [x \in CursorNames |->
                     IF x \in CursorsOf(c) /\ ~cursor[x].hold
                     THEN NullCursor ELSE cursor[x]]

\* clearConnectionCursors(c, true): held cursors go as well.
clearConnectionCursors(c) ==
    /\ cursors' = cursors \ CursorsOf(c)
    /\ cursor' = [x \in CursorNames |->
                     IF x \in CursorsOf(c) THEN NullCursor ELSE cursor[x]]

\* dbi->cursor_close(), whatever it returns.
DriverClosed(r) == [r EXCEPT !.drv = IF @ = "open" THEN "declared" ELSE @]

\* A closeConnectionCursors that does not look at the WITH HOLD flag.
closeConnectionCursors_AlsoHeld(c) ==
    [x \in CursorNames |-> IF x \in CursorsOf(c)
                           THEN DriverClosed(cursor[x]) ELSE cursor[x]]

\* A closeConnectionCursors that does not compare the connection.
closeConnectionCursors_AnyConnection(c) ==
    [x \in CursorNames |-> IF x \in cursors /\ ~cursor[x].hold
                           THEN DriverClosed(cursor[x]) ELSE cursor[x]]

(***************************************************************************)
(* closeConnectionCursors(c, false): every cursor of c not WITH HOLD, open *)
(* or not, has the driver's cursor_close() called; is_opened is left alone *)
(* and so is the registry.                                                 *)
(***************************************************************************)
closeConnectionCursors(c) ==
    [x \in CursorNames |-> IF x \in CursorsOf(c) /\ ~cursor[x].hold
                           THEN DriverClosed(cursor[x]) ELSE cursor[x]]

=============================================================================
