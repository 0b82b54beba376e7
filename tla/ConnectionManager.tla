------------------------ MODULE ConnectionManager ------------------------
(***************************************************************************)
(* ConnectionManager.cpp and Connection.cpp: the connection objects, the   *)
(* list and the name map that find them, and the default connection.       *)
(*                                                                         *)
(* The vector _connections grows by push_back with ever larger ids, so it  *)
(* is its set of ids taken in increasing order.  _connection_map is        *)
(* written and never read and is left out, as is Connection::is_opened.    *)
(***************************************************************************)
EXTENDS Integers, FiniteSets

CONSTANTS
    Names,        \* trimmed, non-empty connection ids
    NoName,       \* the empty connection id
    MaxConnId,    \* bound on next_conn_id
    DefaultName   \* id -> "DEFAULT" + std::to_string(id)

ConnIds == 2..MaxConnId
NoConn  == 0      \* a null shared_ptr<Connection>

ASSUME NamesAssumption ==
    /\ NoName \notin Names
    /\ MaxConnId \in Nat
    /\ DefaultName \in [ConnIds -> Names]
    /\ \A i, j \in ConnIds : DefaultName[i] = DefaultName[j] => i = j

DefaultNames == {DefaultName[i] : i \in ConnIds}

VARIABLES
    next_conn_id,        \* static int next_conn_id
    connections,         \* _connections
    name_map,            \* _connection_name_map, NoConn where there is no entry
    default_connection,
    conn                 \* the Connection objects created so far

registry == <<next_conn_id, connections, name_map, default_connection>>
connVars == <<registry, conn>>

(***************************************************************************)
(* session is the driver's own connection handle: live, terminated by the  *)
(* driver, or lost (the driver dropped the handle of a session the server  *)
(* still has).  dbi says whether the Connection holds a driver interface,  *)
(* pinned whether that driver's _declared_cursors is not empty: the        *)
(* cursors in it refer back to the connection and keep the object alive.   *)
(***************************************************************************)
Sessions == {"none", "live", "closed", "lost"}

Connection == [name : Names \cup {NoName}, dbi : BOOLEAN,
               pinned : BOOLEAN, session : Sessions]

NullConnection == [name |-> NoName, dbi |-> FALSE,
                   pinned |-> FALSE, session |-> "none"]

ConnTypeOK ==
    /\ next_conn_id \in 1..MaxConnId \cup {1}
    /\ connections \subseteq ConnIds
    /\ name_map \in [Names -> ConnIds \cup {NoConn}]
    /\ default_connection \in ConnIds \cup {NoConn}
    /\ conn \in [ConnIds -> Connection]

ConnInit ==
    /\ next_conn_id = 1
    /\ connections = {}
    /\ name_map = [n \in Names |-> NoConn]
    /\ default_connection = NoConn
    /\ conn = [i \in ConnIds |-> NullConnection]

---------------------------------------------------------------------------
\* get(name): no name means the default connection, never a lookup.
get(n) == IF n = NoName THEN default_connection ELSE name_map[n]

exists(n) == name_map[n] # NoConn

\* A remove() that leaves default_connection behind.
remove_KeepsDefault(c) ==
    /\ connections' = connections \ {c}
    /\ name_map' = [name_map EXCEPT ![conn[c].name] = NoConn]
    /\ UNCHANGED default_connection

\* remove(conn): by object from the list, by name from the map.
remove(c) ==
    /\ connections' = connections \ {c}
    /\ name_map' = [name_map EXCEPT ![conn[c].name] = NoConn]
    /\ default_connection' =
           IF c = default_connection THEN NoConn ELSE default_connection

\* The default connection that add() takes out of the registry, if any.
Replaced(n) ==
    IF /\ n = NoName
       /\ default_connection # NoConn
       /\ conn[default_connection].name \in DefaultNames
    THEN default_connection
    ELSE NoConn

\* The name add() gives the new connection.
NameFor(n, id) == IF n = NoName THEN DefaultName[id] ELSE n

\* An add() that takes the id before it increments the counter.
add_PostIncrement(n) ==
    LET id == next_conn_id
    IN  /\ next_conn_id' = id + 1
        /\ connections' = connections \cup {id}
        /\ name_map' = [name_map EXCEPT ![NameFor(n, id + 1)] = id]
        /\ default_connection' = IF n = NoName THEN id ELSE default_connection

(***************************************************************************)
(* add(conn): the object gets the next id; an unnamed one is called        *)
(* DEFAULT<id> and becomes the default connection, the previous default    *)
(* leaving the registry.  A named connection of that very name loses its   *)
(* map entry.                                                              *)
(***************************************************************************)
add(n) ==
    LET id  == next_conn_id + 1
        old == Replaced(n)
        map == IF old = NoConn THEN name_map
               ELSE [name_map EXCEPT ![conn[old].name] = NoConn]
    IN  /\ next_conn_id' = id
        /\ connections' = (connections \ {old}) \cup {id}
        /\ name_map' = [map EXCEPT ![NameFor(n, id)] = id]
        /\ default_connection' = IF n = NoName THEN id ELSE default_connection

=============================================================================
