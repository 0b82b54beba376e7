------------------------ MODULE GixSqlRuntimeProofs ------------------------
(***************************************************************************)
(* Proofs about GixSqlRuntime for every number of connections, names,      *)
(* cursors and host variables.  StateInv is inductive; the other results   *)
(* follow from it or from what a single call writes.                       *)
(***************************************************************************)
EXTENDS GixSqlRuntime, TLAPS

---------------------------------------------------------------------------
(* The status area.                                                        *)

\* A call that reports success leaves SQLCODE zero.
LEMMA StatusOk == Status(NoDbi, DBERR_NO_ERROR) = "zero"
  BY DEF Status, setStatus, Outcome, DBERR_NO_ERROR

\* Whatever the driver's code, SQLCODE tells the program one of three things.
LEMMA StatusType ==
    ASSUME NEW code, NEW err
    PROVE  Status(code, err) \in Outcomes
  BY DEF Status, Outcome, Outcomes

\* An error other than DBERR_NO_ERROR never leaves SQLCODE zero.
LEMMA StatusError ==
    ASSUME NEW code \in Int, NEW err \in Int, err # DBERR_NO_ERROR
    PROVE  Status(code, err) # "zero"
  BY NorecAssumption
     DEF Status, setStatus, Outcome, is_data_error,
         DBERR_NO_ERROR, DBERR_NO_DATA, DBERR_NUM_OUT_OF_RANGE

---------------------------------------------------------------------------
(* Looking up a connection.                                                *)

\* The connection that get() finds is registered, under its own name.
LEMMA GetRegistered ==
    ASSUME StateInv, NEW n \in Names \cup {NoName}, get(n) # NoConn
    PROVE  /\ get(n) \in connections
           /\ get(n) \in ConnIds
           /\ conn[get(n)].name \in Names
           /\ name_map[conn[get(n)].name] = get(n)
           /\ conn[get(n)].dbi
  BY NamesAssumption
     DEF StateInv, ConnTypeOK, RegistryConsistent, ConnectionsNamed,
         NoNullInterface, get

LEMMA GetType ==
    ASSUME StateInv, NEW n \in Names \cup {NoName}
    PROVE  get(n) \in ConnIds \cup {NoConn}
  BY DEF StateInv, ConnTypeOK, get

---------------------------------------------------------------------------
(* What the calls do to the state.                                         *)

LEMMA InitStateInv == Init => StateInv
  <1> SUFFICES ASSUME Init PROVE StateInv
    OBVIOUS
  <1> USE DEF Init, ConnInit, CurInit
  <1>1. ConnTypeOK
    BY NamesAssumption
       DEF ConnTypeOK, NullConnection, Connection, Sessions
  <1>2. CurTypeOK
    BY DEF CurTypeOK, NullCursor, Cursor, DriverStates
  <1>3. RegistryConsistent /\ NoNullInterface /\ CursorStateAgreement
    BY DEF RegistryConsistent, NoNullInterface, CursorStateAgreement
  <1>4. ConnectionsNamed /\ LoopProgress
    BY DEF ConnectionsNamed, LoopProgress
  <1> QED
    BY <1>1, <1>2, <1>3, <1>4 DEF StateInv

\* StateInv does not look at SQLCODE, the result or the host variable lists.
LEMMA UnchangedStateInv ==
    ASSUME StateInv, UNCHANGED <<connVars, curVars, loopVars>>
    PROVE  StateInv'
  BY DEF StateInv, connVars, registry, curVars, loopVars, ConnTypeOK, CurTypeOK,
         RegistryConsistent, NoNullInterface, CursorStateAgreement,
         ConnectionsNamed, LoopProgress

\* What NoNullInterface and CursorStateAgreement ask of one cursor.
CursorGood(r) ==
    /\ r.conn # NoConn => conn[r.conn].dbi
    /\ r.open => r.conn # NoConn
    /\ r.drv = "open" => r.open
    /\ r.open /\ r.hold => r.drv = "open"
    /\ r.drv # "undeclared" => r.conn # NoConn

LEMMA CursorsGood ==
    ASSUME StateInv, NEW x \in cursors
    PROVE  x \in CursorNames /\ cursor[x] \in Cursor /\ CursorGood(cursor[x])
  BY DEF StateInv, CurTypeOK, NoNullInterface, CursorStateAgreement, CursorGood

\* Steps that change cursors, sessions and _declared_cursors only.
LEMMA CursorStateInv ==
    ASSUME StateInv, UNCHANGED <<registry, loopVars>>,
           conn' \in [ConnIds -> Connection],
           \A i \in ConnIds : /\ conn'[i].name = conn[i].name
                              /\ conn'[i].dbi = conn[i].dbi,
           CurTypeOK',
           \A x \in cursors' : CursorGood(cursor'[x])
    PROVE  StateInv'
  <1>1. ConnTypeOK' /\ RegistryConsistent' /\ ConnectionsNamed' /\ LoopProgress'
    BY DEF StateInv, registry, loopVars, ConnTypeOK, RegistryConsistent,
           ConnectionsNamed, LoopProgress
  <1>2. NoNullInterface'
    BY DEF StateInv, registry, ConnTypeOK, CurTypeOK, Cursor, NoNullInterface,
           CursorGood
  <1>3. CursorStateAgreement'
    BY DEF CursorStateAgreement, CursorGood
  <1> QED
    BY <1>1, <1>2, <1>3 DEF StateInv, loopVars

\* A connection's cursors leave the registry, the others stay as they are.
LEMMA ClearCursors ==
    ASSUME StateInv, NEW c \in ConnIds, clearConnectionCursors(c)
    PROVE  /\ CurTypeOK'
           /\ \A x \in cursors' : /\ x \in cursors
                                  /\ cursor'[x] = cursor[x]
                                  /\ cursor[x].conn # c
  BY DEF StateInv, CurTypeOK, clearConnectionCursors, CursorsOf, NullCursor,
         Cursor, DriverStates

\* CONNECT.
LEMMA ConnectOkStateInv ==
    ASSUME StateInv, ~resetting, NEW n \in Names \cup {NoName}, ConnectOk(n)
    PROVE  StateInv'
  <1> DEFINE id == next_conn_id + 1
             old == Replaced(n)
             nm == NameFor(n, id)
  <1>1. id \in ConnIds /\ id \notin connections /\ next_conn_id \in Nat
    BY NamesAssumption DEF ConnectOk, StateInv, ConnTypeOK, ConnectionsNamed, ConnIds
  <1>2. nm \in Names /\ (n = NoName => nm \in DefaultNames) /\ (n # NoName => nm = n)
    BY <1>1, NamesAssumption DEF NameFor, DefaultNames
  <1>3. PICK s \in SessionsAfterReplacing(old) :
            conn' = [i \in ConnIds |->
                        IF i = id THEN [name |-> nm, dbi |-> TRUE,
                                        pinned |-> FALSE, session |-> "live"]
                        ELSE IF i = old THEN [conn[i] EXCEPT !.session = s]
                        ELSE conn[i]]
    BY DEF ConnectOk
  <1>4. /\ next_conn_id' = id
        /\ connections' = (connections \ {old}) \cup {id}
        /\ default_connection' = IF n = NoName THEN id ELSE default_connection
        /\ UNCHANGED <<curVars, loopVars>>
    BY DEF ConnectOk, add
  <1>5. /\ old = IF n = NoName THEN default_connection ELSE NoConn
        /\ old # NoConn => old \in connections /\ old \in ConnIds /\ old # id
    BY <1>1 DEF Replaced, StateInv, ConnTypeOK, RegistryConsistent
  <1>6. name_map' = [m \in Names |->
                        IF m = nm THEN id
                        ELSE IF old # NoConn /\ m = conn[old].name THEN NoConn
                        ELSE name_map[m]]
    BY <1>2, <1>5 DEF ConnectOk, add, StateInv, ConnTypeOK
  <1>7. s \in Sessions
    BY <1>5 DEF SessionsAfterReplacing, Sessions, StateInv, ConnTypeOK, Connection
  <1>8. conn' \in [ConnIds -> Connection]
    BY <1>2, <1>3, <1>7 DEF StateInv, ConnTypeOK, Connection, Sessions
  <1>9. /\ conn'[id].name = nm /\ conn'[id].dbi
        /\ \A i \in ConnIds \ {id} : /\ conn'[i].name = conn[i].name
                                     /\ conn'[i].dbi = conn[i].dbi
    BY <1>1, <1>3 DEF StateInv, ConnTypeOK, Connection
  <1>10. ConnTypeOK'
    <2>1. next_conn_id' \in 1..MaxConnId
      BY <1>1, <1>4, NamesAssumption DEF ConnIds
    <2>2. name_map' \in [Names -> ConnIds \cup {NoConn}]
      BY <1>1, <1>6 DEF StateInv, ConnTypeOK
    <2>3. /\ connections' \subseteq ConnIds
          /\ default_connection' \in ConnIds \cup {NoConn}
      BY <1>1, <1>4 DEF StateInv, ConnTypeOK
    <2> QED
      BY <1>8, <2>1, <2>2, <2>3 DEF ConnTypeOK
  <1>11. RegistryConsistent'
    <2>1. ASSUME NEW m \in Names, name_map'[m] # NoConn
          PROVE  name_map'[m] \in connections' /\ conn'[name_map'[m]].name = m
      <3>1. CASE m = nm
        BY <1>4, <1>6, <1>9, <3>1
      <3>2. CASE m # nm
        <4>1. name_map'[m] = name_map[m] /\ name_map[m] # NoConn
          BY <1>6, <2>1, <3>2
        <4>2. name_map[m] \in connections /\ conn[name_map[m]].name = m
          BY <4>1 DEF StateInv, RegistryConsistent
        <4>3. name_map[m] # old
          BY <1>5, <1>6, <2>1, <3>2, <4>2
        <4> QED
          BY <1>1, <1>4, <1>9, <4>1, <4>2, <4>3 DEF StateInv, ConnTypeOK
      <3> QED
        BY <3>1, <3>2
    <2>2. ASSUME default_connection' # NoConn
          PROVE  /\ default_connection' \in connections'
                 /\ conn'[default_connection'].name \in DefaultNames
                 /\ name_map'[conn'[default_connection'].name] = default_connection'
      <3>1. CASE n = NoName
        BY <1>2, <1>4, <1>6, <1>9, <3>1
      <3>2. CASE n # NoName
        <4>1. /\ default_connection' = default_connection
              /\ default_connection \in connections
              /\ conn[default_connection].name \in DefaultNames
              /\ name_map[conn[default_connection].name] = default_connection
          BY <1>4, <2>2, <3>2 DEF StateInv, RegistryConsistent
        <4>2. conn[default_connection].name \in Names
          BY <4>1 DEF StateInv, ConnectionsNamed
        <4>3. name_map[n] = NoConn /\ nm = n
          BY <1>2, <3>2 DEF ConnectOk, exists
        <4>4. conn'[default_connection].name = conn[default_connection].name
          BY <1>1, <1>9, <4>1 DEF StateInv, ConnTypeOK
        <4> QED
          BY <1>4, <1>5, <1>6, <2>2, <3>2, <4>1, <4>2, <4>3, <4>4
      <3> QED
        BY <3>1, <3>2
    <2> QED
      BY <2>1, <2>2 DEF RegistryConsistent
  <1>12. NoNullInterface' /\ CursorStateAgreement' /\ CurTypeOK'
    BY <1>1, <1>4, <1>9
       DEF StateInv, NoNullInterface, CursorStateAgreement, CurTypeOK, curVars,
           ConnTypeOK, Cursor
  <1>13. ConnectionsNamed' /\ LoopProgress' /\ pending' \subseteq ConnIds
         /\ resetting' \in BOOLEAN
    BY <1>1, <1>2, <1>4, <1>9
       DEF StateInv, ConnectionsNamed, LoopProgress, loopVars, ConnTypeOK, ConnIds
  <1> QED
    BY <1>10, <1>11, <1>12, <1>13 DEF StateInv

\* The registry after remove(c) on a connection found by name.
LEMMA RemoveRegistry ==
    ASSUME StateInv, NEW c \in connections, remove(c),
           name_map[conn[c].name] = c,
           conn' \in [ConnIds -> Connection],
           \A i \in ConnIds : conn'[i].name = conn[i].name,
           UNCHANGED next_conn_id
    PROVE  ConnTypeOK' /\ RegistryConsistent'
  <1>1. conn[c].name \in Names
    BY DEF StateInv, ConnectionsNamed
  <1>2. name_map' = [m \in Names |-> IF m = conn[c].name THEN NoConn ELSE name_map[m]]
    BY <1>1 DEF remove, StateInv, ConnTypeOK
  <1>3. ConnTypeOK'
    BY <1>2 DEF remove, StateInv, ConnTypeOK
  <1>4. RegistryConsistent'
    <2>1. ASSUME NEW m \in Names, name_map'[m] # NoConn
          PROVE  name_map'[m] \in connections' /\ conn'[name_map'[m]].name = m
      BY <1>2, <2>1 DEF remove, StateInv, ConnTypeOK, RegistryConsistent
    <2>2. ASSUME default_connection' # NoConn
          PROVE  /\ default_connection' \in connections'
                 /\ conn'[default_connection'].name \in DefaultNames
                 /\ name_map'[conn'[default_connection'].name] = default_connection'
      <3>1. default_connection' = default_connection /\ default_connection # c
        BY <2>2 DEF remove
      <3>2. /\ default_connection \in connections
            /\ conn[default_connection].name \in DefaultNames
            /\ name_map[conn[default_connection].name] = default_connection
            /\ conn'[default_connection].name = conn[default_connection].name
        BY <2>2, <3>1 DEF StateInv, ConnTypeOK, RegistryConsistent
      <3>3. conn[default_connection].name \in Names
        BY <3>2 DEF StateInv, ConnectionsNamed
      <3> QED
        BY <1>2, <3>1, <3>2, <3>3 DEF remove
    <2> QED
      BY <2>1, <2>2 DEF RegistryConsistent
  <1> QED
    BY <1>3, <1>4

\* The state outside the loop variables after a successful reset of c.
LEMMA ResetOkState ==
    ASSUME StateInv, NEW n \in Names \cup {NoName}, get(n) # NoConn,
           NEW call, ResetOk(call, get(n))
    PROVE  /\ ConnTypeOK' /\ CurTypeOK' /\ RegistryConsistent'
           /\ NoNullInterface' /\ CursorStateAgreement'
           /\ connections' = connections \ {get(n)}
           /\ name_map' = [name_map EXCEPT ![conn[get(n)].name] = NoConn]
           /\ \A i \in ConnIds : conn'[i].name = conn[i].name
           /\ UNCHANGED next_conn_id
  <1> DEFINE c == get(n)
  <1>1. /\ c \in connections /\ c \in ConnIds
        /\ conn[c].name \in Names /\ name_map[conn[c].name] = c
    BY GetRegistered
  <1> HIDE DEF c
  <1>2. /\ clearConnectionCursors(c)
        /\ conn' = [conn EXCEPT ![c].dbi = FALSE, ![c].pinned = FALSE,
                                ![c].session = IF @ = "live" THEN "closed" ELSE @]
        /\ remove(c)
        /\ UNCHANGED next_conn_id
    BY DEF ResetOk, c
  <1>3. /\ conn' \in [ConnIds -> Connection]
        /\ \A i \in ConnIds : /\ conn'[i].name = conn[i].name
                              /\ i # c => conn'[i].dbi = conn[i].dbi
    <2>1. conn \in [ConnIds -> Connection]
      BY DEF StateInv, ConnTypeOK
    <2>2. PICK e : e = [conn[c] EXCEPT !.dbi = FALSE, !.pinned = FALSE,
                                       !.session = IF @ = "live" THEN "closed" ELSE @]
      OBVIOUS
    <2>3. conn' = [conn EXCEPT ![c] = e]
      BY <1>1, <1>2, <2>1, <2>2
    <2>4. e \in Connection /\ e.name = conn[c].name
      BY ZenonT(60), <1>1, <2>1, <2>2 DEF Connection, Sessions
    <2> QED
      BY <1>1, <2>1, <2>3, <2>4
  <1>4. ConnTypeOK' /\ RegistryConsistent'
    BY <1>1, <1>2, <1>3, RemoveRegistry
  <1>5. /\ CurTypeOK'
        /\ \A x \in cursors' : /\ x \in cursors
                               /\ cursor'[x] = cursor[x]
                               /\ cursor[x].conn # c
    BY <1>1, <1>2, ClearCursors
  <1>6. NoNullInterface'
    <2>1. \A d \in connections' : conn'[d].dbi
      BY <1>2, <1>3 DEF remove, StateInv, ConnTypeOK, NoNullInterface
    <2>2. ASSUME NEW x \in cursors'
          PROVE  /\ cursor'[x].conn # NoConn => conn'[cursor'[x].conn].dbi
                 /\ cursor'[x].open => cursor'[x].conn # NoConn
      BY <1>3, <1>5, CursorsGood DEF CursorGood, Cursor
    <2> QED
      BY <2>1, <2>2 DEF NoNullInterface
  <1>7. CursorStateAgreement'
    BY <1>5 DEF StateInv, CursorStateAgreement
  <1> QED
    BY <1>2, <1>3, <1>4, <1>5, <1>6, <1>7 DEF remove, c

\* A reset that fails keeps the connection and takes its cursors away.
LEMMA ResetFailsState ==
    ASSUME StateInv, NEW n \in Names \cup {NoName}, get(n) # NoConn,
           clearConnectionCursors(get(n)), NEW s \in Sessions, NEW p \in BOOLEAN,
           conn' = [conn EXCEPT ![get(n)].session = s, ![get(n)].pinned = p],
           UNCHANGED registry
    PROVE  /\ ConnTypeOK' /\ CurTypeOK' /\ RegistryConsistent'
           /\ NoNullInterface' /\ CursorStateAgreement'
           /\ \A i \in ConnIds : conn'[i].name = conn[i].name
  <1>1. get(n) \in ConnIds
    BY GetRegistered
  <1>2. /\ conn' \in [ConnIds -> Connection]
        /\ \A i \in ConnIds : /\ conn'[i].name = conn[i].name
                              /\ conn'[i].dbi = conn[i].dbi
    BY ZenonT(60), <1>1 DEF StateInv, ConnTypeOK, Connection
  <1>3. /\ CurTypeOK'
        /\ \A x \in cursors' : x \in cursors /\ cursor'[x] = cursor[x]
    BY <1>1, ClearCursors
  <1>4. ConnTypeOK' /\ RegistryConsistent'
    BY <1>2 DEF StateInv, registry, ConnTypeOK, RegistryConsistent
  <1>5. NoNullInterface'
    BY <1>2, <1>3 DEF StateInv, registry, ConnTypeOK, NoNullInterface, CurTypeOK, Cursor
  <1>6. CursorStateAgreement'
    BY <1>3 DEF StateInv, CursorStateAgreement
  <1> QED
    BY <1>2, <1>3, <1>4, <1>5, <1>6

\* CONNECT RESET and DISCONNECT of one connection.
LEMMA ConnectResetStateInv ==
    ASSUME StateInv, NEW n \in Names \cup {NoName}, GIXSQLConnectReset(n)
    PROVE  StateInv'
  <1> USE DEF GIXSQLConnectReset
  <1>1. ~resetting /\ pending = {} /\ UNCHANGED loopVars
    BY DEF Ready, StateInv, LoopProgress
  <1>2. CASE get(n) = NoConn /\ ResetNotFound("reset")
    BY <1>1, <1>2, UnchangedStateInv DEF ResetNotFound
  <1>3. CASE get(n) # NoConn /\ ResetFails("reset", get(n))
    <2>1. /\ ConnTypeOK' /\ CurTypeOK' /\ RegistryConsistent'
          /\ NoNullInterface' /\ CursorStateAgreement'
          /\ \A i \in ConnIds : conn'[i].name = conn[i].name
      BY <1>3, ResetFailsState DEF ResetFails, Sessions
    <2>2. ConnectionsNamed' /\ LoopProgress'
      BY <1>1, <1>3, <2>1
         DEF ResetFails, registry, loopVars, StateInv, ConnTypeOK, ConnectionsNamed,
             LoopProgress
    <2> QED
      BY <1>1, <2>1, <2>2 DEF StateInv, loopVars
  <1>4. CASE get(n) # NoConn /\ ResetOk("reset", get(n))
    <2>1. /\ ConnTypeOK' /\ CurTypeOK' /\ RegistryConsistent'
          /\ NoNullInterface' /\ CursorStateAgreement'
          /\ connections' = connections \ {get(n)}
          /\ \A i \in ConnIds : conn'[i].name = conn[i].name
          /\ UNCHANGED next_conn_id
      BY <1>4, ResetOkState
    <2>2. ConnectionsNamed' /\ LoopProgress'
      BY <1>1, <2>1 DEF loopVars, StateInv, ConnTypeOK, ConnectionsNamed, LoopProgress
    <2> QED
      BY <1>1, <2>1, <2>2 DEF StateInv, loopVars
  <1> QED
    BY <1>2, <1>3, <1>4

\* The loop of DISCONNECT ALL takes its copy of the list.
LEMMA ResetAllBeginStateInv ==
    ASSUME StateInv, ResetAllBegin
    PROVE  StateInv'
  BY DEF ResetAllBegin, StateInv, connVars, registry, curVars, ConnTypeOK, CurTypeOK,
         RegistryConsistent, NoNullInterface, CursorStateAgreement,
         ConnectionsNamed, LoopProgress

(***************************************************************************)
(* One round of DISCONNECT ALL.  The round that resets another connection  *)
(* t in place of c leaves t among the pending ones with a name that no     *)
(* longer finds anything: the witness LoopProgress needs for c.            *)
(***************************************************************************)
LEMMA ResetAllStepStateInv ==
    ASSUME StateInv, ResetAllStep
    PROVE  StateInv'
  <1> DEFINE t(c) == get(conn[c].name)
  <1>1. PICK c \in pending :
            \/ /\ t(c) = NoConn /\ ResetNotFound("resetall")
               /\ resetting' = FALSE /\ pending' = {}
            \/ /\ t(c) # NoConn /\ ResetFails("resetall", t(c))
               /\ resetting' = FALSE /\ pending' = {}
            \/ /\ t(c) # NoConn /\ ResetOk("resetall", t(c))
               /\ resetting' = TRUE /\ pending' = pending \ {c}
    BY DEF ResetAllStep
  <1>2. conn[c].name \in Names /\ c \in ConnIds /\ conn[c].name # NoName
    BY NamesAssumption DEF StateInv, ConnectionsNamed
  <1>3. CASE t(c) = NoConn /\ ResetNotFound("resetall")
             /\ resetting' = FALSE /\ pending' = {}
    BY <1>3
       DEF ResetNotFound, StateInv, connVars, registry, curVars, ConnTypeOK, CurTypeOK,
           RegistryConsistent, NoNullInterface, CursorStateAgreement,
           ConnectionsNamed, LoopProgress
  <1>4. CASE t(c) # NoConn /\ ResetFails("resetall", t(c))
             /\ resetting' = FALSE /\ pending' = {}
    <2>1. /\ ConnTypeOK' /\ CurTypeOK' /\ RegistryConsistent'
          /\ NoNullInterface' /\ CursorStateAgreement'
          /\ \A i \in ConnIds : conn'[i].name = conn[i].name
      BY <1>2, <1>4, ResetFailsState DEF ResetFails, Sessions
    <2>2. ConnectionsNamed' /\ LoopProgress'
      BY <1>4, <2>1
         DEF ResetFails, registry, StateInv, ConnTypeOK, ConnectionsNamed, LoopProgress
    <2> QED
      BY <1>4, <2>1, <2>2 DEF StateInv
  <1>5. CASE t(c) # NoConn /\ ResetOk("resetall", t(c))
             /\ resetting' = TRUE /\ pending' = pending \ {c}
    <2> DEFINE u == t(c)
    <2>1. /\ ConnTypeOK' /\ CurTypeOK' /\ RegistryConsistent'
          /\ NoNullInterface' /\ CursorStateAgreement'
          /\ connections' = connections \ {u}
          /\ name_map' = [name_map EXCEPT ![conn[u].name] = NoConn]
          /\ \A i \in ConnIds : conn'[i].name = conn[i].name
          /\ UNCHANGED next_conn_id
      BY <1>2, <1>5, ResetOkState
    <2>2. /\ u \in connections /\ u \in ConnIds /\ u # NoConn
          /\ name_map[conn[u].name] = u /\ conn[u].name = conn[c].name
      BY <1>2, <1>5, GetRegistered DEF get, StateInv, RegistryConsistent
    <2> HIDE DEF u, t
    <2>3. u = c \/ u \in pending \ {c}
      BY <1>1, <2>2 DEF StateInv, LoopProgress
    <2>4. ConnectionsNamed'
      BY <1>5, <2>1 DEF StateInv, ConnTypeOK, ConnectionsNamed
    <2>5. ASSUME NEW d \in connections' \ pending'
          PROVE  \E e \in pending' : /\ conn'[e].name = conn'[d].name
                                     /\ name_map'[conn'[e].name] = NoConn
      <3>1. d \in connections /\ d \in ConnIds /\ d # u /\ (d = c \/ d \notin pending)
        BY <1>5, <2>1, <2>5 DEF StateInv, ConnTypeOK
      <3>2. CASE d = c
        <4>1. u \in pending'
          BY <1>5, <2>3, <3>1, <3>2
        <4>2. conn'[u].name = conn'[d].name /\ name_map'[conn'[u].name] = NoConn
          BY <1>2, <2>1, <2>2, <3>2 DEF StateInv, ConnTypeOK
        <4> QED
          BY <4>1, <4>2
      <3>3. CASE d \notin pending
        <4>1. PICK e \in pending : /\ conn[e].name = conn[d].name
                                   /\ name_map[conn[e].name] = NoConn
          BY <1>1, <3>1, <3>3 DEF StateInv, LoopProgress
        <4>2. e \in pending' /\ e \in ConnIds /\ conn[e].name \in Names
          BY <1>5, <2>2, <4>1 DEF StateInv, ConnectionsNamed
        <4>3. conn'[e].name = conn'[d].name /\ name_map'[conn'[e].name] = NoConn
          BY <2>1, <3>1, <4>1, <4>2 DEF StateInv, ConnTypeOK
        <4> QED
          BY <4>2, <4>3
      <3> QED
        BY <3>1, <3>2, <3>3
    <2> QED
      BY <1>5, <2>1, <2>4, <2>5 DEF StateInv, LoopProgress
  <1> QED
    BY <1>1, <1>3, <1>4, <1>5

LEMMA ResetAllEndStateInv ==
    ASSUME StateInv, ResetAllEnd
    PROVE  StateInv'
  BY DEF ResetAllEnd, StateInv, connVars, registry, curVars, ConnTypeOK, CurTypeOK,
         RegistryConsistent, NoNullInterface, CursorStateAgreement,
         ConnectionsNamed, LoopProgress

LEMMA DisconnectStateInv ==
    ASSUME StateInv, NEW n \in Names \cup {NoName}, GIXSQLDisconnect(n)
    PROVE  StateInv'
  <1> USE DEF GIXSQLDisconnect
  <1>1. CASE get(n) = NoConn
    BY <1>1, UnchangedStateInv
  <1>2. CASE get(n) # NoConn
    <2>1. get(n) \in ConnIds
      BY <1>2, GetRegistered
    <2>2. \E s \in Sessions, p \in BOOLEAN :
             conn' = [conn EXCEPT ![get(n)].session = s, ![get(n)].pinned = p]
      <3>1. CASE TerminateFails(get(n))
        BY <3>1 DEF TerminateFails, Sessions
      <3>2. CASE TerminateOk(get(n))
        <4>1. PICK p \in {conn[get(n)].pinned, FALSE} :
                  conn' = [conn EXCEPT ![get(n)].pinned = p,
                                       ![get(n)].session =
                                           IF @ = "live" THEN "closed" ELSE @]
          BY <3>2 DEF TerminateOk
        <4>2. p \in BOOLEAN /\ conn[get(n)].session \in Sessions
          BY <2>1 DEF StateInv, ConnTypeOK, Connection
        <4> DEFINE s == IF conn[get(n)].session = "live" THEN "closed"
                        ELSE conn[get(n)].session
        <4>3. s \in Sessions
          BY <4>2 DEF Sessions
        <4>4. conn' = [conn EXCEPT ![get(n)].session = s, ![get(n)].pinned = p]
          BY <2>1, <4>1 DEF StateInv, ConnTypeOK, Connection
        <4> QED
          BY <4>2, <4>3, <4>4
      <3> QED
        BY <1>2, <3>1, <3>2
    <2>3. PICK s \in Sessions, p \in BOOLEAN :
             conn' = [conn EXCEPT ![get(n)].session = s, ![get(n)].pinned = p]
      BY <2>2
    <2>4. /\ ConnTypeOK' /\ CurTypeOK' /\ RegistryConsistent'
          /\ NoNullInterface' /\ CursorStateAgreement'
          /\ \A i \in ConnIds : conn'[i].name = conn[i].name
      BY <1>2, <2>3, ResetFailsState
    <2>5. ConnectionsNamed' /\ LoopProgress'
      BY <1>2, <2>4
         DEF Ready, registry, loopVars, StateInv, ConnTypeOK, ConnectionsNamed,
             LoopProgress
    <2> QED
      BY <2>4, <2>5 DEF StateInv, loopVars
  <1> QED
    BY <1>1, <1>2

\* dbi->cursor_close() and what it leaves of a cursor.
LEMMA DriverClosedGood ==
    ASSUME NEW r \in Cursor, CursorGood(r)
    PROVE  /\ DriverClosed(r) \in Cursor
           /\ ~r.hold => CursorGood(DriverClosed(r))
           /\ CursorGood([DriverClosed(r) EXCEPT !.open = FALSE])
  BY DEF Cursor, DriverStates, DriverClosed, CursorGood

\* A statement closes, in the driver, the cursors COMMIT and ROLLBACK close.
LEMMA ExecCursors ==
    ASSUME StateInv, NEW c, NEW q, cursor' = CursorsAtExec(c, q), UNCHANGED cursors
    PROVE  CurTypeOK' /\ \A x \in cursors' : CursorGood(cursor'[x])
  <1>1. CASE is_commit_or_rollback_statement(q)
    <2>1. cursor' = [x \in CursorNames |-> IF x \in CursorsOf(c) /\ ~cursor[x].hold
                                           THEN DriverClosed(cursor[x]) ELSE cursor[x]]
      BY <1>1 DEF CursorsAtExec, closeConnectionCursors
    <2>2. ASSUME NEW x \in CursorNames PROVE cursor'[x] \in Cursor
      BY <2>1, CursorsGood, DriverClosedGood DEF StateInv, CurTypeOK, CursorsOf
    <2>3. ASSUME NEW x \in cursors PROVE CursorGood(cursor'[x])
      BY <2>1, CursorsGood, DriverClosedGood
    <2> QED
      BY <2>1, <2>2, <2>3 DEF StateInv, CurTypeOK
  <1>2. CASE ~is_commit_or_rollback_statement(q)
    BY <1>2, CursorsGood DEF CursorsAtExec, StateInv, CurTypeOK
  <1> QED
    BY <1>1, <1>2

\* EXECUTE, COMMIT, ROLLBACK and every other statement, SELECT ... INTO included.
LEMMA RunStateInv ==
    ASSUME StateInv, NEW c, NEW q, cursor' = CursorsAtExec(c, q),
           UNCHANGED <<connVars, cursors, loopVars>>
    PROVE  StateInv'
  BY ExecCursors, CursorStateInv DEF connVars, StateInv, ConnTypeOK

\* The statements that are not about a cursor or a connection.
LEMMA StatementStateInv ==
    ASSUME StateInv, NEW n, NEW q, NEW nParams, NEW nRes,
           \/ GIXSQLExec(n, q)
           \/ GIXSQLExecParams(n, q, nParams)
           \/ GIXSQLExecPrepared(n, q, nParams)
           \/ GIXSQLExecSelectIntoOne(n, q, nRes)
           \/ GIXSQLExecPreparedInto(n, q, nParams, nRes)
           \/ GIXSQLPrepareStatement(n, q)
    PROVE  StateInv'
  <1>1. ASSUME NEW call, NEW err, StatementRejected(call, get(n), q, err)
        PROVE  StateInv'
    BY <1>1, UnchangedStateInv DEF StatementRejected, StateUnchanged
  <1>2. ASSUME NEW err, Run(get(n), q, err)
        PROVE  StateInv'
    BY <1>2, RunStateInv DEF Run
  <1>3. ASSUME NEW err, NEW codes, RunInto(get(n), q, err, nRes, codes)
        PROVE  StateInv'
    BY <1>3, RunStateInv DEF RunInto
  <1>4. CASE GIXSQLPrepareStatement(n, q)
    BY <1>1, <1>4, UnchangedStateInv DEF GIXSQLPrepareStatement, StateUnchanged
  <1> QED
    BY <1>1, <1>2, <1>3, <1>4
       DEF GIXSQLExec, GIXSQLExecParams, GIXSQLExecPrepared,
           GIXSQLExecSelectIntoOne, GIXSQLExecPreparedInto

\* A driver that takes a cursor into _declared_cursors stays the same driver.
LEMMA DeclaredOnConn ==
    ASSUME StateInv, NEW c \in ConnIds \cup {NoConn}
    PROVE  /\ DeclaredOn(c) \in [ConnIds -> Connection]
           /\ \A i \in ConnIds : /\ DeclaredOn(c)[i].name = conn[i].name
                                 /\ DeclaredOn(c)[i].dbi = conn[i].dbi
  BY DEF DeclaredOn, StateInv, ConnTypeOK, Connection

LEMMA DeclareStateInv ==
    ASSUME StateInv, NEW x \in CursorNames, NEW n \in Names \cup {NoName},
           NEW host \in BOOLEAN, NEW hold \in BOOLEAN,
           Declare(x, n, host, hold), UNCHANGED <<registry, loopVars>>
    PROVE  StateInv'
  <1>1. CASE UNCHANGED <<conn, curVars>>
    BY <1>1, UnchangedStateInv DEF connVars
  <1>2. CASE /\ cursors' = cursors \cup {x}
             /\ cursor' = [cursor EXCEPT ![x] = NewCursor(get(n), n, host, hold)]
             /\ conn' = DeclaredOn(get(n))
    <2> DEFINE r == NewCursor(get(n), n, host, hold)
    <2>1. get(n) \in ConnIds \cup {NoConn} /\ (get(n) # NoConn => conn[get(n)].dbi)
      BY GetType, GetRegistered
    <2>2. r \in Cursor /\ CursorGood(r)
      BY <2>1 DEF NewCursor, Cursor, DriverStates, CursorGood
    <2> HIDE DEF r
    <2>3. cursor' = [cursor EXCEPT ![x] = r]
      BY <1>2 DEF r
    <2>4. CurTypeOK'
      BY <1>2, <2>2, <2>3 DEF StateInv, CurTypeOK
    <2>5. \A y \in cursors' : CursorGood(cursor'[y])
      BY <1>2, <2>2, <2>3, CursorsGood DEF StateInv, CurTypeOK
    <2> QED
      BY <1>2, <2>1, <2>4, <2>5, DeclaredOnConn, CursorStateInv
  <1> QED
    BY <1>1, <1>2 DEF Declare

LEMMA CursorDeclareStateInv ==
    ASSUME StateInv, NEW x \in CursorNames, NEW n \in Names \cup {NoName},
           NEW host \in BOOLEAN, NEW hold \in BOOLEAN, NEW q, NEW nParams,
           \/ GIXSQLCursorDeclare(x, n, host, hold, q)
           \/ GIXSQLCursorDeclareParams(x, n, host, hold, q, nParams)
    PROVE  StateInv'
  <1>1. UNCHANGED <<registry, loopVars>>
    BY DEF GIXSQLCursorDeclare, GIXSQLCursorDeclareParams
  <1>2. ASSUME NEW err, DeclareRejected(n, err) PROVE StateInv'
    BY <1>1, <1>2, UnchangedStateInv DEF DeclareRejected, connVars
  <1>3. ASSUME Declare(x, n, host, hold) PROVE StateInv'
    BY <1>1, <1>3, DeclareStateInv
  <1> QED
    BY <1>2, <1>3 DEF GIXSQLCursorDeclare, GIXSQLCursorDeclareParams

\* Replacing one registered cursor.
LEMMA ReplaceCursor ==
    ASSUME StateInv, NEW x \in cursors, NEW r \in Cursor, CursorGood(r),
           cursor' = [cursor EXCEPT ![x] = r],
           UNCHANGED <<registry, cursors, loopVars>>,
           conn' \in [ConnIds -> Connection],
           \A i \in ConnIds : /\ conn'[i].name = conn[i].name
                              /\ conn'[i].dbi = conn[i].dbi
    PROVE  StateInv'
  <1>1. CurTypeOK'
    BY DEF StateInv, CurTypeOK
  <1>2. \A y \in cursors' : CursorGood(cursor'[y])
    BY CursorsGood DEF StateInv, CurTypeOK
  <1> QED
    BY <1>1, <1>2, CursorStateInv

\* OPEN, which may first bind the cursor to a connection.
LEMMA CursorOpenStateInv ==
    ASSUME StateInv, NEW x \in CursorNames, NEW hv \in Names \cup {NoName},
           GIXSQLCursorOpen(x, hv)
    PROVE  StateInv'
  <1> DEFINE c == OpenConnection(x, hv)
  <1>1. CASE StateUnchanged
    BY <1>1, UnchangedStateInv DEF StateUnchanged
  <1>2. CASE /\ x \in cursors /\ c # NoConn
             /\ \/ OpenDeclareFails(x, c)
                \/ OpenCloseFails(x, c)
                \/ OpenFails(x, c)
                \/ OpenOk(x, c)
             /\ UNCHANGED <<registry, cursors, loopVars>>
    <2>1. cursor[x] \in Cursor /\ CursorGood(cursor[x])
      BY <1>2, CursorsGood
    <2>2. c \in ConnIds /\ conn[c].dbi /\ (cursor[x].conn # NoConn => c = cursor[x].conn)
      <3>1. CASE cursor[x].conn # NoConn
        BY <2>1, <3>1 DEF OpenConnection, CursorGood, Cursor
      <3>2. CASE cursor[x].conn = NoConn
        <4>1. \E m \in Names \cup {NoName} : c = get(m)
          BY <2>1, <3>2 DEF OpenConnection, Cursor
        <4> QED
          BY <1>2, <3>2, <4>1, GetRegistered
      <3> QED
        BY <3>1, <3>2
    <2> HIDE DEF c
    <2>3. /\ conn \in [ConnIds -> Connection]
          /\ DeclaredOn(c) \in [ConnIds -> Connection]
          /\ \A i \in ConnIds : /\ DeclaredOn(c)[i].name = conn[i].name
                                /\ DeclaredOn(c)[i].dbi = conn[i].dbi
      BY <2>2, DeclaredOnConn DEF StateInv, ConnTypeOK
    <2>4. Bound(x, c) \in Cursor /\ CursorGood(Bound(x, c))
      BY <1>2, <2>1, <2>2 DEF Bound, Cursor, DriverStates, CursorGood
    <2>5. Reclosed(x, c) \in Cursor /\ CursorGood(Reclosed(x, c))
      BY <2>4, DriverClosedGood DEF Reclosed, Cursor
    <2>6. CASE OpenDeclareFails(x, c)
      <3> DEFINE r == [cursor[x] EXCEPT !.conn = c]
      <3>1. r \in Cursor /\ CursorGood(r)
        BY <1>2, <2>1, <2>2, <2>6 DEF OpenDeclareFails, Cursor, DriverStates, CursorGood
      <3>2. cursor' = [cursor EXCEPT ![x] = r] /\ UNCHANGED conn
        BY <2>6 DEF OpenDeclareFails
      <3> QED
        BY <1>2, <2>3, <3>1, <3>2, ReplaceCursor
    <2>7. CASE OpenCloseFails(x, c)
      BY <1>2, <2>3, <2>5, <2>7, ReplaceCursor DEF OpenCloseFails
    <2>8. CASE OpenFails(x, c)
      BY <1>2, <2>3, <2>5, <2>8, ReplaceCursor DEF OpenFails
    <2>9. CASE OpenOk(x, c)
      <3> DEFINE r == [Bound(x, c) EXCEPT !.open = TRUE, !.drv = "open"]
      <3>1. r \in Cursor /\ CursorGood(r)
        BY <1>2, <2>2, <2>4 DEF Bound, Cursor, DriverStates, CursorGood
      <3>2. cursor' = [cursor EXCEPT ![x] = r]
        BY <2>9 DEF OpenOk
      <3> QED
        BY <1>2, <2>3, <2>9, <3>1, <3>2, ReplaceCursor DEF OpenOk
    <2> QED
      BY <1>2, <2>6, <2>7, <2>8, <2>9
  <1> QED
    BY <1>1, <1>2 DEF GIXSQLCursorOpen, NoSuchCursor

LEMMA CursorFetchStateInv ==
    ASSUME StateInv, NEW x \in CursorNames, GIXSQLCursorFetchOne(x)
    PROVE  StateInv'
  BY UnchangedStateInv DEF GIXSQLCursorFetchOne, NoSuchCursor, StateUnchanged

LEMMA CursorCloseStateInv ==
    ASSUME StateInv, NEW x \in CursorNames, GIXSQLCursorClose(x)
    PROVE  StateInv'
  <1>1. CASE StateUnchanged
    BY <1>1, UnchangedStateInv DEF StateUnchanged
  <1>2. CASE /\ x \in cursors /\ cursor[x].open
             /\ cursor' = [cursor EXCEPT ![x] = Reclosed(x, cursor[x].conn)]
             /\ UNCHANGED <<connVars, cursors, loopVars>>
    <2>1. cursor[x] \in Cursor /\ CursorGood(cursor[x])
      BY <1>2, CursorsGood
    <2>2. Bound(x, cursor[x].conn) \in Cursor /\ CursorGood(Bound(x, cursor[x].conn))
      BY <1>2, <2>1 DEF Bound, Cursor, DriverStates, CursorGood
    <2>3. /\ Reclosed(x, cursor[x].conn) \in Cursor
          /\ CursorGood(Reclosed(x, cursor[x].conn))
      BY <2>2, DriverClosedGood DEF Reclosed, Cursor
    <2> QED
      BY <1>2, <2>3, ReplaceCursor DEF connVars, StateInv, ConnTypeOK
  <1> QED
    BY <1>1, <1>2 DEF GIXSQLCursorClose, NoSuchCursor

LEMMA VarListStateInv ==
    ASSUME StateInv,
           GIXSQLStartSQL \/ GIXSQLSetSQLParams \/ GIXSQLSetResultParams
    PROVE  StateInv'
  BY UnchangedStateInv
     DEF GIXSQLStartSQL, GIXSQLSetSQLParams, GIXSQLSetResultParams, VarListCall

LEMMA ConnectStateInv ==
    ASSUME StateInv, NEW n \in Names \cup {NoName}, GIXSQLConnect(n)
    PROVE  StateInv'
  <1>1. CASE ConnectDuplicate(n) \/ ConnectFails(n) \/ ConnectNoLibrary(n)
    BY <1>1, UnchangedStateInv
       DEF ConnectDuplicate, ConnectFails, ConnectNoLibrary, StateUnchanged
  <1>2. CASE ConnectOk(n)
    BY <1>2, ConnectOkStateInv DEF GIXSQLConnect, Ready
  <1> QED
    BY <1>1, <1>2 DEF GIXSQLConnect

---------------------------------------------------------------------------
(* StateInv is an invariant.                                               *)

(***************************************************************************)
(* A call of libgixsql with any arguments: what a program of the           *)
(* preprocessor and what the runtime on a given driver do is among them.   *)
(***************************************************************************)
AnyCall ==
    \/ ResetAllBegin
    \/ ResetAllStep
    \/ ResetAllEnd
    \/ \E n \in Names \cup {NoName} :
          \/ GIXSQLConnect(n)
          \/ GIXSQLConnectReset(n)
          \/ GIXSQLDisconnect(n)
    \/ \E n \in Names \cup {NoName}, q \in Queries,
          nParams \in 0..MaxVars, nRes \in 0..MaxVars :
          \/ GIXSQLExec(n, q)
          \/ GIXSQLExecParams(n, q, nParams)
          \/ GIXSQLExecPrepared(n, q, nParams)
          \/ GIXSQLExecSelectIntoOne(n, q, nRes)
          \/ GIXSQLExecPreparedInto(n, q, nParams, nRes)
          \/ GIXSQLPrepareStatement(n, q)
    \/ \E x \in CursorNames, n \in Names \cup {NoName}, host \in BOOLEAN,
          hold \in BOOLEAN, q \in Queries, nParams \in 0..MaxVars :
          \/ GIXSQLCursorDeclare(x, n, host, hold, q)
          \/ GIXSQLCursorDeclareParams(x, n, host, hold, q, nParams)
    \/ \E x \in CursorNames, hv \in Names \cup {NoName} :
          \/ GIXSQLCursorOpen(x, hv)
          \/ GIXSQLCursorFetchOne(x)
          \/ GIXSQLCursorClose(x)
    \/ GIXSQLStartSQL
    \/ GIXSQLSetSQLParams
    \/ GIXSQLSetResultParams

LEMMA NextIsCall == Next => AnyCall
  <1> USE RuntimeAssumption
  <1>1. 0 \in 0..MaxVars /\ NoName \in Names \cup {NoName}
    OBVIOUS
  <1>2. ASSUME NEW x \in CursorNames, GIXSQLCursorFetchOne(x) \/ GIXSQLCursorClose(x)
        PROVE  AnyCall
    BY <1>1, <1>2 DEF AnyCall
  <1> QED
    BY <1>1, <1>2 DEF Next, AnyCall

LEMMA AnyCallStateInv ==
    ASSUME StateInv, AnyCall
    PROVE  StateInv'
  <1> USE RuntimeAssumption
  <1>2. ASSUME NEW n \in Names \cup {NoName}, GIXSQLConnect(n)
        PROVE  StateInv'
    BY <1>2, ConnectStateInv
  <1>3. CASE ResetAllBegin \/ ResetAllStep \/ ResetAllEnd
    BY <1>3, ResetAllBeginStateInv, ResetAllStepStateInv, ResetAllEndStateInv
  <1>4. ASSUME NEW n \in Names \cup {NoName}, GIXSQLConnectReset(n) \/ GIXSQLDisconnect(n)
        PROVE  StateInv'
    BY <1>4, ConnectResetStateInv, DisconnectStateInv
  <1>5. ASSUME NEW n \in Names \cup {NoName}, NEW q \in Queries,
               NEW nParams \in 0..MaxVars, NEW nRes \in 0..MaxVars,
               \/ GIXSQLExec(n, q)
               \/ GIXSQLExecParams(n, q, nParams)
               \/ GIXSQLExecPrepared(n, q, nParams)
               \/ GIXSQLExecSelectIntoOne(n, q, nRes)
               \/ GIXSQLExecPreparedInto(n, q, nParams, nRes)
               \/ GIXSQLPrepareStatement(n, q)
        PROVE  StateInv'
    BY <1>5, StatementStateInv
  <1>6. ASSUME NEW n \in Names \cup {NoName}, NEW q \in Queries, NEW x \in CursorNames,
               NEW host \in BOOLEAN, NEW hold \in BOOLEAN, NEW nParams \in 0..MaxVars,
               \/ GIXSQLCursorDeclare(x, n, host, hold, q)
               \/ GIXSQLCursorDeclareParams(x, n, host, hold, q, nParams)
        PROVE  StateInv'
    BY <1>6, CursorDeclareStateInv
  <1>7. ASSUME NEW x \in CursorNames, NEW hv \in Names \cup {NoName},
               \/ GIXSQLCursorOpen(x, hv)
               \/ GIXSQLCursorFetchOne(x)
               \/ GIXSQLCursorClose(x)
        PROVE  StateInv'
    BY <1>7, CursorOpenStateInv, CursorFetchStateInv, CursorCloseStateInv
  <1>8. CASE GIXSQLStartSQL \/ GIXSQLSetSQLParams \/ GIXSQLSetResultParams
    BY <1>8, VarListStateInv
  <1>9. 0 \in 0..MaxVars
    OBVIOUS
  <1>10. ASSUME NEW x \in CursorNames, GIXSQLCursorFetchOne(x) \/ GIXSQLCursorClose(x)
         PROVE  StateInv'
    BY <1>10, CursorFetchStateInv, CursorCloseStateInv
  <1> QED
    BY SMTT(40), <1>2, <1>3, <1>4, <1>5, <1>6, <1>7, <1>8, <1>9, <1>10 DEF AnyCall

LEMMA NextStateInv ==
    ASSUME StateInv, [Next]_vars
    PROVE  StateInv'
  <1>1. CASE UNCHANGED vars
    BY <1>1, UnchangedStateInv DEF vars
  <1> QED
    BY <1>1, NextIsCall, AnyCallStateInv

(***************************************************************************)
(* The registry, the cursors and the loop of DISCONNECT ALL stay           *)
(* consistent through any sequence of calls to libgixsql.                  *)
(***************************************************************************)
THEOREM StateInvariant == Spec => []StateInv
  BY InitStateInv, NextStateInv, PTL DEF Spec

\* The name map and the connection list of ConnectionManager never drift apart.
THEOREM RegistrySafe == Spec => []RegistryConsistent
  BY StateInvariant, PTL DEF StateInv

\* gixsql.cpp never calls a driver through a null interface.
THEOREM InterfaceSafe == Spec => []NoNullInterface
  BY StateInvariant, PTL DEF StateInv

\* The runtime and the driver agree on which cursors are open.
THEOREM CursorsAgree == Spec => []CursorStateAgreement
  BY StateInvariant, PTL DEF StateInv

---------------------------------------------------------------------------
(* What a call reports.                                                    *)

\* The call that ends with this step is well typed and, unless silent, truthful.
Reported(call) ==
    /\ ret' \in [call : Calls, conn : ConnIds \cup {NoConn}, rc : Results]
    /\ ret'.call = call
    /\ sqlcode' \in Outcomes
    /\ Silent' \/ (sqlcode' = "zero" <=> ret'.rc = "SUCCESS")

Errors == {DBERR_CONNECTION_FAILED, DBERR_CONN_NOT_FOUND, DBERR_CONN_RESET_FAILED,
           DBERR_EMPTY_QUERY, DBERR_SQL_ERROR, DBERR_TOO_MANY_ARGUMENTS,
           DBERR_TOO_FEW_ARGUMENTS, DBERR_NO_PARAMETERS, DBERR_CURSOR_EXISTS,
           DBERR_NO_SUCH_CURSOR, DBERR_CLOSE_CURSOR_FAILED, DBERR_DISCONNECT_FAILED,
           DBERR_DECLARE_CURSOR_FAILED, DBERR_OPEN_CURSOR_FAILED,
           DBERR_FETCH_ROW_FAILED, DBERR_INVALID_COLUMN_DATA, DBERR_CURSOR_CLOSED,
           DBERR_FIELD_COUNT_MISMATCH, DBERR_NO_DATA, DBERR_TOO_MUCH_DATA,
           DBERR_CONN_INIT_ERROR, DBERR_CONN_INVALID_DBTYPE, DBERR_NUM_OUT_OF_RANGE}

LEMMA ErrorsAreErrors == Errors \subseteq Int \ {DBERR_NO_ERROR}
  BY DEF Errors, DBERR_NO_ERROR, DBERR_CONNECTION_FAILED, DBERR_CONN_NOT_FOUND,
         DBERR_CONN_RESET_FAILED, DBERR_EMPTY_QUERY, DBERR_SQL_ERROR,
         DBERR_TOO_MANY_ARGUMENTS, DBERR_TOO_FEW_ARGUMENTS, DBERR_NO_PARAMETERS,
         DBERR_CURSOR_EXISTS, DBERR_NO_SUCH_CURSOR, DBERR_CLOSE_CURSOR_FAILED,
         DBERR_DISCONNECT_FAILED, DBERR_DECLARE_CURSOR_FAILED,
         DBERR_OPEN_CURSOR_FAILED, DBERR_FETCH_ROW_FAILED,
         DBERR_INVALID_COLUMN_DATA, DBERR_CURSOR_CLOSED,
         DBERR_FIELD_COUNT_MISMATCH, DBERR_NO_DATA, DBERR_TOO_MUCH_DATA,
         DBERR_CONN_INIT_ERROR, DBERR_CONN_INVALID_DBTYPE, DBERR_NUM_OUT_OF_RANGE

LEMMA SucceedReported ==
    ASSUME NEW call \in Calls, NEW c \in ConnIds \cup {NoConn}, Succeed(call, c)
    PROVE  Reported(call) /\ ret'.rc = "SUCCESS"
  BY StatusOk DEF Succeed, Return, Reported, Results, Outcomes

LEMMA ErrorReported ==
    ASSUME NEW call \in Calls, NEW c \in ConnIds \cup {NoConn},
           NEW rc \in {"FAILED", "FETCH_ROW_FAILED"}, NEW code \in Int,
           NEW err \in Int \ {DBERR_NO_ERROR}, Return(call, c, rc, Status(code, err))
    PROVE  Reported(call) /\ ret'.rc = rc
  BY StatusType, StatusError DEF Return, Reported, Results

LEMMA FailReported ==
    ASSUME NEW call \in Calls, NEW c \in ConnIds \cup {NoConn}, NEW err \in Errors,
           Fail(call, c, err) \/ DriverFail(call, c, err)
    PROVE  Reported(call) /\ ret'.rc = "FAILED"
  <1>1. err \in Int \ {DBERR_NO_ERROR} /\ NoDbi \in Int
    BY ErrorsAreErrors DEF NoDbi
  <1>2. CASE Fail(call, c, err)
    BY <1>1, <1>2, ErrorReported DEF Fail
  <1>3. CASE DriverFail(call, c, err)
    BY <1>1, <1>3, ErrorReported, RuntimeAssumption DEF DriverFail
  <1> QED
    BY <1>2, <1>3

\* A call that copies SQLCODE is one of the silent ones.
LEMMA SilentReported ==
    ASSUME NEW call \in Calls, NEW c \in ConnIds \cup {NoConn}, NEW rc \in Results,
           NEW o \in Outcomes, Return(call, c, rc, o),
           \/ call = "varlist"
           \/ call = "connect" /\ rc = "FAILED" /\ c # NoConn
           \/ call = "disconnect" /\ c = NoConn
           \/ call = "prepare" /\ rc = "SUCCESS"
           \/ call = "first_row"
    PROVE  Reported(call)
  BY DEF Return, Reported, Silent

LEMMA ConnectReported ==
    ASSUME StateInv, NEW n \in Names \cup {NoName}, GIXSQLConnect(n)
    PROVE  Reported("connect") \/ ConnectNoLibrary(n)
  <1> USE DEF Calls
  <1>1. CASE ConnectDuplicate(n)
    <2>1. name_map[n] \in ConnIds /\ name_map[n] # NoConn
      BY <1>1 DEF ConnectDuplicate, exists, StateInv, ConnTypeOK
    <2> QED
      BY <1>1, <2>1, StatusType, SilentReported DEF ConnectDuplicate, Results
  <1>2. CASE ConnectFails(n)
    BY <1>2, FailReported DEF ConnectFails, Errors
  <1>3. CASE ConnectOk(n)
    <2>1. next_conn_id + 1 \in ConnIds
      BY <1>3, NamesAssumption DEF ConnectOk, StateInv, ConnTypeOK, ConnIds
    <2> QED
      BY <1>3, <2>1, SucceedReported DEF ConnectOk
  <1> QED
    BY <1>1, <1>2, <1>3 DEF GIXSQLConnect

LEMMA ResetReported ==
    ASSUME NEW call \in Calls, NEW c \in ConnIds
    PROVE  /\ ResetNotFound(call) => Reported(call) /\ ret'.rc = "FAILED"
           /\ ResetFails(call, c) => Reported(call) /\ ret'.rc = "FAILED"
           /\ ResetOk(call, c) => Reported(call)
  BY FailReported, SucceedReported
     DEF ResetNotFound, ResetFails, ResetOk, Errors

LEMMA ConnectResetReported ==
    ASSUME StateInv, NEW n \in Names \cup {NoName}, GIXSQLConnectReset(n)
    PROVE  Reported("reset")
  <1>1. get(n) \in ConnIds \cup {NoConn} /\ "reset" \in Calls
    BY GetType DEF Calls
  <1>2. CASE get(n) = NoConn
    BY <1>1, <1>2, FailReported DEF GIXSQLConnectReset, ResetNotFound, Errors
  <1>3. CASE get(n) # NoConn
    BY <1>1, <1>3, ResetReported DEF GIXSQLConnectReset
  <1> QED
    BY <1>2, <1>3

LEMMA DisconnectReported ==
    ASSUME TypeOK, StateInv, NEW n \in Names \cup {NoName}, GIXSQLDisconnect(n)
    PROVE  Reported("disconnect")
  <1> USE DEF Calls
  <1>1. get(n) \in ConnIds \cup {NoConn}
    BY GetType
  <1>2. CASE get(n) = NoConn
    BY <1>2, SilentReported DEF GIXSQLDisconnect, Results, TypeOK
  <1>3. CASE get(n) # NoConn
    BY <1>1, <1>3, FailReported, SucceedReported
       DEF GIXSQLDisconnect, TerminateFails, TerminateOk, Errors
  <1> QED
    BY <1>2, <1>3

LEMMA ParamErrors ==
    ASSUME NEW n
    PROVE  ParamError(n) = DBERR_NO_ERROR \/ ParamError(n) \in Errors
  BY DEF ParamError, Errors

LEMMA RejectedReported ==
    ASSUME NEW call \in Calls, NEW c \in ConnIds \cup {NoConn}, NEW q, NEW err,
           err = DBERR_NO_ERROR \/ err \in Errors,
           StatementRejected(call, c, q, err)
    PROVE  Reported(call)
  BY FailReported DEF StatementRejected, Errors

LEMMA RunReported ==
    ASSUME NEW c \in ConnIds \cup {NoConn}, NEW q, NEW err, Run(c, q, err)
    PROVE  Reported("exec")
  BY FailReported, SucceedReported DEF Run, Errors, Calls

LEMMA RunIntoReported ==
    ASSUME NEW c \in ConnIds \cup {NoConn}, NEW q, NEW err, NEW nRes,
           NEW codes \in SUBSET Int, RunInto(c, q, err, nRes, codes)
    PROVE  Reported("exec") \/ Reported("first_row")
  <1> USE DEF Calls
  <1>1. CASE DriverFail("exec", c, DBERR_SQL_ERROR)
    BY <1>1, FailReported DEF Errors
  <1>2. CASE IntoResult(c, nRes, codes)
    <2>1. DBERR_NO_DATA \in Int \ {DBERR_NO_ERROR}
          /\ DBERR_TOO_MUCH_DATA \in Int \ {DBERR_NO_ERROR}
      BY DEF DBERR_NO_DATA, DBERR_NO_ERROR, DBERR_TOO_MUCH_DATA
    <2>2. CASE Return("exec", c, "FAILED", Status(DBERR_NO_DATA, DBERR_NO_DATA))
      BY <2>1, <2>2, ErrorReported
    <2>3. CASE \E code \in DriverCodes :
                  Return("first_row", c, "FAILED", Status(code, code))
      BY <2>3, StatusType, SilentReported DEF Results
    <2>4. CASE \E code \in codes :
                  Return("exec", c, "FAILED", Status(code, DBERR_TOO_MUCH_DATA))
      BY <2>1, <2>4, ErrorReported
    <2>5. CASE \/ Fail("exec", c, DBERR_FIELD_COUNT_MISMATCH)
               \/ DriverFail("exec", c, DBERR_INVALID_COLUMN_DATA)
               \/ DriverFail("exec", c, DBERR_NUM_OUT_OF_RANGE)
      BY <2>5, FailReported DEF Errors
    <2>6. CASE Succeed("exec", c)
      BY <2>6, SucceedReported
    <2> QED
      BY <1>2, <2>2, <2>3, <2>4, <2>5, <2>6 DEF IntoResult
  <1> QED
    BY <1>1, <1>2 DEF RunInto

LEMMA StatementReported ==
    ASSUME TypeOK, StateInv, NEW n \in Names \cup {NoName}, NEW q,
           NEW nParams, NEW nRes,
           \/ GIXSQLExec(n, q)
           \/ GIXSQLExecParams(n, q, nParams)
           \/ GIXSQLExecPrepared(n, q, nParams)
           \/ GIXSQLExecSelectIntoOne(n, q, nRes)
           \/ GIXSQLExecPreparedInto(n, q, nParams, nRes)
           \/ GIXSQLPrepareStatement(n, q)
    PROVE  Reported("exec") \/ Reported("first_row") \/ Reported("prepare")
  <1> DEFINE c == get(n)
             e == ParamError(nParams)
  <1>1. /\ c \in ConnIds \cup {NoConn} /\ (e = DBERR_NO_ERROR \/ e \in Errors)
        /\ "exec" \in Calls /\ "prepare" \in Calls
        /\ DriverCodes \in SUBSET Int /\ {NoDbi} \in SUBSET Int
    BY GetType, ParamErrors, RuntimeAssumption DEF Calls, NoDbi
  <1> HIDE DEF c, e
  <1>2. CASE GIXSQLPrepareStatement(n, q)
    <2>1. CASE StatementRejected("prepare", c, q, DBERR_NO_ERROR)
      BY <1>1, <2>1, RejectedReported
    <2>2. CASE DriverFail("prepare", c, DBERR_SQL_ERROR)
      BY <1>1, <2>2, FailReported DEF Errors
    <2>3. CASE Return("prepare", c, "SUCCESS", sqlcode)
      BY <1>1, <2>3, SilentReported DEF TypeOK, Results
    <2> QED
      BY <1>2, <2>1, <2>2, <2>3 DEF GIXSQLPrepareStatement, c
  <1>3. CASE \/ StatementRejected("exec", c, q, DBERR_NO_ERROR)
             \/ StatementRejected("exec", c, q, e)
    BY <1>1, <1>3, RejectedReported
  <1>4. CASE Run(c, q, DBERR_NO_ERROR) \/ Run(c, q, e)
    BY <1>1, <1>4, RunReported
  <1>5. CASE \/ RunInto(c, q, DBERR_NO_ERROR, nRes, DriverCodes)
             \/ RunInto(c, q, e, nRes, {NoDbi})
    BY <1>1, <1>5, RunIntoReported
  <1> QED
    BY <1>2, <1>3, <1>4, <1>5
       DEF GIXSQLExec, GIXSQLExecParams, GIXSQLExecPrepared,
           GIXSQLExecSelectIntoOne, GIXSQLExecPreparedInto, c, e

LEMMA CursorDeclareReported ==
    ASSUME StateInv, NEW x, NEW n \in Names \cup {NoName},
           NEW host, NEW hold, NEW q, NEW nParams,
           \/ GIXSQLCursorDeclare(x, n, host, hold, q)
           \/ GIXSQLCursorDeclareParams(x, n, host, hold, q, nParams)
    PROVE  Reported("cursor")
  <1>1. get(n) \in ConnIds \cup {NoConn} /\ "cursor" \in Calls
    BY GetType DEF Calls
  <1>2. ASSUME NEW err, err = DBERR_NO_ERROR \/ err \in Errors, DeclareRejected(n, err)
        PROVE  Reported("cursor")
    BY <1>1, <1>2, FailReported DEF DeclareRejected
  <1>3. ASSUME Declare(x, n, host, hold) PROVE Reported("cursor")
    BY <1>1, <1>3, FailReported, SucceedReported DEF Declare, Errors
  <1>4. DBERR_EMPTY_QUERY \in Errors /\ DBERR_NO_PARAMETERS \in Errors
    BY DEF Errors
  <1> QED
    BY <1>2, <1>3, <1>4, ParamErrors DEF GIXSQLCursorDeclare, GIXSQLCursorDeclareParams

LEMMA OpenConnectionType ==
    ASSUME StateInv, NEW x \in cursors, NEW hv \in Names \cup {NoName}
    PROVE  OpenConnection(x, hv) \in ConnIds \cup {NoConn}
  <1>1. cursor[x] \in Cursor
    BY CursorsGood
  <1>2. NoName \in Names \cup {NoName} /\ cursor[x].at \in Names \cup {NoName}
    BY <1>1 DEF Cursor
  <1> QED
    BY <1>1, <1>2, GetType DEF OpenConnection, Cursor

LEMMA CursorReported ==
    ASSUME StateInv, NEW x \in CursorNames, NEW hv \in Names \cup {NoName},
           \/ GIXSQLCursorOpen(x, hv)
           \/ GIXSQLCursorFetchOne(x)
           \/ GIXSQLCursorClose(x)
    PROVE  Reported("cursor")
  <1>1. "cursor" \in Calls /\ NoConn \in ConnIds \cup {NoConn}
    BY DEF Calls
  <1>2. CASE NoSuchCursor(x)
    BY <1>1, <1>2, FailReported DEF NoSuchCursor, Errors
  <1>3. CASE x \in cursors
    <2>1. cursor[x].conn \in ConnIds \cup {NoConn}
      BY <1>3, CursorsGood DEF Cursor
    <2>2. OpenConnection(x, hv) \in ConnIds \cup {NoConn}
      BY <1>3, OpenConnectionType
    <2>3. CASE GIXSQLCursorOpen(x, hv)
      BY <1>1, <1>3, <2>2, <2>3, FailReported, SucceedReported
         DEF GIXSQLCursorOpen, NoSuchCursor, OpenDeclareFails, OpenCloseFails,
             OpenFails, OpenOk, Errors
    <2>4. CASE GIXSQLCursorFetchOne(x)
      <3>1. CASE Fail("cursor", cursor[x].conn, DBERR_CURSOR_CLOSED)
        BY <1>1, <2>1, <3>1, FailReported DEF Errors
      <3>2. CASE FetchResult(cursor[x].conn)
        <4>1. CASE Return("cursor", cursor[x].conn, "FETCH_ROW_FAILED",
                          Status(NoDbi, DBERR_NO_DATA))
          <5>1. NoDbi \in Int /\ DBERR_NO_DATA \in Int \ {DBERR_NO_ERROR}
            BY DEF NoDbi, DBERR_NO_DATA, DBERR_NO_ERROR
          <5> QED
            BY <1>1, <2>1, <4>1, <5>1, ErrorReported
        <4>2. CASE \/ DriverFail("cursor", cursor[x].conn, DBERR_FETCH_ROW_FAILED)
                   \/ DriverFail("cursor", cursor[x].conn, DBERR_FIELD_COUNT_MISMATCH)
                   \/ DriverFail("cursor", cursor[x].conn, DBERR_INVALID_COLUMN_DATA)
                   \/ DriverFail("cursor", cursor[x].conn, DBERR_NUM_OUT_OF_RANGE)
          BY <1>1, <2>1, <4>2, FailReported DEF Errors
        <4>3. CASE Succeed("cursor", cursor[x].conn)
          BY <1>1, <2>1, <4>3, SucceedReported
        <4> QED
          BY <3>2, <4>1, <4>2, <4>3 DEF FetchResult
      <3> QED
        BY <1>3, <2>4, <3>1, <3>2 DEF GIXSQLCursorFetchOne, NoSuchCursor
    <2>5. CASE GIXSQLCursorClose(x)
      BY <1>1, <1>3, <2>1, <2>5, FailReported, SucceedReported
         DEF GIXSQLCursorClose, NoSuchCursor, Errors
    <2> QED
      BY <2>3, <2>4, <2>5
  <1> QED
    BY <1>2, <1>3 DEF GIXSQLCursorOpen, GIXSQLCursorFetchOne, GIXSQLCursorClose

LEMMA VarListReported ==
    ASSUME TypeOK, GIXSQLStartSQL \/ GIXSQLSetSQLParams \/ GIXSQLSetResultParams
    PROVE  Reported("varlist")
  <1>1. ASSUME NEW rc \in Results, VarListCall(rc) PROVE Reported("varlist")
    BY <1>1, SilentReported DEF VarListCall, TypeOK, Calls
  <1> QED
    BY <1>1 DEF GIXSQLStartSQL, GIXSQLSetSQLParams, GIXSQLSetResultParams, Results

LEMMA ResetAllStepReported ==
    ASSUME StateInv, ResetAllStep
    PROVE  Reported("resetall") /\ (ret'.rc = "FAILED" \/ resetting')
  <1>1. PICK c \in pending :
            \/ ResetNotFound("resetall")
            \/ /\ get(conn[c].name) # NoConn
               /\ ResetFails("resetall", get(conn[c].name))
            \/ /\ get(conn[c].name) # NoConn
               /\ ResetOk("resetall", get(conn[c].name)) /\ resetting' = TRUE
    BY DEF ResetAllStep
  <1>2. get(conn[c].name) \in ConnIds \cup {NoConn} /\ "resetall" \in Calls
    BY GetType DEF Calls, StateInv, ConnectionsNamed
  <1>3. CASE ResetNotFound("resetall")
    BY <1>2, <1>3, FailReported DEF ResetNotFound, Errors
  <1> QED
    BY <1>1, <1>2, <1>3, ResetReported

\* How the last call is reported after a step.
StepReported ==
    \/ \E call \in Calls \ {"resetall"} : Reported(call)
    \/ Reported("resetall") /\ (ret'.rc = "FAILED" \/ resetting')
    \/ ResetAllBegin
    \/ ResetAllEnd /\ Reported("resetall")
    \/ alive' = FALSE /\ UNCHANGED <<connVars, curVars, loopVars, sqlcode, ret>>

LEMMA AnyCallReported ==
    ASSUME TypeOK, StateInv, AnyCall
    PROVE  StepReported
  <1> USE RuntimeAssumption DEF Calls, StepReported
  <1>1. ASSUME NEW n \in Names \cup {NoName}, GIXSQLConnect(n) PROVE StepReported
    BY <1>1, ConnectReported DEF ConnectNoLibrary
  <1>2. CASE ResetAllBegin
    BY <1>2
  <1>3. CASE ResetAllStep
    BY <1>3, ResetAllStepReported
  <1>4. CASE ResetAllEnd
    BY <1>4, SucceedReported DEF ResetAllEnd
  <1>5. ASSUME NEW n \in Names \cup {NoName}, GIXSQLConnectReset(n) \/ GIXSQLDisconnect(n) PROVE StepReported
    BY <1>5, ConnectResetReported, DisconnectReported
  <1>6. ASSUME NEW n \in Names \cup {NoName}, NEW q \in Queries,
               NEW nParams \in 0..MaxVars, NEW nRes \in 0..MaxVars,
               \/ GIXSQLExec(n, q)
               \/ GIXSQLExecParams(n, q, nParams)
               \/ GIXSQLExecPrepared(n, q, nParams)
               \/ GIXSQLExecSelectIntoOne(n, q, nRes)
               \/ GIXSQLExecPreparedInto(n, q, nParams, nRes)
               \/ GIXSQLPrepareStatement(n, q)
        PROVE  StepReported
    BY <1>6, StatementReported
  <1>7. ASSUME NEW n \in Names \cup {NoName}, NEW q \in Queries, NEW x \in CursorNames,
               NEW host \in BOOLEAN, NEW hold \in BOOLEAN, NEW nParams \in 0..MaxVars,
               \/ GIXSQLCursorDeclare(x, n, host, hold, q)
               \/ GIXSQLCursorDeclareParams(x, n, host, hold, q, nParams)
        PROVE  StepReported
    BY <1>7, CursorDeclareReported
  <1>8. ASSUME NEW x \in CursorNames, NEW hv \in Names \cup {NoName}, GIXSQLCursorOpen(x, hv)
        PROVE  StepReported
    BY <1>8, CursorReported
  <1>9. ASSUME NEW x \in CursorNames, GIXSQLCursorFetchOne(x) \/ GIXSQLCursorClose(x)
        PROVE  StepReported
    <2>1. NoName \in Names \cup {NoName}
      OBVIOUS
    <2> QED
      BY <1>9, <2>1, CursorReported
  <1>10. CASE GIXSQLStartSQL \/ GIXSQLSetSQLParams \/ GIXSQLSetResultParams
    BY <1>10, VarListReported
  <1>11. 0 \in 0..MaxVars
    OBVIOUS
  <1> HIDE DEF Calls, StepReported
  <1> QED
    BY <1>1, <1>2, <1>3, <1>4, <1>5, <1>6, <1>7, <1>8, <1>9, <1>10, <1>11 DEF AnyCall

\* The host variable lists stay within their bound.
LEMMA VarListType ==
    ASSUME TypeOK, AnyCall
    PROVE  alive' \in BOOLEAN /\ cur_vars' \in 0..MaxVars /\ res_vars' \in 0..MaxVars
  <1> DEFINE V == alive' \in BOOLEAN /\ cur_vars' \in 0..MaxVars /\ res_vars' \in 0..MaxVars
  <1>1. ASSUME UNCHANGED <<varLists, alive>> PROVE V
    BY <1>1 DEF varLists, TypeOK
  <1>2. ASSUME NEW n, GIXSQLConnect(n) PROVE V
    BY <1>1, <1>2
       DEF GIXSQLConnect, ConnectDuplicate, ConnectFails, ConnectNoLibrary, ConnectOk,
           StateUnchanged, TypeOK, varLists
  <1>3. CASE ResetAllBegin \/ ResetAllStep \/ ResetAllEnd
    BY <1>1, <1>3 DEF ResetAllBegin, ResetAllStep, ResetAllEnd
  <1>4. ASSUME NEW n, GIXSQLConnectReset(n) \/ GIXSQLDisconnect(n) PROVE V
    BY <1>1, <1>4 DEF GIXSQLConnectReset, GIXSQLDisconnect
  <1>5. ASSUME NEW n, NEW q, NEW nParams, NEW nRes,
               \/ GIXSQLExec(n, q)
               \/ GIXSQLExecParams(n, q, nParams)
               \/ GIXSQLExecPrepared(n, q, nParams)
               \/ GIXSQLExecSelectIntoOne(n, q, nRes)
               \/ GIXSQLExecPreparedInto(n, q, nParams, nRes)
               \/ GIXSQLPrepareStatement(n, q)
        PROVE  V
    BY <1>1, <1>5
       DEF GIXSQLExec, GIXSQLExecParams, GIXSQLExecPrepared, GIXSQLExecSelectIntoOne,
           GIXSQLExecPreparedInto, GIXSQLPrepareStatement, StatementRejected, Run,
           RunInto, StateUnchanged
  <1>6. ASSUME NEW x, NEW n, NEW host, NEW hold, NEW q, NEW nParams,
               \/ GIXSQLCursorDeclare(x, n, host, hold, q)
               \/ GIXSQLCursorDeclareParams(x, n, host, hold, q, nParams)
        PROVE  V
    BY <1>1, <1>6 DEF GIXSQLCursorDeclare, GIXSQLCursorDeclareParams
  <1>7. ASSUME NEW x, NEW hv, GIXSQLCursorOpen(x, hv) PROVE V
    BY <1>1, <1>7 DEF GIXSQLCursorOpen, NoSuchCursor, StateUnchanged
  <1>8. ASSUME NEW x, GIXSQLCursorFetchOne(x) \/ GIXSQLCursorClose(x) PROVE V
    BY <1>1, <1>8
       DEF GIXSQLCursorFetchOne, GIXSQLCursorClose, NoSuchCursor, StateUnchanged
  <1>9. CASE GIXSQLStartSQL \/ GIXSQLSetSQLParams \/ GIXSQLSetResultParams
    BY <1>9, RuntimeAssumption
       DEF GIXSQLStartSQL, GIXSQLSetSQLParams, GIXSQLSetResultParams, VarListCall, TypeOK
  <1> QED
    BY <1>2, <1>3, <1>4, <1>5, <1>6, <1>7, <1>8, <1>9 DEF AnyCall

LEMMA InitTypeOK == Init => TypeOK
  BY InitStateInv, RuntimeAssumption
     DEF Init, TypeOK, StateInv, Outcomes, Calls, Results

LEMMA AnyCallTypeOK ==
    ASSUME TypeOK, StateInv, AnyCall
    PROVE  TypeOK'
  <1>1. StateInv'
    BY AnyCallStateInv
  <1>2. alive' \in BOOLEAN /\ cur_vars' \in 0..MaxVars /\ res_vars' \in 0..MaxVars
    BY VarListType
  <1>3. /\ sqlcode' \in Outcomes
        /\ ret' \in [call : Calls, conn : ConnIds \cup {NoConn}, rc : Results]
    BY AnyCallReported DEF StepReported, Reported, ResetAllBegin, TypeOK
  <1> QED
    BY <1>1, <1>2, <1>3 DEF TypeOK, StateInv

LEMMA UnchangedTypeOK ==
    ASSUME TypeOK, UNCHANGED vars
    PROVE  TypeOK'
  BY DEF vars, connVars, registry, curVars, varLists, loopVars, TypeOK, ConnTypeOK,
         CurTypeOK

\* Every variable keeps its type whatever calls the program makes.
THEOREM TypeCorrect == Spec => []TypeOK
  <1>1. TypeOK /\ StateInv /\ [Next]_vars => TypeOK'
    BY NextIsCall, AnyCallTypeOK, UnchangedTypeOK
  <1> QED
    BY <1>1, InitTypeOK, StateInvariant, PTL DEF Spec

(***************************************************************************)
(* SQLCODE is zero exactly after the calls that succeeded, whatever error  *)
(* codes the drivers use, outside the five cases of Silent.                *)
(***************************************************************************)
THEOREM SqlcodeTruthful == Spec => SqlcodeMatchesResult
  <1>1. TypeOK /\ StateInv /\ [Next]_vars =>
            [alive' /\ ~resetting' /\ ~Silent' =>
                (sqlcode' = "zero" <=> ret'.rc = "SUCCESS")]_vars
    <2> SUFFICES ASSUME TypeOK, StateInv, Next, alive', ~resetting', ~Silent'
                 PROVE  sqlcode' = "zero" <=> ret'.rc = "SUCCESS"
      OBVIOUS
    <2> QED
      BY NextIsCall, AnyCallReported
         DEF StepReported, Reported, ResetAllBegin, Silent
  <1> QED
    BY <1>1, TypeCorrect, StateInvariant, PTL DEF Spec, SqlcodeMatchesResult

(***************************************************************************)
(* DISCONNECT ALL that reports success has left no connection, no name and *)
(* no default, also when names clash.                                      *)
(***************************************************************************)
THEOREM DisconnectAllComplete == Spec => []ResetAllComplete
  <1>1. Init => ResetAllComplete
    BY DEF Init, ResetAllComplete
  <1>2. TypeOK /\ StateInv /\ ResetAllComplete /\ [Next]_vars => ResetAllComplete'
    <2> SUFFICES ASSUME TypeOK, StateInv, ResetAllComplete, [Next]_vars
                 PROVE  ResetAllComplete'
      OBVIOUS
    <2>1. CASE UNCHANGED vars
      BY <2>1 DEF vars, connVars, registry, curVars, loopVars, ResetAllComplete
    <2>2. CASE UNCHANGED <<connVars, curVars, loopVars, sqlcode, ret>>
      BY <2>2 DEF connVars, registry, curVars, loopVars, ResetAllComplete
    <2>3. CASE ResetAllEnd
      <3>1. StateInv' /\ pending' = {} /\ connections' = {}
        BY <2>3, NextStateInv
           DEF ResetAllEnd, StateInv, LoopProgress, connVars, registry
      <3> QED
        BY <3>1 DEF StateInv, RegistryConsistent, NoNullInterface, ResetAllComplete
    <2>4. CASE ResetAllBegin
      BY <2>4 DEF ResetAllBegin, ResetAllComplete
    <2>5. CASE \E call \in Calls \ {"resetall"} : Reported(call)
      BY <2>5 DEF Reported, ResetAllComplete
    <2>6. CASE Reported("resetall") /\ (ret'.rc = "FAILED" \/ resetting')
      BY <2>6 DEF ResetAllComplete
    <2> QED
      BY <2>1, <2>2, <2>3, <2>4, <2>5, <2>6, NextIsCall, AnyCallReported DEF StepReported
  <1> QED
    BY <1>1, <1>2, TypeCorrect, StateInvariant, PTL DEF Spec

---------------------------------------------------------------------------
(* What one step may do to the cursors.                                    *)

\* The cursors the step touches are those of the connection it reports.
Touched(x) == x \notin cursors' \/ cursor'[x] # cursor[x]

CallsCursorsOnly ==
    \A x \in cursors : Touched(x) =>
        /\ ret'.conn # NoConn
        /\ ret'.conn \in {cursor[x].conn, cursor'[x].conn}

\* A cursor the step removes was on a connection whose session it ended.
RemovedWithConnection ==
    \A x \in cursors \ cursors' :
        /\ ret'.call \in {"reset", "resetall", "disconnect"}
        /\ conn'[cursor[x].conn].session # "live"

\* A cursor that the step binds is bound to the connection it was declared for.
BindingsRight == \A x \in cursors \cap cursors' : BoundAsDeclared(x)

CursorDiscipline == CallsCursorsOnly /\ RemovedWithConnection /\ BindingsRight

LEMMA UntouchedDiscipline ==
    ASSUME UNCHANGED curVars
    PROVE  CursorDiscipline
  BY DEF curVars, CursorDiscipline, CallsCursorsOnly, RemovedWithConnection, Touched,
         BindingsRight, BoundAsDeclared

LEMMA ClearDiscipline ==
    ASSUME StateInv, NEW c \in ConnIds, c # NoConn, clearConnectionCursors(c),
           ret'.call \in {"reset", "resetall", "disconnect"}, ret'.conn = c,
           conn'[c].session # "live"
    PROVE  CursorDiscipline
  <1>1. ASSUME NEW x \in cursors, Touched(x)
        PROVE  cursor[x].conn = c
    BY <1>1 DEF StateInv, CurTypeOK, Touched, clearConnectionCursors, CursorsOf
  <1>2. ASSUME NEW x \in cursors \cap cursors'
        PROVE  cursor'[x] = cursor[x]
    BY <1>2 DEF StateInv, CurTypeOK, clearConnectionCursors, CursorsOf
  <1>3. BindingsRight
    BY <1>2 DEF BindingsRight, BoundAsDeclared
  <1> QED
    BY <1>1, <1>3 DEF CursorDiscipline, CallsCursorsOnly, RemovedWithConnection, Touched

LEMMA ReturnFields ==
    ASSUME NEW call, NEW c, NEW err, Succeed(call, c) \/ Fail(call, c, err)
                                     \/ DriverFail(call, c, err)
    PROVE  ret'.call = call /\ ret'.conn = c
  BY DEF Succeed, Fail, DriverFail, Return

LEMMA ResetDiscipline ==
    ASSUME StateInv, NEW n \in Names \cup {NoName},
           NEW call \in {"reset", "resetall", "disconnect"},
           get(n) = NoConn => UNCHANGED curVars,
           get(n) # NoConn => \/ ResetFails(call, get(n))
                              \/ ResetOk(call, get(n))
                              \/ /\ clearConnectionCursors(get(n))
                                 /\ TerminateFails(get(n)) \/ TerminateOk(get(n))
                                 /\ call = "disconnect"
    PROVE  CursorDiscipline
  <1>1. CASE get(n) = NoConn
    BY <1>1, UntouchedDiscipline
  <1>2. CASE get(n) # NoConn
    <2> DEFINE c == get(n)
    <2>1. c \in ConnIds /\ c # NoConn
      BY <1>2, GetRegistered
    <2> HIDE DEF c
    <2>2. CASE ResetFails(call, c)
      <3>1. clearConnectionCursors(c) /\ ret'.call = call /\ ret'.conn = c
        BY <2>2, ReturnFields DEF ResetFails
      <3>2. conn'[c].session # "live"
        BY <2>1, <2>2 DEF ResetFails, StateInv, ConnTypeOK, Connection
      <3> QED
        BY <2>1, <3>1, <3>2, ClearDiscipline
    <2>3. CASE ResetOk(call, c)
      <3>1. clearConnectionCursors(c) /\ ret'.call = call /\ ret'.conn = c
        BY <2>3, ReturnFields DEF ResetOk
      <3>2. conn'[c].session # "live"
        BY <2>1, <2>3 DEF ResetOk, StateInv, ConnTypeOK, Connection
      <3> QED
        BY <2>1, <3>1, <3>2, ClearDiscipline
    <2>4. CASE /\ clearConnectionCursors(c)
               /\ TerminateFails(c) \/ TerminateOk(c)
               /\ call = "disconnect"
      <3>1. ret'.call = call /\ ret'.conn = c
        BY <2>4, ReturnFields DEF TerminateFails, TerminateOk
      <3>2. conn'[c].session # "live"
        BY <2>1, <2>4 DEF TerminateFails, TerminateOk, StateInv, ConnTypeOK, Connection
      <3> QED
        BY <2>1, <2>4, <3>1, <3>2, ClearDiscipline
    <2> QED
      BY <1>2, <2>2, <2>3, <2>4 DEF c
  <1> QED
    BY <1>1, <1>2

LEMMA ExecDiscipline ==
    ASSUME StateInv, NEW c, c # NoConn, NEW q, cursor' = CursorsAtExec(c, q),
           UNCHANGED cursors, ret'.conn = c
    PROVE  CursorDiscipline
  <1>1. ASSUME NEW x \in cursors, cursor'[x] # cursor[x]
        PROVE  cursor[x].conn = c
    BY <1>1 DEF StateInv, CurTypeOK, CursorsAtExec, closeConnectionCursors, CursorsOf
  <1>2. ASSUME NEW x \in cursors
        PROVE  cursor'[x].conn = cursor[x].conn
    <2>1. x \in CursorNames /\ cursor[x] \in Cursor
      BY <1>2, CursorsGood
    <2>2. cursor'[x] = cursor[x] \/ cursor'[x] = DriverClosed(cursor[x])
      BY <2>1 DEF StateInv, CurTypeOK, CursorsAtExec, closeConnectionCursors, CursorsOf
    <2> QED
      BY <2>1, <2>2 DEF DriverClosed, Cursor
  <1>3. BindingsRight
    BY <1>2 DEF BindingsRight, BoundAsDeclared
  <1> QED
    BY <1>1, <1>3 DEF CursorDiscipline, CallsCursorsOnly, RemovedWithConnection, Touched

LEMMA OneCursorDiscipline ==
    ASSUME StateInv, NEW x \in CursorNames, NEW r,
           cursor' = [cursor EXCEPT ![x] = r], cursors \subseteq cursors',
           x \in cursors => ret'.conn # NoConn /\ ret'.conn = r.conn,
           x \in cursors => BoundAsDeclared(x)
    PROVE  CursorDiscipline
  <1>1. ASSUME NEW y \in cursors, cursor'[y] # cursor[y]
        PROVE  y = x /\ cursor'[y] = r
    BY <1>1 DEF StateInv, CurTypeOK
  <1>2. ASSUME NEW y \in cursors PROVE BoundAsDeclared(y)
    BY <1>1, <1>2 DEF BoundAsDeclared
  <1> QED
    BY <1>1, <1>2
       DEF CursorDiscipline, CallsCursorsOnly, RemovedWithConnection, Touched, BindingsRight

LEMMA StatementDiscipline ==
    ASSUME StateInv, NEW n, NEW q, NEW nParams, NEW nRes,
           \/ GIXSQLExec(n, q)
           \/ GIXSQLExecParams(n, q, nParams)
           \/ GIXSQLExecPrepared(n, q, nParams)
           \/ GIXSQLExecSelectIntoOne(n, q, nRes)
           \/ GIXSQLExecPreparedInto(n, q, nParams, nRes)
           \/ GIXSQLPrepareStatement(n, q)
    PROVE  CursorDiscipline
  <1>1. ASSUME StateUnchanged PROVE CursorDiscipline
    BY <1>1, UntouchedDiscipline DEF StateUnchanged
  <1>2. ASSUME NEW err, Run(get(n), q, err) PROVE CursorDiscipline
    BY <1>2, ReturnFields, ExecDiscipline DEF Run, StatementAccepted
  <1>3. ASSUME NEW err, NEW codes, RunInto(get(n), q, err, nRes, codes)
        PROVE  CursorDiscipline
    <2>1. ASSUME NEW call, NEW c, NEW rc, NEW o, Return(call, c, rc, o)
          PROVE  ret'.conn = c
      BY <2>1 DEF Return
    <2>2. ASSUME IntoResult(get(n), nRes, codes) PROVE ret'.conn = get(n)
      BY <2>1, <2>2, ReturnFields DEF IntoResult
    <2>3. ret'.conn = get(n)
      BY <1>3, <2>2, ReturnFields DEF RunInto
    <2> QED
      BY <1>3, <2>3, ExecDiscipline DEF RunInto, StatementAccepted
  <1>4. ASSUME NEW call, NEW err, StatementRejected(call, get(n), q, err)
        PROVE  CursorDiscipline
    BY <1>1, <1>4 DEF StatementRejected
  <1>5. CASE GIXSQLPrepareStatement(n, q)
    BY <1>1, <1>4, <1>5 DEF GIXSQLPrepareStatement
  <1> QED
    BY <1>2, <1>3, <1>4, <1>5
       DEF GIXSQLExec, GIXSQLExecParams, GIXSQLExecPrepared,
           GIXSQLExecSelectIntoOne, GIXSQLExecPreparedInto

LEMMA DeclareDiscipline ==
    ASSUME StateInv, NEW x \in CursorNames, NEW n, NEW host, NEW hold, NEW q, NEW nParams,
           \/ GIXSQLCursorDeclare(x, n, host, hold, q)
           \/ GIXSQLCursorDeclareParams(x, n, host, hold, q, nParams)
    PROVE  CursorDiscipline
  <1>1. CASE UNCHANGED curVars
    BY <1>1, UntouchedDiscipline
  <1>2. CASE /\ x \notin cursors
             /\ cursors' = cursors \cup {x}
             /\ cursor' = [cursor EXCEPT ![x] = NewCursor(get(n), n, host, hold)]
    BY <1>2, OneCursorDiscipline
  <1> QED
    BY <1>1, <1>2
       DEF GIXSQLCursorDeclare, GIXSQLCursorDeclareParams, Declare, DeclareRejected

\* What OPEN finds for a cursor without a connection is what BoundAsDeclared asks for.
LEMMA OpenBindsAsDeclared ==
    ASSUME StateInv, NEW x \in cursors, NEW hv \in Names \cup {NoName},
           OpenConnection(x, hv) # NoConn, cursor'[x].conn = OpenConnection(x, hv)
    PROVE  BoundAsDeclared(x)
  <1> SUFFICES ASSUME cursor'[x].conn # cursor[x].conn
               PROVE  /\ cursor[x].conn = NoConn
                      /\ cursor'[x].conn \in connections
                      /\ IF cursor[x].at = NoName
                         THEN default_connection # NoConn =>
                                  cursor'[x].conn = default_connection
                         ELSE exists(cursor[x].at) =>
                                  conn[cursor'[x].conn].name = cursor[x].at
    BY DEF BoundAsDeclared
  <1>1. cursor[x].conn = NoConn
    BY DEF OpenConnection
  <1>2. cursor[x].at \in Names \cup {NoName}
    BY CursorsGood DEF Cursor
  <1>3. PICK n \in Names \cup {NoName} :
            /\ cursor'[x].conn = get(n)
            /\ get(cursor[x].at) # NoConn => n = cursor[x].at
    BY <1>1, <1>2 DEF OpenConnection
  <1>4. get(n) \in connections
    BY <1>3, GetRegistered
  <1>5. CASE cursor[x].at = NoName
    BY <1>1, <1>3, <1>4, <1>5 DEF get
  <1>6. CASE cursor[x].at # NoName
    <2>1. exists(cursor[x].at) => conn[cursor'[x].conn].name = cursor[x].at
      BY <1>2, <1>3, <1>6 DEF get, exists, StateInv, RegistryConsistent
    <2> QED
      BY <1>1, <1>3, <1>4, <1>6, <2>1
  <1> QED
    BY <1>5, <1>6

LEMMA CursorCallDiscipline ==
    ASSUME StateInv, NEW x \in CursorNames, NEW hv \in Names \cup {NoName},
           \/ GIXSQLCursorOpen(x, hv)
           \/ GIXSQLCursorFetchOne(x)
           \/ GIXSQLCursorClose(x)
    PROVE  CursorDiscipline
  <1>1. CASE StateUnchanged
    BY <1>1, UntouchedDiscipline DEF StateUnchanged
  <1>2. ASSUME x \in cursors, NEW c, c # NoConn, UNCHANGED cursors,
               c = OpenConnection(x, hv),
               \/ OpenDeclareFails(x, c)
               \/ OpenCloseFails(x, c)
               \/ OpenFails(x, c)
               \/ OpenOk(x, c)
        PROVE  CursorDiscipline
    <2>1. cursor[x] \in Cursor /\ x \in CursorNames
      BY <1>2, CursorsGood
    <2>2. ret'.conn = c
      BY <1>2, ReturnFields DEF OpenDeclareFails, OpenCloseFails, OpenFails, OpenOk
    <2>3. \E r : cursor' = [cursor EXCEPT ![x] = r] /\ r.conn = c
      <3>1. CASE OpenDeclareFails(x, c)
        <4>1. [cursor[x] EXCEPT !.conn = c].conn = c
          BY <2>1 DEF Cursor
        <4> QED
          BY <3>1, <4>1 DEF OpenDeclareFails
      <3>2. CASE OpenCloseFails(x, c) \/ OpenFails(x, c)
        <4>1. Reclosed(x, c).conn = c
          BY <2>1 DEF Reclosed, DriverClosed, Bound, Cursor
        <4> QED
          BY <3>2, <4>1 DEF OpenCloseFails, OpenFails
      <3>3. CASE OpenOk(x, c)
        <4>1. [Bound(x, c) EXCEPT !.open = TRUE, !.drv = "open"].conn = c
          BY <2>1 DEF Bound, Cursor
        <4> QED
          BY <3>3, <4>1 DEF OpenOk
      <3> QED
        BY <1>2, <3>1, <3>2, <3>3
    <2>4. cursor'[x].conn = c
      BY <2>1, <2>3 DEF StateInv, CurTypeOK
    <2>5. BoundAsDeclared(x)
      BY <1>2, <2>4, OpenBindsAsDeclared
    <2> QED
      BY <1>2, <2>2, <2>3, <2>5, OneCursorDiscipline
  <1>3. CASE /\ x \in cursors /\ cursor[x].open /\ UNCHANGED cursors
             /\ cursor' = [cursor EXCEPT ![x] = Reclosed(x, cursor[x].conn)]
             /\ \/ Succeed("cursor", cursor[x].conn)
                \/ DriverFail("cursor", cursor[x].conn, DBERR_CLOSE_CURSOR_FAILED)
    <2>1. cursor[x] \in Cursor /\ cursor[x].conn # NoConn
      BY <1>3, CursorsGood DEF CursorGood
    <2>2. Reclosed(x, cursor[x].conn).conn = cursor[x].conn
      BY <2>1 DEF Reclosed, DriverClosed, Bound, Cursor
    <2>3. ret'.conn = cursor[x].conn
      BY <1>3, ReturnFields
    <2>4. cursor'[x].conn = cursor[x].conn
      BY <1>3, <2>2 DEF StateInv, CurTypeOK
    <2>5. BoundAsDeclared(x)
      BY <2>4 DEF BoundAsDeclared
    <2> QED
      BY <1>3, <2>1, <2>2, <2>3, <2>5, OneCursorDiscipline
  <1>4. CASE GIXSQLCursorOpen(x, hv)
    BY <1>1, <1>2, <1>4 DEF GIXSQLCursorOpen, NoSuchCursor
  <1>5. CASE GIXSQLCursorFetchOne(x)
    BY <1>1, <1>5 DEF GIXSQLCursorFetchOne, NoSuchCursor
  <1>6. CASE GIXSQLCursorClose(x)
    BY <1>1, <1>3, <1>6 DEF GIXSQLCursorClose, NoSuchCursor
  <1> QED
    BY <1>4, <1>5, <1>6

LEMMA AnyCallDiscipline ==
    ASSUME StateInv, AnyCall
    PROVE  CursorDiscipline
  <1> USE RuntimeAssumption
  <1>1. ASSUME NEW n, GIXSQLConnect(n) PROVE CursorDiscipline
    BY <1>1, UntouchedDiscipline
       DEF GIXSQLConnect, ConnectDuplicate, ConnectFails, ConnectNoLibrary, ConnectOk,
           StateUnchanged
  <1>2. CASE ResetAllBegin \/ ResetAllEnd
    BY <1>2, UntouchedDiscipline DEF ResetAllBegin, ResetAllEnd
  <1>3. CASE ResetAllStep
    <2>1. PICK c \in pending :
              \/ get(conn[c].name) = NoConn /\ UNCHANGED curVars
              \/ /\ get(conn[c].name) # NoConn
                 /\ \/ ResetFails("resetall", get(conn[c].name))
                    \/ ResetOk("resetall", get(conn[c].name))
      BY <1>3 DEF ResetAllStep, ResetNotFound
    <2>2. conn[c].name \in Names \cup {NoName}
      BY DEF StateInv, ConnectionsNamed
    <2> QED
      BY <2>1, <2>2, ResetDiscipline
  <1>4. ASSUME NEW n \in Names \cup {NoName}, GIXSQLConnectReset(n) PROVE CursorDiscipline
    BY <1>4, ResetDiscipline DEF GIXSQLConnectReset, ResetNotFound
  <1>5. ASSUME NEW n \in Names \cup {NoName}, GIXSQLDisconnect(n) PROVE CursorDiscipline
    BY <1>5, ResetDiscipline DEF GIXSQLDisconnect
  <1>6. ASSUME NEW n \in Names \cup {NoName}, NEW q \in Queries,
               NEW nParams \in 0..MaxVars, NEW nRes \in 0..MaxVars,
               \/ GIXSQLExec(n, q)
               \/ GIXSQLExecParams(n, q, nParams)
               \/ GIXSQLExecPrepared(n, q, nParams)
               \/ GIXSQLExecSelectIntoOne(n, q, nRes)
               \/ GIXSQLExecPreparedInto(n, q, nParams, nRes)
               \/ GIXSQLPrepareStatement(n, q)
        PROVE  CursorDiscipline
    BY <1>6, StatementDiscipline
  <1>7. ASSUME NEW n \in Names \cup {NoName}, NEW q \in Queries, NEW x \in CursorNames,
               NEW host \in BOOLEAN, NEW hold \in BOOLEAN, NEW nParams \in 0..MaxVars,
               \/ GIXSQLCursorDeclare(x, n, host, hold, q)
               \/ GIXSQLCursorDeclareParams(x, n, host, hold, q, nParams)
        PROVE  CursorDiscipline
    BY <1>7, DeclareDiscipline
  <1>8. ASSUME NEW x \in CursorNames, NEW hv \in Names \cup {NoName}, GIXSQLCursorOpen(x, hv)
        PROVE  CursorDiscipline
    BY <1>8, CursorCallDiscipline
  <1>9. ASSUME NEW x \in CursorNames, GIXSQLCursorFetchOne(x) \/ GIXSQLCursorClose(x)
        PROVE  CursorDiscipline
    <2>1. NoName \in Names \cup {NoName}
      OBVIOUS
    <2> QED
      BY <1>9, <2>1, CursorCallDiscipline
  <1>10. CASE GIXSQLStartSQL \/ GIXSQLSetSQLParams \/ GIXSQLSetResultParams
    BY <1>10, UntouchedDiscipline
       DEF GIXSQLStartSQL, GIXSQLSetSQLParams, GIXSQLSetResultParams, VarListCall
  <1>11. 0 \in 0..MaxVars
    OBVIOUS
  <1> QED
    BY <1>1, <1>2, <1>3, <1>4, <1>5, <1>6, <1>7, <1>8, <1>9, <1>10, <1>11 DEF AnyCall

\* A call leaves the cursors of every other connection alone, and a cursor without
\* a connection gets the one it was declared for.
THEOREM CallsAreLocal == Spec => OneConnectionPerCall
  <1>1. StateInv /\ [Next]_vars =>
            [\A x \in cursors :
                /\ (x \notin cursors' \/ cursor'[x] # cursor[x]) =>
                      /\ ret'.conn # NoConn
                      /\ ret'.conn \in {cursor[x].conn, cursor'[x].conn}
                /\ x \in cursors' => BoundAsDeclared(x)]_vars
    BY NextIsCall, AnyCallDiscipline
       DEF CursorDiscipline, CallsCursorsOnly, Touched, BindingsRight
  <1> QED
    BY <1>1, StateInvariant, PTL DEF Spec, OneConnectionPerCall

\* COMMIT, ROLLBACK, CLOSE and failing statements never delete a cursor definition.
THEOREM DefinitionsSurvive == Spec => DefinitionsOutliveTransactions
  <1>1. StateInv /\ [Next]_vars =>
            [\A x \in cursors \ cursors' :
                /\ ret'.call \in {"reset", "resetall", "disconnect"}
                /\ conn'[cursor[x].conn].session # "live"]_vars
    BY NextIsCall, AnyCallDiscipline DEF CursorDiscipline, RemovedWithConnection
  <1> QED
    BY <1>1, StateInvariant, PTL DEF Spec, DefinitionsOutliveTransactions

---------------------------------------------------------------------------
(* What the drivers' proofs need to know of a call.                        *)

\* A call that executes or prepares a statement on the connection of that name.
StatementOn(n) ==
    \E q \in Queries, nParams \in 0..MaxVars, nRes \in 0..MaxVars :
        \/ GIXSQLExec(n, q)
        \/ GIXSQLExecPrepared(n, q, nParams)
        \/ GIXSQLExecSelectIntoOne(n, q, nRes)
        \/ GIXSQLExecPreparedInto(n, q, nParams, nRes)
        \/ GIXSQLPrepareStatement(n, q)

\* The registries stay as they are, but for what cursor_close() does to cursors.
RegistriesKept ==
    /\ UNCHANGED <<connVars, cursors, loopVars, alive>>
    /\ \A x \in CursorNames :
          /\ cursor'[x] \in Cursor
          /\ cursor'[x] = cursor[x] \/ cursor'[x] = DriverClosed(cursor[x])

LEMMA UnchangedKept ==
    ASSUME CurTypeOK, UNCHANGED <<connVars, curVars, loopVars, alive>>
    PROVE  RegistriesKept
  BY DEF CurTypeOK, curVars, RegistriesKept

LEMMA ReturnIs ==
    ASSUME NEW call, NEW c, NEW rc, NEW outcome, Return(call, c, rc, outcome)
    PROVE  ret'.call = call /\ ret'.conn = c /\ ret'.rc = rc /\ sqlcode' = outcome
  BY DEF Return

\* A statement call keeps the registries and tells which connection it worked on.
LEMMA StatementShared ==
    ASSUME CurTypeOK, NEW n, StatementOn(n)
    PROVE  /\ RegistriesKept
           /\ ret'.conn = get(n)
           /\ ret'.call \in {"exec", "prepare", "first_row"}
           /\ get(n) = NoConn => /\ ret'.rc = "FAILED"
                                 /\ sqlcode' = Status(NoDbi, DBERR_CONN_NOT_FOUND)
  <1>1. \A c, q : /\ CursorsAtExec(c, q) \in [CursorNames -> Cursor]
                  /\ \A x \in CursorNames :
                        \/ CursorsAtExec(c, q)[x] = cursor[x]
                        \/ CursorsAtExec(c, q)[x] = DriverClosed(cursor[x])
    BY DEF CurTypeOK, CursorsAtExec, closeConnectionCursors, DriverClosed, Cursor, DriverStates
  <1>2. ASSUME NEW call \in {"exec", "prepare"}, NEW q, NEW err,
               StatementRejected(call, get(n), q, err)
        PROVE  /\ RegistriesKept
               /\ ret'.conn = get(n)
               /\ ret'.call = call
               /\ get(n) = NoConn => /\ ret'.rc = "FAILED"
                                     /\ sqlcode' = Status(NoDbi, DBERR_CONN_NOT_FOUND)
    BY <1>2, UnchangedKept DEF StatementRejected, StateUnchanged, Fail, Return
  <1>3. ASSUME NEW q, NEW err, Run(get(n), q, err)
        PROVE  RegistriesKept /\ ret'.conn = get(n) /\ ret'.call = "exec" /\ get(n) # NoConn
    <2>1. ret'.conn = get(n) /\ ret'.call = "exec" /\ get(n) # NoConn
      BY <1>3, ReturnIs DEF Run, StatementAccepted, Succeed, DriverFail
    <2>2. /\ cursor' = CursorsAtExec(get(n), q)
          /\ UNCHANGED <<connVars, cursors, varLists, loopVars, alive>>
      BY <1>3 DEF Run
    <2> QED
      BY <1>1, <2>1, <2>2 DEF RegistriesKept
  <1>4. ASSUME NEW q, NEW err, NEW nRes, NEW codes, RunInto(get(n), q, err, nRes, codes)
        PROVE  /\ RegistriesKept /\ ret'.conn = get(n) /\ ret'.call \in {"exec", "first_row"}
               /\ get(n) # NoConn
    <2>1. ret'.conn = get(n) /\ ret'.call \in {"exec", "first_row"} /\ get(n) # NoConn
      BY <1>4, ReturnIs
         DEF RunInto, StatementAccepted, IntoResult, Succeed, DriverFail, Fail
    <2>2. /\ cursor' = CursorsAtExec(get(n), q)
          /\ UNCHANGED <<connVars, cursors, varLists, loopVars, alive>>
      BY <1>4 DEF RunInto
    <2> QED
      BY <1>1, <2>1, <2>2 DEF RegistriesKept
  <1>5. PICK q \in Queries, nParams \in 0..MaxVars, nRes \in 0..MaxVars :
           \/ GIXSQLExec(n, q)
           \/ GIXSQLExecPrepared(n, q, nParams)
           \/ GIXSQLExecSelectIntoOne(n, q, nRes)
           \/ GIXSQLExecPreparedInto(n, q, nParams, nRes)
           \/ GIXSQLPrepareStatement(n, q)
    BY DEF StatementOn
  <1>6. CASE GIXSQLExec(n, q) \/ GIXSQLExecPrepared(n, q, nParams)
    BY <1>2, <1>3, <1>6 DEF GIXSQLExec, GIXSQLExecPrepared
  <1>7. CASE GIXSQLExecSelectIntoOne(n, q, nRes)
    BY <1>2, <1>4, <1>7 DEF GIXSQLExecSelectIntoOne
  <1>8. CASE GIXSQLExecPreparedInto(n, q, nParams, nRes)
    BY <1>2, <1>4, <1>8 DEF GIXSQLExecPreparedInto
  <1>9. CASE GIXSQLPrepareStatement(n, q)
    <2>1. CASE StatementRejected("prepare", get(n), q, DBERR_NO_ERROR)
      BY <1>2, <2>1
    <2>2. CASE /\ StatementAccepted(get(n), q, DBERR_NO_ERROR)
               /\ \/ DriverFail("prepare", get(n), DBERR_SQL_ERROR)
                  \/ /\ TRUE \in DriverResults(get(n))
                     /\ Return("prepare", get(n), "SUCCESS", sqlcode)
               /\ StateUnchanged
      <3>1. ret'.conn = get(n) /\ ret'.call = "prepare" /\ get(n) # NoConn
        BY <2>2, ReturnIs DEF StatementAccepted, DriverFail
      <3>2. RegistriesKept
        BY <2>2, UnchangedKept DEF StateUnchanged
      <3> QED
        BY <3>1, <3>2
    <2> QED
      BY <1>9, <2>1, <2>2 DEF GIXSQLPrepareStatement
  <1> QED
    BY <1>5, <1>6, <1>7, <1>8, <1>9

=============================================================================
