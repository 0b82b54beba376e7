------------------------- MODULE MCRuntimeOnPgsql -------------------------
(***************************************************************************)
(* Small instances of RuntimeOnPgsql: one unnamed connection, one column.  *)
(***************************************************************************)
EXTENDS RuntimeOnPgsql, TLC

MCDefaultName == [i \in ConnIds |-> "DEFAULT2"]

\* One driver code of each kind that SQLCODE tells apart; the driver itself says
\* which kind it is.
MCDriverCodes == {1, 100, -106}

CursorSymmetry == Permutations(CursorNames)

(***************************************************************************)
(* Nothing reads what the last call returned, told or did to the work of   *)
(* its transaction.  EXECUTE writes the result of a prepared statement     *)
(* before anything reads it, and of a code that an earlier call left in    *)
(* last_rc only the kind of SQLCODE it gives counts.  Two states that      *)
(* differ in these alone have successors that differ in these alone.       *)
(***************************************************************************)
PgView ==
    <<connVars, curVars, varLists, loopVars, alive, source, warned,
      [c \in ConnIds |-> [pg[c] EXCEPT !.fate = "none",
                                       !.res = [s \in StmtNames |-> NoResult],
                                       !.last_rc = Status(@, DBERR_SQL_ERROR)]]>>

\* Nor does a step or a property about cursors read what becomes of the work of
\* a transaction.
PgCursorView ==
    <<connVars, curVars, varLists, loopVars, alive, source,
      [c \in ConnIds |-> [pg[c] EXCEPT !.dirty = FALSE, !.fate = "none"]]>>

=============================================================================
