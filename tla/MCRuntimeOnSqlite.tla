------------------------- MODULE MCRuntimeOnSqlite -------------------------
(***************************************************************************)
(* Small instances of RuntimeOnSqlite: one unnamed connection.             *)
(***************************************************************************)
EXTENDS RuntimeOnSqlite, TLC

MCDefaultName == [i \in ConnIds |-> "DEFAULT2"]

\* One driver code of each kind that SQLCODE tells apart; the driver itself says
\* which kind it is.
MCDriverCodes == {1, 100, -106}

(***************************************************************************)
(* Nothing reads what the last call returned, told or changed, and of the  *)
(* current statement only the number of its columns is read by a later     *)
(* call.  last_rc is never positive, so whatever it holds a failing call   *)
(* leaves a negative SQLCODE.  WITH HOLD decides which cursors a sweep     *)
(* closes, and closing does nothing in this driver.  Two states that       *)
(* differ in these alone have successors that differ in these alone.       *)
(***************************************************************************)
SqView == <<connVars, cursors, varLists, loopVars, alive, source, owed, reached, mark,
            [x \in CursorNames |->
                [cursor[x] EXCEPT !.hold = FALSE,
                                  !.drv = IF @ = "open" THEN "declared" ELSE @]],
            [c \in ConnIds |-> <<[sq[c] EXCEPT !.hit = {}, !.last_rc = 0, !.cur = NoStatement],
                                 get_num_fields(sq[c])>>]>>

=============================================================================
