------------------------- MODULE MCRuntimeOnMysql -------------------------
(***************************************************************************)
(* Small instances of RuntimeOnMysql: one unnamed connection.              *)
(***************************************************************************)
EXTENDS RuntimeOnMysql, TLC

MCDefaultName == [i \in ConnIds |-> "DEFAULT2"]

\* One driver code of each kind that SQLCODE tells apart; the driver itself says
\* which kind it is.
MCDriverCodes == {0, 100, -106}

(***************************************************************************)
(* Nothing reads what the last call returned, told or changed, and of the  *)
(* current statement a later call reads only whether it is there, its      *)
(* columns and the number of its rows.  A code that an earlier call left   *)
(* in last_rc and that is not 100 makes a failing call report an error,    *)
(* whether it is zero or negative.  Two states that differ in these alone  *)
(* have successors that differ in these alone.                             *)
(***************************************************************************)
MyView == <<connVars, curVars, varLists, loopVars, alive, source, reached,
            [c \in ConnIds |-> <<[my[c] EXCEPT !.hit = {}, !.cur = NoStatement,
                                                 !.last_rc = IF @ = 100 THEN @ ELSE 0],
                                 get_num_fields(my[c]), get_num_rows(my[c])>>]>>

=============================================================================
