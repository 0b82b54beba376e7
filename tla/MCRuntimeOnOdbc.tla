-------------------------- MODULE MCRuntimeOnOdbc --------------------------
(***************************************************************************)
(* Small instances of RuntimeOnOdbc: one unnamed connection.               *)
(***************************************************************************)
EXTENDS RuntimeOnOdbc, TLC

MCDefaultName == [i \in ConnIds |-> "DEFAULT2"]

\* One driver code of each kind that SQLCODE tells apart; the driver itself says
\* which kind it is.
MCDriverCodes == {0, 100, -106, 7}

(***************************************************************************)
(* Nothing reads what the last call returned, told or changed, and of the  *)
(* current statement a later call reads only its columns.  A code that an  *)
(* earlier call left in last_rc matters to a later one only if it is 100.  *)
(***************************************************************************)
OdView == <<connVars, curVars, varLists, loopVars, alive, source,
            [c \in ConnIds |-> <<[od[c] EXCEPT !.done = FALSE, !.cur = NoStatement,
                                                 !.last_rc = IF @ = 100 THEN @ ELSE 0],
                                 get_num_fields(od[c])>>]>>

=============================================================================
