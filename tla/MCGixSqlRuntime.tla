-------------------------- MODULE MCGixSqlRuntime --------------------------
(***************************************************************************)
(* Small instances of GixSqlRuntime.  The first connection has id 2, so a  *)
(* connection the program itself calls DEFAULT3 meets the generated name   *)
(* of the second one.                                                      *)
(***************************************************************************)
EXTENDS GixSqlRuntime, TLC

MCDefaultName == [i \in ConnIds |-> IF i = 2 THEN "DEFAULT2"
                                    ELSE IF i = 3 THEN "DEFAULT3"
                                    ELSE "DEFAULT4"]

MCNames == {"CONN1"} \cup {MCDefaultName[i] : i \in ConnIds}

CursorSymmetry == Permutations(CursorNames)

\* No guard reads SQLCODE or the last result: two states that differ in these
\* alone have the same successors.
StateView == <<connVars, curVars, varLists, loopVars, alive>>

=============================================================================
