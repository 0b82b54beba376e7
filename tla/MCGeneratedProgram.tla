------------------------- MODULE MCGeneratedProgram -------------------------
(***************************************************************************)
(* A program with two cursors: C1 declared in WORKING-STORAGE with a       *)
(* parameter, C2 declared by a statement, and one statement of each kind.  *)
(***************************************************************************)
EXTENDS GeneratedProgram

MCDefaultName == [i \in ConnIds |-> IF i = 2 THEN "DEFAULT2" ELSE "DEFAULT3"]

MCNames == {MCDefaultName[i] : i \in ConnIds}

MCDeclaration ==
    [x \in CursorNames |->
        [at |-> "", host |-> FALSE, hold |-> x = "C2", np |-> IF x = "C1" THEN 1 ELSE 0]]

S(kind, crs, q, np, nr) ==
    [kind |-> kind, at |-> "", crs |-> crs, q |-> q, np |-> np, nr |-> nr]

MCProgram ==
    {S("connect", "C1", "other", 0, 0), S("reset", "C1", "other", 0, 0),
     S("resetall", "C1", "other", 0, 0), S("dml", "C1", "other", 1, 0),
     S("dml", "C1", "tx_end", 0, 0), S("select", "C1", "other", 1, 1),
     S("prepare", "C1", "other", 0, 0), S("execute", "C1", "other", 1, 0),
     S("execute", "C1", "other", 0, 1), S("immediate", "C1", "other", 0, 0),
     S("declare", "C2", "other", 0, 0), S("open", "C1", "other", 0, 0),
     S("open", "C2", "other", 0, 0), S("fetch", "C1", "other", 0, 1),
     S("close", "C1", "other", 0, 0)}

\* No guard and no property but RefusedIsReported, one step later, reads ret.
ProgView == <<connVars, curVars, varLists, loopVars, alive, sqlcode, progVars>>

=============================================================================
