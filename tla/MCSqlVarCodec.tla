--------------------------- MODULE MCSqlVarCodec ---------------------------
(* The host variables, columns and neighbours for model checking SqlVarCodec. *)
EXTENDS SqlVarCodec

Var(t, l, p) == [type |-> t, length |-> l, power |-> p, autotrim |-> FALSE]

NumericTypes == Display \cup Packed \cup Binary

\* Three digits, with none to all of them after the decimal point, an even number of
\* digits for the packed and the binary types, binary items of four bytes, and texts of
\* three characters.
MCHostVars ==
    {Var(t, 3, p) : t \in NumericTypes, p \in {0, -1, -3}}
        \cup {Var(t, 2, 0) : t \in NumericTypes}
        \cup {Var(t, 7, 0) : t \in Binary}
        \cup {Var("VARYING", 3 + VarlenSize, 0)}
        \cup {[Var("ALPHANUMERIC", 3, 0) EXCEPT !.autotrim = b] : b \in BOOLEAN}

\* Zero, one and two digit numbers, what fits exactly and what is one digit too long,
\* with and without decimals, of both signs.
MCNumbers ==
    {Decimal(n, 0) : n \in {0, 7, -7, 42, 999, -999, 1042, -1042, 70000, -70000}}
        \cup {Decimal(n, 1) : n \in {5, -5, 425, -425, 9999}}
        \cup {Decimal(n, 3) : n \in {125, -125, 12345}}

A   == 65
Tab == 9
MCTexts == {Text(s) : s \in {<<>>, <<A>>, <<A, Blank>>, <<Tab>>, <<A, Tab>>, <<Blank, A, A>>,
                             <<NUL, A>>, <<A, A, A, A>>, [i \in 1..13 |-> A]}}

X == 88

\* The column before it in the row: none, a long number, a long text (that makes a
\* hexadecimal number of a zero in front of its second character).
MCResidues == {<<>>, DigitChars(1234567, 7), <<A, X, A, A, A, A, A>>}

\* Padding, or a numeric display item.
MCFollowers == {<<NUL, NUL>>, <<Zero, Zero + 1, NUL>>}

\* What the next step depends on: not what the database got and not what was done last.
View == <<hv, next, mem, ind, held, code, alive>>
=============================================================================
