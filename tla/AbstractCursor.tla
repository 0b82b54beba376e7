--------------------------- MODULE AbstractCursor ---------------------------
(***************************************************************************)
(* What IDbInterface promises a program about its cursors, whatever the    *)
(* driver: OPEN gives a cursor a number of rows and a position before the  *)
(* first; a FETCH answers with the next row, or with "no data" when there  *)
(* is none left, or with an error that may cost the row; no other call     *)
(* moves an open cursor.  Any call may close cursors.                      *)
(***************************************************************************)
EXTENDS Integers

CONSTANTS
    Cursors,
    NoCursor,
    Rows        \* bound on the rows of a cursor

VARIABLES
    view,       \* each cursor: open or not, its rows, the last row passed
    answer      \* what the last call told about a row: kind, cursor, row

vars == <<view, answer>>

Closed == [open |-> FALSE, rows |-> 0, at |-> 0]

NoAnswer == [kind |-> "none", x |-> NoCursor, row |-> 0]
Error(x) == [kind |-> "error", x |-> x, row |-> 0]
NoData(x) == [kind |-> "nodata", x |-> x, row |-> 0]
Row(x, n) == [kind |-> "row", x |-> x, row |-> n]

Init ==
    /\ view = [x \in Cursors |-> Closed]
    /\ answer = NoAnswer

Opened == {[open |-> TRUE, rows |-> n, at |-> 0] : n \in 0..Rows}

\* A call other than FETCH.
Call ==
    /\ answer' = NoAnswer
    /\ view' \in [Cursors -> Opened \cup {Closed} \cup {view[x] : x \in Cursors}]
    /\ \A x \in Cursors : view'[x] \in Opened \cup {Closed, view[x]}

FetchRow(x) ==
    /\ view[x].open
    /\ view[x].at < view[x].rows
    /\ view' = [view EXCEPT ![x].at = @ + 1]
    /\ answer' \in {Row(x, view[x].at + 1), Error(x)}

FetchNoData(x) ==
    /\ view[x].open
    /\ view[x].at = view[x].rows
    /\ answer' = NoData(x)
    /\ UNCHANGED view

FetchError(x) ==
    /\ answer' = Error(x)
    /\ UNCHANGED view

Next ==
    \/ Call
    \/ \E x \in Cursors : FetchRow(x) \/ FetchNoData(x) \/ FetchError(x)

Spec == Init /\ [][Next]_vars

=============================================================================
