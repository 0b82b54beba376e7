--------------------------- MODULE CursorNaming ---------------------------
(***************************************************************************)
(* The names a program gives its cursors: the runtime registers a cursor   *)
(* under its name, and a driver knows it by the same name.                 *)
(***************************************************************************)
EXTENDS FiniteSets

CONSTANT CursorNames

\* A program names its cursors in its text.
ASSUME CursorNamesAssumption == IsFiniteSet(CursorNames)

=============================================================================
