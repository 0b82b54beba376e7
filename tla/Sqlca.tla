------------------------------- MODULE Sqlca -------------------------------
(***************************************************************************)
(* The status area of an embedded SQL program and how the runtime fills    *)
(* it: the DBERR_* codes of IDbInterface.h and setStatus() of gixsql.cpp,  *)
(* reduced to the one field a COBOL program tests, SQLCODE.                *)
(***************************************************************************)
EXTENDS Integers

CONSTANT NorecCode  \* __norec_sqlcode: the SQLCODE of "no record found"

\* GIXSQL_NOREC_CODE is only accepted when it is not zero.
ASSUME NorecAssumption == NorecCode \in Int \ {0}

DBERR_NO_ERROR              == 0
DBERR_CONNECTION_FAILED     == -100
DBERR_CONN_NOT_FOUND        == -103
DBERR_CONN_RESET_FAILED     == -104
DBERR_EMPTY_QUERY           == -105
DBERR_SQL_ERROR             == -106
DBERR_TOO_MANY_ARGUMENTS    == -107
DBERR_TOO_FEW_ARGUMENTS     == -108
DBERR_NO_PARAMETERS         == -109
DBERR_CURSOR_EXISTS         == -110
DBERR_NO_SUCH_CURSOR        == -111
DBERR_CLOSE_CURSOR_FAILED   == -112
DBERR_DISCONNECT_FAILED     == -113
DBERR_DECLARE_CURSOR_FAILED == -115
DBERR_OPEN_CURSOR_FAILED    == -116
DBERR_FETCH_ROW_FAILED      == -117
DBERR_INVALID_COLUMN_DATA   == -118
DBERR_CURSOR_CLOSED         == -119
DBERR_MOVE_TO_FIRST_FAILED  == -120
DBERR_FIELD_COUNT_MISMATCH  == -121
DBERR_NO_DATA               == -122
DBERR_TOO_MUCH_DATA         == -123
DBERR_PREPARE_FAILED        == -124
DBERR_CONN_INIT_ERROR       == -201
DBERR_CONN_INVALID_DBTYPE   == -202
DBERR_NUM_OUT_OF_RANGE      == -410

\* The call succeeded in the database but the value does not fit the field.
is_data_error(err) == err = DBERR_NUM_OUT_OF_RANGE

\* A setStatus that forgets to fall back on err when the driver has no code.
setStatus_NoFallback(code, err) ==
    IF err = DBERR_NO_ERROR THEN 0
    ELSE IF err = DBERR_NO_DATA THEN NorecCode
    ELSE code

(***************************************************************************)
(* setStatus(st, dbi, err): the SQLCODE left in st.  code is the driver's  *)
(* get_error_code(), 0 when dbi is NULL: either way a zero code yields err.*)
(***************************************************************************)
setStatus(code, err) ==
    IF err = DBERR_NO_ERROR THEN 0
    ELSE IF err = DBERR_NO_DATA THEN NorecCode
    ELSE IF code = 0 \/ is_data_error(err) THEN err
    ELSE code

NoDbi == 0  \* the code of setStatus(st, NULL, err)

\* A program tells four kinds of SQLCODE apart: success, no record, a warning (a
\* positive code) and an error (a negative one).
Outcomes == {"zero", "norec", "warning", "error"}

Outcome(code) == IF code = 0 THEN "zero"
                 ELSE IF code = NorecCode THEN "norec"
                 ELSE IF code > 0 THEN "warning" ELSE "error"

=============================================================================
