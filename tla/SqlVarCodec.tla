---------------------------- MODULE SqlVarCodec ----------------------------
(***************************************************************************)
(* SqlVar.cpp: how the runtime turns a COBOL field into the text it sends  *)
(* to the database (createRealData) and the text of a column into a COBOL  *)
(* field (createCobolData).  Characters are their ASCII codes.             *)
(*                                                                         *)
(* The field is part of the program's storage: mem is the field and the    *)
(* bytes that follow it, which belong to another data item or are padding. *)
(* A decimal number is an integer in units of 10^-Scale.                   *)
(***************************************************************************)
EXTENDS Integers, Sequences, SequencesExt, Sqlca

CONSTANTS
    VarlenSize, \* bytes of the length of a VARYING item: 4, or 2 on request
    HostVars,  \* the host variables: their type, length, power and autotrim flag
    Numbers,   \* the numbers of the database: n * 10^-s, printed with s decimals
    Texts,     \* the texts of the database
    Residues,  \* the texts of the column that was read just before, in the same row
    Followers  \* what may follow the field in storage

ASSUME VarlenAssumption == VarlenSize \in {2, 4}

Scale == 3

VARIABLES
    hv,      \* the host variable, fixed
    next,    \* what follows it at the start
    mem,     \* the storage from the address of the field on
    ind,     \* the NULL indicator of the field
    held,    \* what the field stands for, as the program and the database see it
    column,  \* what the database got last
    code,    \* SQLCODE of the last read
    lastOp,  \* the last operation, and the value it read
    alive    \* the process still runs

vars == <<hv, next, mem, ind, held, column, code, lastOp, alive>>

---------------------------------------------------------------------------
(* Values and how COBOL stores them.                                       *)

Null       == [kind |-> "null", v |-> <<>>]
Unknown    == [kind |-> "unknown", v |-> <<>>]
Num(n)     == [kind |-> "num", v |-> <<n>>]            \* n * 10^-Scale
Decimal(n, s) == [kind |-> "num", v |-> <<n, s>>]      \* n * 10^-s, as a column has it
Text(s)    == [kind |-> "text", v |-> s]

NUL   == 0
Blank == 32
Plus  == 43
Minus == 45
Point == 46
Zero  == 48
IsDigit(c) == c \in Zero..(Zero + 9)

Textual == {"ALPHANUMERIC", "VARYING"}
Display == {"UNSIGNED_NUMBER", "SIGNED_NUMBER_TC"}
Packed  == {"UNSIGNED_NUMBER_PD", "SIGNED_NUMBER_PD"}
Binary  == {"UNSIGNED_BINARY", "SIGNED_BINARY"}
Signed  == {"SIGNED_NUMBER_TC", "SIGNED_NUMBER_PD", "SIGNED_BINARY"}

abs(n) == IF n < 0 THEN -n ELSE n

\* The w low-order decimal digits of k, as characters.
DigitChars(k, w) == [i \in 1..w |-> Zero + ((k \div 10 ^ (w - i)) % 10)]

Take(s, n) == SubSeq(s, 1, IF n < Len(s) THEN n ELSE Len(s))

Filled(c, w) == [i \in 1..w |-> c]

\* The bytes a binary item of this many digits takes.
BinarySize(digits) ==
    IF digits <= 2 THEN 1 ELSE IF digits <= 4 THEN 2 ELSE IF digits <= 9 THEN 4 ELSE 8

FieldSize(v) ==
    IF v.type \in Packed THEN (v.length \div 2) + 1
    ELSE IF v.type \in Binary THEN BinarySize(v.length)
    ELSE v.length

Capacity(v) == IF v.type = "VARYING" THEN v.length - VarlenSize ELSE v.length

Byte == 0..255

\* The length is an int: its highest bit is the sign.
FitsVarlen(n) == IF VarlenSize = 2 THEN n \div 256 < 256
                 ELSE ((n \div 256) \div 256) \div 256 < 128

\* A VARYING item has room for its length, and the length for what it holds.
ASSUME HostVarsAssumption ==
    /\ HostVars \subseteq [type : Textual \cup Display \cup Packed \cup Binary,
                           length : Nat \ {0}, power : Int, autotrim : BOOLEAN]
    /\ \A v \in HostVars : v.type = "VARYING" =>
          Capacity(v) >= 0 /\ FitsVarlen(Capacity(v))

ASSUME ColumnsAssumption ==
    /\ \A x \in Numbers : x.kind = "num"
    /\ \A x \in Texts : x = Text(x.v) /\ x.v \in Seq(Byte)
    /\ \A s \in Followers : s \in Seq(Byte)

\* Nibbles, two to a byte, with leading zeros up to size bytes.
Pack(nibbles, size) ==
    LET all == Filled(0, 2 * size - Len(nibbles)) \o nibbles
    IN  [i \in 1..size |-> 16 * all[2 * i - 1] + all[2 * i]]

Unpack(bytes) == [i \in 1..(2 * Len(bytes)) |->
                     IF i % 2 = 1 THEN bytes[(i + 1) \div 2] \div 16
                     ELSE bytes[i \div 2] % 16]

\* Two's complement, the most significant byte first.
BigEndian(n, size) ==
    [i \in 1..size |-> FoldLeft(LAMBDA a, z : a \div 256, n, Filled(0, size - i)) % 256]

\* The integer in the digits of the field that stands for n * 10^-Scale.
Unscaled(v, n) == abs(n) \div 10 ^ (Scale + v.power)

\* The picture of the field can hold the value.
Fits(v, x) ==
    CASE x.kind = "num" ->
            /\ v.type \notin Textual
            /\ abs(x.v[1]) % 10 ^ (Scale + v.power) = 0
            /\ Unscaled(v, x.v[1]) < 10 ^ v.length
            /\ v.type \in Signed \/ x.v[1] >= 0
      [] x.kind = "text" -> v.type \in Textual /\ Len(x.v) <= Capacity(v)
      [] OTHER -> FALSE

\* The length of a VARYING item, the least significant byte first.
VarlenOf(n) ==
    LET n2 == n \div 256
        n3 == n2 \div 256
        n4 == n3 \div 256
    IN  SubSeq(<<n % 256, n2 % 256, n3 % 256, n4 % 256>>, 1, VarlenSize)

VarlenAt(m) ==
    m[1] + 256 * (m[2] + (IF VarlenSize = 2 THEN 0 ELSE 256 * (m[3] + 256 * m[4])))

\* The storage of a field that holds x: what the COBOL compiler defines.
CobolField(v, x) ==
    LET k    == Unscaled(v, x.v[1])
        neg  == x.v[1] < 0
        digs == DigitChars(k, v.length)
        pad  == x.v \o Filled(Blank, Capacity(v) - Len(x.v))
    IN  CASE v.type = "UNSIGNED_NUMBER"  -> digs
          [] v.type = "SIGNED_NUMBER_TC" ->
                [digs EXCEPT ![v.length] = IF neg THEN @ + 64 ELSE @]
          [] v.type \in Packed ->
                Pack([i \in 1..v.length |-> digs[i] - Zero]
                         \o <<IF v.type = "UNSIGNED_NUMBER_PD" THEN 15
                              ELSE IF neg THEN 13 ELSE 12>>, FieldSize(v))
          [] v.type \in Binary -> BigEndian(IF neg THEN -k ELSE k, FieldSize(v))
          [] v.type = "ALPHANUMERIC" -> pad
          [] v.type = "VARYING" -> VarlenOf(Len(x.v)) \o pad

\* How a database prints the number n * 10^-s, and how it reads one.
DigitCount(k) == CHOOSE d \in 1..9 : k < 10 ^ d /\ (d = 1 \/ k >= 10 ^ (d - 1))

Printed(x) ==
    LET i == abs(x.n) \div 10 ^ x.s
    IN  (IF x.n < 0 THEN <<Minus>> ELSE <<>>) \o DigitChars(i, DigitCount(i))
            \o (IF x.s = 0 THEN <<>> ELSE <<Point>> \o DigitChars(abs(x.n), x.s))

Before(s, c) == IF \E i \in DOMAIN s : s[i] = c
                THEN SubSeq(s, 1, (CHOOSE i \in DOMAIN s :
                        s[i] = c /\ \A j \in 1..(i - 1) : s[j] # c) - 1)
                ELSE s

After(s, c) == SubSeq(s, Len(Before(s, c)) + 2, Len(s))

Integer(digits) == FoldLeft(LAMBDA a, d : 10 * a + (d - Zero), 0, digits)

\* strtoll with base 0 and without the sign: a leading 0x means hexadecimal, a leading
\* 0 octal digits, and the first character that is no digit of the base ends the number.
DigitValue(c) == IF IsDigit(c) THEN c - Zero
                 ELSE IF c \in 65..70 THEN c - 55
                 ELSE IF c \in 97..102 THEN c - 87 ELSE 16

IsHex(s) == Len(s) > 2 /\ s[1] = Zero /\ s[2] \in {88, 120} /\ DigitValue(s[3]) < 16

strtoll(s) ==
    LET base == IF IsHex(s) THEN 16 ELSE IF s # <<>> /\ Head(s) = Zero THEN 8 ELSE 10
        t    == IF IsHex(s) THEN SubSeq(s, 3, Len(s)) ELSE s
        n    == CHOOSE k \in 0..Len(t) :
                    /\ \A i \in 1..k : DigitValue(t[i]) < base
                    /\ k = Len(t) \/ DigitValue(t[k + 1]) >= base
    IN  FoldLeft(LAMBDA a, c : base * a + DigitValue(c), 0, SubSeq(t, 1, n))

ReadNumber(text) ==
    LET s    == Before(text, NUL)
        neg  == s # <<>> /\ Head(s) = Minus
        body == IF s # <<>> /\ Head(s) \in {Plus, Minus} THEN Tail(s) ELSE s
        ints == Before(body, Point)
        decs == After(body, Point)
        k    == Integer(ints \o decs) * 10 ^ (Scale - Len(decs))
    IN  IF /\ \A i \in DOMAIN ints : IsDigit(ints[i])
           /\ \A i \in DOMAIN decs : IsDigit(decs[i])
           /\ Len(decs) <= Scale
        THEN Num(IF neg THEN -k ELSE k) ELSE Unknown

---------------------------------------------------------------------------
(* From the field to the database.                                         *)

\* strlen; past the end of a buffer without a NUL the true result is no smaller.
strlen(s) == Len(Before(s, NUL))

\* A decimal point one place too far to the right.
insert_decimal_point_OffByOne(data, size, power) ==
    LET n == strlen(data)
        p == n + power + 1
    IN  IF size < n + 1 \/ -power <= 0 \/ -power >= n THEN data
        ELSE SubSeq(SubSeq(data, 1, p) \o <<Point>> \o SubSeq(data, p + 1, Len(data)),
                    1, Len(data))

\* insert_decimal_point: nothing is done when there is no room for it, or when
\* all of the text would stand after it.
insert_decimal_point(data, size, power) ==
    LET n == strlen(data)
        p == n + power
    IN  IF size < n + 1 \/ -power <= 0 \/ -power >= n THEN data
        ELSE SubSeq(SubSeq(data, 1, p) \o <<Point>> \o SubSeq(data, p + 1, Len(data)),
                    1, Len(data))

WithPoint(v, data, size) ==
    IF v.power < 0 THEN insert_decimal_point(data, size, v.power) ELSE data

\* allocate_realdata_buffer: the length of db_data_buffer.
BufferLen(v) ==
    v.length + (IF v.type \in {"SIGNED_NUMBER_TC", "SIGNED_NUMBER_PD"} THEN 1 ELSE 0)
             + (IF v.type \in Display \cup Packed /\ v.power < 0 THEN 1 ELSE 0)

\* The digits and the sign of a trailing combined field.
type_tc_is_positive(c) == c \notin 112..121

UnsignedText(v) == WithPoint(v, SubSeq(mem, 1, BufferLen(v)), BufferLen(v))

TrailingText(v) ==
    LET last == mem[v.length]
        digs == [SubSeq(mem, 1, v.length) EXCEPT
                    ![v.length] = IF IsDigit(last) THEN last
                                  ELSE IF type_tc_is_positive(last) THEN NUL
                                  ELSE last - 64]
        data == <<IF type_tc_is_positive(last) THEN Plus ELSE Minus>> \o digs
    IN  WithPoint(v, data \o Filled(NUL, BufferLen(v) - Len(data)), BufferLen(v) + 1)

PackedText(v) ==
    LET nibs == Unpack(SubSeq(mem, 1, FieldSize(v)))
        digs == [i \in 1..v.length |-> Zero + nibs[Len(nibs) - 1 - v.length + i]]
        sign == IF nibs[Len(nibs)] = 13 THEN Minus ELSE Plus
        data == IF v.type = "SIGNED_NUMBER_PD" THEN <<sign>> \o digs ELSE digs
        size == BufferLen(v) + (IF v.type = "SIGNED_NUMBER_PD" THEN 1 ELSE 0)
    IN  WithPoint(v, data \o Filled(NUL, BufferLen(v) - Len(data)), size)

\* snprintf(buffer, length, "%d", n): at most length - 1 characters.  An unsigned
\* item of four bytes is printed as a signed one.
BinaryText(v) ==
    LET size   == BinarySize(v.length)
        signed == v.type = "SIGNED_BINARY" \/ size = 4
        n      == FoldLeft(LAMBDA a, b : 256 * a + b,
                           IF signed /\ mem[1] >= 128 THEN -1 ELSE 0, SubSeq(mem, 1, size))
    IN  Take(Printed([n |-> n, s |-> 0]), v.length - 1)

isspace(c) == c \in 9..13 \cup {Blank}

\* get_trimmed_length: the first character is kept, and a leading NUL means no text.
get_trimmed_length(s) ==
    IF s[1] = NUL THEN 0
    ELSE CHOOSE l \in 1..Len(s) :
            /\ l = 1 \/ ~isspace(s[l])
            /\ \A i \in (l + 1)..Len(s) : isspace(s[i])

AlnumText(v) ==
    LET s == SubSeq(mem, 1, v.length)
    IN  IF v.autotrim THEN SubSeq(s, 1, get_trimmed_length(s)) ELSE s

\* The length in the field is believed; what lies past the end of mem is not seen.
VaryingText ==
    LET end == VarlenSize + VarlenAt(mem)
    IN  SubSeq(mem, VarlenSize + 1, IF end > Len(mem) THEN Len(mem) ELSE end)

\* createRealData, and what the database makes of the text.
createRealData(v) ==
    CASE ind = -1                    -> Null
      [] ind # -1 /\ v.type = "UNSIGNED_NUMBER"  -> ReadNumber(UnsignedText(v))
      [] ind # -1 /\ v.type = "SIGNED_NUMBER_TC" -> ReadNumber(TrailingText(v))
      [] ind # -1 /\ v.type \in Packed           -> ReadNumber(PackedText(v))
      [] ind # -1 /\ v.type \in Binary           -> ReadNumber(BinaryText(v))
      [] ind # -1 /\ v.type = "ALPHANUMERIC"     -> Text(AlnumText(v))
      [] ind # -1 /\ v.type = "VARYING"          -> Text(VaryingText)

---------------------------------------------------------------------------
(* From the database to the field.  Written is the storage, the code and   *)
(* whether the process survived; createCobolData gives the set of the      *)
(* outcomes the build can have.                                            *)

\* What a NULL is reported with.
NullFlag == -1

Written(m, c) == [mem |-> m, code |-> c, alive |-> TRUE]
Dead == [mem |-> mem, code |-> 0, alive |-> FALSE]

\* s over the bytes of m from offset on; what lies past the end of m is not seen.
Put(m, offset, s) ==
    [i \in DOMAIN m |-> IF i - offset \in DOMAIN s THEN s[i - offset] ELSE m[i]]

\* A range check that uses the wrong comparison.
IntoDisplay_OffByOne(v, value) ==
    LET ints == Before(value, Point)
        fill == LET f == v.length - Len(ints) + v.power IN IF f < 0 THEN 0 ELSE f
        m    == Put(mem, 0, Filled(Zero, fill))
    IN  IF Len(ints) <= v.length + 1
        THEN Written(Put(m, fill, ints), 0)
        ELSE Written(Put(m, 0, SubSeq(ints, Len(ints) - v.length + 1, Len(ints))),
                     DBERR_NUM_OUT_OF_RANGE)

(***************************************************************************)
(* The digits of a number without its sign, aligned on the decimal point.  *)
(* The integer part is compared with all the digits of the field, and the  *)
(* decimals with nothing: with more of them than the field has, the length *)
(* of the last memset() is negative.                                       *)
(***************************************************************************)
IntoDisplay(v, value) ==
    LET ints == Before(value, Point)
        decs == After(value, Point)
        fill == LET f == v.length - Len(ints) + v.power IN IF f < 0 THEN 0 ELSE f
        m1   == Put(mem, 0, Filled(Zero, fill))
        m2   == IF Len(ints) <= v.length THEN Put(m1, fill, ints)
                ELSE Put(m1, 0, SubSeq(ints, Len(ints) - v.length + 1, Len(ints)))
        rest == decs \o Filled(Zero, -v.power - Len(decs))
        err  == IF Len(ints) <= v.length THEN 0 ELSE DBERR_NUM_OUT_OF_RANGE
    IN  IF v.power < 0 /\ Len(decs) > -v.power THEN Dead
        ELSE Written(IF v.power < 0 THEN Put(m2, fill + Len(ints), rest) ELSE m2, err)

\* The sign goes on the last character before a NUL, wherever that is.
Overpunch(m) == [m EXCEPT ![strlen(m)] = IF IsDigit(@) THEN @ + 64 ELSE @]

IntoTrailing(v, text) ==
    IF text # <<>> /\ Head(text) = Minus
    THEN LET r == IntoDisplay(v, Tail(text))
         IN  IF r.alive THEN [r EXCEPT !.mem = Overpunch(@)] ELSE r
    ELSE IntoDisplay(v, text)

(***************************************************************************)
(* display_to_comp3: too long an integer part makes an unsigned difference *)
(* wrap around, and the copy goes 4 GB past the buffer.  All the decimals  *)
(* are copied when the field has any.  Those it has no room for are left   *)
(* out of the field, but the buffer takes only one of them, in the place   *)
(* of its final NUL: with more, the copy runs past the end of the heap     *)
(* block, and the process may or may not survive that.                     *)
(***************************************************************************)
display_to_comp3(v, data) ==
    LET signed == data # <<>> /\ data[1] = Minus /\ v.type = "SIGNED_NUMBER_PD"
        body   == IF signed THEN Tail(data) ELSE data
        ints   == Before(body, Point)
        decs   == After(body, Point)
        intlen == v.length + v.power
        tmp    == Put(Put(Filled(Zero, v.length), intlen - Len(ints), ints),
                      intlen, IF v.power < 0 THEN decs ELSE <<>>)
        digs   == SelectSeq(tmp, IsDigit)
        sign   == IF v.type = "UNSIGNED_NUMBER_PD" THEN 15 ELSE IF signed THEN 13 ELSE 12
        done   == Written(Put(mem, 0, Pack([i \in DOMAIN digs |-> digs[i] - Zero] \o <<sign>>,
                                           FieldSize(v))), 0)
    IN  IF Len(ints) > intlen THEN {Dead}
        ELSE IF v.power < 0 /\ Len(decs) > -v.power + 1 THEN {Dead, done}
        ELSE {done}

\* strtoll of the buffer, not of the value, and a cast to the width of the field.
IntoBinary(v, buffer) ==
    LET neg == Head(buffer) = Minus
        k   == strtoll(IF neg THEN Tail(buffer) ELSE buffer)
    IN  Written(Put(mem, 0, BigEndian(IF neg THEN -k ELSE k, FieldSize(v))), 0)

\* A copy of the whole text, whatever the length of the field.
IntoText_Uncut(v, text) ==
    LET data == text \o Filled(Blank, Capacity(v) - Len(text))
    IN  Written(Put(mem, 0, IF v.type = "VARYING" THEN VarlenOf(Len(text)) \o data ELSE data), 0)

\* Text that does not fit is cut, but a VARYING field gets its full length.
IntoText(v, text) ==
    LET cap  == Capacity(v)
        data == Take(text, cap) \o Filled(Blank, cap - Len(text))
    IN  Written(Put(mem, 0, IF v.type = "VARYING" THEN VarlenOf(Len(text)) \o data ELSE data), 0)

createCobolData(v, text, buffer) ==
    CASE v.type = "UNSIGNED_NUMBER"  -> {IntoDisplay(v, text)}
      [] v.type = "SIGNED_NUMBER_TC" -> {IntoTrailing(v, text)}
      [] v.type \in Packed           -> display_to_comp3(v, text)
      [] v.type \in Binary           -> {IntoBinary(v, buffer)}
      [] v.type \in Textual          -> {IntoText(v, text)}

(***************************************************************************)
(* The buffer of a row.  It has room for the longest host variable and a   *)
(* bit more, a longer value is refused, and it is cleared only before the  *)
(* first column.  The PostgreSQL driver ends a value with a NUL, those of  *)
(* SQLite and MySQL do not: what the column before left stays behind it.   *)
(***************************************************************************)
bsize(v) == v.length + VarlenSize + 1

Buffer(driver, residue, text) ==
    text \o (IF driver = "pgsql" \/ text = <<>> THEN <<NUL>>
            ELSE SubSeq(residue, Len(text) + 1, Len(residue)) \o <<NUL>>)

\* The value as the driver hands it over.
Column(x) ==
    CASE x.kind = "null" -> <<>>
      [] x.kind = "text" -> x.v
      [] x.kind = "num"  -> Printed([n |-> x.v[1], s |-> x.v[2]])

---------------------------------------------------------------------------
(* The field in use.                                                       *)

Scaled(x) == IF x.kind = "num" THEN Num(x.v[1] * 10 ^ (Scale - x.v[2])) ELSE x

\* A value cut to a picture: the low-order digits before the decimal point and the
\* high-order ones after it, or the first characters.
Cut(v, x) ==
    IF x.kind = "text" THEN Text(Take(x.v, Capacity(v)))
    ELSE LET k == (Unscaled(v, x.v[1]) % 10 ^ v.length) * 10 ^ (Scale + v.power)
         IN  Num(IF x.v[1] < 0 THEN -k ELSE k)

\* What a field holds after x was cut to its picture: a number keeps its sign, also
\* when nothing but zeros is left of it.
Stored(v, x) == CobolField(v, IF x.kind = "text" THEN Cut(v, x) ELSE x)

Overflows(v, x) == x.kind = "num" /\ Unscaled(v, Scaled(x).v[1]) >= 10 ^ v.length

\* x belongs in a column that is read into a field of this type.
Matches(v, x) == x = Null \/ ((x.kind = "text") <=> (v.type \in Textual))

Columns == Numbers \cup Texts \cup {Null}
Drivers == {"pgsql", "sqlite"}

(***************************************************************************)
(* The reads whose outcome is not the value.  From the top: a number with  *)
(* more decimals, or with more digits before the point (a single zero      *)
(* counts), than a display field with decimals has; a sign in an unsigned  *)
(* field; the sign of a trailing combined field that is not followed by a  *)
(* NUL; more digits before the point than a packed field has, or at least  *)
(* two decimals more than a packed field with decimals has; too large a    *)
(* number for a binary field; a binary field with decimals; digits of the  *)
(* column before behind a number, or an x and a hexadecimal digit of it    *)
(* behind a zero; a text longer than a VARYING field.                      *)
(***************************************************************************)
ReadGap(v, x, driver, residue) ==
    LET text == Column(x)
        ints == SelectSeq(Before(text, Point), IsDigit)
        long == Len(ints) > v.length + v.power
    IN  \/ /\ v.type \in Display /\ v.power < 0
           /\ long \/ Len(After(text, Point)) > -v.power
        \/ v.type \notin Signed \cup Textual /\ x.v[1] < 0
        \/ v.type = "SIGNED_NUMBER_TC" /\ x.v[1] < 0 /\ mem[v.length + 1] # NUL
        \/ v.type \in Packed /\ long
        \/ v.type \in Packed /\ v.power < 0 /\ Len(After(text, Point)) > -v.power + 1
        \/ v.type \in Binary /\ Overflows(v, x)
        \/ v.type \in Binary /\ v.power < 0
        \/ /\ v.type \in Binary /\ driver # "pgsql"
           /\ \A i \in DOMAIN text : text[i] # Point
           /\ Len(residue) > Len(text)
           /\ \/ IsDigit(residue[Len(text) + 1])
              \/ text = <<Zero>> /\ IsHex(<<Zero>> \o Tail(residue))
        \/ v.type = "VARYING" /\ Len(text) > Capacity(v)

\* A text without its trailing blanks.
RTrim(s) == SubSeq(s, 1, CHOOSE n \in 0..Len(s) :
                /\ n = 0 \/ s[n] # Blank
                /\ \A i \in (n + 1)..Len(s) : s[i] = Blank)

\* What trimming a field loses of a text beyond its trailing blanks.
TrimGap(text) ==
    \/ text # <<>> /\ Head(text) = NUL
    \/ Len(RTrim(text)) > 1 /\ isspace(Last(RTrim(text)))

(***************************************************************************)
(* The fields that are not sent as they are: an unsigned field with        *)
(* decimals that is not followed by a NUL (the byte is copied along, and   *)
(* there is no room left for the point); an unsigned field with nothing    *)
(* but decimals; a binary field with decimals, or one that needs all its   *)
(* digits and its sign (the last character is lost); a trimmed text that   *)
(* starts with a NUL, or ends in a tab or another white space.             *)
(***************************************************************************)
WriteGap(v) ==
    \/ v.type = "UNSIGNED_NUMBER" /\ v.power < 0 /\ mem[v.length + 1] # NUL
    \/ v.type \in {"UNSIGNED_NUMBER", "UNSIGNED_NUMBER_PD"} /\ v.length = -v.power
    \/ v.type \in Binary /\ v.power < 0
    \/ v.type \in Binary /\ Len(Printed([n |-> held.v[1] \div 10 ^ Scale, s |-> 0])) >= v.length
    \/ v.type = "ALPHANUMERIC" /\ v.autotrim /\ TrimGap(held.v)

Codes == {0, DBERR_NUM_OUT_OF_RANGE, DBERR_INVALID_COLUMN_DATA}

Init ==
    /\ hv \in HostVars
    /\ next \in Followers
    /\ held = IF hv.type \in Textual THEN Text(<<>>) ELSE Num(0)
    /\ mem = CobolField(hv, held) \o next
    /\ ind = 0
    /\ column = Unknown
    /\ code = 0
    /\ lastOp = [op |-> "start", x |-> Unknown, driver |-> "none", residue |-> <<>>]
    /\ alive = TRUE

Did(op, x, driver, residue) ==
    lastOp' = [op |-> op, x |-> x, driver |-> driver, residue |-> residue]

\* The program moves a value that fits to the field and clears the indicator.
Move(x) ==
    /\ alive
    /\ Fits(hv, Scaled(x))
    /\ mem' = Put(mem, 0, CobolField(hv, Scaled(x)))
    /\ ind' = 0
    /\ held' = Scaled(x)
    /\ Did("move", x, "none", <<>>)
    /\ UNCHANGED <<hv, next, column, code, alive>>

\* The program moves -1 to the indicator.
MoveNull ==
    /\ alive
    /\ ind' = -1
    /\ held' = Null
    /\ Did("null", Null, "none", <<>>)
    /\ UNCHANGED <<hv, next, mem, column, code, alive>>

\* The field is a parameter of a statement.
Store ==
    /\ alive
    /\ column' = createRealData(hv)
    /\ Did("store", Unknown, "none", <<>>)
    /\ UNCHANGED <<hv, next, mem, ind, held, code, alive>>

\* createCobolData with a buffer: whatever is in it, the field is not NULL.
Received(x, driver, residue) ==
    \E r \in createCobolData(hv, Column(x), Buffer(driver, residue, Column(x))) :
        /\ mem' = r.mem
        /\ code' = r.code
        /\ alive' = r.alive
        /\ ind' = 0
        /\ held' = IF x = Null \/ ReadGap(hv, x, driver, residue) THEN Unknown
                   ELSE Cut(hv, Scaled(x))

\* createCobolData without a buffer.
ReceivedNull ==
    /\ ind' = NullFlag
    /\ held' = Null
    /\ code' = 0
    /\ UNCHANGED <<mem, alive>>

Fitting(x) == Matches(hv, x) /\ Len(Column(x)) <= bsize(hv)

\* GIXSQLExecSelectIntoOne: a NULL is passed on without a buffer.
SelectInto(x, driver, residue) ==
    /\ alive
    /\ Fitting(x)
    /\ IF x = Null THEN ReceivedNull ELSE Received(x, driver, residue)
    /\ Did("select", x, driver, residue)
    /\ UNCHANGED <<hv, next, column>>

\* GIXSQLCursorFetchOne and GIXSQLExecPreparedInto: the driver's is_null is not
\* looked at.
Fetch(x, driver, residue) ==
    /\ alive
    /\ Fitting(x)
    /\ Received(x, driver, residue)
    /\ Did("fetch", x, driver, residue)
    /\ UNCHANGED <<hv, next, column>>

\* Either of them, with a value for which the buffer has no room.
TooLong(x) ==
    /\ alive
    /\ Matches(hv, x)
    /\ Len(Column(x)) > bsize(hv)
    /\ code' = DBERR_INVALID_COLUMN_DATA
    /\ Did("refused", x, "none", <<>>)
    /\ UNCHANGED <<hv, next, mem, ind, held, column, alive>>

Next ==
    \/ \E x \in Columns \ {Null} : Move(x) \/ TooLong(x)
    \/ MoveNull
    \/ Store
    \/ \E x \in Columns, driver \in Drivers, residue \in Residues :
          SelectInto(x, driver, residue) \/ Fetch(x, driver, residue)

Spec == Init /\ [][Next]_vars

---------------------------------------------------------------------------
(* Properties.                                                             *)

Reading == lastOp'.op \in {"select", "fetch"} /\ lastOp'.x # Null

InGap == ReadGap(hv, lastOp'.x, lastOp'.driver, lastOp'.residue)

\* The storage keeps its size, the indicator is 0 or -1 and the codes are those a
\* read may give (SqlVar's addr and ind_addr, and the sqlcode of createCobolData).
CodecTypeOK ==
    /\ hv \in HostVars /\ next \in Followers
    /\ mem \in [1..(FieldSize(hv) + Len(next)) -> Byte]
    /\ ind \in {-1, 0}
    /\ code \in Codes
    /\ alive \in BOOLEAN
    /\ held.kind \in {"null", "unknown", "num", "text"}
    /\ column.kind \in {"null", "unknown", "num", "text"}

(***************************************************************************)
(* Whatever the field and its neighbour held before, a value that is read  *)
(* outside the cases of ReadGap arrives as the COBOL compiler defines it   *)
(* for the picture, cut where it must be; a number without decimals that   *)
(* loses digits is reported as out of range and nothing else is; no byte   *)
(* behind the field changes, however long the value is (createCobolData).  *)
(***************************************************************************)
ReadsAreFaithful ==
    [][Reading /\ ~InGap =>
          /\ alive'
          /\ \A i \in DOMAIN mem : i > FieldSize(hv) => mem'[i] = mem[i]
          /\ mem' = Put(mem, 0, Stored(hv, Scaled(lastOp'.x)))
          /\ code' = IF Overflows(hv, lastOp'.x) THEN DBERR_NUM_OUT_OF_RANGE ELSE 0]_vars

(***************************************************************************)
(* What a statement sends is what the program moved to the field, or what  *)
(* an earlier read left there, NULL included, but for the cases of         *)
(* WriteGap; a PIC X field differs in trailing blanks only, and has none   *)
(* beyond the first character under --picx-as varchar (createRealData).    *)
(***************************************************************************)
WritesAreFaithful ==
    [][lastOp'.op = "store" /\ held # Unknown /\ (held = Null \/ ~WriteGap(hv)) =>
          /\ column'.kind = held.kind
          /\ IF hv.type = "ALPHANUMERIC" /\ held # Null
             THEN /\ RTrim(column'.v) = RTrim(held.v)
                  /\ hv.autotrim /\ Len(column'.v) > 1 => column'.v = RTrim(column'.v)
             ELSE column' = held]_vars

\* README.md, "NULL indicators": -1 is set on input by SELECT and FETCH to indicate
\* a NULL field.
IndicatorTruthful ==
    [][lastOp'.op \in {"select", "fetch"} /\ alive' => (ind' = -1 <=> lastOp'.x = Null)]_vars

=============================================================================
