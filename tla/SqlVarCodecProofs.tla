------------------------- MODULE SqlVarCodecProofs -------------------------
(***************************************************************************)
(* Theorems about SqlVarCodec for the text fields, PIC X and VARYING, of   *)
(* every length and for every text.                                        *)
(***************************************************************************)
EXTENDS SqlVarCodec, TLAPS, NaturalsInduction, WellFoundedInduction

\* The host variables are text fields.
TextOnly == \A v \in HostVars : v.type \in Textual

---------------------------------------------------------------------------
(* Sequences.                                                              *)

LEMMA FilledIs ==
    ASSUME NEW c \in Byte, NEW w \in Int
    PROVE  /\ Filled(c, w) \in Seq(Byte)
           /\ Len(Filled(c, w)) = IF w > 0 THEN w ELSE 0
           /\ \A i \in 1..w : Filled(c, w)[i] = c
           /\ w <= 0 => Filled(c, w) = Filled(c, 0)
  <1>1. CASE w > 0
    <2>1. w \in Nat /\ Filled(c, w) \in [1..w -> Byte]
      BY <1>1 DEF Filled
    <2>2. Filled(c, w) \in Seq(Byte)
      BY <2>1
    <2> QED
      BY <1>1, <2>1, <2>2 DEF Filled
  <1>2. CASE w <= 0
    <2>1. 1..w = {} /\ 1..0 = {}
      BY <1>2
    <2>2. Filled(c, w) = Filled(c, 0) /\ Filled(c, 0) \in [1..0 -> Byte] /\ 0 \in Nat
      BY <2>1 DEF Filled
    <2>3. Filled(c, 0) \in Seq(Byte) /\ Len(Filled(c, 0)) = 0
      BY <2>2
    <2> QED
      BY <1>2, <2>1, <2>2, <2>3
  <1> QED
    BY <1>1, <1>2

LEMMA TakeIs ==
    ASSUME NEW s \in Seq(Byte), NEW n \in Nat
    PROVE  /\ Take(s, n) \in Seq(Byte)
           /\ Len(Take(s, n)) = IF n < Len(s) THEN n ELSE Len(s)
           /\ \A i \in 1..Len(Take(s, n)) : Take(s, n)[i] = s[i]
           /\ Len(s) <= n => Take(s, n) = s
  BY DEF Take

\* A text with blanks behind it up to n characters.
Padded(s, n) == s \o Filled(Blank, n - Len(s))

LEMMA BlankIsByte == Blank \in Byte /\ 0 \in Byte
  BY DEF Blank, Byte

LEMMA PaddedIs ==
    ASSUME NEW s \in Seq(Byte), NEW n \in Nat, Len(s) <= n
    PROVE  /\ Padded(s, n) \in Seq(Byte)
           /\ Len(Padded(s, n)) = n
           /\ \A i \in 1..n : Padded(s, n)[i] = IF i <= Len(s) THEN s[i] ELSE Blank
  <1>1. PICK w, f : w = n - Len(s) /\ f = Filled(Blank, w)
    OBVIOUS
  <1>2. w \in Nat
    BY <1>1
  <1>3. PICK c \in Byte : c = Blank
    BY BlankIsByte
  <1>4. /\ Filled(c, w) \in Seq(Byte) /\ Len(Filled(c, w)) = IF w > 0 THEN w ELSE 0
        /\ \A i \in 1..w : Filled(c, w)[i] = c
    BY ONLY <1>2, FilledIs
  <1>5. f \in Seq(Byte) /\ Len(f) = w /\ \A i \in 1..w : f[i] = Blank
    <2>1. f = Filled(c, w)
      BY Zenon, <1>1, <1>3
    <2>2. f \in Seq(Byte) /\ (Len(f) = IF w > 0 THEN w ELSE 0) /\ \A i \in 1..w : f[i] = c
      BY Zenon, <1>4, <2>1
    <2> QED
      BY <1>2, <1>3, <2>2
  <1>6. Padded(s, n) = s \o f
    BY <1>1 DEF Padded
  <1> QED
    BY <1>1, <1>2, <1>5, <1>6

\* The length made of four bytes, or of the first two.
Four(a, b, c, d) == SubSeq(<<a, b, c, d>>, 1, VarlenSize)

Value(a, b, c, d) == a + 256 * (b + (IF VarlenSize = 2 THEN 0 ELSE 256 * (c + 256 * d)))

HasBytes(n, a, b, c, d) ==
    VarlenOf(n) = Four(a, b, c, d) /\ (FitsVarlen(n) => n = Value(a, b, c, d))

LEMMA Bytes ==
    ASSUME NEW n \in Nat
    PROVE  \E a, b, c, d \in Byte : HasBytes(n, a, b, c, d)
  <1>1. PICK n2 \in Nat, a \in Byte : n2 = n \div 256 /\ a = n % 256 /\ n = 256 * n2 + a
    BY DEF Byte
  <1>2. PICK n3 \in Nat, b \in Byte : n3 = n2 \div 256 /\ b = n2 % 256 /\ n2 = 256 * n3 + b
    BY DEF Byte
  <1>3. PICK n4 \in Nat, c \in Byte : n4 = n3 \div 256 /\ c = n3 % 256 /\ n3 = 256 * n4 + c
    BY DEF Byte
  <1>4. PICK n5 \in Nat, d \in Byte : d = n4 % 256 /\ n4 = 256 * n5 + d
    BY DEF Byte
  <1>5. VarlenOf(n) = Four(a, b, c, d)
    <2>1. n \div 256 = n2 /\ n % 256 = a
      BY <1>1
    <2>2. n2 \div 256 = n3 /\ n2 % 256 = b
      BY <1>2
    <2>3. n3 \div 256 = n4 /\ n3 % 256 = c
      BY <1>3
    <2>4. n4 % 256 = d
      BY <1>4
    <2>5. (n \div 256) \div 256 = n3
      BY Zenon, <2>1, <2>2
    <2>6. ((n \div 256) \div 256) \div 256 = n4
      BY Zenon, <2>3, <2>5
    <2>7. /\ (n \div 256) % 256 = b
          /\ ((n \div 256) \div 256) % 256 = c
          /\ (((n \div 256) \div 256) \div 256) % 256 = d
      BY <2>1, <2>2, <2>3, <2>4, <2>5, <2>6
    <2>8. <<n % 256, (n \div 256) % 256, ((n \div 256) \div 256) % 256,
            (((n \div 256) \div 256) \div 256) % 256>> = <<a, b, c, d>>
      BY <2>1, <2>7
    <2> QED
      BY ZenonT(60), <2>8 DEF VarlenOf, Four
  <1>6. /\ FitsVarlen(n) /\ VarlenSize = 2 => n2 < 256
        /\ FitsVarlen(n) /\ VarlenSize = 4 => n4 < 128
    BY <1>1, <1>2, <1>3 DEF FitsVarlen
  <1>7. /\ n2 < 256 => n = a + 256 * b
        /\ n4 < 128 => n = a + 256 * (b + 256 * (c + 256 * d))
    BY <1>1, <1>2, <1>3, <1>4 DEF Byte
  <1>8. FitsVarlen(n) => n = Value(a, b, c, d)
    <2>1. CASE VarlenSize = 2
      BY <1>6, <1>7, <2>1 DEF Byte, Value
    <2>2. CASE VarlenSize = 4
      BY <1>6, <1>7, <2>2 DEF Value
    <2> QED
      BY <2>1, <2>2, VarlenAssumption
  <1> QED
    BY Zenon, <1>5, <1>8 DEF HasBytes

StartsWith(s, a, b, c, d) ==
    /\ s[1] = a /\ s[2] = b
    /\ VarlenSize = 4 => s[3] = c /\ s[4] = d

LEMMA FirstBytes ==
    ASSUME NEW a \in Byte, NEW b \in Byte, NEW c \in Byte, NEW d \in Byte,
           NEW s, s = Four(a, b, c, d)
    PROVE  /\ s \in Seq(Byte) /\ Len(s) = VarlenSize
           /\ StartsWith(s, a, b, c, d)
  <1>1. PICK t : t = <<a, b, c, d>>
    BY Zenon
  <1>2. /\ t \in Seq(Byte) /\ Len(t) = 4
        /\ t[1] = a /\ t[2] = b /\ t[3] = c /\ t[4] = d
    BY <1>1
  <1>3. s = SubSeq(t, 1, VarlenSize)
    BY Zenon, <1>1 DEF Four
  <1>4. s \in Seq(Byte) /\ Len(s) = VarlenSize /\ \A i \in 1..VarlenSize : s[i] = t[i]
    BY <1>2, <1>3, VarlenAssumption
  <1> QED
    BY <1>2, <1>4, VarlenAssumption DEF StartsWith

LEMMA VarlenIs ==
    ASSUME NEW n \in Nat
    PROVE  VarlenOf(n) \in Seq(Byte) /\ Len(VarlenOf(n)) = VarlenSize
  <1>1. PICK a, b, c, d \in Byte : HasBytes(n, a, b, c, d)
    BY Bytes
  <1>2. PICK s : s = VarlenOf(n)
    OBVIOUS
  <1>3. s = Four(a, b, c, d)
    BY Zenon, <1>1, <1>2 DEF HasBytes
  <1>4. s \in Seq(Byte) /\ Len(s) = VarlenSize
    BY <1>3, FirstBytes
  <1> QED
    BY Zenon, <1>2, <1>4

\* The bytes of a length are read back as that length.
LEMMA VarlenBack ==
    ASSUME NEW n \in Nat, FitsVarlen(n), NEW m,
           \A i \in 1..VarlenSize : m[i] = VarlenOf(n)[i]
    PROVE  VarlenAt(m) = n
  <1>1. PICK a, b, c, d \in Byte : HasBytes(n, a, b, c, d)
    BY Bytes
  <1>2. PICK s : s = VarlenOf(n)
    OBVIOUS
  <1>3. s = Four(a, b, c, d) /\ n = Value(a, b, c, d)
    BY Zenon, <1>1, <1>2 DEF HasBytes
  <1>3a. s = Four(a, b, c, d)
    BY Zenon, <1>3
  <1>4. StartsWith(s, a, b, c, d)
    BY <1>3a, FirstBytes
  <1>5. m[1] = a /\ m[2] = b /\ (VarlenSize = 4 => m[3] = c /\ m[4] = d)
    BY <1>2, <1>4, VarlenAssumption DEF StartsWith
  <1>6. VarlenSize # 2 => VarlenSize = 4
    BY VarlenAssumption
  <1>7. VarlenAt(m) = Value(a, b, c, d)
    BY <1>5, <1>6 DEF VarlenAt, Value
  <1> QED
    BY <1>3, <1>7

LEMMA PutIs ==
    ASSUME NEW m \in Seq(Byte), NEW s \in Seq(Byte)
    PROVE  /\ Put(m, 0, s) \in Seq(Byte)
           /\ Len(Put(m, 0, s)) = Len(m)
           /\ \A i \in 1..Len(m) : Put(m, 0, s)[i] = IF i <= Len(s) THEN s[i] ELSE m[i]
  <1>1. PICK p : p = Put(m, 0, s)
    OBVIOUS
  <1>2. p = [i \in 1..Len(m) |-> IF i <= Len(s) THEN s[i] ELSE m[i]]
    BY <1>1 DEF Put
  <1>3. p \in [1..Len(m) -> Byte] /\ Len(m) \in Nat
    BY <1>2
  <1> QED
    BY <1>1, <1>2, <1>3

---------------------------------------------------------------------------
(* The storage of a field that holds a text.                               *)

Field(v, t) == IF v.type = "VARYING" THEN VarlenOf(Len(t)) \o Padded(t, Capacity(v))
               ELSE Padded(t, Capacity(v))

LEMMA HostVarIs ==
    ASSUME TextOnly, NEW v \in HostVars
    PROVE  /\ v.type \in {"ALPHANUMERIC", "VARYING"}
           /\ v.length \in Nat /\ v.length > 0
           /\ v.autotrim \in BOOLEAN
           /\ Capacity(v) \in Nat
           /\ v.type = "VARYING" =>
                 v.length = VarlenSize + Capacity(v) /\ FitsVarlen(Capacity(v))
           /\ v.type # "VARYING" => v.length = Capacity(v)
  <1>1. v.type \in {"ALPHANUMERIC", "VARYING"}
    BY DEF TextOnly, Textual
  <1>2. v.length \in Nat \ {0} /\ v.autotrim \in BOOLEAN
    BY HostVarsAssumption
  <1>3. v.type = "VARYING" => Capacity(v) >= 0 /\ FitsVarlen(Capacity(v))
    BY HostVarsAssumption
  <1>4. Capacity(v) = IF v.type = "VARYING" THEN v.length - VarlenSize ELSE v.length
    BY DEF Capacity
  <1> HIDE DEF Capacity
  <1> QED
    BY <1>1, <1>2, <1>3, <1>4, VarlenAssumption

LEMMA FieldIs ==
    ASSUME TextOnly, NEW v \in HostVars, NEW t \in Seq(Byte), Len(t) <= Capacity(v)
    PROVE  Field(v, t) \in Seq(Byte) /\ Len(Field(v, t)) = v.length
  <1>1. PICK p : p = Padded(t, Capacity(v))
    OBVIOUS
  <1>2. PICK l : l = VarlenOf(Len(t))
    OBVIOUS
  <1>3. p \in Seq(Byte) /\ Len(p) = Capacity(v)
    BY <1>1, HostVarIs, PaddedIs
  <1>4. l \in Seq(Byte) /\ Len(l) = VarlenSize
    BY <1>2, VarlenIs
  <1>5. Field(v, t) = IF v.type = "VARYING" THEN l \o p ELSE p
    BY <1>1, <1>2 DEF Field
  <1>6. CASE v.type = "VARYING"
    BY <1>3, <1>4, <1>5, <1>6, HostVarIs, VarlenAssumption
  <1>7. CASE v.type # "VARYING"
    BY <1>3, <1>5, <1>7, HostVarIs
  <1> QED
    BY <1>6, <1>7

LEMMA CobolFieldIs ==
    ASSUME NEW v, v.type \in {"ALPHANUMERIC", "VARYING"}, NEW t
    PROVE  CobolField(v, Text(t)) = Field(v, t)
  <1>1. Text(t).v = t
    BY DEF Text
  <1>2. /\ v.type # "UNSIGNED_NUMBER" /\ v.type # "SIGNED_NUMBER_TC"
        /\ v.type \notin Packed /\ v.type \notin Binary
    BY DEF Packed, Binary
  <1>3. CASE v.type = "ALPHANUMERIC"
    BY <1>1, <1>2, <1>3 DEF CobolField, Field, Padded
  <1>4. CASE v.type = "VARYING"
    BY <1>1, <1>2, <1>4 DEF CobolField, Field, Padded
  <1> QED
    BY <1>3, <1>4

\* What is written for a text of any length.
LEMMA IntoTextIs ==
    ASSUME TextOnly, NEW v \in HostVars, NEW t \in Seq(Byte)
    PROVE  \E f \in Seq(Byte) :
              /\ IntoText(v, t) = Written(Put(mem, 0, f), 0)
              /\ v.type # "VARYING" \/ Len(t) <= Capacity(v)
                    => f = Field(v, Take(t, Capacity(v)))
  <1>1. PICK cap \in Nat : cap = Capacity(v)
    BY HostVarIs
  <1>2. PICK k : k = Take(t, cap)
    OBVIOUS
  <1>3. /\ k \in Seq(Byte) /\ (Len(k) = IF cap < Len(t) THEN cap ELSE Len(t))
        /\ Len(t) <= cap => k = t
    BY <1>2, TakeIs
  <1>4. PICK g : g = Filled(Blank, cap - Len(t))
    OBVIOUS
  <1>5. g \in Seq(Byte) /\ g = Filled(Blank, cap - Len(k))
    <2>1. PICK w \in Int, c \in Byte : w = cap - Len(t) /\ c = Blank
      BY BlankIsByte
    <2>2. Filled(c, w) \in Seq(Byte) /\ (w <= 0 => Filled(c, w) = Filled(c, 0))
      BY FilledIs
    <2>3. g = Filled(c, w)
      BY Zenon, <1>4, <2>1
    <2>4. CASE Len(t) <= cap
      BY Zenon, <1>3, <1>4, <2>2, <2>3, <2>4
    <2>5. CASE cap < Len(t)
      <3>1. cap - Len(k) = 0 /\ w <= 0
        BY <1>3, <2>1, <2>5
      <3> QED
        BY Zenon, <2>1, <2>2, <2>3, <3>1
    <2> QED
      BY <2>4, <2>5
  <1>6. PICK d : d = k \o g
    OBVIOUS
  <1>7. d \in Seq(Byte) /\ d = Padded(k, cap)
    BY <1>3, <1>5, <1>6 DEF Padded
  <1>8. PICK l : l = VarlenOf(Len(t))
    OBVIOUS
  <1>9. l \in Seq(Byte)
    BY <1>8, VarlenIs
  <1>10. PICK f : f = IF v.type = "VARYING" THEN l \o d ELSE d
    OBVIOUS
  <1>11. f \in Seq(Byte)
    BY <1>7, <1>9, <1>10
  <1>12. IntoText(v, t) = Written(Put(mem, 0, f), 0)
    BY Zenon, <1>1, <1>2, <1>4, <1>6, <1>8, <1>10 DEF IntoText
  <1>13. ASSUME v.type # "VARYING" \/ Len(t) <= cap
         PROVE  f = Field(v, k)
    BY Zenon, <1>1, <1>3, <1>7, <1>8, <1>10, <1>13 DEF Field
  <1> QED
    BY Zenon, <1>1, <1>2, <1>11, <1>12, <1>13

---------------------------------------------------------------------------
(* Reading.                                                                *)

\* The columns that go with a text field.
LEMMA ColumnIs ==
    ASSUME TextOnly, hv \in HostVars, NEW x \in Columns, x # Null, Matches(hv, x)
    PROVE  /\ x = Text(x.v) /\ x.v \in Seq(Byte) /\ x.kind = "text"
           /\ Scaled(x) = x /\ Column(x) = x.v
  <1>1. x.kind = "text"
    BY HostVarIs DEF Matches, Textual
  <1>2. x \in Texts
    BY <1>1, ColumnsAssumption DEF Columns
  <1>3. x = Text(x.v) /\ x.v \in Seq(Byte)
    BY <1>2, ColumnsAssumption
  <1>4. Scaled(x) = x /\ Column(x) = x.v
    BY <1>1 DEF Scaled, Column
  <1> QED
    BY <1>1, <1>3, <1>4

\* The text is written as IntoText does, whatever the buffer holds.
LEMMA ReceivedIs ==
    ASSUME TextOnly, hv \in HostVars, NEW x, NEW driver, NEW residue,
           Received(x, driver, residue), Column(x) \in Seq(Byte)
    PROVE  \E f \in Seq(Byte) :
              /\ mem' = Put(mem, 0, f) /\ code' = 0 /\ alive' = TRUE
              /\ hv.type # "VARYING" \/ Len(Column(x)) <= Capacity(hv)
                    => f = Field(hv, Take(Column(x), Capacity(hv)))
  <1>1. PICK t, b : t = Column(x) /\ b = Buffer(driver, residue, t)
    OBVIOUS
  <1>2. PICK r \in createCobolData(hv, t, b) :
            mem' = r.mem /\ code' = r.code /\ alive' = r.alive
    BY Zenon, <1>1 DEF Received
  <1>3. createCobolData(hv, t, b) = {IntoText(hv, t)}
    <2>1. hv.type \in {"ALPHANUMERIC", "VARYING"}
      BY HostVarIs
    <2> QED
      BY <2>1 DEF createCobolData, Packed, Binary, Textual
  <1>4. r = IntoText(hv, t)
    BY Zenon, <1>2, <1>3
  <1>5. PICK f \in Seq(Byte) :
            /\ IntoText(hv, t) = Written(Put(mem, 0, f), 0)
            /\ hv.type # "VARYING" \/ Len(t) <= Capacity(hv)
                  => f = Field(hv, Take(t, Capacity(hv)))
    BY Zenon, <1>1, IntoTextIs
  <1>6. r.mem = Put(mem, 0, f) /\ r.code = 0 /\ r.alive = TRUE
    BY <1>4, <1>5 DEF Written
  <1> QED
    BY Zenon, <1>1, <1>2, <1>5, <1>6

\* A text that is no gap is written as the compiler would store what fits of it.
LEMMA ReadText ==
    ASSUME TextOnly, hv \in HostVars, NEW x \in Columns, x # Null, Matches(hv, x),
           NEW driver, NEW residue, Received(x, driver, residue),
           ~ReadGap(hv, x, driver, residue)
    PROVE  /\ mem' = Put(mem, 0, Field(hv, Take(x.v, Capacity(hv))))
           /\ code' = 0 /\ alive' = TRUE /\ ind' = 0
           /\ held' = Text(Take(x.v, Capacity(hv)))
           /\ Cut(hv, Scaled(x)) = Text(Take(x.v, Capacity(hv)))
  <1>1. x.kind = "text" /\ x.v \in Seq(Byte) /\ Scaled(x) = x /\ Column(x) = x.v
    BY ColumnIs
  <1>2. hv.type # "VARYING" \/ Len(x.v) <= Capacity(hv)
    <2>1. ~(hv.type = "VARYING" /\ Len(Column(x)) > Capacity(hv))
      BY Zenon DEF ReadGap
    <2>2. Len(x.v) \in Nat /\ Capacity(hv) \in Nat
      BY <1>1, HostVarIs
    <2> QED
      BY <1>1, <2>1, <2>2
  <1>3. PICK f \in Seq(Byte) :
              /\ mem' = Put(mem, 0, f) /\ code' = 0 /\ alive' = TRUE
              /\ hv.type # "VARYING" \/ Len(x.v) <= Capacity(hv)
                    => f = Field(hv, Take(x.v, Capacity(hv)))
    BY Zenon, <1>1, ReceivedIs
  <1>4. Cut(hv, Scaled(x)) = Text(Take(x.v, Capacity(hv)))
    BY <1>1 DEF Cut
  <1>5. ind' = 0 /\ held' = Cut(hv, Scaled(x))
    BY DEF Received
  <1> QED
    BY Zenon, <1>2, <1>3, <1>4, <1>5

\* A step that reads a value.
LEMMA ReadingStep ==
    ASSUME Next, Reading
    PROVE  \E x \in Columns, driver \in Drivers, residue \in Residues :
              /\ Fitting(x) /\ x # Null
              /\ lastOp'.x = x /\ lastOp'.driver = driver /\ lastOp'.residue = residue
              /\ Received(x, driver, residue)
  <1>1. CASE \E x \in Columns \ {Null} : Move(x) \/ TooLong(x)
    BY <1>1 DEF Reading, Move, TooLong, Did
  <1>2. CASE MoveNull \/ Store
    BY <1>2 DEF Reading, MoveNull, Store, Did
  <1>3. CASE \E x \in Columns, driver \in Drivers, residue \in Residues :
                SelectInto(x, driver, residue) \/ Fetch(x, driver, residue)
    <2>1. PICK x \in Columns, driver \in Drivers, residue \in Residues :
              SelectInto(x, driver, residue) \/ Fetch(x, driver, residue)
      BY <1>3
    <2>2. /\ Fitting(x)
          /\ Did("select", x, driver, residue) \/ Did("fetch", x, driver, residue)
      BY Zenon, <2>1 DEF SelectInto, Fetch
    <2>3. lastOp'.x = x /\ lastOp'.driver = driver /\ lastOp'.residue = residue
      BY <2>2 DEF Did
    <2>4. x # Null
      BY <2>3 DEF Reading
    <2>5. Received(x, driver, residue)
      BY Zenon, <2>1, <2>4 DEF SelectInto, Fetch
    <2> QED
      BY Zenon, <2>2, <2>3, <2>4, <2>5
  <1> QED
    BY Zenon, <1>1, <1>2, <1>3 DEF Next

---------------------------------------------------------------------------
(* Trailing blanks.                                                        *)

LEMMA LeastNat ==
    ASSUME NEW T \in SUBSET Nat, T # {}
    PROVE  \E n \in T : \A m \in T : n <= m
  <1>1. PICK j \in T : \A i \in T : ~ (<<i, j>> \in OpToRel(<, Nat))
    BY NatLessThanWellFounded, WFMin
  <1>2. \A i \in T : ~ (i < j)
    <2> SUFFICES ASSUME NEW i \in T, i < j
                 PROVE  <<i, j>> \in OpToRel(<, Nat)
      BY <1>1
    <2>1. i \in Nat /\ j \in Nat
      OBVIOUS
    <2> QED
      BY <2>1 DEF OpToRel
  <1>3. \A i \in T : i \in Nat /\ j \in Nat
    OBVIOUS
  <1> QED
    BY <1>2, <1>3

\* Nothing but blanks comes after the first n characters, and no blank is the last of them.
Core(s, n) ==
    /\ n \in 0..Len(s)
    /\ n = 0 \/ s[n] # Blank
    /\ \A i \in (n + 1)..Len(s) : s[i] = Blank

LEMMA CoreExists ==
    ASSUME NEW s \in Seq(Byte)
    PROVE  \E n \in Nat : Core(s, n)
  <1>1. PICK T : T = {n \in 0..Len(s) : \A i \in (n + 1)..Len(s) : s[i] = Blank}
    OBVIOUS
  <1>2. T \in SUBSET Nat
    BY <1>1
  <1>3. Len(s) \in T
    <2>1. \A i \in (Len(s) + 1)..Len(s) : s[i] = Blank
      OBVIOUS
    <2> QED
      BY <1>1, <2>1
  <1>4. PICK n \in T : \A m \in T : n <= m
    BY <1>2, <1>3, LeastNat
  <1>5. /\ n \in 0..Len(s) /\ \A i \in (n + 1)..Len(s) : s[i] = Blank
    BY <1>1, <1>4
  <1>6. ASSUME n # 0, s[n] = Blank
        PROVE  FALSE
    <2>1. n - 1 \in 0..Len(s)
      BY <1>5, <1>6
    <2>2. \A i \in ((n - 1) + 1)..Len(s) : s[i] = Blank
      BY <1>5, <1>6
    <2>3. n - 1 \in T
      BY <1>1, <2>1, <2>2
    <2> QED
      BY <1>4, <1>5, <2>3
  <1> QED
    BY <1>5, <1>6 DEF Core

LEMMA CoreUnique ==
    ASSUME NEW s \in Seq(Byte), NEW m, NEW n, Core(s, m), Core(s, n)
    PROVE  m = n
  <1>1. m \in 0..Len(s) /\ n \in 0..Len(s) /\ Len(s) \in Nat
    BY DEF Core
  <1>2. ~(m < n)
    BY <1>1 DEF Core
  <1>3. ~(n < m)
    BY <1>1 DEF Core
  <1> QED
    BY <1>1, <1>2, <1>3

LEMMA RTrimIs ==
    ASSUME NEW s \in Seq(Byte), NEW n, Core(s, n)
    PROVE  RTrim(s) = SubSeq(s, 1, n)
  <1>1. PICK k : k = CHOOSE j \in 0..Len(s) :
                /\ j = 0 \/ s[j] # Blank
                /\ \A i \in (j + 1)..Len(s) : s[i] = Blank
    OBVIOUS
  <1>2. /\ k \in 0..Len(s)
        /\ k = 0 \/ s[k] # Blank
        /\ \A i \in (k + 1)..Len(s) : s[i] = Blank
    BY Zenon, <1>1 DEF Core
  <1>3. k = n
    BY <1>2, CoreUnique DEF Core
  <1> QED
    BY Zenon, <1>1, <1>3 DEF RTrim

LEMMA SameCore ==
    ASSUME NEW s \in Seq(Byte), NEW t \in Seq(Byte), NEW n, Core(s, n), Core(t, n),
           \A i \in 1..n : s[i] = t[i]
    PROVE  RTrim(s) = RTrim(t)
  <1>1. RTrim(s) = SubSeq(s, 1, n) /\ RTrim(t) = SubSeq(t, 1, n)
    BY RTrimIs
  <1>2. n \in 0..Len(s) /\ n \in 0..Len(t)
    BY DEF Core
  <1>3. SubSeq(s, 1, n) = SubSeq(t, 1, n)
    BY <1>2
  <1> QED
    BY <1>1, <1>3

\* The blanks behind a text are not part of its core.
LEMMA PaddedCore ==
    ASSUME NEW t \in Seq(Byte), NEW n \in Nat, Len(t) <= n, NEW k, Core(t, k)
    PROVE  Core(Padded(t, n), k)
  <1>1. PICK p : p = Padded(t, n)
    OBVIOUS
  <1>2. /\ p \in Seq(Byte) /\ Len(p) = n
        /\ \A i \in 1..n : p[i] = IF i <= Len(t) THEN t[i] ELSE Blank
    BY <1>1, PaddedIs
  <1>3. /\ k \in 0..Len(t) /\ (k = 0 \/ t[k] # Blank)
        /\ \A i \in (k + 1)..Len(t) : t[i] = Blank
    BY DEF Core
  <1>4. k \in 0..n /\ (k = 0 \/ p[k] # Blank)
    BY <1>2, <1>3
  <1>5. \A i \in (k + 1)..n : p[i] = Blank
    BY <1>2, <1>3
  <1>6. Core(p, k)
    BY <1>2, <1>4, <1>5 DEF Core
  <1> QED
    BY Zenon, <1>1, <1>6

\* The length get_trimmed_length finds in a padded text.
LEMMA TrimmedIs ==
    ASSUME NEW t \in Seq(Byte), NEW n \in Nat, n > 0, Len(t) <= n, ~TrimGap(t),
           NEW k \in Nat, Core(t, k)
    PROVE  get_trimmed_length(Padded(t, n)) = IF k = 0 THEN 1 ELSE k
  <1>1. PICK p : p = Padded(t, n)
    OBVIOUS
  <1>2. /\ p \in Seq(Byte) /\ Len(p) = n
        /\ \A i \in 1..n : p[i] = IF i <= Len(t) THEN t[i] ELSE Blank
    BY <1>1, PaddedIs
  <1>3. /\ k \in 0..n
        /\ \A i \in (k + 1)..n : p[i] = Blank
    <2>1. Core(Padded(t, n), k)
      BY PaddedCore
    <2>2. Core(p, k)
      BY Zenon, <1>1, <2>1
    <2> QED
      BY <1>2, <2>2 DEF Core
  <1>4. p[1] # NUL
    <2>1. t # <<>> => Head(t) # NUL
      BY DEF TrimGap
    <2>2. CASE t = <<>>
      BY <1>2, <2>2 DEF NUL, Blank
    <2>3. CASE t # <<>>
      <3>1. Head(t) = t[1] /\ Len(t) >= 1
        BY <2>3
      <3> QED
        BY <1>2, <2>1, <2>3, <3>1
    <2> QED
      BY <2>2, <2>3
  <1>5. k > 1 => ~isspace(p[k])
    <2> SUFFICES ASSUME k > 1
                 PROVE  ~isspace(p[k])
      OBVIOUS
    <2>1. PICK r : r = SubSeq(t, 1, k)
      OBVIOUS
    <2>2. RTrim(t) = r
      BY Zenon, <2>1, RTrimIs
    <2>3. k <= Len(t)
      BY DEF Core
    <2>4. r \in Seq(Byte) /\ Len(r) = k /\ r[k] = t[k]
      BY <2>1, <2>3
    <2>5. ~isspace(Last(r))
      BY <2>2, <2>4 DEF TrimGap
    <2>6. Last(r) = t[k] /\ p[k] = t[k]
      BY <1>2, <1>3, <2>3, <2>4 DEF Last
    <2> QED
      BY <2>5, <2>6
  <1>6. isspace(Blank)
    BY DEF isspace, Blank
  <1>7. PICK l \in 1..n : l = IF k = 0 THEN 1 ELSE k
    BY <1>3
  <1>8. /\ l = 1 \/ ~isspace(p[l])
        /\ \A i \in (l + 1)..n : isspace(p[i])
    BY <1>3, <1>5, <1>6, <1>7
  <1>9. PICK c : c = CHOOSE j \in 1..Len(p) :
            /\ j = 1 \/ ~isspace(p[j])
            /\ \A i \in (j + 1)..Len(p) : isspace(p[i])
    OBVIOUS
  <1>10. /\ c \in 1..n /\ (c = 1 \/ ~isspace(p[c]))
         /\ \A i \in (c + 1)..n : isspace(p[i])
    BY Zenon, <1>2, <1>7, <1>8, <1>9
  <1>11. c = l
    BY <1>7, <1>8, <1>10
  <1>12. get_trimmed_length(p) = c
    BY Zenon, <1>4, <1>9 DEF get_trimmed_length
  <1> QED
    BY Zenon, <1>1, <1>7, <1>11, <1>12

---------------------------------------------------------------------------
(* Writing.                                                                *)

\* The field holds the text t.
Holds(t) ==
    /\ t \in Seq(Byte) /\ Len(t) <= Capacity(hv)
    /\ held = Text(t)
    /\ \A i \in 1..hv.length : mem[i] = Field(hv, t)[i]

\* The storage agrees with what the field stands for.
TextInv ==
    /\ hv \in HostVars
    /\ mem \in Seq(Byte) /\ Len(mem) >= hv.length
    /\ held = Null <=> ind = -1
    /\ held \in {Null, Unknown} \/ \E t : Holds(t)

LEMMA KindsDiffer ==
    /\ Null # Unknown /\ \A t : Text(t) # Null /\ Text(t) # Unknown
    /\ \A t, u : Text(t) = Text(u) => t = u
    /\ \A t : Text(t).kind = "text" /\ Text(t).v = t
  BY DEF Null, Unknown, Text

\* Writing a text over the storage makes the field hold it.
LEMMA PutHolds ==
    ASSUME TextOnly, hv \in HostVars, mem \in Seq(Byte), Len(mem) >= hv.length,
           NEW t \in Seq(Byte), Len(t) <= Capacity(hv),
           mem' = Put(mem, 0, Field(hv, t)), held' = Text(t), hv' = hv
    PROVE  Holds(t)' /\ mem' \in Seq(Byte) /\ Len(mem') = Len(mem)
  <1>1. PICK f : f = Field(hv, t)
    OBVIOUS
  <1>2. f \in Seq(Byte) /\ Len(f) = hv.length
    BY <1>1, FieldIs
  <1>3. PICK p : p = Put(mem, 0, f)
    OBVIOUS
  <1>4. /\ p \in Seq(Byte) /\ Len(p) = Len(mem)
        /\ \A i \in 1..Len(mem) : p[i] = IF i <= Len(f) THEN f[i] ELSE mem[i]
    BY <1>2, <1>3, PutIs
  <1>5. mem' = p
    BY Zenon, <1>1, <1>3
  <1>6. \A i \in 1..hv.length : p[i] = f[i]
    BY <1>2, <1>4, HostVarIs
  <1>7. /\ Capacity(hv)' = Capacity(hv)
        /\ Field(hv, t)' = f
    BY Zenon, <1>1 DEF Field, Capacity
  <1>8. \A i \in 1..(hv.length)' : (mem[i])' = (Field(hv, t)')[i]
    BY Zenon, <1>5, <1>6, <1>7
  <1> QED
    BY <1>4, <1>5, <1>7, <1>8 DEF Holds

LEMMA InitText == TextOnly /\ Init => TextInv
  <1> SUFFICES ASSUME TextOnly, Init
               PROVE  TextInv
    OBVIOUS
  <1>1. hv \in HostVars /\ next \in Followers /\ ind = 0
    BY DEF Init
  <1>2. next \in Seq(Byte)
    BY <1>1, ColumnsAssumption
  <1>3. held = Text(<<>>)
    BY <1>1, HostVarIs DEF Init, Textual
  <1>4. PICK t : t = <<>>
    OBVIOUS
  <1>5. t \in Seq(Byte) /\ Len(t) = 0
    BY <1>4
  <1>6. PICK f : f = Field(hv, t)
    OBVIOUS
  <1>7. Len(t) <= Capacity(hv)
    BY <1>1, <1>5, HostVarIs
  <1>8. f \in Seq(Byte) /\ Len(f) = hv.length
    BY <1>1, <1>5, <1>6, <1>7, FieldIs
  <1>9. CobolField(hv, Text(t)) = f
    BY <1>1, <1>6, HostVarIs, CobolFieldIs
  <1>10. mem = f \o next
    BY Zenon, <1>3, <1>4, <1>9 DEF Init
  <1>11. /\ mem \in Seq(Byte) /\ Len(mem) >= hv.length
         /\ \A i \in 1..hv.length : mem[i] = f[i]
    BY <1>1, <1>2, <1>8, <1>10, HostVarIs
  <1>12. Holds(t)
    BY Zenon, <1>3, <1>4, <1>5, <1>6, <1>7, <1>11 DEF Holds
  <1>13. held # Null /\ ind # -1
    BY <1>1, <1>3, KindsDiffer
  <1> QED
    BY Zenon, <1>1, <1>11, <1>12, <1>13 DEF TextInv

LEMMA MoveText ==
    ASSUME TextOnly, TextInv, NEW x \in Columns \ {Null}, Move(x)
    PROVE  TextInv'
  <1>1. hv \in HostVars /\ hv' = hv /\ mem \in Seq(Byte) /\ Len(mem) >= hv.length /\ ind' = 0
    BY DEF TextInv, Move
  <1>2. hv.type \in Textual
    BY <1>1, HostVarIs DEF Textual
  <1>3. x.kind = "text"
    <2> SUFFICES ASSUME x.kind # "text"
                 PROVE  FALSE
      OBVIOUS
    <2>1. x.kind = "num"
      BY ColumnsAssumption, KindsDiffer DEF Columns
    <2>2. Scaled(x).kind = "num"
      BY <2>1 DEF Scaled, Num
    <2> QED
      BY <1>2, <2>2 DEF Move, Fits
  <1>4. Matches(hv, x)
    BY <1>2, <1>3 DEF Matches
  <1>5. x = Text(x.v) /\ x.v \in Seq(Byte) /\ Scaled(x) = x
    BY <1>1, <1>4, ColumnIs
  <1>6. PICK t : t = x.v
    OBVIOUS
  <1>7. Len(t) <= Capacity(hv)
    BY <1>3, <1>5, <1>6 DEF Move, Fits
  <1>8. held' = Text(t) /\ mem' = Put(mem, 0, CobolField(hv, Text(t)))
    BY Zenon, <1>5, <1>6 DEF Move
  <1>9. CobolField(hv, Text(t)) = Field(hv, t)
    BY <1>1, HostVarIs, CobolFieldIs
  <1>10. mem' = Put(mem, 0, Field(hv, t))
    BY Zenon, <1>8, <1>9
  <1>11. Holds(t)' /\ mem' \in Seq(Byte) /\ Len(mem') = Len(mem)
    BY <1>1, <1>5, <1>6, <1>7, <1>8, <1>10, PutHolds
  <1>12. held' # Null /\ ind' # -1
    BY <1>1, <1>8, KindsDiffer
  <1> QED
    BY Zenon, <1>1, <1>11, <1>12 DEF TextInv

LEMMA ReceivedText ==
    ASSUME TextOnly, TextInv, NEW x \in Columns, Matches(hv, x), hv' = hv,
           NEW driver, NEW residue, Received(x, driver, residue)
    PROVE  TextInv'
  <1>1. hv \in HostVars /\ mem \in Seq(Byte) /\ Len(mem) >= hv.length
    BY DEF TextInv
  <1>2. ind' = 0
    BY DEF Received
  <1>3. CASE x = Null \/ ReadGap(hv, x, driver, residue)
    <2>1. held' = Unknown
      BY <1>3 DEF Received
    <2>2. Column(x) \in Seq(Byte)
      <3>1. CASE x = Null
        BY <3>1 DEF Column, Null
      <3>2. CASE x # Null
        BY <1>1, <3>2, ColumnIs
      <3> QED
        BY <3>1, <3>2
    <2>3. PICK f \in Seq(Byte) : mem' = Put(mem, 0, f)
      BY Zenon, <1>1, <2>2, ReceivedIs
    <2>4. mem' \in Seq(Byte) /\ Len(mem') = Len(mem)
      BY <1>1, <2>3, PutIs
    <2>5. held' # Null /\ ind' # -1
      BY <1>2, <2>1, KindsDiffer
    <2> QED
      BY Zenon, <1>1, <2>1, <2>4, <2>5 DEF TextInv
  <1>4. CASE x # Null /\ ~ReadGap(hv, x, driver, residue)
    <2>1. PICK t : t = Take(x.v, Capacity(hv))
      OBVIOUS
    <2>2. mem' = Put(mem, 0, Field(hv, t)) /\ held' = Text(t)
      BY Zenon, <1>1, <1>4, <2>1, ReadText
    <2>3. t \in Seq(Byte) /\ Len(t) <= Capacity(hv)
      BY <1>1, <1>4, <2>1, ColumnIs, HostVarIs, TakeIs
    <2>4. Holds(t)' /\ mem' \in Seq(Byte) /\ Len(mem') = Len(mem)
      BY <1>1, <2>2, <2>3, PutHolds
    <2>5. held' # Null /\ ind' # -1
      BY <1>2, <2>2, KindsDiffer
    <2> QED
      BY Zenon, <1>1, <2>4, <2>5 DEF TextInv
  <1> QED
    BY <1>3, <1>4

\* Neither the storage nor what it stands for changes.
LEMMA SameText ==
    ASSUME TextInv, hv' = hv, mem' = mem, ind' = ind, held' = held
    PROVE  TextInv'
  <1>1. ASSUME NEW t, Holds(t)
        PROVE  Holds(t)'
    BY Zenon, <1>1 DEF Holds, Field, Capacity
  <1> QED
    BY Zenon, <1>1 DEF TextInv

\* NULL is held by the indicator alone.
LEMMA NullText ==
    ASSUME TextInv, hv' = hv, mem' = mem, ind' = -1, held' = Null
    PROVE  TextInv'
  BY Zenon DEF TextInv

LEMMA NextText == TextOnly /\ TextInv /\ [Next]_vars => TextInv'
  <1> SUFFICES ASSUME TextOnly, TextInv, [Next]_vars
               PROVE  TextInv'
    OBVIOUS
  <1>1. ASSUME NEW x \in Columns \ {Null}, Move(x)
        PROVE  TextInv'
    BY <1>1, MoveText
  <1>2. ASSUME NEW x \in Columns \ {Null}, TooLong(x)
        PROVE  TextInv'
    BY Zenon, <1>2, SameText DEF TooLong
  <1>3. CASE MoveNull
    BY Zenon, <1>3, NullText DEF MoveNull
  <1>4. CASE Store
    BY Zenon, <1>4, SameText DEF Store
  <1>5. ASSUME NEW x \in Columns, NEW driver, NEW residue, SelectInto(x, driver, residue)
        PROVE  TextInv'
    <2>1. CASE x = Null
      BY Zenon, <1>5, <2>1, NullText DEF SelectInto, ReceivedNull, NullFlag
    <2>2. CASE x # Null
      BY Zenon, <1>5, <2>2, ReceivedText DEF SelectInto, Fitting
    <2> QED
      BY <2>1, <2>2
  <1>6. ASSUME NEW x \in Columns, NEW driver, NEW residue, Fetch(x, driver, residue)
        PROVE  TextInv'
    BY Zenon, <1>6, ReceivedText DEF Fetch, Fitting
  <1>7. CASE UNCHANGED vars
    BY Zenon, <1>7, SameText DEF vars
  <1> QED
    BY Zenon, <1>1, <1>2, <1>3, <1>4, <1>5, <1>6, <1>7 DEF Next

(***************************************************************************)
(* As long as a text field is neither NULL nor the outcome of a read that  *)
(* is a gap, its storage is the one the compiler defines for the text it   *)
(* stands for, and the indicator says NULL just when the field is.         *)
(***************************************************************************)
THEOREM TextIsHeld == TextOnly => (Spec => []TextInv)
  <1> SUFFICES ASSUME TextOnly
               PROVE  Spec => []TextInv
    OBVIOUS
  <1>1. Init => TextInv
    BY InitText
  <1>2. TextInv /\ [Next]_vars => TextInv'
    BY NextText
  <1> QED
    BY <1>1, <1>2, PTL DEF Spec

(***************************************************************************)
(* A text read into a PIC X or VARYING field of any length, after any      *)
(* content of the field, arrives as the COBOL compiler stores it, cut to   *)
(* the field, and no byte behind the field changes, however long the text  *)
(* is (createCobolData).                                                   *)
(***************************************************************************)
THEOREM TextReadsAreFaithful == TextOnly => (Spec => ReadsAreFaithful)
  <1> SUFFICES ASSUME TextOnly
               PROVE  Spec => ReadsAreFaithful
    OBVIOUS
  <1>1. ASSUME TextInv, Next, Reading, ~InGap
        PROVE  /\ alive'
               /\ \A i \in DOMAIN mem : i > FieldSize(hv) => mem'[i] = mem[i]
               /\ mem' = Put(mem, 0, Stored(hv, Scaled(lastOp'.x)))
               /\ code' = IF Overflows(hv, lastOp'.x) THEN DBERR_NUM_OUT_OF_RANGE ELSE 0
    <2> hv \in HostVars /\ mem \in Seq(Byte)
      BY <1>1 DEF TextInv
    <2>1. PICK x \in Columns, driver \in Drivers, residue \in Residues :
              /\ Fitting(x) /\ x # Null
              /\ lastOp'.x = x /\ lastOp'.driver = driver /\ lastOp'.residue = residue
              /\ Received(x, driver, residue)
      BY Zenon, <1>1, ReadingStep
    <2>2. Matches(hv, x) /\ ~ReadGap(hv, x, driver, residue)
      BY Zenon, <1>1, <2>1 DEF Fitting, InGap
    <2>3. PICK t : t = Take(x.v, Capacity(hv))
      OBVIOUS
    <2>4. /\ mem' = Put(mem, 0, Field(hv, t)) /\ code' = 0 /\ alive' = TRUE
          /\ Cut(hv, Scaled(x)) = Text(t)
      BY Zenon, <1>1, <2>1, <2>2, <2>3, ReadText
    <2>5. CobolField(hv, Text(t)) = Field(hv, t)
      BY <1>1, HostVarIs, CobolFieldIs
    <2>6. x.kind = "text" /\ x.v \in Seq(Byte) /\ Scaled(x) = x
      BY <1>1, <2>1, <2>2, ColumnIs
    <2>7. ~Overflows(hv, x)
      BY <2>6 DEF Overflows
    <2>8. mem' = Put(mem, 0, Stored(hv, Scaled(x)))
      BY Zenon, <2>4, <2>5, <2>6 DEF Stored
    <2>9. \A i \in DOMAIN mem : i > FieldSize(hv) => mem'[i] = mem[i]
      <3>1. t \in Seq(Byte) /\ Len(t) <= Capacity(hv)
        <4>1. Capacity(hv) \in Nat
          BY <1>1, HostVarIs
        <4> QED
          BY <2>3, <2>6, <4>1, TakeIs
      <3>2. PICK f : f = Field(hv, t)
        OBVIOUS
      <3>3. f \in Seq(Byte) /\ Len(f) = hv.length
        BY <1>1, <3>1, <3>2, FieldIs
      <3>4. FieldSize(hv) = hv.length
        BY <1>1, HostVarIs DEF FieldSize, Packed, Binary
      <3>5. mem' = Put(mem, 0, f) /\ hv.length \in Nat
        BY Zenon, <2>4, <3>2, HostVarIs
      <3> QED
        BY <3>3, <3>4, <3>5, PutIs
    <2> QED
      BY Zenon, <2>1, <2>4, <2>7, <2>8, <2>9
  <1>2. TextInv /\ [Next]_vars =>
            [Reading /\ ~InGap =>
               /\ alive'
               /\ \A i \in DOMAIN mem : i > FieldSize(hv) => mem'[i] = mem[i]
               /\ mem' = Put(mem, 0, Stored(hv, Scaled(lastOp'.x)))
               /\ code' = IF Overflows(hv, lastOp'.x) THEN DBERR_NUM_OUT_OF_RANGE ELSE 0]_vars
    BY Zenon, <1>1
  <1>3. Spec => []TextInv
    BY TextIsHeld
  <1> QED
    BY <1>2, <1>3, PTL DEF Spec, ReadsAreFaithful

LEMMA FitsVarlenDown ==
    ASSUME NEW n \in Nat, FitsVarlen(n), NEW k \in Nat, k <= n
    PROVE  FitsVarlen(k)
  <1>1. PICK n2 \in Nat, k2 \in Nat : n2 = n \div 256 /\ k2 = k \div 256 /\ k2 <= n2
    OBVIOUS
  <1>2. PICK n3 \in Nat, k3 \in Nat : n3 = n2 \div 256 /\ k3 = k2 \div 256 /\ k3 <= n3
    BY <1>1
  <1>3. PICK n4 \in Nat, k4 \in Nat : n4 = n3 \div 256 /\ k4 = k3 \div 256 /\ k4 <= n4
    BY <1>2
  <1>4. /\ FitsVarlen(n) <=> IF VarlenSize = 2 THEN n2 < 256 ELSE n4 < 128
        /\ FitsVarlen(k) <=> IF VarlenSize = 2 THEN k2 < 256 ELSE k4 < 128
    <2>1. /\ n \div 256 = n2 /\ (n \div 256) \div 256 = n3
          /\ ((n \div 256) \div 256) \div 256 = n4
      BY <1>1, <1>2, <1>3
    <2>2. /\ k \div 256 = k2 /\ (k \div 256) \div 256 = k3
          /\ ((k \div 256) \div 256) \div 256 = k4
      BY <1>1, <1>2, <1>3
    <2> QED
      BY <2>1, <2>2 DEF FitsVarlen
  <1> QED
    BY <1>1, <1>3, <1>4

\* The text of a VARYING field is the one it holds.
LEMMA VaryingTextIs ==
    ASSUME TextOnly, TextInv, hv.type = "VARYING", NEW t, Holds(t)
    PROVE  VaryingText = t
  <1>1. /\ hv \in HostVars /\ mem \in Seq(Byte) /\ Len(mem) >= hv.length
        /\ t \in Seq(Byte) /\ Len(t) <= Capacity(hv)
    BY DEF TextInv, Holds
  <1>2. /\ Capacity(hv) \in Nat /\ hv.length = VarlenSize + Capacity(hv)
        /\ FitsVarlen(Capacity(hv))
    BY <1>1, HostVarIs
  <1>3. PICK l, p : l = VarlenOf(Len(t)) /\ p = Padded(t, Capacity(hv))
    OBVIOUS
  <1>4. l \in Seq(Byte) /\ Len(l) = VarlenSize
    BY <1>1, <1>3, VarlenIs
  <1>5. /\ p \in Seq(Byte) /\ Len(p) = Capacity(hv)
        /\ \A i \in 1..Capacity(hv) : p[i] = IF i <= Len(t) THEN t[i] ELSE Blank
    BY <1>1, <1>2, <1>3, PaddedIs
  <1>6. PICK f : f = l \o p
    OBVIOUS
  <1>7. \A i \in 1..hv.length : mem[i] = f[i]
    BY Zenon, <1>3, <1>6 DEF Holds, Field
  <1>8. /\ \A i \in 1..VarlenSize : mem[i] = l[i]
        /\ \A i \in 1..Len(t) : mem[VarlenSize + i] = t[i]
    <2>1. VarlenSize \in Nat
      BY VarlenAssumption
    <2>2. Len(f) = hv.length /\ \A i \in 1..hv.length :
              f[i] = IF i <= VarlenSize THEN l[i] ELSE p[i - VarlenSize]
      <3>1. PICK a \in Nat, b \in Nat : a = VarlenSize /\ b = Capacity(hv)
        BY <1>2, <2>1
      <3>2. /\ l \in Seq(Byte) /\ Len(l) = a /\ p \in Seq(Byte) /\ Len(p) = b
        BY <1>4, <1>5, <3>1
      <3>3. Len(f) = a + b /\ \A i \in 1..(a + b) : f[i] = IF i <= a THEN l[i] ELSE p[i - a]
        BY ONLY <1>6, <3>2, a \in Nat, b \in Nat
      <3> QED
        BY Zenon, <1>2, <3>1, <3>3
    <2>3. \A i \in 1..VarlenSize : mem[i] = l[i]
      BY <1>2, <1>7, <2>1, <2>2
    <2>4. ASSUME NEW i \in 1..Len(t)
          PROVE  mem[VarlenSize + i] = t[i]
      <3>1. PICK j \in 1..hv.length : j = VarlenSize + i /\ j > VarlenSize /\ j - VarlenSize = i
        BY <1>1, <1>2, <2>1
      <3>2. mem[j] = p[i]
        BY <1>7, <2>1, <2>2, <3>1
      <3>3. p[i] = t[i]
        BY <1>1, <1>2, <1>5
      <3> QED
        BY Zenon, <3>1, <3>2, <3>3
    <2> QED
      BY <2>3, <2>4
  <1>9. VarlenAt(mem) = Len(t)
    <2>1. FitsVarlen(Len(t))
      BY <1>1, <1>2, FitsVarlenDown
    <2>2. \A i \in 1..VarlenSize : mem[i] = VarlenOf(Len(t))[i]
      BY Zenon, <1>3, <1>8
    <2> QED
      BY <1>1, <2>1, <2>2, VarlenBack
  <1>10. PICK e : e = VarlenSize + Len(t)
    OBVIOUS
  <1>11. VaryingText = SubSeq(mem, VarlenSize + 1, e)
    <2>1. ~(e > Len(mem))
      BY <1>1, <1>2, <1>10, VarlenAssumption
    <2> QED
      BY Zenon, <1>9, <1>10, <2>1 DEF VaryingText
  <1>12. SubSeq(mem, VarlenSize + 1, e) = t
    BY <1>1, <1>2, <1>8, <1>10, VarlenAssumption
  <1> QED
    BY Zenon, <1>11, <1>12

\* The text of a PIC X field is the one it holds, but for trailing blanks.
LEMMA AlnumTextIs ==
    ASSUME TextOnly, TextInv, hv.type = "ALPHANUMERIC", NEW t, Holds(t),
           hv.autotrim => ~TrimGap(t)
    PROVE  /\ RTrim(AlnumText(hv)) = RTrim(t)
           /\ hv.autotrim /\ Len(AlnumText(hv)) > 1 => AlnumText(hv) = RTrim(AlnumText(hv))
  <1>1. /\ hv \in HostVars /\ mem \in Seq(Byte) /\ Len(mem) >= hv.length
        /\ t \in Seq(Byte) /\ Len(t) <= Capacity(hv)
    BY DEF TextInv, Holds
  <1>2. PICK n \in Nat : n = hv.length /\ n > 0 /\ n = Capacity(hv)
    BY <1>1, HostVarIs
  <1>3. PICK p : p = Padded(t, n)
    OBVIOUS
  <1>4. p \in Seq(Byte) /\ Len(p) = n
    BY <1>1, <1>2, <1>3, PaddedIs
  <1>5. \A i \in 1..n : mem[i] = p[i]
    <2>1. hv.type # "VARYING"
      OBVIOUS
    <2> QED
      BY Zenon, <1>2, <1>3, <2>1 DEF Holds, Field
  <1>6. SubSeq(mem, 1, n) = p
    BY <1>1, <1>2, <1>4, <1>5
  <1>7. PICK k \in Nat : Core(t, k)
    BY <1>1, CoreExists
  <1>8. Core(p, k)
    BY Zenon, <1>1, <1>2, <1>3, <1>7, PaddedCore
  <1>9. \A i \in 1..k : p[i] = t[i]
    <2>1. k <= Len(t)
      BY <1>7 DEF Core
    <2> QED
      BY <1>1, <1>2, <1>3, <2>1, PaddedIs
  <1>10. CASE ~hv.autotrim
    <2>1. AlnumText(hv) = p
      BY Zenon, <1>2, <1>6, <1>10 DEF AlnumText
    <2>2. RTrim(p) = RTrim(t)
      BY <1>1, <1>4, <1>7, <1>8, <1>9, SameCore
    <2> QED
      BY Zenon, <1>10, <2>1, <2>2
  <1>11. CASE hv.autotrim
    <2>1. PICK l : l = IF k = 0 THEN 1 ELSE k
      OBVIOUS
    <2>2. get_trimmed_length(p) = l
      BY Zenon, <1>1, <1>2, <1>3, <1>7, <1>11, <2>1, TrimmedIs
    <2>3. PICK c : c = SubSeq(p, 1, l)
      OBVIOUS
    <2>4. AlnumText(hv) = c
      BY Zenon, <1>2, <1>6, <1>11, <2>2, <2>3 DEF AlnumText
    <2>5. l \in 1..n
      BY <1>2, <1>4, <1>8, <2>1 DEF Core
    <2>6. c \in Seq(Byte) /\ Len(c) = l /\ \A i \in 1..l : c[i] = p[i]
      BY <1>4, <2>3, <2>5
    <2>7. Core(c, k)
      <3>1. k \in 0..l /\ l \in 1..n /\ Len(p) = n
        BY <1>4, <2>1, <2>5
      <3>2. k = 0 \/ c[k] # Blank
        BY <1>8, <2>6, <3>1 DEF Core
      <3>3. \A i \in (k + 1)..l : c[i] = Blank
        BY <1>8, <2>6, <3>1 DEF Core
      <3> QED
        BY <2>6, <3>1, <3>2, <3>3 DEF Core
    <2>8. \A i \in 1..k : c[i] = t[i]
      BY <1>9, <2>1, <2>6
    <2>9. RTrim(c) = RTrim(t)
      BY <1>1, <1>7, <2>6, <2>7, <2>8, SameCore
    <2>10. ASSUME Len(c) > 1
           PROVE  c = RTrim(c)
      <3>1. l = k
        BY <2>1, <2>6, <2>10
      <3>2. RTrim(c) = SubSeq(c, 1, k)
        BY <2>6, <2>7, RTrimIs
      <3> QED
        BY <2>6, <3>1, <3>2
    <2> QED
      BY Zenon, <2>4, <2>9, <2>10
  <1> QED
    BY <1>10, <1>11

(***************************************************************************)
(* What a PIC X or VARYING field of any length sends is the text the       *)
(* program moved to it or an earlier read left there, NULL included; a PIC *)
(* X field differs in trailing blanks only (createRealData).               *)
(***************************************************************************)
THEOREM TextWritesAreFaithful == TextOnly => (Spec => WritesAreFaithful)
  <1> SUFFICES ASSUME TextOnly
               PROVE  Spec => WritesAreFaithful
    OBVIOUS
  <1> DEFINE Faithful ==
          /\ column'.kind = held.kind
          /\ IF hv.type = "ALPHANUMERIC" /\ held # Null
             THEN /\ RTrim(column'.v) = RTrim(held.v)
                  /\ hv.autotrim /\ Len(column'.v) > 1 => column'.v = RTrim(column'.v)
             ELSE column' = held
  <1>1. ASSUME TextInv, Store, held # Unknown, held = Null \/ ~WriteGap(hv)
        PROVE  Faithful
    <2>1. column' = createRealData(hv) /\ hv \in HostVars
      BY <1>1 DEF Store, TextInv
    <2>2. CASE held = Null
      <3>1. ind = -1
        BY <1>1, <2>2 DEF TextInv
      <3>2. createRealData(hv) = Null
        BY <3>1 DEF createRealData
      <3> QED
        BY Zenon, <2>1, <2>2, <3>2
    <2>3. CASE held # Null
      <3>1. PICK t : Holds(t)
        BY Zenon, <1>1, <2>3 DEF TextInv
      <3>2. held = Text(t) /\ held.v = t /\ held.kind = "text"
        BY <3>1, KindsDiffer DEF Holds
      <3>3. ind # -1
        BY <1>1, <2>3 DEF TextInv
      <3>4. CASE hv.type = "VARYING"
        <4>1. createRealData(hv) = Text(VaryingText)
          BY <3>3, <3>4 DEF createRealData, Packed, Binary
        <4>2. VaryingText = t
          BY <1>1, <3>1, <3>4, VaryingTextIs
        <4>3. column' = held /\ hv.type # "ALPHANUMERIC"
          BY <2>1, <3>2, <3>4, <4>1, <4>2
        <4> QED
          BY Zenon, <4>3
      <3>5. CASE hv.type = "ALPHANUMERIC"
        <4>1. createRealData(hv) = Text(AlnumText(hv))
          BY <3>3, <3>5 DEF createRealData, Packed, Binary
        <4>2. hv.autotrim => ~TrimGap(t)
          BY Zenon, <1>1, <2>3, <3>2, <3>5 DEF WriteGap
        <4>3. PICK c : c = AlnumText(hv)
          OBVIOUS
        <4>4. /\ RTrim(c) = RTrim(t)
              /\ hv.autotrim /\ Len(c) > 1 => c = RTrim(c)
          BY Zenon, <1>1, <3>1, <3>5, <4>2, <4>3, AlnumTextIs
        <4>5. column'.v = c /\ column'.kind = "text"
          BY <2>1, <4>1, <4>3, KindsDiffer
        <4> QED
          BY Zenon, <2>3, <3>2, <3>5, <4>4, <4>5
      <3> QED
        BY <2>1, <3>4, <3>5, HostVarIs
    <2> QED
      BY <2>2, <2>3
  <1>2. ASSUME Next, lastOp'.op = "store"
        PROVE  Store
    BY <1>2 DEF Next, Move, TooLong, MoveNull, SelectInto, Fetch, Did
  <1>3. TextInv /\ [Next]_vars =>
            [lastOp'.op = "store" /\ held # Unknown /\ (held = Null \/ ~WriteGap(hv))
                => Faithful]_vars
    BY Zenon, <1>1, <1>2
  <1>4. Spec => []TextInv
    BY TextIsHeld
  <1> QED
    BY <1>3, <1>4, PTL DEF Spec, WritesAreFaithful

=============================================================================
