----------------------- MODULE GeneratedProgramProofs -----------------------
(***************************************************************************)
(* Proofs about GeneratedProgram: for every program the preprocessor can   *)
(* write, the flags of its cursors agree with the runtime, no statement    *)
(* meets the host variables of another, and SQLCODE tells what became of   *)
(* an OPEN, a DECLARE and a refused parameter.                             *)
(*                                                                         *)
(* What is left of a statement is a sequence of lines.  Shape says how     *)
(* these sequences are built, ProgInv what the state is when a given line  *)
(* comes next.                                                             *)
(***************************************************************************)
EXTENDS GeneratedProgram, GixSqlRuntimeProofs, SequenceTheorems

---------------------------------------------------------------------------
(* The lines of a statement.                                               *)

Sets == {"SetResultParams", "SetSQLParams"}

\* The calls made between StartSQL and EndSQL.
BlockCalls == {"Exec", "ExecParams", "ExecSelectIntoOne", "CursorFetchOne",
               "ExecPrepared", "ExecPreparedInto", "CursorDeclareParams"}

InBlock == Sets \cup BlockCalls \cup {"EndSQL"}

\* The calls made on their own.
SingleCalls == {"Connect", "ConnectReset", "ConnectResetAll", "ExecImmediate",
                "PrepareStatement", "CursorOpen", "CursorClose", "CursorDeclare"}

Ops == CobolLines \cup InBlock \cup SingleCalls \cup {"StartSQL"}

\* The calls that compare the number of parameters with the list.
Counting == {"ExecParams", "ExecPrepared", "ExecPreparedInto", "CursorDeclareParams"}

Declares == {"CursorDeclare", "CursorDeclareParams"}

\* The statements that may perform the paragraph of a cursor.
DeclKinds == {"declare", "open"}

DeclLines == Declares \cup {"paragraph_end", "mark", "check", "check_reset", "CursorOpen"}

Lines == [op : Ops, s : Statement]

LineOK(l) ==
    /\ l \in Lines
    /\ l.s.kind \in DeclKinds \cup {"fetch", "close"} => l.s.crs \in CursorNames
    /\ l.op \in DeclLines => l.s.kind \in DeclKinds
    /\ l.op \in {"CursorOpen", "check"} => l.s.kind = "open"
    /\ l.op = "CursorFetchOne" => l.s.kind = "fetch"
    /\ l.op = "CursorClose" => l.s.kind = "close"
    /\ l.op = "ExecSelectIntoOne" => l.s.kind = "select"
    /\ l.op \in BlockCalls /\ l.s.np > 0 => l.op \in Counting \cup {"ExecSelectIntoOne"}
    /\ l.op \in BlockCalls /\ l.s.kind \in DeclKinds => l.op = "CursorDeclareParams"
    /\ l.op = "EndSQL" /\ l.s.kind \in DeclKinds => l.s.np > 0
    /\ l.op = "CursorDeclareParams" => l.s.np > 0 /\ l.s.np = Declaration[l.s.crs].np

\* The line that opens or goes on with a block, and the lines that need another after them.
GoesOn(l) == l.op \in {"StartSQL"} \cup Sets \cup BlockCalls

ParagraphEnds(l) == l.op = "CursorDeclare" \/ (l.op = "EndSQL" /\ l.s.kind \in DeclKinds)

Incomplete(l) ==
    GoesOn(l) \/ ParagraphEnds(l) \/ l.op \in {"paragraph_end", "ConnectResetAll"}

\* b comes right after a.
Follows(a, b) ==
    /\ b.op \in InBlock <=> GoesOn(a)
    /\ b.op \in InBlock => b.s = a.s
    /\ b.op = "EndSQL" <=> a.op \in BlockCalls
    /\ a.op = "SetSQLParams" /\ b.op = "SetResultParams" => a.s.kind = "execute"
    /\ a.op = "SetResultParams" /\ b.op = "SetSQLParams" => a.s.kind # "execute"
    /\ b.op = "paragraph_end" <=> ParagraphEnds(a)
    /\ b.op = "paragraph_end" => b.s = a.s
    /\ a.op = "paragraph_end" => b.op = "mark"
    /\ b.op = "whenever" => a.s = b.s /\ (a.op = "EndSQL" \/ a.op \in SingleCalls)
    /\ b.op = "whenever" => (b.s.kind = "open" <=> a.op = "CursorOpen")
    /\ a.op = "ConnectResetAll" => b.op = "whenever" /\ b.s.kind = "resetall"
    /\ b.op = "CursorOpen" => a.op \in {"mark", "check"}
    /\ b.op = "mark" => a.op \in {"paragraph_end", "EndSQL"}

\* b comes somewhere after a.
Together(a, b) ==
    /\ a.s.crs = b.s.crs
    /\ a.op \notin {"whenever", "check_reset"}
    /\ b.op \notin {"check", "check_reset"}
    /\ a.op \in {"check", "check_reset"} => b.op \in {"CursorOpen", "whenever"} /\ b.s = a.s
    /\ b.op \in Declares => a.op \in {"StartSQL", "SetSQLParams"}
    /\ b.op \in Sets => a.op \in {"StartSQL"} \cup Sets
    /\ b.s.kind = "dml" => a.s.kind = "dml"
    /\ b.op = "mark" /\ a.op \in InBlock => a.s.kind \in DeclKinds \cup {"dml"}
    /\ a.op = "SetSQLParams" =>
          /\ b.op \notin {"StartSQL", "CursorDeclare"}
          /\ b.op = "SetResultParams" => b.s = a.s /\ a.s.kind = "execute"
          /\ b.op \in SingleCalls => b.op = "CursorOpen" /\ a.s.kind = "open"
          /\ b.op = "whenever" => b.s = a.s \/ b.s.kind = "open"

\* No statement has more variables than it says.
Bounded(t) ==
    \A i, j \in 1..Len(t) : i <= j =>
        /\ (\A k \in i..j : t[k].op = "SetSQLParams") => j - i < t[i].s.np
        /\ (\A k \in i..j : t[k].op = "SetResultParams") => j - i < t[i].s.nr

Shape(t) ==
    /\ t \in Seq(Lines)
    /\ \A i \in 1..Len(t) : LineOK(t[i])
    /\ \A i \in 1..Len(t) : i < Len(t) => Follows(t[i], t[i + 1])
    /\ \A i, j \in 1..Len(t) : i < j => Together(t[i], t[j])
    /\ \A i \in 1..Len(t) : i = Len(t) => ~Incomplete(t[i])
    /\ Bounded(t)

---------------------------------------------------------------------------
(* The inductive invariant.                                                *)

First == todo[1]

\* The next k lines pass parameters, or take results.
NextParams(k) == \A i \in 1..k : todo[i].op = "SetSQLParams"
NextResults(k) == \A i \in 1..k : todo[i].op = "SetResultParams"

\* The lists hold the variables of the block that is being executed.
ListsInv ==
    /\ todo = <<>> \/ First.op \notin InBlock => cur_vars = 0 /\ res_vars = 0
    /\ todo # <<>> /\ First.op \in InBlock =>
          /\ \A k \in 0..Len(todo) : NextResults(k) => res_vars + k <= First.s.nr
          /\ \A k \in 0..Len(todo) : NextParams(k) => cur_vars + k <= First.s.np
    /\ todo # <<>> /\ First.op = "SetResultParams" /\ First.s.kind # "execute" => cur_vars = 0
    /\ todo # <<>> /\ First.op = "SetSQLParams" /\ First.s.kind = "execute" => res_vars = 0

\* A refused parameter is missing at the call that counts, and the statement
\* has no other call that could hide it.
RefusedLine(l) ==
    /\ l.op \notin {"check", "check_reset"}
    /\ l.op = "SetResultParams" => l.s.kind = "execute" /\ l.s.np > 0
    /\ l.op \in SingleCalls => l.op = "CursorOpen"
    /\ l.op = "StartSQL" => l.s.np = 0
    /\ l.op = "whenever" => l.s.np > 0 \/ l.s.kind = "open"
    /\ l.op = "CursorOpen" => l.s.crs \notin cursors

\* The call has been made and its SQLCODE is about to be looked at.
Answered(l) ==
    l.op \in {"whenever", "paragraph_end"} \/ (l.op = "EndSQL" /\ l.s.np > 0)

RefusedInv ==
    refused =>
        /\ \A i \in 1..Len(todo) : RefusedLine(todo[i])
        /\ todo # <<>> /\ First.s.np > 0 /\ First.op \in Sets \cup BlockCalls =>
              \A k \in 0..Len(todo) : NextParams(k) => cur_vars + k < First.s.np
        /\ todo # <<>> /\ First.s.kind # "select" /\ Answered(First) => sqlcode # "zero"

\* The paragraph of cursor x has declared it and its flag is about to be set.
ToBeMarked(x) ==
    /\ todo # <<>>
    /\ First.s.crs = x
    /\ First.s.kind \in DeclKinds
    /\ First.op \in {"EndSQL", "paragraph_end", "mark"}
    /\ sqlcode = "zero"

FlagInv ==
    /\ \A x \in cursors : flag[x] = "X" \/ ToBeMarked(x)
    /\ \A x \in CursorNames : flag[x] = "X" => x \in cursors \cup dropped \cup masked
    /\ \A x \in dropped : flag[x] = "X" /\ x \notin cursors

\* What holds while a cursor is being declared or opened.
DeclareInv ==
    /\ \A i \in 1..Len(todo) :
          todo[i].op \in Declares \/ (todo[i].op = "SetSQLParams" /\ todo[i].s.kind \in DeclKinds) =>
              flag[todo[i].s.crs] = "SPACE" /\ todo[i].s.crs \notin cursors
    /\ todo # <<>> /\ First.s.kind = "dml" =>
          \A i \in 1..Len(todo) : todo[i].op = "mark" => todo[i].s.crs \in masked
    /\ todo # <<>> /\ sqlcode = "zero" =>
          /\ First.op = "paragraph_end" \/ (First.op = "EndSQL" /\ First.s.kind \in DeclKinds)
                => First.s.crs \in cursors
          /\ First.op = "mark" => First.s.crs \in cursors \cup masked
          /\ First.op = "CursorOpen" => flag[First.s.crs] = "X"
          /\ First.op = "whenever" /\ First.s.kind = "open"
                => First.s.crs \in cursors /\ cursor[First.s.crs].open

\* DISCONNECT ALL is the only call of its statement.
LoopInv ==
    resetting =>
        todo # <<>> /\ First.op = "whenever" /\ First.s.kind = "resetall" /\ ~refused

ProgInv ==
    /\ StateInv
    /\ ProgTypeOK
    /\ Shape(todo)
    /\ ListsInv
    /\ RefusedInv
    /\ FlagInv
    /\ DeclareInv
    /\ LoopInv

---------------------------------------------------------------------------
(* How the sequences of lines are built.                                   *)

LEMMA TailShape ==
    ASSUME NEW t, Shape(t), t # <<>>
    PROVE  /\ Shape(Tail(t))
           /\ Len(t) \in Nat \ {0}
           /\ Head(t) = t[1]
           /\ Len(Tail(t)) = Len(t) - 1
           /\ Tail(t) # <<>> <=> Len(t) > 1
           /\ \A i \in 1..Len(Tail(t)) : Tail(t)[i] = t[i + 1]
  <1>1. /\ Len(t) \in Nat \ {0}
        /\ Tail(t) \in Seq(Lines)
        /\ Len(Tail(t)) = Len(t) - 1
        /\ \A i \in 1..Len(Tail(t)) : Tail(t)[i] = t[i + 1]
    BY HeadTailProperties, EmptySeq DEF Shape
  <1>2. Head(t) = t[1]
    OBVIOUS
  <1> DEFINE u == Tail(t)
  <1> HIDE DEF u
  <1>3. u # <<>> <=> Len(t) > 1
    <2>1. u \in Seq(Lines) /\ Len(u) = Len(t) - 1
      BY <1>1 DEF u
    <2>2. u # <<>> => Len(u) \in Nat \ {0}
      BY <2>1, EmptySeq
    <2>3. u = <<>> => Len(u) = 0
      OBVIOUS
    <2> QED
      BY <1>1, <2>1, <2>2, <2>3
  <1>4. \A i \in 1..Len(u) : i + 1 \in 1..Len(t) /\ u[i] = t[i + 1]
    BY <1>1 DEF u
  <1>5. /\ \A i \in 1..Len(u) : LineOK(u[i])
        /\ \A i \in 1..Len(u) : i < Len(u) => Follows(u[i], u[i + 1])
        /\ \A i, j \in 1..Len(u) : i < j => Together(u[i], u[j])
        /\ \A i \in 1..Len(u) : i = Len(u) => ~Incomplete(u[i])
    <2>1. Len(u) = Len(t) - 1
      BY <1>1 DEF u
    <2>2. ASSUME NEW i \in 1..Len(u), i < Len(u)
          PROVE  Follows(u[i], u[i + 1])
      <3>1. /\ u[i] = t[i + 1] /\ u[i + 1] = t[(i + 1) + 1]
            /\ i + 1 \in 1..Len(t) /\ i + 1 < Len(t)
        BY <1>1, <1>4, <2>1, <2>2
      <3> QED
        BY <3>1 DEF Shape
    <2>3. ASSUME NEW i \in 1..Len(u), NEW j \in 1..Len(u), i < j
          PROVE  Together(u[i], u[j])
      <3>1. i + 1 \in 1..Len(t) /\ j + 1 \in 1..Len(t) /\ i + 1 < j + 1
        BY <1>4, <2>3
      <3> QED
        BY <1>4, <3>1 DEF Shape
    <2>4. ASSUME NEW i \in 1..Len(u), i = Len(u)
          PROVE  ~Incomplete(u[i])
      <3>1. i + 1 \in 1..Len(t) /\ i + 1 = Len(t)
        BY <1>1, <2>1, <2>4
      <3> QED
        BY <1>4, <3>1 DEF Shape
    <2>5. \A i \in 1..Len(u) : LineOK(u[i])
      BY <1>4 DEF Shape
    <2> QED
      BY <2>2, <2>3, <2>4, <2>5
  <1>6. ASSUME NEW i \in 1..Len(u), NEW j \in 1..Len(u), i <= j, NEW o,
               \A k \in i..j : u[k].op = o
        PROVE  \A k \in (i + 1)..(j + 1) : t[k].op = o
    <2> SUFFICES ASSUME NEW k \in (i + 1)..(j + 1)
                 PROVE  t[k].op = o
      OBVIOUS
    <2>1. k - 1 \in i..j /\ k - 1 \in 1..Len(u) /\ (k - 1) + 1 = k
      BY <1>1 DEF u
    <2> QED
      BY <1>4, <1>6, <2>1
  <1>7. Bounded(u)
    <2> SUFFICES ASSUME NEW i \in 1..Len(u), NEW j \in 1..Len(u), i <= j
                 PROVE  /\ (\A k \in i..j : u[k].op = "SetSQLParams") => j - i < u[i].s.np
                        /\ (\A k \in i..j : u[k].op = "SetResultParams") => j - i < u[i].s.nr
      BY DEF Bounded
    <2>1. /\ i + 1 \in 1..Len(t) /\ j + 1 \in 1..Len(t) /\ i + 1 <= j + 1
          /\ (j + 1) - (i + 1) = j - i /\ u[i] = t[i + 1]
      BY <1>1, <1>4 DEF u
    <2> QED
      BY <1>6, <2>1 DEF Shape, Bounded
  <1> QED
    BY <1>1, <1>2, <1>3, <1>5, <1>7 DEF Shape, u

\* The lines that may stand right before the sequence t.
Precedes(l, t) ==
    /\ t = <<>> => ~Incomplete(l)
    /\ t # <<>> => Follows(l, t[1])
    /\ \A j \in 1..Len(t) : Together(l, t[j])

LEMMA PrependLine ==
    ASSUME NEW l, NEW t, Shape(t), LineOK(l), l.op \notin Sets, Precedes(l, t)
    PROVE  /\ Shape(<<l>> \o t)
           /\ <<l>> \o t \in Seq(Lines)
           /\ Len(<<l>> \o t) = Len(t) + 1
           /\ (<<l>> \o t)[1] = l
           /\ \A i \in 1..Len(t) : (<<l>> \o t)[i + 1] = t[i]
  <1> DEFINE u == <<l>> \o t
  <1>1. /\ Len(t) \in Nat /\ (t = <<>> <=> Len(t) = 0)
        /\ u \in Seq(Lines) /\ Len(u) = Len(t) + 1 /\ u[1] = l
        /\ \A i \in 1..Len(u) : u[i] = IF i = 1 THEN l ELSE t[i - 1]
    <2>1. <<l>> \in Seq(Lines) /\ Len(<<l>>) = 1 /\ <<l>>[1] = l
      BY DEF LineOK
    <2>2. t \in Seq(Lines) /\ Len(t) \in Nat /\ (t = <<>> <=> Len(t) = 0)
      BY EmptySeq, LenProperties DEF Shape
    <2>3. /\ u \in Seq(Lines) /\ Len(u) = 1 + Len(t)
          /\ \A i \in 1..(1 + Len(t)) : u[i] = IF i <= 1 THEN <<l>>[i] ELSE t[i - 1]
      BY <2>1, <2>2, ConcatProperties
    <2> QED
      BY <2>1, <2>2, <2>3
  <1> HIDE DEF u
  <1>2. \A i \in 1..Len(u) : i # 1 => i - 1 \in 1..Len(t) /\ u[i] = t[i - 1]
    BY <1>1
  <1>3. \A i \in 1..Len(u) : LineOK(u[i])
    BY <1>1, <1>2 DEF Shape
  <1>4. \A i \in 1..Len(u) : i < Len(u) => Follows(u[i], u[i + 1])
    <2> SUFFICES ASSUME NEW i \in 1..Len(u), i < Len(u)
                 PROVE  Follows(u[i], u[i + 1])
      OBVIOUS
    <2>1. u[i + 1] = t[i] /\ i \in 1..Len(t)
      BY <1>1
    <2>2. CASE i = 1
      BY <1>1, <2>1, <2>2 DEF Precedes
    <2>3. CASE i # 1
      <3>1. i - 1 \in 1..Len(t) /\ i - 1 < Len(t) /\ u[i] = t[i - 1] /\ (i - 1) + 1 = i
        BY <1>1, <2>3
      <3> QED
        BY <2>1, <3>1 DEF Shape
    <2> QED
      BY <2>2, <2>3
  <1>5. \A i, j \in 1..Len(u) : i < j => Together(u[i], u[j])
    <2> SUFFICES ASSUME NEW i \in 1..Len(u), NEW j \in 1..Len(u), i < j
                 PROVE  Together(u[i], u[j])
      OBVIOUS
    <2>1. j - 1 \in 1..Len(t) /\ u[j] = t[j - 1]
      BY <1>1
    <2>2. CASE i = 1
      BY <1>1, <2>1, <2>2 DEF Precedes
    <2>3. CASE i # 1
      <3>1. i - 1 \in 1..Len(t) /\ i - 1 < j - 1 /\ u[i] = t[i - 1]
        BY <1>2, <2>1, <2>3
      <3> QED
        BY <2>1, <3>1 DEF Shape
    <2> QED
      BY <2>2, <2>3
  <1>6. \A i \in 1..Len(u) : i = Len(u) => ~Incomplete(u[i])
    BY <1>1 DEF Shape, Precedes
  <1>7. Bounded(u)
    <2> SUFFICES ASSUME NEW i \in 1..Len(u), NEW j \in 1..Len(u), i <= j
                 PROVE  /\ (\A k \in i..j : u[k].op = "SetSQLParams") => j - i < u[i].s.np
                        /\ (\A k \in i..j : u[k].op = "SetResultParams") => j - i < u[i].s.nr
      BY DEF Bounded
    <2>1. CASE i = 1
      BY <1>1, <2>1 DEF Sets
    <2>2. CASE i # 1
      <3>1. /\ i - 1 \in 1..Len(t) /\ j - 1 \in 1..Len(t) /\ i - 1 <= j - 1
            /\ (j - 1) - (i - 1) = j - i /\ u[i] = t[i - 1]
        BY <1>1, <2>2
      <3>2. ASSUME NEW o, \A k \in i..j : u[k].op = o
            PROVE  \A k \in (i - 1)..(j - 1) : t[k].op = o
        <4> SUFFICES ASSUME NEW k \in (i - 1)..(j - 1)
                     PROVE  t[k].op = o
          OBVIOUS
        <4>1. k + 1 \in i..j /\ u[k + 1] = t[k]
          BY <1>1, <2>2
        <4> QED
          BY <3>2, <4>1
      <3> QED
        BY <3>1, <3>2 DEF Shape, Bounded
    <2> QED
      BY <2>1, <2>2
  <1>8. Shape(u)
    BY <1>1, <1>3, <1>4, <1>5, <1>6, <1>7 DEF Shape
  <1> QED
    BY <1>1, <1>8 DEF u

(***************************************************************************)
(* The block of a call: StartSQL, r lines for the results and one line for *)
(* each parameter (EXECUTE has them first), the call, EndSQL.              *)
(***************************************************************************)
RunOp(op, o1, n1, o2, n2, i) ==
    IF i = 1 THEN "StartSQL"
    ELSE IF i <= n1 + 1 THEN o1
    ELSE IF i <= n1 + n2 + 1 THEN o2
    ELSE IF i = n1 + n2 + 2 THEN op ELSE "EndSQL"

BlockOp(op, s, r, i) ==
    IF s.kind = "execute" THEN RunOp(op, "SetSQLParams", s.np, "SetResultParams", r, i)
    ELSE RunOp(op, "SetResultParams", r, "SetSQLParams", s.np, i)

BlockOps(op, np, r) ==
    {o \in Sets \cup {"StartSQL", op, "EndSQL"} :
        (o = "SetResultParams" => r > 0) /\ (o = "SetSQLParams" => np > 0)}

IsBlock(b, op, s, r) ==
    /\ b \in Seq(Lines)
    /\ Len(b) = r + s.np + 3
    /\ \A i \in 1..Len(b) : b[i] = Line(BlockOp(op, s, r, i), s)

\* The order of the two kinds of lines is that of the statement.
InOrder(o, p, s) ==
    /\ o = "SetSQLParams" /\ p = "SetResultParams" => s.kind = "execute"
    /\ o = "SetResultParams" /\ p = "SetSQLParams" => s.kind # "execute"

Different(op, o1, o2) ==
    /\ op # o1 /\ op # o2 /\ op # "StartSQL" /\ op # "EndSQL"
    /\ o1 # o2 /\ o1 # "StartSQL" /\ o1 # "EndSQL" /\ o2 # "StartSQL" /\ o2 # "EndSQL"

LEMMA RunOpAt ==
    ASSUME NEW op, NEW o1, NEW o2, NEW n1 \in Nat, NEW n2 \in Nat, NEW i \in 1..(n1 + n2 + 3)
    PROVE  LET o == RunOp(op, o1, n1, o2, n2, i)
           IN  \/ i = 1 /\ o = "StartSQL"
               \/ i > 1 /\ i <= n1 + 1 /\ o = o1
               \/ i > n1 + 1 /\ i <= n1 + n2 + 1 /\ o = o2
               \/ i = n1 + n2 + 2 /\ o = op
               \/ i = n1 + n2 + 3 /\ o = "EndSQL"
  BY DEF RunOp

LEMMA RunOpFollows ==
    ASSUME NEW op, NEW o1, NEW o2, NEW n1 \in Nat, NEW n2 \in Nat, NEW i \in 1..(n1 + n2 + 2),
           NEW j \in (i + 1)..(n1 + n2 + 3), Different(op, o1, o2)
    PROVE  LET o == RunOp(op, o1, n1, o2, n2, i)
               p == RunOp(op, o1, n1, o2, n2, j)
           IN  /\ \/ o \in {o1, o2, "StartSQL"} /\ p \in {o1, o2, op, "EndSQL"}
                  \/ o = op /\ p = "EndSQL"
               /\ j = i + 1 => (p = "EndSQL" <=> o = op)
               /\ ~(o = o2 /\ p = o1)
               /\ n1 = 0 => o # o1
               /\ n2 = 0 => o # o2
  <1> DEFINE o == RunOp(op, o1, n1, o2, n2, i)
             p == RunOp(op, o1, n1, o2, n2, j)
  <1>1. /\ i \in 1..(n1 + n2 + 3) /\ j \in 1..(n1 + n2 + 3) /\ i < j /\ i < n1 + n2 + 3
    OBVIOUS
  <1>2. \/ i = 1 /\ o = "StartSQL"
        \/ i > 1 /\ i <= n1 + 1 /\ o = o1
        \/ i > n1 + 1 /\ i <= n1 + n2 + 1 /\ o = o2
        \/ i = n1 + n2 + 2 /\ o = op
    BY <1>1, RunOpAt
  <1>3. \/ j > 1 /\ j <= n1 + 1 /\ p = o1
        \/ j > n1 + 1 /\ j <= n1 + n2 + 1 /\ p = o2
        \/ j = n1 + n2 + 2 /\ p = op
        \/ j = n1 + n2 + 3 /\ p = "EndSQL"
    BY <1>1, RunOpAt
  <1> HIDE DEF o, p
  <1> USE DEF Different
  <1>4. (o = o2 => i > n1 + 1) /\ (p = o1 => j <= n1 + 1) /\ (o = o1 => n1 > 0) /\ (o = o2 => n2 > 0)
    BY <1>1, <1>2, <1>3
  <1>5. (o = op <=> i = n1 + n2 + 2) /\ (p = "EndSQL" <=> j = n1 + n2 + 3)
    BY <1>1, <1>2, <1>3
  <1> QED
    BY <1>1, <1>2, <1>3, <1>4, <1>5 DEF o, p

LEMMA BlockOpFollows ==
    ASSUME NEW op \in BlockCalls, NEW s, s.np \in Nat, NEW r \in Nat,
           NEW i \in 1..(r + s.np + 2), NEW j \in (i + 1)..(r + s.np + 3)
    PROVE  LET o == BlockOp(op, s, r, i)
               p == BlockOp(op, s, r, j)
           IN  /\ \/ o \in Sets \cup {"StartSQL"} /\ p \in Sets \cup {op, "EndSQL"}
                  \/ o = op /\ p = "EndSQL"
               /\ j = i + 1 => (p = "EndSQL" <=> o = op)
               /\ InOrder(o, p, s)
               /\ r = 0 => o # "SetResultParams"
  <1>1. /\ Different(op, "SetResultParams", "SetSQLParams")
        /\ Different(op, "SetSQLParams", "SetResultParams")
    BY DEF BlockCalls, Different
  <1>2. CASE s.kind = "execute"
    <2>1. PICK n \in Nat : n = s.np
      OBVIOUS
    <2>2. i \in 1..(n + r + 2) /\ j \in (i + 1)..(n + r + 3)
      BY <2>1
    <2>3. LET o == RunOp(op, "SetSQLParams", n, "SetResultParams", r, i)
              p == RunOp(op, "SetSQLParams", n, "SetResultParams", r, j)
          IN  /\ \/ o \in {"SetSQLParams", "SetResultParams", "StartSQL"}
                    /\ p \in {"SetSQLParams", "SetResultParams", op, "EndSQL"}
                 \/ o = op /\ p = "EndSQL"
              /\ j = i + 1 => (p = "EndSQL" <=> o = op)
              /\ ~(o = "SetResultParams" /\ p = "SetSQLParams")
              /\ n = 0 => o # "SetSQLParams"
              /\ r = 0 => o # "SetResultParams"
      BY <1>1, <2>2, RunOpFollows
    <2> QED
      BY <1>2, <2>1, <2>3 DEF BlockOp, InOrder, Sets
  <1>3. CASE s.kind # "execute"
    <2>1. PICK n \in Nat : n = s.np
      OBVIOUS
    <2>2. i \in 1..(r + n + 2) /\ j \in (i + 1)..(r + n + 3)
      BY <2>1
    <2>3. LET o == RunOp(op, "SetResultParams", r, "SetSQLParams", n, i)
              p == RunOp(op, "SetResultParams", r, "SetSQLParams", n, j)
          IN  /\ \/ o \in {"SetResultParams", "SetSQLParams", "StartSQL"}
                    /\ p \in {"SetResultParams", "SetSQLParams", op, "EndSQL"}
                 \/ o = op /\ p = "EndSQL"
              /\ j = i + 1 => (p = "EndSQL" <=> o = op)
              /\ ~(o = "SetSQLParams" /\ p = "SetResultParams")
              /\ r = 0 => o # "SetResultParams"
              /\ n = 0 => o # "SetSQLParams"
      BY <1>1, <2>2, RunOpFollows
    <2> QED
      BY <1>3, <2>1, <2>3 DEF BlockOp, InOrder, Sets
  <1> QED
    BY <1>2, <1>3

LEMMA BlockTogether ==
    ASSUME NEW op \in BlockCalls, NEW s, NEW o, NEW p, NEW r,
           o \in Sets \cup {"StartSQL", op}, p \in Sets \cup {op, "EndSQL"},
           InOrder(o, p, s),
           p \in Sets => o # op,
           p = op => o \in Sets \cup {"StartSQL"} /\ (r = 0 => o # "SetResultParams"),
           op = "CursorDeclareParams" => r = 0
    PROVE  Together(Line(o, s), Line(p, s))
  BY DEF Together, InOrder, Line, BlockCalls, Sets, Declares, SingleCalls, InBlock

\* The lines of the block may stand before the sequence t.
BlockPrecedes(op, s, r, t) ==
    /\ \A o \in BlockOps(op, s.np, r) :
          /\ LineOK(Line(o, s))
          /\ \A j \in 1..Len(t) : Together(Line(o, s), t[j])
    /\ Precedes(Line("EndSQL", s), t)

\* u is the block followed by t.
BlockThen(u, op, s, r, t) ==
    /\ Shape(u)
    /\ Len(u) = r + s.np + 3 + Len(t)
    /\ \A i \in 1..(r + s.np + 3) : u[i] = Line(BlockOp(op, s, r, i), s)
    /\ \A i \in 1..Len(t) : u[(r + s.np + 3) + i] = t[i]

\* Where the lines of a run stand, and where it ends.
RunsEnd(op, o1, n1, o2, n2) ==
    /\ RunOp(op, o1, n1, o2, n2, n1 + n2 + 3) = "EndSQL"
    /\ RunOp(op, o1, n1, o2, n2, n1 + 2) # o1
    /\ RunOp(op, o1, n1, o2, n2, n1 + n2 + 2) # o2
    /\ \A i \in 1..(n1 + n2 + 3) :
          /\ RunOp(op, o1, n1, o2, n2, i) = o1 => i < n1 + 2 /\ n1 + 2 - i <= n1
          /\ RunOp(op, o1, n1, o2, n2, i) = o2 => i < n1 + n2 + 2 /\ n1 + n2 + 2 - i <= n2

LEMMA RunOpEnds ==
    ASSUME NEW op, NEW o1, NEW o2, NEW n1 \in Nat, NEW n2 \in Nat,
           Different(op, o1, o2)
    PROVE  RunsEnd(op, o1, n1, o2, n2)
  <1>1. RunOp(op, o1, n1, o2, n2, n1 + n2 + 3) = "EndSQL"
    BY DEF RunOp
  <1>2. RunOp(op, o1, n1, o2, n2, n1 + 2) # o1
    BY DEF RunOp, Different
  <1>3. RunOp(op, o1, n1, o2, n2, n1 + n2 + 2) # o2
    BY DEF RunOp, Different
  <1>4. ASSUME NEW i \in 1..(n1 + n2 + 3), RunOp(op, o1, n1, o2, n2, i) = o1
        PROVE  i < n1 + 2 /\ n1 + 2 - i <= n1
    BY <1>4, RunOpAt DEF Different
  <1>5. ASSUME NEW i \in 1..(n1 + n2 + 3), RunOp(op, o1, n1, o2, n2, i) = o2
        PROVE  i < n1 + n2 + 2 /\ n1 + n2 + 2 - i <= n2
    BY <1>5, RunOpAt DEF Different
  <1> QED
    BY <1>1, <1>2, <1>3, <1>4, <1>5 DEF RunsEnd

\* The run of the lines o of the block ends before line e and has at most n lines.
RunEnds(o, op, s, r, n, e) ==
    /\ e \in 1..(r + s.np + 3)
    /\ BlockOp(op, s, r, e) # o
    /\ \A i \in 1..(r + s.np + 3) : BlockOp(op, s, r, i) = o => i < e /\ e - i <= n

LEMMA BlockOpEnds ==
    ASSUME NEW op \in BlockCalls, NEW s, s.np \in Nat, NEW r \in Nat
    PROVE  /\ BlockOp(op, s, r, r + s.np + 3) = "EndSQL"
           /\ \E e : RunEnds("SetSQLParams", op, s, r, s.np, e)
           /\ \E e : RunEnds("SetResultParams", op, s, r, r, e)
  <1>1. /\ Different(op, "SetResultParams", "SetSQLParams")
        /\ Different(op, "SetSQLParams", "SetResultParams")
    BY DEF BlockCalls, Different
  <1>2. PICK n \in Nat : n = s.np
    OBVIOUS
  <1>3. CASE s.kind = "execute"
    <2> DEFINE o(i) == RunOp(op, "SetSQLParams", n, "SetResultParams", r, i)
    <2>1. /\ o(n + r + 3) = "EndSQL"
          /\ o(n + 2) # "SetSQLParams" /\ o(n + r + 2) # "SetResultParams"
          /\ \A i \in 1..(n + r + 3) :
                /\ o(i) = "SetSQLParams" => i < n + 2 /\ n + 2 - i <= n
                /\ o(i) = "SetResultParams" => i < n + r + 2 /\ n + r + 2 - i <= r
      <3>1. RunsEnd(op, "SetSQLParams", n, "SetResultParams", r)
        BY <1>1, RunOpEnds
      <3> QED
        BY <3>1 DEF RunsEnd
    <2>2. \A i : BlockOp(op, s, r, i) = o(i)
      BY <1>2, <1>3 DEF BlockOp
    <2> HIDE DEF o
    <2>3. n + r + 3 = r + s.np + 3 /\ n + 2 \in 1..(r + s.np + 3) /\ n + r + 2 \in 1..(r + s.np + 3)
      BY <1>2
    <2>4. RunEnds("SetSQLParams", op, s, r, s.np, n + 2)
      BY <1>2, <2>1, <2>2, <2>3 DEF RunEnds
    <2>5. RunEnds("SetResultParams", op, s, r, r, n + r + 2)
      BY <1>2, <2>1, <2>2, <2>3 DEF RunEnds
    <2> QED
      BY <2>1, <2>2, <2>3, <2>4, <2>5
  <1>4. CASE s.kind # "execute"
    <2> DEFINE o(i) == RunOp(op, "SetResultParams", r, "SetSQLParams", n, i)
    <2>1. /\ o(r + n + 3) = "EndSQL"
          /\ o(r + 2) # "SetResultParams" /\ o(r + n + 2) # "SetSQLParams"
          /\ \A i \in 1..(r + n + 3) :
                /\ o(i) = "SetResultParams" => i < r + 2 /\ r + 2 - i <= r
                /\ o(i) = "SetSQLParams" => i < r + n + 2 /\ r + n + 2 - i <= n
      <3>1. RunsEnd(op, "SetResultParams", r, "SetSQLParams", n)
        BY <1>1, RunOpEnds
      <3> QED
        BY <3>1 DEF RunsEnd
    <2>2. \A i : BlockOp(op, s, r, i) = o(i)
      BY <1>2, <1>4 DEF BlockOp
    <2> HIDE DEF o
    <2>3. r + n + 3 = r + s.np + 3 /\ r + 2 \in 1..(r + s.np + 3) /\ r + n + 2 \in 1..(r + s.np + 3)
      BY <1>2
    <2>4. RunEnds("SetSQLParams", op, s, r, s.np, r + n + 2)
      BY <1>2, <2>1, <2>2, <2>3 DEF RunEnds
    <2>5. RunEnds("SetResultParams", op, s, r, r, r + 2)
      BY <1>2, <2>1, <2>2, <2>3 DEF RunEnds
    <2> QED
      BY <2>1, <2>2, <2>3, <2>4, <2>5
  <1> QED
    BY <1>3, <1>4

LEMMA BlockOpSet ==
    ASSUME NEW op \in BlockCalls, NEW s, s.np \in Nat, NEW r \in Nat,
           NEW i \in 1..(r + s.np + 3)
    PROVE  BlockOp(op, s, r, i) \in BlockOps(op, s.np, r)
  <1>1. BlockOp(op, s, r, i) \in Sets \cup {"StartSQL", op, "EndSQL"}
    BY DEF BlockOp, RunOp, Sets
  <1>2. ASSUME BlockOp(op, s, r, i) = "SetSQLParams" PROVE s.np > 0
    <2>1. PICK e : RunEnds("SetSQLParams", op, s, r, s.np, e)
      BY BlockOpEnds
    <2> QED
      BY <1>2, <2>1 DEF RunEnds
  <1>3. ASSUME BlockOp(op, s, r, i) = "SetResultParams" PROVE r > 0
    <2>1. PICK e : RunEnds("SetResultParams", op, s, r, r, e)
      BY BlockOpEnds
    <2> QED
      BY <1>3, <2>1 DEF RunEnds
  <1> QED
    BY <1>1, <1>2, <1>3 DEF BlockOps

LEMMA PrependBlock ==
    ASSUME NEW op \in BlockCalls, NEW s \in Statement, NEW r, r \in 0..s.nr, NEW b,
           IsBlock(b, op, s, r), op = "CursorDeclareParams" => r = 0,
           NEW t, Shape(t), BlockPrecedes(op, s, r, t)
    PROVE  BlockThen(b \o t, op, s, r, t)
  <1> DEFINE u == b \o t
             m == Len(b)
  <1> USE DEF BlockPrecedes
  <1>1. /\ s.np \in Nat /\ s.nr \in Nat /\ r \in Nat /\ r <= s.nr
        /\ Len(t) \in Nat /\ (t = <<>> <=> Len(t) = 0)
    BY RuntimeAssumption, EmptySeq, LenProperties DEF Statement, Shape
  <1>2. m = r + s.np + 3 /\ m \in Nat
    BY <1>1 DEF IsBlock
  <1>3. /\ u \in Seq(Lines) /\ Len(u) = m + Len(t)
        /\ \A i \in 1..Len(u) : u[i] = IF i <= m THEN b[i] ELSE t[i - m]
    <2>1. b \in Seq(Lines) /\ t \in Seq(Lines)
      BY DEF IsBlock, Shape
    <2> QED
      BY SMTT(40), <2>1, ConcatProperties
  <1> HIDE DEF u, m
  <1>0. m \in Nat /\ m > 0 /\ Len(t) \in Nat /\ Len(u) = m + Len(t)
    BY <1>1, <1>2, <1>3
  <1>4. \A i \in 1..m : i \in 1..Len(u) /\ u[i] = Line(BlockOp(op, s, r, i), s)
    <2> SUFFICES ASSUME NEW i \in 1..m
                 PROVE  i \in 1..Len(u) /\ u[i] = Line(BlockOp(op, s, r, i), s)
      OBVIOUS
    <2>1. i \in 1..Len(u) /\ i <= m
      BY <1>0
    <2>2. u[i] = b[i]
      BY <1>3, <2>1
    <2>3. b[i] = Line(BlockOp(op, s, r, i), s)
      BY DEF IsBlock, m
    <2> QED
      BY <2>1, <2>2, <2>3
  <1>5. \A i \in 1..Len(u) : i > m => i - m \in 1..Len(t) /\ u[i] = t[i - m]
    <2> SUFFICES ASSUME NEW i \in 1..Len(u), i > m
                 PROVE  i - m \in 1..Len(t) /\ u[i] = t[i - m]
      OBVIOUS
    <2>1. ~(i <= m) /\ i - m \in 1..Len(t)
      BY <1>0
    <2> QED
      BY <1>3, <2>1
  <1>6. \A i \in 1..m : BlockOp(op, s, r, i) \in BlockOps(op, s.np, r)
    <2>1. op \notin Sets
      BY DEF BlockCalls, Sets
    <2> QED
      BY <1>1, <1>2, <2>1, BlockOpSet
  <1>7. \A o : Line(o, s).op = o /\ Line(o, s).s = s
    BY DEF Line
  <1>8. \A i \in 1..Len(u) : LineOK(u[i])
    <2> SUFFICES ASSUME NEW i \in 1..Len(u)
                 PROVE  LineOK(u[i])
      OBVIOUS
    <2>1. CASE i <= m
      <3>1. i \in 1..m
        BY <1>2, <1>3, <2>1
      <3> QED
        BY <1>4, <1>6, <3>1
    <2>2. CASE i > m
      BY <1>5, <2>2 DEF Shape
    <2> QED
      BY <1>2, <2>1, <2>2
  <1>9. \A i \in 1..Len(u) : i < Len(u) => Follows(u[i], u[i + 1])
    <2> SUFFICES ASSUME NEW i \in 1..Len(u), i < Len(u)
                 PROVE  Follows(u[i], u[i + 1])
      OBVIOUS
    <2>1. CASE i < m
      <3>1. i \in 1..m /\ i + 1 \in 1..m
        BY <1>2, <2>1
      <3> DEFINE o == BlockOp(op, s, r, i)
                 p == BlockOp(op, s, r, i + 1)
      <3>2. u[i] = Line(o, s) /\ u[i + 1] = Line(p, s)
        BY <1>4, <3>1
      <3>3. i \in 1..(r + s.np + 2) /\ i + 1 \in (i + 1)..(r + s.np + 3)
        BY <1>1, <1>2, <3>1
      <3>4. /\ \/ o \in Sets \cup {"StartSQL"} /\ p \in Sets \cup {op, "EndSQL"}
               \/ o = op /\ p = "EndSQL"
            /\ p = "EndSQL" <=> o = op
            /\ InOrder(o, p, s)
        BY <1>1, <3>3, BlockOpFollows
      <3> HIDE DEF o, p
      <3> QED
        BY <1>7, <3>2, <3>4
           DEF Follows, InOrder, GoesOn, ParagraphEnds, InBlock, BlockCalls, Sets, DeclKinds
    <2>2. CASE i = m
      <3>1. u[i] = Line("EndSQL", s)
        <4>1. BlockOp(op, s, r, m) = "EndSQL" /\ i \in 1..m
          BY <1>0, <1>1, <1>2, <2>2, BlockOpEnds
        <4> QED
          BY <1>4, <2>2, <4>1
      <3>2. i + 1 \in 1..Len(u) /\ i + 1 > m /\ (i + 1) - m = 1 /\ Len(t) > 0
        BY <1>0, <2>2
      <3>3. u[i + 1] = t[1] /\ t # <<>>
        BY <1>1, <1>5, <3>2
      <3> QED
        BY <3>1, <3>3 DEF Precedes
    <2>3. CASE i > m
      <3>1. /\ i - m \in 1..Len(t) /\ i - m < Len(t) /\ (i - m) + 1 = (i + 1) - m
            /\ i + 1 \in 1..Len(u) /\ i + 1 > m
        BY <1>0, <2>3
      <3>2. u[i] = t[i - m] /\ u[i + 1] = t[(i - m) + 1]
        BY <1>5, <2>3, <3>1
      <3> QED
        BY <3>1, <3>2 DEF Shape
    <2> QED
      BY <1>2, <2>1, <2>2, <2>3
  <1>10. \A i, j \in 1..Len(u) : i < j => Together(u[i], u[j])
    <2> SUFFICES ASSUME NEW i \in 1..Len(u), NEW j \in 1..Len(u), i < j
                 PROVE  Together(u[i], u[j])
      OBVIOUS
    <2>1. CASE j <= m
      <3>1. i \in 1..m /\ j \in 1..m
        BY <1>2, <1>3, <2>1
      <3> DEFINE o == BlockOp(op, s, r, i)
                 p == BlockOp(op, s, r, j)
      <3>2. u[i] = Line(o, s) /\ u[j] = Line(p, s)
        BY <1>4, <3>1
      <3>3. /\ o \in Sets \cup {"StartSQL", op} /\ p \in Sets \cup {op, "EndSQL"}
            /\ InOrder(o, p, s)
            /\ p \in Sets => o # op
            /\ p = op => o \in Sets \cup {"StartSQL"} /\ (r = 0 => o # "SetResultParams")
        <4>1. op \notin Sets \cup {"StartSQL", "EndSQL"}
          BY DEF BlockCalls, Sets
        <4>2. i \in 1..(r + s.np + 2) /\ j \in (i + 1)..(r + s.np + 3)
          BY <1>1, <1>2, <3>1
        <4>3. /\ \/ o \in Sets \cup {"StartSQL"} /\ p \in Sets \cup {op, "EndSQL"}
                 \/ o = op /\ p = "EndSQL"
              /\ InOrder(o, p, s)
              /\ r = 0 => o # "SetResultParams"
          BY <1>1, <4>2, BlockOpFollows
        <4> QED
          BY <4>1, <4>3 DEF Sets
      <3> HIDE DEF o, p
      <3> QED
        BY ZenonT(60), <3>2, <3>3, BlockTogether
    <2>2. CASE i <= m /\ j > m
      <3>1. i \in 1..m
        BY <1>2, <1>3, <2>2
      <3> QED
        BY <1>4, <1>5, <1>6, <2>2, <3>1
    <2>3. CASE i > m
      <3>1. /\ i - m \in 1..Len(t) /\ j - m \in 1..Len(t) /\ i - m < j - m
            /\ u[i] = t[i - m] /\ u[j] = t[j - m]
        <4>1. j > m /\ i - m < j - m
          BY <1>0, <2>3
        <4> QED
          BY <1>5, <2>3, <4>1
      <3> QED
        BY <3>1 DEF Shape
    <2> QED
      BY <1>0, <2>1, <2>2, <2>3
  <1>11. \A i \in 1..Len(u) : i = Len(u) => ~Incomplete(u[i])
    <2> SUFFICES ASSUME NEW i \in 1..Len(u), i = Len(u)
                 PROVE  ~Incomplete(u[i])
      OBVIOUS
    <2>1. CASE Len(t) = 0
      <3>1. u[i] = Line("EndSQL", s) /\ t = <<>>
        <4>1. i = m /\ i \in 1..m
          BY <1>0, <2>1
        <4>2. BlockOp(op, s, r, m) = "EndSQL"
          BY <1>1, <1>2, BlockOpEnds
        <4> QED
          BY <1>1, <1>4, <2>1, <4>1, <4>2
      <3> QED
        BY <3>1 DEF Precedes
    <2>2. CASE Len(t) # 0
      <3>1. u[i] = t[Len(t)] /\ Len(t) \in 1..Len(t)
        <4>1. i > m /\ i - m = Len(t)
          BY <1>0, <2>2
        <4> QED
          BY <1>5, <4>1
      <3> QED
        BY <3>1 DEF Shape
    <2> QED
      BY <2>1, <2>2
  <1>12. Bounded(u)
    <2> SUFFICES ASSUME NEW i \in 1..Len(u), NEW j \in 1..Len(u), i <= j
                 PROVE  /\ (\A k \in i..j : u[k].op = "SetSQLParams") => j - i < u[i].s.np
                        /\ (\A k \in i..j : u[k].op = "SetResultParams") => j - i < u[i].s.nr
      BY DEF Bounded
    <2>1. CASE i <= m
      <3>1. i \in 1..m /\ u[i].s = s /\ u[i].op = BlockOp(op, s, r, i)
        BY SMTT(40), <1>2, <1>3, <1>4, <1>7, <2>1
      <3>2. ASSUME \A k \in i..j : u[k].op = "SetSQLParams"
            PROVE  j - i < s.np
        <4>1. PICK e : RunEnds("SetSQLParams", op, s, r, s.np, e)
          BY <1>1, BlockOpEnds
        <4>2. i < e /\ e - i <= s.np /\ e \in 1..m
          BY <1>2, <3>1, <3>2, <4>1 DEF RunEnds
        <4>3. e \notin i..j
          BY <1>4, <1>7, <3>2, <4>1, <4>2 DEF RunEnds
        <4> QED
          BY <1>0, <1>1, <4>2, <4>3
      <3>3. ASSUME \A k \in i..j : u[k].op = "SetResultParams"
            PROVE  j - i < s.nr
        <4>1. PICK e : RunEnds("SetResultParams", op, s, r, r, e)
          BY <1>1, BlockOpEnds
        <4>2. i < e /\ e - i <= r /\ e \in 1..m
          BY <1>2, <3>1, <3>3, <4>1 DEF RunEnds
        <4>3. e \notin i..j
          BY <1>4, <1>7, <3>3, <4>1, <4>2 DEF RunEnds
        <4> QED
          BY <1>0, <1>1, <4>2, <4>3
      <3> QED
        BY <3>1, <3>2, <3>3
    <2>2. CASE i > m
      <3>1. /\ i - m \in 1..Len(t) /\ j - m \in 1..Len(t) /\ i - m <= j - m
            /\ (j - m) - (i - m) = j - i /\ u[i] = t[i - m]
        <4>1. j > m /\ i - m <= j - m /\ (j - m) - (i - m) = j - i
          BY <1>0, <2>2
        <4> QED
          BY <1>5, <2>2, <4>1
      <3>2. ASSUME NEW o, \A k \in i..j : u[k].op = o
            PROVE  \A k \in (i - m)..(j - m) : t[k].op = o
        <4> SUFFICES ASSUME NEW k \in (i - m)..(j - m)
                     PROVE  t[k].op = o
          OBVIOUS
        <4>1. k + m \in i..j /\ k + m \in 1..Len(u) /\ k + m > m /\ (k + m) - m = k
          BY <1>0, <2>2
        <4>2. u[k + m] = t[k]
          BY <1>5, <4>1
        <4> QED
          BY <3>2, <4>1, <4>2
      <3> QED
        BY <3>1, <3>2 DEF Shape, Bounded
    <2> QED
      BY <1>2, <2>1, <2>2
  <1>13. Shape(u)
    BY <1>3, <1>8, <1>9, <1>10, <1>11, <1>12 DEF Shape
  <1>14. \A i \in 1..Len(t) : u[m + i] = t[i]
    <2> SUFFICES ASSUME NEW i \in 1..Len(t)
                 PROVE  u[m + i] = t[i]
      OBVIOUS
    <2>1. m + i \in 1..Len(u) /\ m + i > m /\ (m + i) - m = i
      BY <1>0
    <2> QED
      BY <1>5, <2>1
  <1> QED
    BY <1>2, <1>3, <1>4, <1>13, <1>14 DEF u, BlockThen

LEMMA RunOfLines ==
    ASSUME NEW n \in Nat, NEW l \in Lines
    PROVE  /\ [i \in 1..n |-> l] \in Seq(Lines)
           /\ Len([i \in 1..n |-> l]) = n
           /\ \A i \in 1..n : [j \in 1..n |-> l][i] = l
  OBVIOUS

LEMMA ConcatLines ==
    ASSUME NEW s1 \in Seq(Lines), NEW s2 \in Seq(Lines)
    PROVE  /\ s1 \o s2 \in Seq(Lines)
           /\ Len(s1 \o s2) = Len(s1) + Len(s2)
           /\ \A i \in 1..Len(s1) : (s1 \o s2)[i] = s1[i]
           /\ \A i \in 1..Len(s2) : (s1 \o s2)[Len(s1) + i] = s2[i]
  <1> DEFINE u == s1 \o s2
  <1>1. /\ u \in Seq(Lines) /\ Len(u) = Len(s1) + Len(s2)
        /\ Len(s1) \in Nat /\ Len(s2) \in Nat
        /\ \A i \in 1..Len(s1) + Len(s2) : u[i] = IF i <= Len(s1) THEN s1[i]
                                                  ELSE s2[i - Len(s1)]
    BY ConcatProperties, LenProperties
  <1> HIDE DEF u
  <1>2. ASSUME NEW i \in 1..Len(s2) PROVE u[Len(s1) + i] = s2[i]
    <2>1. /\ Len(s1) + i \in 1..Len(s1) + Len(s2) /\ ~(Len(s1) + i <= Len(s1))
          /\ (Len(s1) + i) - Len(s1) = i
      BY <1>1
    <2> QED
      BY <1>1, <2>1
  <1>3. \A i \in 1..Len(s1) : u[i] = s1[i]
    BY <1>1
  <1> QED
    BY <1>1, <1>2, <1>3 DEF u

\* StartSQL, n1 lines o1, n2 lines o2, the call, EndSQL.
TwoRuns(op, s, o1, n1, o2, n2) ==
    put_start_exec_sql(s) \o [i \in 1..n1 |-> Line(o1, s)] \o [i \in 1..n2 |-> Line(o2, s)]
        \o <<Line(op, s)>> \o put_end_exec_sql(s)

AreRuns(b, op, s, o1, n1, o2, n2) ==
    /\ b \in Seq(Lines)
    /\ Len(b) = n1 + n2 + 3
    /\ \A i \in 1..Len(b) : b[i] = Line(RunOp(op, o1, n1, o2, n2, i), s)

LEMMA RunsBuilt ==
    ASSUME NEW op \in BlockCalls, NEW s \in Statement,
           NEW o1 \in Sets, NEW n1 \in Nat, NEW o2 \in Sets, NEW n2 \in Nat
    PROVE  AreRuns(TwoRuns(op, s, o1, n1, o2, n2), op, s, o1, n1, o2, n2)
  <1> DEFINE l(o) == Line(o, s)
             a1 == <<l("StartSQL")>>
             a2 == [i \in 1..n1 |-> l(o1)]
             a3 == [i \in 1..n2 |-> l(o2)]
             a4 == <<l(op)>>
             a5 == <<l("EndSQL")>>
  <1>2. /\ l("StartSQL") \in Lines /\ l(o1) \in Lines
        /\ l(o2) \in Lines /\ l(op) \in Lines /\ l("EndSQL") \in Lines
    BY DEF Lines, Line, Ops, InBlock, BlockCalls, Sets
  <1> HIDE DEF l
  <1>3. /\ a1 \in Seq(Lines) /\ Len(a1) = 1 /\ a1[1] = l("StartSQL")
        /\ a4 \in Seq(Lines) /\ Len(a4) = 1 /\ a4[1] = l(op)
        /\ a5 \in Seq(Lines) /\ Len(a5) = 1 /\ a5[1] = l("EndSQL")
    BY <1>2
  <1>4. /\ a2 \in Seq(Lines) /\ Len(a2) = n1 /\ \A i \in 1..n1 : a2[i] = l(o1)
        /\ a3 \in Seq(Lines) /\ Len(a3) = n2 /\ \A i \in 1..n2 : a3[i] = l(o2)
    BY <1>2, RunOfLines
  <1> DEFINE b2 == a1 \o a2
             b3 == b2 \o a3
             b4 == b3 \o a4
             b5 == b4 \o a5
  <1> HIDE DEF a1, a2, a3, a4, a5
  <1>5. /\ b2 \in Seq(Lines) /\ Len(b2) = 1 + n1
        /\ \A i \in 1..1 : b2[i] = a1[i]
        /\ \A i \in 1..n1 : b2[1 + i] = a2[i]
    <2>1. a1 \in Seq(Lines) /\ a2 \in Seq(Lines)
      BY <1>3, <1>4
    <2>2. /\ b2 \in Seq(Lines) /\ Len(b2) = Len(a1) + Len(a2)
          /\ \A i \in 1..Len(a1) : b2[i] = a1[i]
          /\ \A i \in 1..Len(a2) : b2[Len(a1) + i] = a2[i]
      BY <2>1, ConcatLines
    <2> HIDE DEF b2
    <2> QED
      BY <2>2, <1>3, <1>4
  <1> HIDE DEF b2
  <1>6. /\ b3 \in Seq(Lines) /\ Len(b3) = (1 + n1) + n2
        /\ \A i \in 1..(1 + n1) : b3[i] = b2[i]
        /\ \A i \in 1..n2 : b3[(1 + n1) + i] = a3[i]
    <2>1. b2 \in Seq(Lines) /\ a3 \in Seq(Lines)
      BY <1>4, <1>5
    <2>2. /\ b3 \in Seq(Lines) /\ Len(b3) = Len(b2) + Len(a3)
          /\ \A i \in 1..Len(b2) : b3[i] = b2[i]
          /\ \A i \in 1..Len(a3) : b3[Len(b2) + i] = a3[i]
      BY <2>1, ConcatLines
    <2> HIDE DEF b3
    <2> QED
      BY <2>2, <1>4, <1>5
  <1> HIDE DEF b3
  <1>7. /\ b4 \in Seq(Lines) /\ Len(b4) = ((1 + n1) + n2) + 1
        /\ \A i \in 1..((1 + n1) + n2) : b4[i] = b3[i]
        /\ \A i \in 1..1 : b4[((1 + n1) + n2) + i] = a4[i]
    <2>1. b3 \in Seq(Lines) /\ a4 \in Seq(Lines)
      BY <1>3, <1>6
    <2>2. /\ b4 \in Seq(Lines) /\ Len(b4) = Len(b3) + Len(a4)
          /\ \A i \in 1..Len(b3) : b4[i] = b3[i]
          /\ \A i \in 1..Len(a4) : b4[Len(b3) + i] = a4[i]
      BY <2>1, ConcatLines
    <2> HIDE DEF b4
    <2> QED
      BY <2>2, <1>3, <1>6
  <1> HIDE DEF b4
  <1>8. /\ b5 \in Seq(Lines) /\ Len(b5) = (((1 + n1) + n2) + 1) + 1
        /\ \A i \in 1..(((1 + n1) + n2) + 1) : b5[i] = b4[i]
        /\ \A i \in 1..1 : b5[(((1 + n1) + n2) + 1) + i] = a5[i]
    <2>1. b4 \in Seq(Lines) /\ a5 \in Seq(Lines)
      BY <1>3, <1>7
    <2>2. /\ b5 \in Seq(Lines) /\ Len(b5) = Len(b4) + Len(a5)
          /\ \A i \in 1..Len(b4) : b5[i] = b4[i]
          /\ \A i \in 1..Len(a5) : b5[Len(b4) + i] = a5[i]
      BY <2>1, ConcatLines
    <2> HIDE DEF b5
    <2> QED
      BY <2>2, <1>3, <1>7
  <1> HIDE DEF b5
  <1>9. ASSUME NEW i \in 1..(n1 + n2 + 3)
        PROVE  b5[i] = l(RunOp(op, o1, n1, o2, n2, i))
    <2>1. CASE i = 1
      BY SMTT(40), <1>3, <1>5, <1>6, <1>7, <1>8, <2>1 DEF RunOp
    <2>2. CASE i > 1 /\ i <= n1 + 1
      <3>1. i - 1 \in 1..n1 /\ 1 + (i - 1) = i /\ i \in 1..(1 + n1)
            /\ i \in 1..((1 + n1) + n2) /\ i \in 1..(((1 + n1) + n2) + 1)
        BY <2>2
      <3>2. b5[i] = a2[i - 1]
        BY <1>5, <1>6, <1>7, <1>8, <3>1
      <3> QED
        BY <1>4, <2>2, <3>1, <3>2 DEF RunOp
    <2>3. CASE i > n1 + 1 /\ i <= n1 + n2 + 1
      <3>1. /\ i - (1 + n1) \in 1..n2 /\ (1 + n1) + (i - (1 + n1)) = i
            /\ i \in 1..((1 + n1) + n2) /\ i \in 1..(((1 + n1) + n2) + 1)
        BY <2>3
      <3>2. b5[i] = a3[i - (1 + n1)]
        BY <1>6, <1>7, <1>8, <3>1
      <3> QED
        BY SMTT(40), <1>4, <2>3, <3>1, <3>2 DEF RunOp
    <2>4. CASE i = n1 + n2 + 2
      <3>1. i = ((1 + n1) + n2) + 1 /\ i \in 1..(((1 + n1) + n2) + 1) /\ 1 \in 1..1
        BY <2>4
      <3>2. b5[i] = a4[1]
        BY <1>7, <1>8, <3>1
      <3> QED
        BY <1>3, <2>4, <3>2 DEF RunOp
    <2>5. CASE i = n1 + n2 + 3
      <3>1. i = (((1 + n1) + n2) + 1) + 1 /\ 1 \in 1..1
        BY <2>5
      <3>2. b5[i] = a5[1]
        BY <1>8, <3>1
      <3> QED
        BY <1>3, <2>5, <3>2 DEF RunOp
    <2> QED
      BY <2>1, <2>2, <2>3, <2>4, <2>5
  <1>10. AreRuns(b5, op, s, o1, n1, o2, n2)
    <2>1. Len(b5) = n1 + n2 + 3
      BY <1>8
    <2> QED
      BY <1>8, <1>9, <2>1 DEF AreRuns, l
  <1> QED
    BY <1>10 DEF a1, a2, a3, a4, a5, b2, b3, b4, b5, l, TwoRuns, put_start_exec_sql,
                 put_end_exec_sql

\* StartSQL, r result lines, the parameters, the call, EndSQL.
LEMMA BlockBuilt ==
    ASSUME NEW op \in BlockCalls, NEW s \in Statement, s.kind # "execute", NEW r \in Nat
    PROVE  IsBlock(put_start_exec_sql(s) \o [i \in 1..r |-> Line("SetResultParams", s)]
                       \o put_host_parameters(s) \o <<Line(op, s)>> \o put_end_exec_sql(s),
                   op, s, r)
  <1>1. s.np \in Nat
    BY RuntimeAssumption DEF Statement
  <1>2. "SetResultParams" \in Sets /\ "SetSQLParams" \in Sets
    BY DEF Sets
  <1>3. AreRuns(TwoRuns(op, s, "SetResultParams", r, "SetSQLParams", s.np),
                op, s, "SetResultParams", r, "SetSQLParams", s.np)
    BY <1>1, <1>2, RunsBuilt
  <1>4. \A i : BlockOp(op, s, r, i) = RunOp(op, "SetResultParams", r, "SetSQLParams", s.np, i)
    BY DEF BlockOp
  <1> QED
    BY Zenon, <1>3, <1>4 DEF AreRuns, TwoRuns, IsBlock, put_host_parameters

LEMMA WithVariablesBlock ==
    ASSUME NEW op \in BlockCalls, NEW s \in Statement, s.kind # "execute"
    PROVE  IsBlock(WithVariables(op, s), op, s, s.nr)
  <1>1. s.nr \in Nat
    BY RuntimeAssumption DEF Statement
  <1> QED
    BY <1>1, BlockBuilt DEF WithVariables, put_res_host_parameters

LEMMA HostFirstBlock ==
    ASSUME NEW op \in BlockCalls, NEW s \in Statement, s.kind = "execute"
    PROVE  IsBlock(HostFirst(op, s), op, s, s.nr)
  <1>1. s.np \in Nat /\ s.nr \in Nat
    BY RuntimeAssumption DEF Statement
  <1>2. "SetResultParams" \in Sets /\ "SetSQLParams" \in Sets
    BY DEF Sets
  <1>3. AreRuns(TwoRuns(op, s, "SetSQLParams", s.np, "SetResultParams", s.nr),
                op, s, "SetSQLParams", s.np, "SetResultParams", s.nr)
    BY <1>1, <1>2, RunsBuilt
  <1>4. \A i : BlockOp(op, s, s.nr, i) = RunOp(op, "SetSQLParams", s.np, "SetResultParams", s.nr, i)
    BY DEF BlockOp
  <1>5. s.np + s.nr + 3 = s.nr + s.np + 3
    BY <1>1
  <1> QED
    BY Zenon, <1>3, <1>4, <1>5
       DEF AreRuns, TwoRuns, IsBlock, HostFirst, put_host_parameters, put_res_host_parameters

LEMMA EmptyShape == Shape(<<>>)
  BY DEF Shape, Bounded

LEMMA OneLine ==
    ASSUME NEW l, LineOK(l), l.op \notin Sets, ~Incomplete(l)
    PROVE  Shape(<<l>>) /\ Len(<<l>>) = 1 /\ <<l>>[1] = l
  <1>1. Precedes(l, <<>>)
    BY DEF Precedes
  <1>2. Shape(<<l>> \o <<>>)
    BY <1>1, EmptyShape, PrependLine
  <1>3. <<l>> \in Seq(Lines)
    BY DEF LineOK
  <1>4. <<l>> \o <<>> = <<l>>
    BY <1>3, ConcatEmptySeq
  <1> QED
    BY <1>2, <1>4

LEMMA ProgramLine ==
    ASSUME NEW s \in Program, NEW o \in {"StartSQL", "EndSQL", "whenever"} \cup Sets
    PROVE  /\ s \in Statement
           /\ (o = "EndSQL" => s.kind \notin DeclKinds) => LineOK(Line(o, s))
  BY ProgramAssumption
     DEF LineOK, Line, Lines, Ops, InBlock, BlockCalls, SingleCalls, Sets, CobolLines, DeclLines,
         Declares, DeclKinds

LEMMA WheneverShape ==
    ASSUME NEW s \in Program
    PROVE  /\ Shape(put_whenever_handler(s))
           /\ Len(put_whenever_handler(s)) = 1
           /\ \A j \in 1..Len(put_whenever_handler(s)) :
                 put_whenever_handler(s)[j] = Line("whenever", s)
           /\ put_whenever_handler(s)[1] = Line("whenever", s)
           /\ put_whenever_handler(s) # <<>>
  <1> DEFINE l == Line("whenever", s)
  <1>1. LineOK(l) /\ l.op = "whenever"
    BY ProgramLine DEF Line
  <1>2. l.op \notin Sets /\ ~Incomplete(l)
    BY <1>1 DEF Sets, Incomplete, GoesOn, ParagraphEnds, BlockCalls
  <1> HIDE DEF l
  <1>3. Shape(<<l>>) /\ Len(<<l>>) = 1 /\ <<l>>[1] = l
    BY <1>1, <1>2, OneLine
  <1> QED
    BY <1>3 DEF put_whenever_handler, l

\* What is left when control has just reached a statement.
Fresh(t) ==
    /\ t # <<>>
    /\ t[1].op \in (SingleCalls \ {"CursorOpen", "CursorDeclare"})
                       \cup {"StartSQL", "check", "check_reset"}
    /\ \A i \in 1..Len(t) :
          /\ t[i].op \notin Declares \cup {"mark"}
          /\ t[i].op = "SetSQLParams" => t[i].s.kind \notin DeclKinds

LEMMA TwoLines ==
    ASSUME NEW l, NEW k, LineOK(l), LineOK(k), l.op \notin Sets, k.op \notin Sets,
           ~Incomplete(k), Follows(l, k), Together(l, k)
    PROVE  LET t == <<l>> \o <<k>>
           IN  Shape(t) /\ Len(t) = 2 /\ t # <<>> /\ t[1] = l /\ t[2] = k
  <1> DEFINE w == <<k>>
             t == <<l>> \o w
  <1>1. Shape(w) /\ Len(w) = 1 /\ w[1] = k
    BY OneLine
  <1>2. \A j \in 1..Len(w) : w[j] = k
    BY <1>1
  <1>3. w # <<>>
    OBVIOUS
  <1> HIDE DEF w
  <1>4. Precedes(l, w)
    BY <1>1, <1>2, <1>3 DEF Precedes
  <1>5. /\ Shape(t) /\ t \in Seq(Lines) /\ Len(t) = Len(w) + 1 /\ t[1] = l
        /\ \A i \in 1..Len(w) : t[i + 1] = w[i]
    BY <1>1, <1>4, PrependLine
  <1> HIDE DEF t
  <1>6. Len(t) = 2 /\ t[2] = k
    BY <1>1, <1>5
  <1>7. t # <<>>
    BY <1>6
  <1> QED
    BY <1>5, <1>6, <1>7 DEF t, w

LEMMA SingleStatement ==
    ASSUME NEW s \in Program, NEW o \in SingleCalls \ {"CursorDeclare"},
           LineOK(Line(o, s)), o = "CursorOpen" <=> s.kind = "open",
           o = "ConnectResetAll" => s.kind = "resetall"
    PROVE  LET t == <<Line(o, s)>> \o put_whenever_handler(s)
           IN  /\ Shape(t)
               /\ Len(t) = 2
               /\ t # <<>>
               /\ t[1] = Line(o, s)
               /\ t[2] = Line("whenever", s)
               /\ o # "CursorOpen" => Fresh(t)
  <1> DEFINE l == Line(o, s)
             k == Line("whenever", s)
             t == <<l>> \o <<k>>
  <1>1. l.op = o /\ l.op \notin Sets /\ k.op = "whenever" /\ k.op \notin Sets
    BY DEF Line, SingleCalls, Sets
  <1>2. LineOK(l) /\ LineOK(k)
    BY ProgramLine
  <1>3. Follows(l, k)
    BY DEF Line, Follows, GoesOn, ParagraphEnds, InBlock, BlockCalls, Sets, SingleCalls, DeclKinds
  <1>4. Together(l, k)
    BY DEF Line, Together, Declares, InBlock, BlockCalls, Sets, SingleCalls, DeclKinds
  <1>5. ~Incomplete(k)
    BY <1>1 DEF Incomplete, GoesOn, ParagraphEnds, BlockCalls, Sets
  <1>6. l.op \in SingleCalls \ {"CursorDeclare"}
    BY <1>1
  <1>7. put_whenever_handler(s) = <<k>>
    BY DEF put_whenever_handler
  <1> HIDE DEF l, k
  <1>8. Shape(t) /\ Len(t) = 2 /\ t # <<>> /\ t[1] = l /\ t[2] = k
    BY <1>1, <1>2, <1>3, <1>4, <1>5, TwoLines
  <1> HIDE DEF t
  <1>9. ASSUME l.op # "CursorOpen" PROVE Fresh(t)
    <2>1. \A i \in 1..Len(t) : t[i] \in {l, k}
      BY <1>8
    <2> QED
      BY <1>1, <1>6, <1>8, <1>9, <2>1 DEF Fresh, Declares, SingleCalls
  <1> QED
    BY <1>1, <1>7, <1>8, <1>9 DEF t, l, k

LEMMA BlockStatement ==
    ASSUME NEW s \in Program, NEW op \in BlockCalls \ {"CursorDeclareParams"},
           LineOK(Line(op, s)), s.kind \notin DeclKinds, NEW b, IsBlock(b, op, s, s.nr)
    PROVE  LET t == b \o put_whenever_handler(s)
           IN  Shape(t) /\ Fresh(t)
  <1> DEFINE w == put_whenever_handler(s)
             t == b \o w
  <1>0. s \in Statement /\ s.np \in Nat /\ s.nr \in Nat /\ s.nr \in 0..s.nr
    <2>1. s \in Statement
      BY ProgramLine
    <2> QED
      BY <2>1, RuntimeAssumption DEF Statement
  <1>2. /\ Shape(w) /\ Len(w) = 1 /\ w[1] = Line("whenever", s) /\ w # <<>>
        /\ \A j \in 1..Len(w) : w[j] = Line("whenever", s)
    BY WheneverShape
  <1>3. Follows(Line("EndSQL", s), Line("whenever", s))
    BY DEF Line, Follows, GoesOn, ParagraphEnds, InBlock, BlockCalls, Sets, SingleCalls, DeclKinds
  <1>4. ASSUME NEW o \in BlockOps(op, s.np, s.nr)
        PROVE  Together(Line(o, s), Line("whenever", s)) /\ LineOK(Line(o, s))
    <2>1. o \in {"StartSQL", "EndSQL"} \cup Sets \cup {op}
      BY DEF BlockOps
    <2>2. LineOK(Line(o, s))
      BY <2>1, ProgramLine
    <2>3. o \in {"StartSQL", "EndSQL"} \cup Sets \cup BlockCalls
      BY <2>1
    <2>4. Together(Line(o, s), Line("whenever", s))
      BY <2>3 DEF Line, Together, Declares, InBlock, BlockCalls, Sets, SingleCalls, DeclKinds
    <2> QED
      BY <2>2, <2>4
  <1> HIDE DEF w
  <1>6. Precedes(Line("EndSQL", s), w)
    <2>1. "EndSQL" \in BlockOps(op, s.np, s.nr)
      BY DEF BlockOps
    <2> QED
      BY <1>2, <1>3, <1>4, <2>1 DEF Precedes
  <1>7. BlockPrecedes(op, s, s.nr, w)
    BY <1>2, <1>4, <1>6 DEF BlockPrecedes
  <1> DEFINE n == s.nr + s.np + 3
  <1>8. /\ Shape(t) /\ Len(t) = n + Len(w)
        /\ \A i \in 1..n : t[i] = Line(BlockOp(op, s, s.nr, i), s)
        /\ \A i \in 1..Len(w) : t[n + i] = w[i]
    <2>1. BlockThen(t, op, s, s.nr, w)
      BY <1>0, <1>2, <1>7, PrependBlock
    <2> QED
      BY <2>1 DEF BlockThen
  <1> HIDE DEF t
  <1>9. \A i \in 1..Len(t) : \E o \in {"StartSQL", "EndSQL", "whenever"} \cup Sets \cup {op} :
            t[i] = Line(o, s)
    <2> SUFFICES ASSUME NEW i \in 1..Len(t)
                 PROVE  \E o \in {"StartSQL", "EndSQL", "whenever"} \cup Sets \cup {op} :
                            t[i] = Line(o, s)
      OBVIOUS
    <2>1. CASE i <= n
      <3>1. BlockOp(op, s, s.nr, i) \in {"StartSQL", "EndSQL"} \cup Sets \cup {op}
        BY DEF BlockOp, RunOp, Sets
      <3>2. i \in 1..n
        BY <1>0, <1>8, <2>1
      <3> QED
        BY <1>8, <3>1, <3>2
    <2>2. CASE i > n
      <3>1. i = n + 1 /\ 1 \in 1..Len(w)
        BY <1>0, <1>2, <1>8, <2>2
      <3>2. t[i] = Line("whenever", s)
        BY <1>2, <1>8, <3>1
      <3> QED
        BY <3>2
    <2>3. n \in Nat
      BY <1>0
    <2> HIDE DEF n
    <2> QED
      BY <2>1, <2>2, <2>3
  <1>10. t # <<>> /\ t[1] = Line("StartSQL", s)
    <2>1. 1 \in 1..n /\ Len(t) > 0
      BY <1>0, <1>2, <1>8
    <2>2. t # <<>>
      BY <2>1
    <2> QED
      BY <1>8, <2>1, <2>2 DEF BlockOp, RunOp
  <1>11. Fresh(t)
    BY <1>9, <1>10 DEF Fresh, Line, Declares, Sets, BlockCalls
  <1> QED
    BY <1>8, <1>11 DEF t, w

LEMMA OpenStatement ==
    ASSUME NEW s \in Program, s.kind = "open"
    PROVE  LET t == <<Line("check", s)>> \o <<Line("CursorOpen", s)>> \o put_whenever_handler(s)
           IN  Shape(t) /\ Fresh(t)
  <1> DEFINE l == Line("check", s)
             k == Line("CursorOpen", s)
             h == Line("whenever", s)
             w == put_whenever_handler(s)
             v == <<k>> \o w
             t == <<l>> \o v
  <1>1. s \in Statement /\ s.crs \in CursorNames
    BY ProgramLine, ProgramAssumption
  <1>2. LineOK(l) /\ LineOK(k)
    BY <1>1 DEF LineOK, Line, Lines, Ops, InBlock, BlockCalls, SingleCalls, Sets, CobolLines,
                DeclLines, Declares, DeclKinds
  <1>3. Shape(v) /\ Len(v) = 2 /\ v # <<>> /\ v[1] = k /\ v[2] = h
    BY <1>2, SingleStatement DEF SingleCalls
  <1>4. Follows(l, k)
    BY DEF Line, Follows, GoesOn, ParagraphEnds, InBlock, BlockCalls, Sets, SingleCalls, DeclKinds
  <1>5. Together(l, k) /\ Together(l, h)
    BY DEF Line, Together, Declares, InBlock, BlockCalls, Sets, SingleCalls, DeclKinds
  <1>6. l.op = "check" /\ l.op \notin Sets /\ k.op = "CursorOpen" /\ h.op = "whenever"
    BY DEF Line, Sets
  <1>7. <<l>> \in Seq(Lines) /\ <<k>> \in Seq(Lines) /\ w \in Seq(Lines)
    BY <1>2, WheneverShape DEF LineOK, Shape
  <1>8. (<<l>> \o <<k>>) \o w = t
    <2> HIDE DEF l, k, w
    <2> QED
      BY <1>7, ConcatAssociative
  <1> HIDE DEF l, k, h, w, v
  <1>9. \A j \in 1..Len(v) : v[j] \in {k, h}
    BY <1>3
  <1>10. Precedes(l, v)
    BY <1>3, <1>4, <1>5, <1>9 DEF Precedes
  <1>11. /\ Shape(t) /\ Len(t) = Len(v) + 1 /\ t[1] = l
         /\ \A i \in 1..Len(v) : t[i + 1] = v[i]
    <2>1. LineOK(l) /\ l.op \notin Sets /\ Shape(v)
      BY <1>2, <1>3, <1>6
    <2> QED
      BY <2>1, <1>10, PrependLine
  <1> HIDE DEF t
  <1>12. Len(t) = 3 /\ t[2] = k /\ t[3] = h
    BY <1>3, <1>11
  <1>13. t # <<>> /\ \A i \in 1..Len(t) : t[i] \in {l, k, h}
    <2>1. t # <<>>
      BY <1>11, <1>12, EmptySeq DEF Shape
    <2>2. \A i \in 1..3 : i = 1 \/ i = 2 \/ i = 3
      OBVIOUS
    <2> QED
      BY <1>11, <1>12, <2>1, <2>2
  <1>14. Fresh(t)
    BY <1>6, <1>11, <1>13 DEF Fresh, Declares
  <1> QED
    BY <1>8, <1>11, <1>14 DEF l, k, w

LEMMA DeclareStatement ==
    ASSUME NEW s \in Program, s.kind = "declare"
    PROVE  LET t == <<Line("check_reset", s)>>
           IN  Shape(t) /\ Fresh(t) /\ t \in Seq(Lines)
  <1> DEFINE l == Line("check_reset", s)
             t == <<l>>
  <1>1. s \in Statement /\ s.crs \in CursorNames
    BY ProgramLine, ProgramAssumption
  <1>2. LineOK(l)
    BY <1>1 DEF LineOK, Line, Lines, Ops, InBlock, BlockCalls, SingleCalls, Sets, CobolLines,
                DeclLines, Declares, DeclKinds
  <1>3. l.op = "check_reset" /\ l.op \notin Sets /\ ~Incomplete(l)
    BY DEF Line, Sets, Incomplete, GoesOn, ParagraphEnds, BlockCalls
  <1> HIDE DEF l
  <1>4. Shape(t) /\ Len(t) = 1 /\ t[1] = l
    BY <1>2, <1>3, OneLine
  <1>5. t # <<>> /\ \A i \in 1..Len(t) : t[i] = l
    BY <1>4
  <1> HIDE DEF t
  <1>6. Fresh(t)
    BY <1>3, <1>4, <1>5 DEF Fresh, Declares
  <1> QED
    BY <1>4, <1>6 DEF Shape, t, l

\* A statement starts with a sequence of lines of the right shape.
LEMMA StatementShape ==
    ASSUME NEW s \in Program
    PROVE  Shape(handle_esql_stmt(s)) /\ Fresh(handle_esql_stmt(s))
  <1> DEFINE w == put_whenever_handler(s)
             Good(t) == Shape(t) /\ Fresh(t)
  <1>1. s \in Statement
    BY ProgramLine
  <1>2. s.kind \in Kinds /\ s.np \in Nat /\ s.nr \in Nat
    BY <1>1, RuntimeAssumption DEF Statement
  <1>3. ASSUME NEW o \in {"Connect", "ConnectReset", "ConnectResetAll", "CursorClose",
                          "PrepareStatement", "ExecImmediate"},
               o = "CursorClose" => s.kind = "close" /\ s.crs \in CursorNames,
               o = "ConnectResetAll" => s.kind = "resetall",
               s.kind \notin DeclKinds \cup {"fetch"}, s.kind = "close" => o = "CursorClose"
        PROVE  Good(<<Line(o, s)>> \o w)
    <2>1. LineOK(Line(o, s))
      BY <1>1, <1>3 DEF LineOK, Line, Lines, Ops, InBlock, BlockCalls, SingleCalls, Sets,
                        CobolLines, DeclLines, Declares, DeclKinds
    <2>2. o \in SingleCalls \ {"CursorDeclare"} /\ o # "CursorOpen" /\ s.kind # "open"
      BY <1>3 DEF SingleCalls, DeclKinds
    <2> QED
      BY <1>3, <2>1, <2>2, SingleStatement
  <1>4. ASSUME NEW op \in BlockCalls \ {"CursorDeclareParams"},
               s.kind \in {"dml", "select", "fetch", "execute"},
               op = "CursorFetchOne" <=> s.kind = "fetch",
               op = "ExecSelectIntoOne" <=> s.kind = "select",
               op = "Exec" => s.np = 0, NEW b, IsBlock(b, op, s, s.nr)
        PROVE  Good(b \o w)
    <2>1. s.kind = "fetch" => s.crs \in CursorNames /\ s.np = 0
      BY ProgramAssumption
    <2>2. LineOK(Line(op, s))
      BY <1>1, <1>2, <1>4, <2>1
         DEF LineOK, Line, Lines, Ops, InBlock, BlockCalls, SingleCalls, Sets,
             CobolLines, DeclLines, Declares, DeclKinds, Counting
    <2>3. s.kind \notin DeclKinds
      BY <1>4 DEF DeclKinds
    <2>4. Shape(b \o put_whenever_handler(s)) /\ Fresh(b \o put_whenever_handler(s))
      BY <1>4, <2>2, <2>3, BlockStatement
    <2> QED
      BY <2>4
  <1>5. s.kind = "close" => s.crs \in CursorNames
    BY ProgramAssumption
  <1> HIDE DEF Good
  <1>6. CASE s.kind \in {"connect", "reset", "resetall", "close", "prepare", "immediate"}
    <2>1. \E o \in {"Connect", "ConnectReset", "ConnectResetAll", "CursorClose",
                    "PrepareStatement", "ExecImmediate"} :
             /\ handle_esql_stmt(s) = <<Line(o, s)>> \o w
             /\ o = "CursorClose" <=> s.kind = "close"
             /\ o = "ConnectResetAll" <=> s.kind = "resetall"
      BY <1>6 DEF handle_esql_stmt
    <2>2. s.kind \notin DeclKinds \cup {"fetch"}
      BY <1>6 DEF DeclKinds
    <2> QED
      BY SMTT(40), <1>3, <1>5, <2>1, <2>2 DEF Good
  <1>7. CASE s.kind \in {"dml", "select", "fetch", "execute"}
    <2> DEFINE op1 == CASE s.kind = "dml" -> IF s.np = 0 THEN "Exec" ELSE "ExecParams"
                        [] s.kind = "select" -> "ExecSelectIntoOne"
                        [] s.kind = "fetch" -> "CursorFetchOne"
                        [] s.kind = "execute" -> IF s.nr = 0 THEN "ExecPrepared"
                                                 ELSE "ExecPreparedInto"
    <2> DEFINE b1 == IF s.kind = "execute" THEN HostFirst(op1, s) ELSE WithVariables(op1, s)
    <2>2. handle_esql_stmt(s) = b1 \o w
      BY <1>7 DEF handle_esql_stmt
    <2>3. /\ op1 \in BlockCalls \ {"CursorDeclareParams"}
          /\ op1 = "CursorFetchOne" <=> s.kind = "fetch"
          /\ op1 = "ExecSelectIntoOne" <=> s.kind = "select"
          /\ op1 = "Exec" => s.np = 0
      BY <1>7 DEF BlockCalls
    <2> HIDE DEF op1
    <2>4. IsBlock(b1, op1, s, s.nr)
      BY <1>1, <2>3, WithVariablesBlock, HostFirstBlock
    <2> HIDE DEF b1
    <2>5. Good(b1 \o w)
      BY <1>4, <1>7, <2>3, <2>4
    <2> QED
      BY <2>2, <2>5 DEF Good
  <1>8. CASE s.kind = "open"
    <2>1. handle_esql_stmt(s) = <<Line("check", s)>> \o <<Line("CursorOpen", s)>> \o w
      BY <1>8 DEF handle_esql_stmt, put_smart_cursor_init_check
    <2> QED
      BY <1>8, <2>1, OpenStatement
  <1>9. CASE s.kind = "declare"
    <2> DEFINE l == <<Line("check_reset", s)>>
    <2>1. handle_esql_stmt(s) = l \o <<>>
      BY <1>9 DEF handle_esql_stmt, put_smart_cursor_init_check
    <2>2. Shape(l) /\ Fresh(l) /\ l \in Seq(Lines)
      BY <1>9, DeclareStatement
    <2> HIDE DEF l
    <2>3. l \o <<>> = l
      BY <2>2, ConcatEmptySeq
    <2> QED
      BY <2>1, <2>2, <2>3
  <1> QED
    BY <1>2, <1>6, <1>7, <1>8, <1>9 DEF Kinds

\* The lines of a paragraph that declares a cursor with parameters.
LEMMA DeclareBlock ==
    ASSUME NEW d \in Statement, d.kind # "execute"
    PROVE  IsBlock(put_start_exec_sql(d) \o put_host_parameters(d)
                       \o <<Line("CursorDeclareParams", d)>> \o put_end_exec_sql(d),
                   "CursorDeclareParams", d, 0)
  <1> DEFINE l == Line("SetResultParams", d)
             e == [i \in 1..0 |-> l]
             a == put_start_exec_sql(d)
  <1>1. l \in Lines /\ Line("StartSQL", d) \in Lines
    BY DEF Lines, Line, Ops, InBlock, Sets
  <1>2. e \in Seq(Lines) /\ Len(e) = 0
    BY <1>1, RunOfLines
  <1>3. e = <<>>
    BY <1>2, EmptySeq
  <1>4. a \in Seq(Lines)
    BY <1>1 DEF put_start_exec_sql
  <1>5. a \o e = a
    BY <1>3, <1>4, ConcatEmptySeq
  <1>6. "CursorDeclareParams" \in BlockCalls /\ 0 \in Nat
    BY DEF BlockCalls
  <1>7. IsBlock(a \o e \o put_host_parameters(d) \o <<Line("CursorDeclareParams", d)>>
                    \o put_end_exec_sql(d), "CursorDeclareParams", d, 0)
    BY <1>6, BlockBuilt
  <1> HIDE DEF a, e
  <1> QED
    BY <1>5, <1>7 DEF a

LEMMA HandlerType ==
    ASSUME NEW s \in Statement
    PROVE  LET h == HandlerStatement(s)
           IN  h \in Statement /\ h.kind = "dml" /\ h.np = 0 /\ h.nr = 0 /\ h.crs = s.crs
  <1> DEFINE h == HandlerStatement(s)
  <1>1. h = [kind |-> "dml", at |-> s.at, crs |-> s.crs, q |-> "tx_end", np |-> 0, nr |-> 0]
    BY DEF HandlerStatement
  <1>2. s.at \in Names \cup {NoName} /\ s.crs \in CursorNames \cup {"none"}
    BY DEF Statement
  <1> HIDE DEF h
  <1> QED
    BY <1>1, <1>2, RuntimeAssumption DEF Statement, Kinds, h

LEMMA DeclaringType ==
    ASSUME NEW s \in Statement, s.crs \in CursorNames
    PROVE  LET d == Declaring(s)
           IN  /\ d \in Statement /\ d.kind = s.kind /\ d.nr = s.nr /\ d.crs = s.crs
               /\ d.np = Declaration[s.crs].np /\ d.np \in Nat
  <1>1. Declaration[s.crs].np \in 0..MaxVars
    BY ProgramAssumption
  <1> QED
    BY <1>1, RuntimeAssumption DEF Declaring, Statement

LEMMA PrependHandler ==
    ASSUME NEW l, NEW t, l.op \in {"whenever", "paragraph_end"}, LineOK(l), Shape(t),
           t # <<>> => Follows(l, t[1]), \A j \in 1..Len(t) : Together(l, t[j])
    PROVE  BlockThen(WithVariables("Exec", HandlerStatement(l.s)) \o t,
                     "Exec", HandlerStatement(l.s), 0, t)
  <1> DEFINE h == HandlerStatement(l.s)
  <1>1. /\ h \in Statement /\ h.kind = "dml" /\ h.np = 0 /\ h.nr = 0 /\ h.crs = l.s.crs
    <2>1. l.s \in Statement
      BY DEF LineOK, Lines
    <2> QED
      BY <2>1, HandlerType
  <1> HIDE DEF h
  <1>2. IsBlock(WithVariables("Exec", h), "Exec", h, 0)
    BY <1>1, WithVariablesBlock DEF BlockCalls
  <1>3. ASSUME NEW o \in BlockOps("Exec", h.np, 0)
        PROVE  /\ LineOK(Line(o, h))
               /\ \A j \in 1..Len(t) : Together(Line(o, h), t[j])
    <2>1. o \in {"StartSQL", "Exec", "EndSQL"}
      BY <1>1 DEF BlockOps, Sets
    <2>2. LineOK(Line(o, h))
      BY <1>1, <2>1 DEF LineOK, Line, Lines, Ops, InBlock, BlockCalls, SingleCalls, Sets,
                        CobolLines, DeclLines, Declares, DeclKinds
    <2>3. ASSUME NEW b, Together(l, b)
          PROVE  Together(Line(o, h), b)
      BY <1>1, <2>1, <2>3
         DEF Together, Line, Declares, InBlock, BlockCalls, SingleCalls, Sets, DeclKinds
    <2> QED
      BY <2>2, <2>3
  <1>4. Precedes(Line("EndSQL", h), t)
    <2>1. t = <<>> => ~Incomplete(Line("EndSQL", h))
      BY <1>1 DEF Incomplete, GoesOn, ParagraphEnds, Line, DeclKinds, Sets, BlockCalls
    <2>2. ASSUME t # <<>> PROVE Follows(Line("EndSQL", h), t[1])
      <3>1. Follows(l, t[1]) /\ Together(l, t[1])
        BY <2>2, EmptySeq, LenProperties DEF Shape
      <3>2. l.op = "paragraph_end" /\ t[1].op = "mark"
        BY <3>1 DEF Follows, Together
      <3> QED
        BY <1>1, <3>2
           DEF Follows, Line, GoesOn, ParagraphEnds, InBlock, Sets, BlockCalls, DeclKinds
    <2>3. "EndSQL" \in BlockOps("Exec", h.np, 0)
      BY DEF BlockOps
    <2> QED
      BY <1>3, <2>1, <2>2, <2>3 DEF Precedes
  <1>5. BlockPrecedes("Exec", h, 0, t)
    BY <1>3, <1>4 DEF BlockPrecedes
  <1>6. "Exec" \in BlockCalls /\ 0 \in 0..h.nr
    BY <1>1 DEF BlockCalls
  <1> QED
    BY <1>1, <1>2, <1>5, <1>6, PrependBlock DEF h

\* The paragraph that declares a cursor, put before what is left of the statement.
LEMMA PrependParagraph ==
    ASSUME NEW l, NEW t, l.op \in {"check", "check_reset"}, LineOK(l), Shape(t),
           t # <<>> => Follows(l, t[1]), \A j \in 1..Len(t) : Together(l, t[j])
    PROVE  LET d == Declaring(l.s)
               u == InitParagraph(d) \o <<Line("mark", l.s)>> \o t
           IN  /\ Shape(u)
               /\ u # <<>>
               /\ u[1].op \in {"StartSQL", "CursorDeclare"}
               /\ u[1].s = d
               /\ d.crs = l.s.crs /\ d.kind = l.s.kind
  <1> DEFINE s == l.s
             d == Declaring(s)
             m == Line("mark", s)
             p == Line("paragraph_end", d)
             c == Line("CursorDeclare", d)
             v1 == <<m>> \o t
             v2 == <<p>> \o v1
  <1>1. s \in Statement /\ s.kind \in DeclKinds /\ s.crs \in CursorNames
        /\ (l.op = "check" => s.kind = "open")
    BY DEF LineOK, Lines, DeclLines, DeclKinds
  <1>2. /\ d \in Statement /\ d.kind = s.kind /\ d.nr = s.nr /\ d.crs = s.crs
        /\ d.np = Declaration[s.crs].np /\ d.np \in Nat
    BY <1>1, DeclaringType
  <1>0. d.kind # "execute"
    BY <1>1, <1>2 DEF DeclKinds
  <1>3. \A j \in 1..Len(t) : /\ t[j].op \in {"CursorOpen", "whenever"} /\ t[j].s = s
                             /\ s.kind = "open"
    BY <1>1 DEF Together
  <1>4. t \in Seq(Lines) /\ Len(t) \in Nat /\ (t # <<>> => Len(t) > 0)
    BY EmptySeq, LenProperties DEF Shape
  <1> HIDE DEF s, d
  <1>5. ASSUME NEW o \in {"mark", "paragraph_end", "StartSQL", "SetSQLParams", "EndSQL",
                          "CursorDeclare", "CursorDeclareParams"},
               o \in {"CursorDeclareParams", "EndSQL"} => d.np > 0
        PROVE  LineOK(Line(o, d))
    BY <1>1, <1>2, <1>5 DEF LineOK, Line, Lines, Ops, InBlock, BlockCalls, SingleCalls, Sets,
             CobolLines, DeclLines, Declares, DeclKinds, Counting
  <1>6. LineOK(m)
    BY <1>1 DEF LineOK, Line, Lines, Ops, InBlock, BlockCalls, SingleCalls, Sets,
             CobolLines, DeclLines, Declares, DeclKinds, Counting
  <1>7. Precedes(m, t)
    <2>1. ~Incomplete(m)
      BY DEF Incomplete, GoesOn, ParagraphEnds, Line, Sets, BlockCalls
    <2>2. ASSUME t # <<>> PROVE Follows(m, t[1])
      <3>1. t[1].op = "CursorOpen"
        <4>1. 1 \in 1..Len(t)
          BY <1>4, <2>2
        <4> QED
          BY <1>3, <2>2, <4>1 DEF Follows, SingleCalls
      <3> QED
        BY <3>1 DEF Follows, Line, GoesOn, ParagraphEnds, InBlock, Sets, BlockCalls, DeclKinds
    <2>3. \A j \in 1..Len(t) : Together(m, t[j])
      BY <1>3 DEF Together, Line, Declares, InBlock, Sets, BlockCalls, DeclKinds
    <2> QED
      BY <2>1, <2>2, <2>3 DEF Precedes
  <1>8. m.op = "mark" /\ m.s = s /\ p.op = "paragraph_end" /\ p.s = d
        /\ c.op = "CursorDeclare" /\ c.s = d
    BY DEF Line
  <1> HIDE DEF m, p, c
  <1>9. /\ Shape(v1) /\ v1 \in Seq(Lines) /\ Len(v1) = Len(t) + 1 /\ v1[1] = m
        /\ \A i \in 1..Len(t) : v1[i + 1] = t[i]
    <2>1. m.op \notin Sets
      BY <1>8 DEF Sets
    <2> QED
      BY <1>6, <1>7, <2>1, PrependLine
  <1> HIDE DEF v1
  <1>10. /\ v1 # <<>>
         /\ \A j \in 1..Len(v1) : \/ v1[j] = m
                                  \/ v1[j].op \in {"CursorOpen", "whenever"} /\ v1[j].s = s
                                     /\ s.kind = "open"
    <2>1. v1 # <<>>
      BY <1>4, <1>9, EmptySeq
    <2>2. ASSUME NEW j \in 1..Len(v1), j # 1
          PROVE  \E i \in 1..Len(t) : v1[j] = t[i]
      <3>1. j - 1 \in 1..Len(t) /\ (j - 1) + 1 = j
        BY <1>4, <1>9, <2>2
      <3> QED
        BY <1>9, <3>1
    <2> QED
      BY <1>3, <1>9, <2>1, <2>2
  <1>11. Precedes(p, v1)
    <2>1. Follows(p, m)
      BY <1>8 DEF Follows, GoesOn, ParagraphEnds, InBlock, Sets, BlockCalls, DeclKinds
    <2>2. \A j \in 1..Len(v1) : Together(p, v1[j])
      BY <1>2, <1>8, <1>10, <1>1 DEF Together, Declares, InBlock, Sets, BlockCalls, DeclKinds
    <2> QED
      BY <1>9, <1>10, <2>1, <2>2 DEF Precedes
  <1>12. /\ Shape(v2) /\ v2 \in Seq(Lines) /\ Len(v2) = Len(v1) + 1 /\ v2[1] = p
         /\ \A i \in 1..Len(v1) : v2[i + 1] = v1[i]
    <2>1. p.op \notin Sets /\ LineOK(p)
      BY <1>5, <1>8 DEF Sets, p
    <2> QED
      BY <1>9, <1>11, <2>1, PrependLine
  <1> HIDE DEF v2
  <1>13. Len(v1) \in Nat
    BY <1>4, <1>9
  <1>14. /\ v2 # <<>>
         /\ \A j \in 1..Len(v2) : \/ v2[j] \in {p, m}
                                  \/ v2[j].op \in {"CursorOpen", "whenever"} /\ v2[j].s = s
                                     /\ s.kind = "open"
    <2>1. v2 # <<>>
      BY <1>12, <1>13, EmptySeq
    <2>2. ASSUME NEW j \in 1..Len(v2), j # 1
          PROVE  \E i \in 1..Len(v1) : v2[j] = v1[i]
      <3>1. j - 1 \in 1..Len(v1) /\ (j - 1) + 1 = j
        BY <1>12, <1>13, <2>2
      <3> QED
        BY <1>12, <3>1
    <2> QED
      BY <1>10, <1>12, <2>1, <2>2
  <1>15. ASSUME NEW b, \/ b \in {p, m}
                       \/ b.op \in {"CursorOpen", "whenever"} /\ b.s = s /\ s.kind = "open",
                NEW o \in {"StartSQL", "SetSQLParams", "EndSQL",
                          "CursorDeclare", "CursorDeclareParams"}
         PROVE  Together(Line(o, d), b)
    <2>1. b.op \in {"CursorOpen", "whenever", "mark", "paragraph_end"} /\ b.s.kind = s.kind
          /\ b.s.crs = s.crs /\ (b.op \in {"CursorOpen", "whenever"} => s.kind = "open")
      BY <1>2, <1>8, <1>15
    <2>2. Line(o, d).op = o /\ Line(o, d).s = d
      BY DEF Line
    <2> QED
      BY <1>1, <1>2, <2>1, <2>2
         DEF Together, Declares, InBlock, BlockCalls, SingleCalls, Sets, DeclKinds
  <1>16. InitParagraph(d) \o <<m>> \o t = IF d.np > 0
                                          THEN put_start_exec_sql(d) \o put_host_parameters(d)
                                                   \o <<Line("CursorDeclareParams", d)>>
                                                   \o put_end_exec_sql(d) \o v2
                                          ELSE <<c>> \o v2
    <2> DEFINE b == put_start_exec_sql(d) \o put_host_parameters(d)
                        \o <<Line("CursorDeclareParams", d)>> \o put_end_exec_sql(d)
    <2>1. b \in Seq(Lines)
      BY <1>0, <1>2, DeclareBlock DEF IsBlock
    <2>2. m \in Lines /\ p \in Lines /\ c \in Lines
      BY <1>5, <1>6 DEF LineOK, p, c
    <2>3. <<m>> \in Seq(Lines) /\ <<p>> \in Seq(Lines) /\ <<c>> \in Seq(Lines)
      BY <2>2
    <2> HIDE DEF b
    <2>4. ASSUME NEW a \in Seq(Lines)
          PROVE  ((a \o <<p>>) \o <<m>>) \o t = a \o v2
      <3> DEFINE x == <<p>>
                 y == <<m>>
      <3>1. x \in Seq(Lines) /\ y \in Seq(Lines)
        BY <2>3
      <3> HIDE DEF x, y
      <3>2. a \o x \in Seq(Lines) /\ y \o t \in Seq(Lines)
        BY <1>4, <3>1, ConcatProperties
      <3>3. ((a \o x) \o y) \o t = (a \o x) \o (y \o t)
        BY SMTT(40), <1>4, <3>1, <3>2, ConcatAssociative
      <3>4. (a \o x) \o (y \o t) = a \o (x \o (y \o t))
        <4> DEFINE z == y \o t
        <4>1. z \in Seq(Lines)
          BY <3>2
        <4> HIDE DEF z
        <4>2. (a \o x) \o z = a \o (x \o z)
          BY SMTT(40), <3>1, <4>1, ConcatAssociative
        <4> QED
          BY <4>2 DEF z
      <3> QED
        BY <3>3, <3>4 DEF x, y, v1, v2
    <2>5. CASE d.np > 0
      <3>1. InitParagraph(d) = b \o <<p>>
        BY <2>5 DEF InitParagraph, b, p
      <3> QED
        BY <2>1, <2>4, <2>5, <3>1 DEF b
    <2>6. CASE ~(d.np > 0)
      <3>1. InitParagraph(d) = <<c, p>>
        BY <2>6 DEF InitParagraph, c, p
      <3>2. <<c, p>> = <<c>> \o <<p>>
        OBVIOUS
      <3> QED
        BY <2>3, <2>4, <2>6, <3>1, <3>2
    <2> QED
      BY <2>5, <2>6
  <1>17. CASE d.np > 0
    <2> DEFINE b == put_start_exec_sql(d) \o put_host_parameters(d)
                        \o <<Line("CursorDeclareParams", d)>> \o put_end_exec_sql(d)
               op == "CursorDeclareParams"
               u == b \o v2
    <2>1. IsBlock(b, op, d, 0)
      BY <1>0, <1>2, DeclareBlock
    <2> HIDE DEF b
    <2>2. ASSUME NEW o \in BlockOps(op, d.np, 0)
          PROVE  LineOK(Line(o, d)) /\ \A j \in 1..Len(v2) : Together(Line(o, d), v2[j])
      <3>1. o \in {"StartSQL", "SetSQLParams", "EndSQL", "CursorDeclareParams"}
        BY DEF BlockOps, Sets
      <3> QED
        BY <1>5, <1>14, <1>15, <1>17, <3>1
    <2>3. Precedes(Line("EndSQL", d), v2)
      <3>1. Follows(Line("EndSQL", d), p)
        BY <1>1, <1>2, <1>8
           DEF Follows, Line, GoesOn, ParagraphEnds, InBlock, Sets, BlockCalls, DeclKinds
      <3>2. \A j \in 1..Len(v2) : Together(Line("EndSQL", d), v2[j])
        BY <1>14, <1>15
      <3> QED
        BY <1>12, <1>14, <3>1, <3>2 DEF Precedes
    <2>4. BlockPrecedes(op, d, 0, v2)
      BY <2>2, <2>3 DEF BlockPrecedes
    <2>5. op \in BlockCalls /\ 0 \in 0..d.nr
      BY <1>2, RuntimeAssumption DEF BlockCalls, Statement
    <2>6. BlockThen(u, op, d, 0, v2)
      BY <1>2, <1>12, <2>1, <2>4, <2>5, PrependBlock
    <2>7. InitParagraph(d) \o <<m>> \o t = u
      BY <1>16, <1>17 DEF b
    <2> HIDE DEF u
    <2>8. Shape(u) /\ Len(u) > 0 /\ u[1] = Line("StartSQL", d)
      BY <1>2, <1>12, <1>13, <2>6 DEF BlockThen, BlockOp, RunOp
    <2>9. u # <<>>
      BY <2>8
    <2>10. Line("StartSQL", d).op = "StartSQL" /\ Line("StartSQL", d).s = d
      BY DEF Line
    <2> QED
      BY <1>2, <2>7, <2>8, <2>9, <2>10 DEF m, d, s
  <1>18. CASE ~(d.np > 0)
    <2> DEFINE u == <<c>> \o v2
    <2>1. c.op \notin Sets /\ LineOK(c)
      BY <1>5, <1>8 DEF Sets, c
    <2>2. Follows(c, p)
      BY <1>8 DEF Follows, GoesOn, ParagraphEnds, InBlock, Sets, BlockCalls, DeclKinds
    <2>3. \A j \in 1..Len(v2) : Together(c, v2[j])
      BY <1>14, <1>15 DEF c
    <2>4. Precedes(c, v2)
      BY <1>12, <1>14, <2>2, <2>3 DEF Precedes
    <2>5. Shape(u) /\ u \in Seq(Lines) /\ Len(u) = Len(v2) + 1 /\ u[1] = c
      BY <1>12, <2>1, <2>4, PrependLine
    <2>6. InitParagraph(d) \o <<m>> \o t = u
      BY <1>16, <1>18
    <2> HIDE DEF u
    <2>7. u # <<>>
      BY <1>12, <1>13, <2>5, EmptySeq
    <2> QED
      BY <1>2, <1>8, <2>5, <2>6, <2>7 DEF m, d, s
  <1> QED
    BY <1>17, <1>18

---------------------------------------------------------------------------
(* What the runtime call of a line does.                                   *)

LEMMA LineArguments ==
    ASSUME NEW l, LineOK(l)
    PROVE  /\ l.s.at \in Names \cup {NoName} /\ l.s.q \in Queries
           /\ l.s.np \in 0..MaxVars /\ l.s.nr \in 0..MaxVars
           /\ l.op \in Declares \cup {"CursorOpen", "CursorFetchOne", "CursorClose"} =>
                 l.s.crs \in CursorNames
  BY DEF LineOK, Lines, Statement, Queries, DeclLines, DeclKinds

LEMMA DeclarationArguments ==
    ASSUME NEW x \in CursorNames
    PROVE  LET d == Declaration[x]
           IN  d.at \in Names \cup {NoName} /\ d.host \in BOOLEAN /\ d.hold \in BOOLEAN
               /\ d.np \in 0..MaxVars
  BY ProgramAssumption, RuntimeAssumption

\* The calls a line can stand for.
LEMMA CallCases ==
    ASSUME NEW l, RuntimeCall(l.op, l.s)
    PROVE  /\ l.op \in {"StartSQL", "EndSQL"} => GIXSQLStartSQL
           /\ l.op = "SetSQLParams" => GIXSQLSetSQLParams
           /\ l.op = "SetResultParams" => GIXSQLSetResultParams
           /\ l.op = "ConnectResetAll" => ResetAllBegin
           /\ l.op = "Connect" => GIXSQLConnect(l.s.at)
           /\ l.op = "ConnectReset" => GIXSQLConnectReset(l.s.at)
           /\ l.op = "Exec" => GIXSQLExec(l.s.at, l.s.q)
           /\ l.op = "ExecImmediate" => \E q \in Queries : GIXSQLExec(l.s.at, q)
           /\ l.op = "ExecParams" => GIXSQLExecParams(l.s.at, l.s.q, l.s.np)
           /\ l.op = "ExecSelectIntoOne" =>
                 GIXSQLExecSelectIntoOne(l.s.at, l.s.q, l.s.nr)
           /\ l.op = "PrepareStatement" =>
                 \E q \in {"empty", "other"} : GIXSQLPrepareStatement(l.s.at, q)
           /\ l.op = "ExecPrepared" => GIXSQLExecPrepared(l.s.at, l.s.q, l.s.np)
           /\ l.op = "ExecPreparedInto" =>
                 GIXSQLExecPreparedInto(l.s.at, l.s.q, l.s.np, l.s.nr)
           /\ l.op = "CursorDeclare" =>
                 GIXSQLCursorDeclare(l.s.crs, Declaration[l.s.crs].at, Declaration[l.s.crs].host,
                                 Declaration[l.s.crs].hold, "other")
           /\ l.op = "CursorDeclareParams" =>
                 GIXSQLCursorDeclareParams(l.s.crs, Declaration[l.s.crs].at,
                                       Declaration[l.s.crs].host, Declaration[l.s.crs].hold,
                                       "other", Declaration[l.s.crs].np)
           /\ l.op = "CursorOpen" => \E hv \in AtNames : GIXSQLCursorOpen(l.s.crs, hv)
           /\ l.op = "CursorFetchOne" => GIXSQLCursorFetchOne(l.s.crs)
           /\ l.op = "CursorClose" => GIXSQLCursorClose(l.s.crs)
  <1>1. ASSUME l.op \in {"StartSQL", "EndSQL"}
        PROVE  GIXSQLStartSQL
    BY <1>1 DEF RuntimeCall
  <1>2. ASSUME l.op = "SetSQLParams"
        PROVE  GIXSQLSetSQLParams
    BY <1>2 DEF RuntimeCall
  <1>3. ASSUME l.op = "SetResultParams"
        PROVE  GIXSQLSetResultParams
    BY <1>3 DEF RuntimeCall
  <1>4. ASSUME l.op = "ConnectResetAll"
        PROVE  ResetAllBegin
    BY <1>4 DEF RuntimeCall
  <1>5. ASSUME l.op = "Connect"
        PROVE  GIXSQLConnect(l.s.at)
    BY <1>5 DEF RuntimeCall
  <1>6. ASSUME l.op = "ConnectReset"
        PROVE  GIXSQLConnectReset(l.s.at)
    BY <1>6 DEF RuntimeCall
  <1>7. ASSUME l.op = "Exec"
        PROVE  GIXSQLExec(l.s.at, l.s.q)
    BY <1>7 DEF RuntimeCall
  <1>8. ASSUME l.op = "ExecImmediate"
        PROVE  \E q \in Queries : GIXSQLExec(l.s.at, q)
    BY <1>8 DEF RuntimeCall
  <1>9. ASSUME l.op = "ExecParams"
        PROVE  GIXSQLExecParams(l.s.at, l.s.q, l.s.np)
    BY <1>9 DEF RuntimeCall
  <1>10. ASSUME l.op = "ExecSelectIntoOne"
        PROVE  GIXSQLExecSelectIntoOne(l.s.at, l.s.q, l.s.nr)
    BY <1>10 DEF RuntimeCall
  <1>11. ASSUME l.op = "PrepareStatement"
        PROVE  \E q \in {"empty", "other"} : GIXSQLPrepareStatement(l.s.at, q)
    BY <1>11 DEF RuntimeCall
  <1>12. ASSUME l.op = "ExecPrepared"
        PROVE  GIXSQLExecPrepared(l.s.at, l.s.q, l.s.np)
    BY <1>12 DEF RuntimeCall
  <1>13. ASSUME l.op = "ExecPreparedInto"
        PROVE  GIXSQLExecPreparedInto(l.s.at, l.s.q, l.s.np, l.s.nr)
    BY <1>13 DEF RuntimeCall
  <1>14. ASSUME l.op = "CursorDeclare"
        PROVE  GIXSQLCursorDeclare(l.s.crs, Declaration[l.s.crs].at, Declaration[l.s.crs].host,
                                 Declaration[l.s.crs].hold, "other")
    BY <1>14 DEF RuntimeCall
  <1>15. ASSUME l.op = "CursorDeclareParams"
        PROVE  GIXSQLCursorDeclareParams(l.s.crs, Declaration[l.s.crs].at,
                                       Declaration[l.s.crs].host, Declaration[l.s.crs].hold,
                                       "other", Declaration[l.s.crs].np)
    BY <1>15 DEF RuntimeCall
  <1>16. ASSUME l.op = "CursorOpen"
        PROVE  \E hv \in AtNames : GIXSQLCursorOpen(l.s.crs, hv)
    BY <1>16 DEF RuntimeCall
  <1>17. ASSUME l.op = "CursorFetchOne"
        PROVE  GIXSQLCursorFetchOne(l.s.crs)
    BY <1>17 DEF RuntimeCall
  <1>18. ASSUME l.op = "CursorClose"
        PROVE  GIXSQLCursorClose(l.s.crs)
    BY <1>18 DEF RuntimeCall
  <1> QED
    BY <1>1, <1>2, <1>3, <1>4, <1>5, <1>6, <1>7, <1>8, <1>9,
       <1>10, <1>11, <1>12, <1>13, <1>14, <1>15, <1>16, <1>17, <1>18

\* The call of a line is one of the calls of libgixsql.
LEMMA LineCall ==
    ASSUME NEW l, LineOK(l), l.op \notin CobolLines, RuntimeCall(l.op, l.s)
    PROVE  AnyCall
  <1> DEFINE at == l.s.at
             x == l.s.crs
             d == Declaration[x]
  <1>1. /\ at \in Names \cup {NoName} /\ l.s.q \in Queries
        /\ l.s.np \in 0..MaxVars /\ l.s.nr \in 0..MaxVars /\ 0 \in 0..MaxVars
        /\ l.op \in Declares \cup {"CursorOpen", "CursorFetchOne", "CursorClose"} =>
              x \in CursorNames
    BY LineArguments, RuntimeAssumption
  <1>2. l.op \in Ops \ CobolLines
    BY DEF LineOK, Lines
  <1>3. CASE l.op \in {"StartSQL", "EndSQL", "SetSQLParams", "SetResultParams", "ConnectResetAll"}
    BY <1>3, CallCases DEF AnyCall
  <1>4. CASE l.op \in {"Connect", "ConnectReset"}
    BY <1>1, <1>4, CallCases DEF AnyCall
  <1>5. CASE l.op \in {"Exec", "ExecParams", "ExecPrepared", "ExecSelectIntoOne", "ExecPreparedInto"}
    <2>1. \/ GIXSQLExec(at, l.s.q)
          \/ GIXSQLExecParams(at, l.s.q, l.s.np)
          \/ GIXSQLExecPrepared(at, l.s.q, l.s.np)
          \/ GIXSQLExecSelectIntoOne(at, l.s.q, l.s.nr)
          \/ GIXSQLExecPreparedInto(at, l.s.q, l.s.np, l.s.nr)
      BY <1>5, CallCases
    <2> QED
      BY <1>1, <2>1 DEF AnyCall
  <1>6. CASE l.op \in {"ExecImmediate", "PrepareStatement"}
    <2>1. \E q \in Queries : GIXSQLExec(at, q) \/ GIXSQLPrepareStatement(at, q)
      BY <1>6, CallCases DEF Queries
    <2> QED
      BY <1>1, <2>1 DEF AnyCall
  <1>7. CASE l.op \in Declares
    <2>1. /\ d.at \in Names \cup {NoName} /\ d.host \in BOOLEAN /\ d.hold \in BOOLEAN
          /\ d.np \in 0..MaxVars
      BY <1>1, <1>7, DeclarationArguments
    <2>2. \/ GIXSQLCursorDeclare(x, d.at, d.host, d.hold, "other")
          \/ GIXSQLCursorDeclareParams(x, d.at, d.host, d.hold, "other", d.np)
      BY <1>7, CallCases DEF Declares
    <2>3. "other" \in Queries
      BY DEF Queries
    <2> HIDE DEF d
    <2> QED
      BY <1>1, <1>7, <2>1, <2>2, <2>3 DEF AnyCall
  <1>8. CASE l.op \in {"CursorOpen", "CursorFetchOne", "CursorClose"}
    <2>1. \E hv \in Names \cup {NoName} :
             \/ GIXSQLCursorOpen(x, hv)
             \/ GIXSQLCursorFetchOne(x)
             \/ GIXSQLCursorClose(x)
      BY <1>8, CallCases, RuntimeAssumption
    <2> QED
      BY <1>1, <1>8, <2>1 DEF AnyCall
  <1> QED
    BY <1>2, <1>3, <1>4, <1>5, <1>6, <1>7, <1>8
       DEF Ops, InBlock, BlockCalls, SingleCalls, Sets, CobolLines, Declares

\* StartSQL and EndSQL empty the lists.
LEMMA ClearEffect ==
    ASSUME NEW l, RuntimeCall(l.op, l.s), l.op \in {"StartSQL", "EndSQL"}
    PROVE  Ready /\ cur_vars' = 0 /\ res_vars' = 0 /\ UNCHANGED <<curVars, resetting, sqlcode>>
  BY CallCases DEF GIXSQLStartSQL, VarListCall, Return, loopVars

\* A parameter is added to its list or refused.
LEMMA ParamEffect ==
    ASSUME NEW l, RuntimeCall(l.op, l.s), l.op = "SetSQLParams"
    PROVE  /\ Ready /\ UNCHANGED <<curVars, resetting, sqlcode, res_vars>>
           /\ cur_vars' = cur_vars + 1 \/ cur_vars' = cur_vars
           /\ ret'.rc = "FAILED" => cur_vars' = cur_vars
  BY CallCases DEF GIXSQLSetSQLParams, VarListCall, Return, loopVars

LEMMA ResultEffect ==
    ASSUME NEW l, RuntimeCall(l.op, l.s), l.op = "SetResultParams"
    PROVE  /\ Ready /\ UNCHANGED <<curVars, resetting, sqlcode, cur_vars>>
           /\ res_vars' = res_vars + 1 \/ res_vars' = res_vars
  BY CallCases DEF GIXSQLSetResultParams, VarListCall, Return, loopVars

\* A statement leaves the lists and the set of the cursors alone.
LEMMA ExecEffect ==
    ASSUME NEW l, RuntimeCall(l.op, l.s),
           l.op \in {"Exec", "ExecParams", "ExecSelectIntoOne", "ExecPrepared",
                     "ExecPreparedInto", "ExecImmediate", "PrepareStatement"}
    PROVE  Ready /\ UNCHANGED <<varLists, resetting, cursors>>
  <1>1. ASSUME NEW n, NEW q, NEW nParams, NEW nRes,
               \/ GIXSQLExec(n, q)
               \/ GIXSQLExecParams(n, q, nParams)
               \/ GIXSQLExecPrepared(n, q, nParams)
               \/ GIXSQLExecSelectIntoOne(n, q, nRes)
               \/ GIXSQLExecPreparedInto(n, q, nParams, nRes)
               \/ GIXSQLPrepareStatement(n, q)
        PROVE  Ready /\ UNCHANGED <<varLists, resetting, cursors>>
    BY <1>1
       DEF GIXSQLExec, GIXSQLExecParams, GIXSQLExecPrepared, GIXSQLExecSelectIntoOne,
           GIXSQLExecPreparedInto, GIXSQLPrepareStatement, StatementRejected, Run,
           RunInto, StateUnchanged, loopVars, curVars
  <1> QED
    BY <1>1, CallCases

LEMMA CursorEffect ==
    ASSUME NEW l, RuntimeCall(l.op, l.s), l.op \in {"CursorOpen", "CursorFetchOne", "CursorClose"}
    PROVE  Ready /\ UNCHANGED <<varLists, resetting, cursors>>
  <1>1. ASSUME NEW x, NEW hv,
               GIXSQLCursorOpen(x, hv) \/ GIXSQLCursorFetchOne(x) \/ GIXSQLCursorClose(x)
        PROVE  Ready /\ UNCHANGED <<varLists, resetting, cursors>>
    BY <1>1
       DEF GIXSQLCursorOpen, GIXSQLCursorFetchOne, GIXSQLCursorClose, NoSuchCursor,
           StateUnchanged, loopVars, curVars
  <1> QED
    BY <1>1, CallCases

\* Connecting adds no cursor, disconnecting removes some.
LEMMA ConnectEffect ==
    ASSUME NEW l, RuntimeCall(l.op, l.s), l.op \in {"Connect", "ConnectReset", "ConnectResetAll"}
    PROVE  /\ Ready /\ UNCHANGED varLists /\ cursors' \subseteq cursors
           /\ l.op # "ConnectResetAll" => UNCHANGED resetting
  <1>1. ASSUME NEW n, GIXSQLConnect(n)
        PROVE  Ready /\ UNCHANGED <<varLists, resetting, cursors>>
    BY <1>1
       DEF GIXSQLConnect, ConnectDuplicate, ConnectFails, ConnectNoLibrary, ConnectOk,
           StateUnchanged, loopVars, curVars
  <1>2. ASSUME NEW n, GIXSQLConnectReset(n)
        PROVE  Ready /\ UNCHANGED <<varLists, resetting>> /\ cursors' \subseteq cursors
    BY <1>2
       DEF GIXSQLConnectReset, ResetNotFound, ResetFails, ResetOk, clearConnectionCursors,
           loopVars, curVars
  <1>3. ASSUME ResetAllBegin
        PROVE  Ready /\ UNCHANGED <<varLists, cursors>>
    BY <1>3 DEF ResetAllBegin, curVars
  <1> QED
    BY <1>1, <1>2, <1>3, CallCases

\* A declaration that succeeds adds its cursor, one that fails is reported.
LEMMA DeclareEffect ==
    ASSUME StateInv, NEW l, LineOK(l), RuntimeCall(l.op, l.s), l.op \in Declares
    PROVE  /\ Ready /\ UNCHANGED <<varLists, resetting>>
           /\ \/ cursors' = cursors /\ sqlcode' # "zero"
              \/ cursors' = cursors \cup {l.s.crs} /\ sqlcode' = "zero"
           /\ l.op = "CursorDeclareParams" /\ cur_vars < l.s.np => sqlcode' # "zero"
  <1> DEFINE x == l.s.crs
             d == Declaration[x]
             F == cursors' = cursors /\ sqlcode' # "zero"
             G == cursors' = cursors \cup {x} /\ sqlcode' = "zero"
  <1>1. x \in CursorNames
    BY LineArguments
  <1>2. d.at \in Names \cup {NoName}
    BY <1>1, DeclarationArguments
  <1>3. get(d.at) \in ConnIds \cup {NoConn}
    BY <1>2, GetType
  <1> HIDE DEF d
  <1>4. ASSUME NEW err \in Errors, Fail("cursor", get(d.at), err)
        PROVE  sqlcode' # "zero"
    BY <1>4, StatusError, ErrorsAreErrors DEF Fail, Return, NoDbi
  <1>5. ASSUME NEW err, err = DBERR_NO_ERROR \/ err \in Errors, DeclareRejected(d.at, err)
        PROVE  F
    BY <1>4, <1>5 DEF DeclareRejected, curVars
  <1>6. ASSUME Declare(x, d.at, d.host, d.hold)
        PROVE  F \/ G
    <2>1. DBERR_CURSOR_EXISTS \in Errors /\ DBERR_DECLARE_CURSOR_FAILED \in Errors
      BY DEF Errors
    <2> QED
      BY <1>4, <1>6, <2>1, StatusOk DEF Declare, curVars, Succeed, Return
  <1>7. DBERR_EMPTY_QUERY \in Errors /\ DBERR_NO_PARAMETERS \in Errors
    BY DEF Errors
  <1>8. CASE l.op = "CursorDeclare"
    <2>1. GIXSQLCursorDeclare(x, d.at, d.host, d.hold, "other")
      BY <1>8, CallCases DEF d
    <2> QED
      BY <1>5, <1>6, <1>7, <1>8, <2>1 DEF GIXSQLCursorDeclare, loopVars
  <1>9. CASE l.op = "CursorDeclareParams"
    <2>1. GIXSQLCursorDeclareParams(x, d.at, d.host, d.hold, "other", l.s.np) /\ l.s.np > 0
      BY <1>9, CallCases DEF LineOK, d
    <2>2. ParamError(l.s.np) = DBERR_NO_ERROR \/ ParamError(l.s.np) \in Errors
      BY ParamErrors
    <2>3. F \/ (G /\ ParamError(l.s.np) = DBERR_NO_ERROR)
      BY <1>5, <1>6, <1>7, <2>1, <2>2 DEF GIXSQLCursorDeclareParams
    <2>4. Ready /\ UNCHANGED <<varLists, resetting>>
      BY <2>1 DEF GIXSQLCursorDeclareParams, loopVars
    <2>5. cur_vars < l.s.np => ParamError(l.s.np) # DBERR_NO_ERROR
      BY DEF ParamError, DBERR_TOO_FEW_ARGUMENTS, DBERR_TOO_MANY_ARGUMENTS, DBERR_NO_ERROR
    <2> QED
      BY <1>9, <2>3, <2>4, <2>5
  <1> QED
    BY <1>8, <1>9 DEF Declares

\* A call that counts its parameters reports a missing one.
LEMMA CountEffect ==
    ASSUME StateInv, NEW l, LineOK(l), RuntimeCall(l.op, l.s), l.op \in Counting,
           cur_vars < l.s.np
    PROVE  sqlcode' # "zero"
  <1> DEFINE c == get(l.s.at)
             err == ParamError(l.s.np)
  <1>1. err # DBERR_NO_ERROR /\ err \in Errors
    <2>1. err # DBERR_NO_ERROR
      BY DEF ParamError, DBERR_TOO_FEW_ARGUMENTS, DBERR_TOO_MANY_ARGUMENTS, DBERR_NO_ERROR
    <2> QED
      BY <2>1, ParamErrors
  <1> HIDE DEF err
  <1>2. ASSUME NEW n, NEW e \in Errors, Fail("exec", n, e)
        PROVE  sqlcode' # "zero"
    BY <1>2, StatusError, ErrorsAreErrors DEF Fail, Return, NoDbi
  <1>3. ASSUME NEW q, StatementRejected("exec", c, q, err)
        PROVE  sqlcode' # "zero"
    <2>1. DBERR_CONN_NOT_FOUND \in Errors /\ DBERR_EMPTY_QUERY \in Errors
      BY DEF Errors
    <2> QED
      BY <1>1, <1>2, <1>3, <2>1 DEF StatementRejected
  <1>4. ASSUME NEW q, StatementAccepted(c, q, err)
        PROVE  FALSE
    BY <1>1, <1>4 DEF StatementAccepted
  <1>5. CASE l.op = "CursorDeclareParams"
    BY <1>5, DeclareEffect DEF Declares
  <1>6. CASE l.op # "CursorDeclareParams"
    <2>1. \/ GIXSQLExecParams(l.s.at, l.s.q, l.s.np)
          \/ GIXSQLExecPrepared(l.s.at, l.s.q, l.s.np)
          \/ GIXSQLExecPreparedInto(l.s.at, l.s.q, l.s.np, l.s.nr)
      BY <1>6, CallCases DEF Counting
    <2> QED
      BY <1>3, <1>4, <2>1 DEF GIXSQLExecParams, GIXSQLExecPrepared, GIXSQLExecPreparedInto,
                             Run, RunInto, err
  <1> QED
    BY <1>5, <1>6

\* OPEN leaves SQLCODE zero only when the cursor is registered and open.
LEMMA OpenEffect ==
    ASSUME StateInv, NEW l, LineOK(l), RuntimeCall(l.op, l.s), l.op = "CursorOpen",
           sqlcode' = "zero"
    PROVE  l.s.crs \in cursors /\ l.s.crs \in cursors' /\ cursor'[l.s.crs].open
  <1> DEFINE x == l.s.crs
  <1>1. x \in CursorNames
    BY LineArguments
  <1>2. PICK hv \in AtNames : GIXSQLCursorOpen(x, hv)
    BY CallCases
  <1>3. ASSUME NEW c, NEW e \in Errors, Fail("cursor", c, e) \/ DriverFail("cursor", c, e)
        PROVE  FALSE
    BY <1>3, StatusError, ErrorsAreErrors, RuntimeAssumption
       DEF Fail, DriverFail, Return, NoDbi
  <1>4. /\ DBERR_NO_SUCH_CURSOR \in Errors /\ DBERR_CONN_NOT_FOUND \in Errors
        /\ DBERR_DECLARE_CURSOR_FAILED \in Errors /\ DBERR_CLOSE_CURSOR_FAILED \in Errors
        /\ DBERR_OPEN_CURSOR_FAILED \in Errors
    BY DEF Errors
  <1>5. ~NoSuchCursor(x)
    BY <1>3, <1>4 DEF NoSuchCursor
  <1>6. /\ x \in cursors /\ cursors' = cursors
        /\ OpenOk(x, OpenConnection(x, hv))
    BY <1>2, <1>3, <1>4, <1>5
       DEF GIXSQLCursorOpen, OpenDeclareFails, OpenCloseFails, OpenFails
  <1>7. cursor[x] \in Cursor /\ cursor \in [CursorNames -> Cursor]
    BY <1>1 DEF StateInv, CurTypeOK
  <1> QED
    BY <1>1, <1>6, <1>7 DEF OpenOk, Bound, Cursor

---------------------------------------------------------------------------
(* A step that goes on to the next line.                                   *)

LEMMA NextLine ==
    ASSUME Shape(todo), todo # <<>>, todo' = Tail(todo)
    PROVE  /\ Shape(todo')
           /\ Head(todo) = First
           /\ LineOK(First)
           /\ Len(todo) \in Nat \ {0}
           /\ Len(todo') = Len(todo) - 1
           /\ todo' = <<>> <=> Len(todo') = 0
           /\ todo' = <<>> => ~Incomplete(First)
           /\ todo' # <<>> => Follows(First, First') /\ LineOK(First') /\ 1 \in 1..Len(todo')
           /\ \A i \in 1..Len(todo') : /\ i + 1 \in 1..Len(todo) /\ todo'[i] = todo[i + 1]
                                       /\ Together(First, todo'[i])
                                       /\ LineOK(todo'[i])
  <1>1. /\ Shape(todo')
        /\ Len(todo) \in Nat \ {0}
        /\ Head(todo) = todo[1]
        /\ Len(todo') = Len(todo) - 1
        /\ todo' # <<>> <=> Len(todo) > 1
        /\ \A i \in 1..Len(todo') : todo'[i] = todo[i + 1]
    BY TailShape
  <1>2. 1 \in 1..Len(todo)
    BY <1>1
  <1>3. \A i \in 1..Len(todo') : /\ i + 1 \in 1..Len(todo) /\ 1 < i + 1
                                 /\ todo'[i] = todo[i + 1]
    BY <1>1
  <1>4. \A i \in 1..Len(todo') : Together(First, todo'[i])
    BY <1>2, <1>3 DEF Shape, First
  <1>5. todo' # <<>> => 1 \in 1..Len(todo') /\ First' = todo[1 + 1]
    BY <1>1 DEF First
  <1>6. todo' # <<>> => Follows(First, First')
    <2> SUFFICES ASSUME todo' # <<>>
                 PROVE  Follows(First, First')
      OBVIOUS
    <2>1. 1 < Len(todo)
      BY <1>1
    <2>2. Follows(todo[1], todo[1 + 1])
      BY <1>2, <2>1 DEF Shape
    <2> QED
      BY <1>5, <2>2 DEF First
  <1>7. todo' = <<>> => ~Incomplete(First)
    <2>1. todo' = <<>> => 1 = Len(todo)
      BY SMTT(40), <1>1
    <2> QED
      BY <1>2, <2>1 DEF Shape, First
  <1>8. \A i \in 1..Len(todo') : LineOK(todo'[i])
    BY <1>1 DEF Shape
  <1>9. LineOK(First)
    BY <1>2 DEF Shape, First
  <1>10. todo' = <<>> <=> Len(todo') = 0
    BY <1>1
  <1>11. todo' # <<>> => LineOK(First')
    BY <1>5, <1>8 DEF First
  <1> QED
    BY <1>1, <1>3, <1>4, <1>5, <1>6, <1>7, <1>8, <1>9, <1>10, <1>11 DEF First

\* No more lines pass parameters, or take results, than the statement has.
LEMMA RunBound ==
    ASSUME NEW t, Shape(t), t # <<>>, NEW k \in 0..Len(t)
    PROVE  /\ (\A i \in 1..k : t[i].op = "SetSQLParams") => k <= t[1].s.np
           /\ (\A i \in 1..k : t[i].op = "SetResultParams") => k <= t[1].s.nr
  <1>1. Len(t) \in Nat \ {0}
    BY TailShape
  <1>2. 1 \in 1..Len(t) /\ LineOK(t[1])
    BY <1>1 DEF Shape
  <1>3. t[1].s.np \in Nat /\ t[1].s.nr \in Nat
    BY <1>2, LineArguments, RuntimeAssumption
  <1>4. CASE k = 0
    BY <1>3, <1>4
  <1>5. CASE k # 0
    <2>1. k \in 1..Len(t) /\ 1 <= k
      BY <1>1, <1>5
    <2>2. /\ (\A i \in 1..k : t[i].op = "SetSQLParams") => k - 1 < t[1].s.np
          /\ (\A i \in 1..k : t[i].op = "SetResultParams") => k - 1 < t[1].s.nr
      BY <1>2, <2>1 DEF Shape, Bounded
    <2> QED
      BY <1>3, <2>1, <2>2
  <1> QED
    BY <1>4, <1>5

\* What is left after a line is a shorter run.
LEMMA RunShift ==
    ASSUME Shape(todo), todo # <<>>, todo' = Tail(todo), NEW k \in 0..Len(todo')
    PROVE  /\ k + 1 \in 0..Len(todo)
           /\ First.op = "SetSQLParams" /\ NextParams(k)' => NextParams(k + 1)
           /\ First.op = "SetResultParams" /\ NextResults(k)' => NextResults(k + 1)
  <1>1. /\ Len(todo) \in Nat \ {0} /\ Len(todo') = Len(todo) - 1
        /\ \A i \in 1..Len(todo') : todo'[i] = todo[i + 1]
    BY NextLine
  <1>2. ASSUME NEW o, First.op = o, \A i \in 1..k : todo'[i].op = o
        PROVE  \A i \in 1..(k + 1) : todo[i].op = o
    <2> SUFFICES ASSUME NEW i \in 1..(k + 1)
                 PROVE  todo[i].op = o
      OBVIOUS
    <2>1. CASE i = 1
      BY <1>2, <2>1 DEF First
    <2>2. CASE i # 1
      <3>1. i - 1 \in 1..k /\ i - 1 \in 1..Len(todo') /\ (i - 1) + 1 = i
        BY <1>1, <2>2
      <3> QED
        BY <1>1, <1>2, <3>1
    <2> QED
      BY <2>1, <2>2
  <1>3. ASSUME First.op = "SetSQLParams", NextParams(k)'
        PROVE  NextParams(k + 1)
    <2>1. \A i \in 1..k : todo'[i].op = "SetSQLParams"
      BY <1>3 DEF NextParams
    <2>2. \A i \in 1..(k + 1) : todo[i].op = "SetSQLParams"
      BY <1>2, <1>3, <2>1
    <2> QED
      BY <2>2 DEF NextParams
  <1>4. ASSUME First.op = "SetResultParams", NextResults(k)'
        PROVE  NextResults(k + 1)
    <2>1. \A i \in 1..k : todo'[i].op = "SetResultParams"
      BY <1>4 DEF NextResults
    <2>2. \A i \in 1..(k + 1) : todo[i].op = "SetResultParams"
      BY <1>2, <1>4, <2>1
    <2> QED
      BY <2>2 DEF NextResults
  <1>5. k + 1 \in 0..Len(todo)
    BY <1>1
  <1> QED
    BY <1>3, <1>4, <1>5

\* The lists when the lines of a block are still to come.
LEMMA EmptyLists ==
    ASSUME Shape(todo'), cur_vars' = 0, res_vars' = 0
    PROVE  ListsInv'
  <1>1. ASSUME todo' # <<>>
        PROVE  First'.s.nr \in Nat /\ First'.s.np \in Nat
    <2>1. 1 \in 1..Len(todo')
      BY <1>1, TailShape
    <2>2. LineOK(First')
      BY <2>1 DEF Shape, First
    <2> QED
      BY <2>2, LineArguments, RuntimeAssumption
  <1>2. ASSUME todo' # <<>>, NEW k \in 0..Len(todo')
        PROVE  /\ NextResults(k)' => res_vars' + k <= First'.s.nr
               /\ NextParams(k)' => cur_vars' + k <= First'.s.np
    BY <1>2, RunBound DEF NextResults, NextParams, First
  <1> QED
    BY <1>1, <1>2 DEF ListsInv

---------------------------------------------------------------------------
(* A runtime call.                                                         *)

LEMMA CallLine ==
    ASSUME Shape(todo), Call
    PROVE  /\ todo # <<>> /\ todo' = Tail(todo)
           /\ First.op \in InBlock \cup SingleCalls \cup {"StartSQL"}
           /\ First.op = "CursorOpen" => flag[First.s.crs] = "X"
           /\ RuntimeCall(First.op, First.s)
           /\ AnyCall
           /\ refused' = (refused \/ (First.op = "SetSQLParams" /\ ret'.rc = "FAILED"))
  <1>1. todo # <<>> /\ todo' = Tail(todo)
    BY DEF Call
  <1>2. Head(todo) = First /\ LineOK(First)
    BY <1>1, NextLine
  <1>3. First.op \in Ops \ CobolLines
    BY <1>2 DEF Call, LineOK, Lines
  <1>4. RuntimeCall(First.op, First.s) /\ Reached(First)
    BY <1>2 DEF Call
  <1>5. refused' = (refused \/ (First.op = "SetSQLParams" /\ ret'.rc = "FAILED"))
    BY <1>2 DEF Call
  <1>6. AnyCall
    BY <1>2, <1>3, <1>4, LineCall
  <1> QED
    BY <1>1, <1>3, <1>4, <1>5, <1>6 DEF Ops, Reached

LEMMA CallReady ==
    ASSUME StateInv, Shape(todo), Call
    PROVE  Ready /\ (First.op \in BlockCalls \cup SingleCalls => UNCHANGED varLists)
  <1>1. /\ First.op \in InBlock \cup SingleCalls \cup {"StartSQL"}
        /\ RuntimeCall(First.op, First.s)
    BY CallLine
  <1>2. LineOK(First)
    BY CallLine, NextLine
  <1>3. CASE First.op \in {"StartSQL", "EndSQL"} \cup Sets
    BY <1>1, <1>3, ClearEffect, ParamEffect, ResultEffect DEF Sets, BlockCalls, SingleCalls
  <1>4. CASE First.op \in Declares
    BY <1>1, <1>2, <1>4, DeclareEffect
  <1>5. CASE First.op \in (BlockCalls \cup SingleCalls) \ Declares
    BY <1>1, <1>5, ExecEffect, CursorEffect, ConnectEffect DEF BlockCalls, SingleCalls, Declares
  <1> QED
    BY <1>1, <1>3, <1>4, <1>5 DEF InBlock

LEMMA CallLists ==
    ASSUME StateInv, TypeOK, Shape(todo), ListsInv, Call
    PROVE  ListsInv'
  <1>1. /\ todo # <<>> /\ todo' = Tail(todo)
        /\ First.op \in InBlock \cup SingleCalls \cup {"StartSQL"}
        /\ RuntimeCall(First.op, First.s)
    BY CallLine
  <1>2. /\ Shape(todo')
        /\ LineOK(First)
        /\ Len(todo) \in Nat \ {0} /\ Len(todo') = Len(todo) - 1
        /\ todo' = <<>> => ~Incomplete(First)
        /\ todo' # <<>> => Follows(First, First')
    BY <1>1, NextLine
  <1>3. /\ First.s.np \in Nat /\ First.s.nr \in Nat
        /\ cur_vars \in Nat /\ res_vars \in Nat
    BY <1>2, LineArguments, RuntimeAssumption DEF TypeOK
  <1>4. ASSUME cur_vars' = 0, res_vars' = 0
        PROVE  ListsInv'
    BY <1>2, <1>4, EmptyLists
  <1>5. CASE First.op \in {"StartSQL", "EndSQL"}
    BY <1>1, <1>4, <1>5, ClearEffect
  <1>10. ASSUME NEW o, NEW k \in 0..Len(todo'), todo' # <<>>, First'.op # o,
                \A i \in 1..k : todo'[i].op = o
         PROVE  k = 0
    <2>1. k # 0 => 1 \in 1..k
      BY <1>2, <1>10
    <2> QED
      BY <1>10, <2>1 DEF First
  <1>11. 0 \in 0..Len(todo) /\ NextResults(0) /\ NextParams(0)
    BY <1>2 DEF NextResults, NextParams
  <1>12. ASSUME First.op \in InBlock
         PROVE  res_vars <= First.s.nr /\ cur_vars <= First.s.np
    <2>1. res_vars + 0 <= First.s.nr /\ cur_vars + 0 <= First.s.np
      BY <1>1, <1>11, <1>12 DEF ListsInv
    <2> QED
      BY <1>3, <2>1
  <1>6. CASE First.op = "SetResultParams"
    <2>1. /\ todo' # <<>> /\ First'.op \in InBlock /\ First'.s = First.s
          /\ First'.op = "SetSQLParams" => First.s.kind # "execute"
      BY <1>2, <1>6 DEF Incomplete, GoesOn, Sets, Follows
    <2>2. cur_vars' = cur_vars /\ (res_vars' = res_vars \/ res_vars' = res_vars + 1)
      BY <1>1, <1>6, ResultEffect
    <2>3. First.op \in InBlock
      BY <1>6 DEF InBlock, Sets
    <2>4. ASSUME NEW k \in 0..Len(todo'), NextResults(k)'
          PROVE  res_vars' + k <= First'.s.nr
      <3>1. k + 1 \in 0..Len(todo) /\ NextResults(k + 1)
        BY <1>1, <1>6, <2>4, RunShift
      <3>2. res_vars + (k + 1) <= First.s.nr
        BY <1>1, <2>3, <3>1 DEF ListsInv
      <3> QED
        BY <1>2, <1>3, <2>1, <2>2, <3>2
    <2>5. First.s.kind # "execute" => cur_vars = 0
      BY <1>1, <1>6 DEF ListsInv
    <2>6. ASSUME NEW k \in 0..Len(todo'), NextParams(k)'
          PROVE  cur_vars' + k <= First'.s.np
      <3>1. CASE First'.op = "SetSQLParams"
        <4>1. k <= First'.s.np
          BY <1>2, <2>1, <2>6, RunBound DEF NextParams, First
        <4>2. cur_vars' = 0
          BY <2>1, <2>2, <2>5, <3>1
        <4> QED
          BY <4>1, <4>2
      <3>2. CASE First'.op # "SetSQLParams"
        <4>1. k = 0
          BY <1>10, <2>1, <2>6, <3>2 DEF NextParams
        <4> QED
          BY <1>3, <1>12, <2>1, <2>2, <2>3, <4>1
      <3> QED
        BY <3>1, <3>2
    <2> QED
      BY <2>1, <2>2, <2>4, <2>5, <2>6 DEF ListsInv
  <1>7. CASE First.op = "SetSQLParams"
    <2>1. /\ todo' # <<>> /\ First'.op \in InBlock /\ First'.s = First.s
          /\ First'.op = "SetResultParams" => First.s.kind = "execute"
      BY <1>2, <1>7 DEF Incomplete, GoesOn, Sets, Follows
    <2>2. res_vars' = res_vars /\ (cur_vars' = cur_vars \/ cur_vars' = cur_vars + 1)
      BY <1>1, <1>7, ParamEffect
    <2>3. First.op \in InBlock
      BY <1>7 DEF InBlock, Sets
    <2>4. ASSUME NEW k \in 0..Len(todo'), NextParams(k)'
          PROVE  cur_vars' + k <= First'.s.np
      <3>1. k + 1 \in 0..Len(todo) /\ NextParams(k + 1)
        BY <1>1, <1>7, <2>4, RunShift
      <3>2. cur_vars + (k + 1) <= First.s.np
        BY <1>1, <2>3, <3>1 DEF ListsInv
      <3> QED
        BY <1>2, <1>3, <2>1, <2>2, <3>2
    <2>5. First.s.kind = "execute" => res_vars = 0
      BY <1>1, <1>7 DEF ListsInv
    <2>6. ASSUME NEW k \in 0..Len(todo'), NextResults(k)'
          PROVE  res_vars' + k <= First'.s.nr
      <3>1. CASE First'.op = "SetResultParams"
        <4>1. k <= First'.s.nr
          BY <1>2, <2>1, <2>6, RunBound DEF NextResults, First
        <4>2. res_vars' = 0
          BY <2>1, <2>2, <2>5, <3>1
        <4> QED
          BY <4>1, <4>2
      <3>2. CASE First'.op # "SetResultParams"
        <4>1. k = 0
          BY <1>10, <2>1, <2>6, <3>2 DEF NextResults
        <4> QED
          BY <1>3, <1>12, <2>1, <2>2, <2>3, <4>1
      <3> QED
        BY <3>1, <3>2
    <2> QED
      BY <2>1, <2>2, <2>4, <2>5, <2>6 DEF ListsInv
  <1>8. CASE First.op \in BlockCalls
    <2>1. todo' # <<>> /\ First'.op = "EndSQL" /\ First'.s = First.s
      BY <1>2, <1>8 DEF Incomplete, GoesOn, Follows, InBlock
    <2>2. cur_vars' = cur_vars /\ res_vars' = res_vars
      BY <1>8, CallReady DEF varLists
    <2>3. First.op \in InBlock
      BY <1>8 DEF InBlock
    <2>4. ASSUME NEW k \in 0..Len(todo'), NextParams(k)' \/ NextResults(k)'
          PROVE  k = 0
      BY <1>10, <2>1, <2>4 DEF NextParams, NextResults
    <2>5. \A k \in 0..Len(todo') : NextParams(k)' => cur_vars' + k <= First'.s.np
      BY <1>3, <1>12, <2>1, <2>2, <2>3, <2>4
    <2>6. \A k \in 0..Len(todo') : NextResults(k)' => res_vars' + k <= First'.s.nr
      BY <1>3, <1>12, <2>1, <2>2, <2>3, <2>4
    <2> QED
      BY <2>1, <2>5, <2>6 DEF ListsInv, InBlock
  <1>9. CASE First.op \in SingleCalls
    <2>1. UNCHANGED varLists
      BY <1>9, CallReady
    <2>2. First.op \notin InBlock
      BY <1>9 DEF SingleCalls, InBlock, Sets, BlockCalls
    <2>3. cur_vars = 0 /\ res_vars = 0
      BY <1>1, <2>2 DEF ListsInv
    <2> QED
      BY <1>4, <2>1, <2>3 DEF varLists
  <1> QED
    BY <1>1, <1>5, <1>6, <1>7, <1>8, <1>9 DEF InBlock, Sets

\* Only a declaration adds a cursor.
LEMMA CallCursors ==
    ASSUME StateInv, Shape(todo), Call
    PROVE  /\ First.op \notin Declares => cursors' \subseteq cursors
           /\ First.op \in {"StartSQL", "EndSQL"} \cup Sets => UNCHANGED <<curVars, cursors, sqlcode>>
           /\ First.op \in BlockCalls \ Declares => UNCHANGED cursors
           /\ First.op # "ConnectResetAll" => UNCHANGED resetting
  <1>1. /\ First.op \in InBlock \cup SingleCalls \cup {"StartSQL"}
        /\ RuntimeCall(First.op, First.s)
    BY CallLine
  <1>2. LineOK(First)
    BY CallLine, NextLine
  <1>3. CASE First.op \in {"StartSQL", "EndSQL"} \cup Sets
    BY <1>1, <1>3, ClearEffect, ParamEffect, ResultEffect DEF Sets, curVars, BlockCalls
  <1>4. CASE First.op \in Declares
    BY <1>1, <1>2, <1>4, DeclareEffect DEF Declares, Sets
  <1>5. CASE First.op \in (BlockCalls \cup SingleCalls) \ Declares
    BY <1>1, <1>5, ExecEffect, CursorEffect, ConnectEffect
       DEF BlockCalls, SingleCalls, Declares, Sets
  <1> QED
    BY <1>1, <1>3, <1>4, <1>5 DEF InBlock

LEMMA CallRefused ==
    ASSUME StateInv, TypeOK, Shape(todo), ListsInv, RefusedInv, DeclareInv, Call
    PROVE  RefusedInv'
  <1>1. /\ todo # <<>> /\ todo' = Tail(todo)
        /\ First.op \in InBlock \cup SingleCalls \cup {"StartSQL"}
        /\ RuntimeCall(First.op, First.s)
        /\ refused' => refused \/ (First.op = "SetSQLParams" /\ ret'.rc = "FAILED")
    BY CallLine
  <1>2. /\ LineOK(First)
        /\ Len(todo) \in Nat \ {0} /\ Len(todo') = Len(todo) - 1
        /\ todo' = <<>> => ~Incomplete(First)
        /\ todo' # <<>> => Follows(First, First') /\ 1 \in 1..Len(todo')
        /\ \A i \in 1..Len(todo') : /\ i + 1 \in 1..Len(todo) /\ todo'[i] = todo[i + 1]
                                    /\ Together(First, todo'[i])
    BY <1>1, NextLine
  <1>3. /\ First.s.np \in Nat /\ cur_vars \in Nat /\ 1 \in 1..Len(todo)
        /\ 0 \in 0..Len(todo) /\ NextParams(0)
    BY <1>2, LineArguments, RuntimeAssumption DEF TypeOK, NextParams
  <1>4. First.op \notin Declares => cursors' \subseteq cursors
    BY CallCursors
  <1>5. ASSUME refused
        PROVE  RefusedInv'
    <2>1. \A i \in 1..Len(todo) : RefusedLine(todo[i])
      BY <1>5 DEF RefusedInv
    <2>2. RefusedLine(First)
      BY <1>3, <2>1 DEF First
    <2>3. First.op \in BlockCalls /\ First.s.np > 0 => cur_vars < First.s.np
      <3>1. First.op \in BlockCalls /\ First.s.np > 0 => cur_vars + 0 < First.s.np
        BY <1>1, <1>3, <1>5 DEF RefusedInv
      <3> QED
        BY <1>3, <3>1
    <2>4. cursors' \subseteq cursors
      <3>1. CASE First.op = "CursorDeclareParams"
        <4>1. cur_vars < First.s.np
          BY <1>2, <2>3, <3>1 DEF LineOK, BlockCalls
        <4> QED
          BY <1>1, <1>2, <3>1, <4>1, DeclareEffect DEF Declares
      <3>2. CASE First.op # "CursorDeclareParams"
        BY <1>4, <2>2, <3>2 DEF RefusedLine, SingleCalls, Declares
      <3> QED
        BY <3>1, <3>2
    <2>5. ASSUME NEW i \in 1..Len(todo')
          PROVE  RefusedLine(todo[i])'
      <3>1. RefusedLine(todo'[i])
        BY <1>2, <2>1
      <3> QED
        BY <2>4, <3>1 DEF RefusedLine
    <2>6. ASSUME todo' # <<>>, First'.s.np > 0, First'.op \in Sets \cup BlockCalls,
                 NEW k \in 0..Len(todo'), NextParams(k)'
          PROVE  cur_vars' + k < First'.s.np
      <3>1. First.op \in Sets /\ First'.s = First.s
        BY <1>2, <2>2, <2>6 DEF Follows, GoesOn, InBlock, Sets, BlockCalls, RefusedLine
      <3>2. CASE First.op = "SetSQLParams"
        <4>1. k + 1 \in 0..Len(todo) /\ NextParams(k + 1)
          BY <1>1, <2>6, <3>2, RunShift
        <4>2. cur_vars + (k + 1) < First.s.np
          BY <1>1, <1>5, <2>6, <3>1, <4>1 DEF RefusedInv
        <4>3. cur_vars' = cur_vars \/ cur_vars' = cur_vars + 1
          BY <1>1, <3>2, ParamEffect
        <4> QED
          BY <1>2, <1>3, <3>1, <4>2, <4>3
      <3>3. CASE First.op = "SetResultParams"
        <4>1. First'.op # "SetSQLParams"
          BY <1>2, <2>2, <2>6, <3>3 DEF Follows, RefusedLine
        <4>2. k = 0
          <5>1. k # 0 => 1 \in 1..k
            BY <1>2
          <5> QED
            BY <2>6, <4>1, <5>1 DEF NextParams, First
        <4>3. cur_vars + 0 < First.s.np
          BY <1>1, <1>3, <1>5, <2>6, <3>1 DEF RefusedInv
        <4>4. cur_vars' = cur_vars
          BY <1>1, <3>3, ResultEffect
        <4> QED
          BY <3>1, <4>2, <4>3, <4>4
      <3> QED
        BY <3>1, <3>2, <3>3 DEF Sets
    <2>7. ASSUME todo' # <<>>, First'.s.kind # "select", Answered(First')
          PROVE  sqlcode' # "zero"
      <3>1. First.s = First'.s
        BY <1>2, <2>7 DEF Follows, Answered, InBlock
      <3>2. ASSUME First.op = "EndSQL", First.s.np > 0
            PROVE  sqlcode' # "zero"
        <4>1. sqlcode # "zero"
          BY <1>1, <1>5, <2>7, <3>1, <3>2 DEF RefusedInv, Answered
        <4> QED
          BY <3>2, <4>1, CallCursors
      <3>3. CASE First'.op = "EndSQL"
        <4>1. First.op \in BlockCalls /\ First.s.np > 0
          BY <1>2, <2>7, <3>1, <3>3 DEF Follows, Answered
        <4>2. First.op \in Counting
          BY <1>2, <2>7, <3>1, <4>1 DEF LineOK
        <4> QED
          BY <1>1, <1>2, <2>3, <4>1, <4>2, CountEffect
      <3>4. CASE First'.op = "paragraph_end"
        <4>1. ParagraphEnds(First)
          BY <1>2, <2>7, <3>4 DEF Follows
        <4>2. First.op = "EndSQL" /\ First.s.kind \in DeclKinds
          BY <2>2, <4>1 DEF ParagraphEnds, RefusedLine, SingleCalls
        <4> QED
          BY <1>2, <3>2, <4>2 DEF LineOK
      <3>5. CASE First'.op = "whenever"
        <4>1. /\ First.op = "EndSQL" \/ First.op \in SingleCalls
              /\ First.s.kind = "open" <=> First.op = "CursorOpen"
          BY <1>2, <2>7, <3>1, <3>5 DEF Follows
        <4>2. CASE First.op = "EndSQL"
          <5>1. RefusedLine(First')
            BY <1>2, <2>1, <2>7 DEF First
          <5> QED
            BY <3>1, <3>2, <3>5, <4>1, <4>2, <5>1 DEF RefusedLine
        <4>3. CASE First.op \in SingleCalls
          <5>1. First.op = "CursorOpen" /\ First.s.crs \notin cursors
            BY <2>2, <4>3 DEF RefusedLine
          <5> QED
            BY <1>1, <1>2, <5>1, OpenEffect
        <4> QED
          BY <4>1, <4>2, <4>3
      <3> QED
        BY <2>7, <3>3, <3>4, <3>5 DEF Answered
    <2> QED
      BY <2>5, <2>6, <2>7 DEF RefusedInv, Answered
  <1>6. ASSUME First.op = "SetSQLParams", ret'.rc = "FAILED"
        PROVE  RefusedInv'
    <2>1. cur_vars' = cur_vars /\ cursors' = cursors
      BY <1>1, <1>6, ParamEffect DEF curVars
    <2>2. /\ todo' # <<>> /\ First'.op \in InBlock \ {"EndSQL"}
          /\ First'.s = First.s
      BY <1>2, <1>6 DEF Incomplete, GoesOn, Sets, Follows, BlockCalls
    <2>3. First.op \in InBlock
      BY <1>6 DEF InBlock, Sets
    <2>4. ASSUME NEW k \in 0..Len(todo'), NextParams(k)'
          PROVE  cur_vars' + k < First'.s.np
      <3>1. k + 1 \in 0..Len(todo) /\ NextParams(k + 1)
        BY <1>1, <1>6, <2>4, RunShift
      <3>2. cur_vars + (k + 1) <= First.s.np
        BY <1>1, <2>3, <3>1 DEF ListsInv
      <3> QED
        BY <1>2, <1>3, <2>1, <2>2, <3>2
    <2>5. First.s.np > 0
      <3>1. 0 \in 0..Len(todo') /\ NextParams(0)'
        BY <1>2 DEF NextParams
      <3>2. cur_vars' + 0 < First'.s.np
        BY <2>4, <3>1
      <3> QED
        BY <1>3, <2>1, <2>2, <3>2
    <2>6. First.s.kind \in DeclKinds => First.s.crs \notin cursors
      BY <1>3, <1>6 DEF DeclareInv, First
    <2>7. ASSUME NEW i \in 1..Len(todo')
          PROVE  RefusedLine(todo[i])'
      <3>1. Together(First, todo'[i])
        BY <1>2
      <3>2. RefusedLine(todo'[i])
        BY <1>6, <2>5, <2>6, <3>1 DEF Together, RefusedLine, SingleCalls, DeclKinds
      <3> QED
        BY <2>1, <3>2 DEF RefusedLine
    <2>8. ~Answered(First')
      BY <2>2 DEF Answered, InBlock, Sets, BlockCalls
    <2> QED
      BY <2>4, <2>7, <2>8 DEF RefusedInv, Answered
  <1>7. CASE ~refused'
    BY <1>7 DEF RefusedInv
  <1> QED
    BY <1>1, <1>5, <1>6, <1>7

LEMMA CallFlags ==
    ASSUME StateInv, Shape(todo), FlagInv, DeclareInv, Call
    PROVE  FlagInv'
  <1>1. /\ todo # <<>> /\ todo' = Tail(todo)
        /\ First.op \in InBlock \cup SingleCalls \cup {"StartSQL"}
        /\ RuntimeCall(First.op, First.s)
        /\ dropped' = dropped \cup (cursors \ cursors')
        /\ flag' = flag /\ masked' = masked
    BY CallLine DEF Call
  <1>2. /\ LineOK(First) /\ 1 \in 1..Len(todo)
        /\ todo' = <<>> => ~Incomplete(First)
        /\ todo' # <<>> => Follows(First, First')
    BY <1>1, NextLine
  <1>3. /\ First.op \notin Declares => cursors' \subseteq cursors
        /\ First.op = "EndSQL" => cursors' = cursors /\ sqlcode' = sqlcode
    BY CallCursors
  <1>4. First.op \in Declares =>
            /\ flag[First.s.crs] = "SPACE" /\ First.s.crs \notin cursors
            /\ First.s.kind \in DeclKinds
            /\ \/ cursors' = cursors /\ sqlcode' # "zero"
               \/ cursors' = cursors \cup {First.s.crs} /\ sqlcode' = "zero"
    BY <1>1, <1>2, DeclareEffect DEF DeclareInv, First, LineOK, DeclLines
  <1>5. ASSUME NEW x \in cursors, flag[x] # "X"
        PROVE  /\ First.op = "EndSQL" /\ ParagraphEnds(First)
               /\ First.s.crs = x /\ sqlcode = "zero" /\ First.s.kind \in DeclKinds
    <2>1. ToBeMarked(x)
      BY <1>5 DEF FlagInv
    <2>2. First.op = "EndSQL"
      BY <1>1, <2>1 DEF ToBeMarked, InBlock, Sets, BlockCalls, SingleCalls
    <2> QED
      BY <2>1, <2>2 DEF ToBeMarked, ParagraphEnds
  <1>6. ASSUME ParagraphEnds(First), First.s.kind \in DeclKinds, sqlcode' = "zero",
               NEW x, x = First.s.crs
        PROVE  ToBeMarked(x)'
    <2>1. todo' # <<>> /\ First'.op = "paragraph_end" /\ First'.s = First.s
      BY <1>2, <1>6 DEF Incomplete, Follows
    <2> QED
      BY <1>6, <2>1 DEF ToBeMarked
  <1>7. ASSUME NEW x \in cursors'
        PROVE  flag[x] = "X" \/ ToBeMarked(x)'
    <2>1. CASE x \in cursors
      <3>1. CASE First.op = "EndSQL"
        BY <1>3, <1>5, <1>6, <2>1, <3>1
      <3>2. CASE First.op # "EndSQL"
        BY <1>5, <2>1, <3>2
      <3> QED
        BY <3>1, <3>2
    <2>2. CASE x \notin cursors
      <3>1. First.op \in Declares /\ x = First.s.crs /\ sqlcode' = "zero"
        BY <1>3, <1>4, <1>7, <2>2
      <3>2. CASE First.op = "CursorDeclare"
        BY <1>4, <1>6, <3>1, <3>2 DEF ParagraphEnds
      <3>3. CASE First.op = "CursorDeclareParams"
        <4>1. todo' # <<>> /\ First'.op = "EndSQL" /\ First'.s = First.s
          BY <1>2, <3>3 DEF Incomplete, GoesOn, Follows, InBlock, BlockCalls
        <4> QED
          BY <1>4, <3>1, <4>1 DEF ToBeMarked
      <3> QED
        BY <3>1, <3>2, <3>3 DEF Declares
    <2> QED
      BY <2>1, <2>2
  <1>8. ASSUME NEW x \in CursorNames, flag[x] = "X"
        PROVE  x \in cursors' \cup dropped' \cup masked
    BY <1>1, <1>8 DEF FlagInv
  <1>9. ASSUME NEW x \in dropped'
        PROVE  flag[x] = "X" /\ x \notin cursors'
    <2>1. CASE x \in dropped
      BY <1>3, <1>4, <2>1 DEF FlagInv
    <2>2. CASE x \in cursors \ cursors'
      BY <1>3, <1>5, <2>2
    <2> QED
      BY <1>1, <2>1, <2>2
  <1> QED
    BY <1>1, <1>7, <1>8, <1>9 DEF FlagInv

LEMMA CallDeclares ==
    ASSUME StateInv, Shape(todo), DeclareInv, Call
    PROVE  DeclareInv'
  <1>1. /\ todo # <<>> /\ todo' = Tail(todo)
        /\ First.op \in InBlock \cup SingleCalls \cup {"StartSQL"}
        /\ RuntimeCall(First.op, First.s)
        /\ flag' = flag /\ masked' = masked
    BY CallLine DEF Call
  <1>2. /\ LineOK(First)
        /\ todo' # <<>> => Follows(First, First') /\ 1 \in 1..Len(todo')
        /\ \A i \in 1..Len(todo') : /\ i + 1 \in 1..Len(todo) /\ todo'[i] = todo[i + 1]
                                    /\ Together(First, todo'[i])
    BY <1>1, NextLine
  <1>3. /\ First.op \notin Declares => cursors' \subseteq cursors
        /\ First.op = "EndSQL" => cursors' = cursors /\ sqlcode' = sqlcode
    BY CallCursors
  <1>4. First.op \in Declares /\ sqlcode' = "zero" => First.s.crs \in cursors'
    BY <1>1, <1>2, DeclareEffect
  <1>5. ASSUME NEW i \in 1..Len(todo'),
               \/ todo'[i].op \in Declares
               \/ todo'[i].op = "SetSQLParams" /\ todo'[i].s.kind \in DeclKinds
        PROVE  flag[todo'[i].s.crs] = "SPACE" /\ todo'[i].s.crs \notin cursors'
    <2>1. flag[todo'[i].s.crs] = "SPACE" /\ todo'[i].s.crs \notin cursors
      BY <1>2, <1>5 DEF DeclareInv
    <2>2. First.op \notin Declares
      BY <1>2, <1>5 DEF Together, Declares, Sets
    <2> QED
      BY <1>3, <2>1, <2>2
  <1>6. ASSUME todo' # <<>>, First'.s.kind = "dml", NEW i \in 1..Len(todo'), todo'[i].op = "mark"
        PROVE  todo'[i].s.crs \in masked
    <2>1. First.s.kind = "dml"
      BY <1>2, <1>6 DEF Together, First
    <2> QED
      BY <1>1, <1>2, <1>6, <2>1 DEF DeclareInv
  <1>7. ASSUME todo' # <<>>, sqlcode' = "zero",
               First'.op = "paragraph_end" \/ (First'.op = "EndSQL" /\ First'.s.kind \in DeclKinds)
        PROVE  First'.s.crs \in cursors'
    <2>1. First'.s = First.s
      BY <1>2, <1>7 DEF Follows, InBlock
    <2>2. CASE First'.op = "EndSQL"
      <3>1. First.op = "CursorDeclareParams"
        BY <1>2, <1>7, <2>1, <2>2 DEF Follows, LineOK
      <3> QED
        BY <1>4, <1>7, <2>1, <3>1 DEF Declares
    <2>3. CASE First'.op = "paragraph_end"
      <3>1. ParagraphEnds(First)
        BY <1>2, <1>7, <2>3 DEF Follows
      <3>2. CASE First.op = "CursorDeclare"
        BY <1>4, <1>7, <2>1, <3>2 DEF Declares
      <3>3. CASE First.op = "EndSQL" /\ First.s.kind \in DeclKinds
        BY <1>1, <1>3, <1>7, <2>1, <3>3 DEF DeclareInv
      <3> QED
        BY <3>1, <3>2, <3>3 DEF ParagraphEnds
    <2> QED
      BY <1>7, <2>2, <2>3
  <1>8. ASSUME todo' # <<>>, First'.op = "mark"
        PROVE  First'.s.crs \in masked
    <2>1. First.op = "EndSQL" /\ First.s.kind \notin DeclKinds
      <3>1. First.op \in {"paragraph_end", "EndSQL"} /\ ~ParagraphEnds(First)
        BY <1>2, <1>8 DEF Follows
      <3> QED
        BY <1>1, <3>1 DEF ParagraphEnds, InBlock, Sets, BlockCalls, SingleCalls
    <2>2. First.s.kind = "dml"
      BY <1>2, <1>8, <2>1 DEF Together, First, InBlock
    <2>3. 1 + 1 \in 1..Len(todo) /\ First' = todo[1 + 1]
      BY <1>2, <1>8 DEF First
    <2> QED
      BY <1>1, <1>8, <2>2, <2>3 DEF DeclareInv
  <1>9. todo' # <<>> => First'.op # "CursorOpen"
    BY <1>1, <1>2 DEF Follows, InBlock, Sets, BlockCalls, SingleCalls
  <1>10. ASSUME todo' # <<>>, sqlcode' = "zero", First'.op = "whenever", First'.s.kind = "open"
         PROVE  First'.s.crs \in cursors' /\ cursor'[First'.s.crs].open
    <2>1. First.op = "CursorOpen" /\ First'.s = First.s
      BY <1>2, <1>10 DEF Follows
    <2> QED
      BY <1>1, <1>2, <1>10, <2>1, OpenEffect
  <1> QED
    BY <1>1, <1>5, <1>6, <1>7, <1>8, <1>9, <1>10 DEF DeclareInv

LEMMA CallInv ==
    ASSUME ProgInv, Call
    PROVE  ProgInv'
  <1> USE DEF ProgInv
  <1>1. /\ todo # <<>> /\ todo' = Tail(todo) /\ AnyCall /\ refused' \in BOOLEAN
        /\ First.op \in InBlock \cup SingleCalls \cup {"StartSQL"}
    BY CallLine DEF ProgTypeOK
  <1>2. StateInv' /\ TypeOK'
    BY <1>1, AnyCallStateInv, AnyCallTypeOK DEF ProgTypeOK
  <1>3. ProgTypeOK'
    BY <1>1, <1>2 DEF ProgTypeOK, Call, TypeOK, CurTypeOK
  <1>4. /\ Shape(todo')
        /\ todo' = <<>> => ~Incomplete(First)
        /\ todo' # <<>> => Follows(First, First')
    BY <1>1, NextLine
  <1>5. ListsInv' /\ RefusedInv' /\ FlagInv' /\ DeclareInv'
    BY CallLists, CallRefused, CallFlags, CallDeclares DEF ProgTypeOK
  <1>6. LoopInv'
    <2>1. CASE First.op = "ConnectResetAll"
      <3>1. 1 \in 1..Len(todo)
        BY <1>1, NextLine
      <3>2. ~refused
        BY <2>1, <3>1 DEF RefusedInv, RefusedLine, First, SingleCalls
      <3>3. ~refused'
        BY <2>1, <3>2, CallLine
      <3> QED
        BY <1>4, <2>1, <3>3 DEF LoopInv, Incomplete, Follows
    <2>2. CASE First.op # "ConnectResetAll"
      BY <2>2, CallReady, CallCursors DEF LoopInv, Ready
    <2> QED
      BY <2>1, <2>2
  <1> QED
    BY <1>2, <1>3, <1>4, <1>5, <1>6

---------------------------------------------------------------------------
(* The steps of the program itself.                                        *)

\* Outside a block the lists are empty and stay so.
LEMMA OutsideBlock ==
    ASSUME ListsInv, todo = <<>> \/ First.op \notin InBlock, UNCHANGED varLists, Shape(todo')
    PROVE  ListsInv'
  <1>1. cur_vars' = 0 /\ res_vars' = 0
    BY DEF ListsInv, varLists
  <1> QED
    BY <1>1, EmptyLists

\* Only the lines at the end of a paragraph wait for the flag.
LEMMA AllMarked ==
    ASSUME FlagInv, todo = <<>> \/ sqlcode # "zero" \/ First.op \notin {"EndSQL", "paragraph_end", "mark"}
    PROVE  \A x \in cursors : flag[x] = "X"
  BY DEF FlagInv, ToBeMarked

LEMMA QuietType ==
    ASSUME ProgInv, UNCHANGED vars
    PROVE  StateInv' /\ TypeOK'
  BY UnchangedStateInv, UnchangedTypeOK DEF ProgInv, ProgTypeOK, vars

\* A refused line stays one while no cursor is added.
LEMMA RefusedLines ==
    ASSUME refused, RefusedInv, UNCHANGED cursors, Shape(todo), todo # <<>>, todo' = Tail(todo)
    PROVE  \A i \in 1..Len(todo') : RefusedLine(todo[i])'
  <1> SUFFICES ASSUME NEW i \in 1..Len(todo')
               PROVE  RefusedLine(todo[i])'
    OBVIOUS
  <1>1. i + 1 \in 1..Len(todo) /\ todo'[i] = todo[i + 1]
    BY NextLine
  <1>2. RefusedLine(todo'[i])
    BY <1>1 DEF RefusedInv
  <1> QED
    BY <1>2 DEF RefusedLine

LEMMA BeginInv ==
    ASSUME ProgInv, NEW s \in Program, Begin(s)
    PROVE  ProgInv'
  <1> USE DEF ProgInv
  <1>1. /\ Ready /\ todo = <<>> /\ todo' = handle_esql_stmt(s) /\ refused' = FALSE
        /\ UNCHANGED <<vars, flag, dropped, masked>>
    BY DEF Begin
  <1>2. StateInv' /\ TypeOK'
    BY <1>1, QuietType
  <1>3. UNCHANGED <<cursors, cursor, resetting, sqlcode, varLists>>
    BY <1>1 DEF vars, curVars, loopVars
  <1>4. ProgTypeOK'
    BY <1>1, <1>2 DEF ProgTypeOK
  <1>5. Shape(todo') /\ Fresh(todo')
    BY <1>1, StatementShape
  <1>6. ListsInv'
    BY <1>1, <1>3, <1>5, OutsideBlock
  <1>7. FlagInv'
    <2>1. \A x \in cursors : flag[x] = "X"
      BY <1>1, AllMarked
    <2> QED
      BY <1>1, <1>3, <2>1 DEF FlagInv
  <1>8. DeclareInv'
    <2>1. First'.op \notin {"paragraph_end", "EndSQL", "mark", "CursorOpen", "whenever"}
      BY <1>5 DEF Fresh, First, SingleCalls
    <2> QED
      BY <1>5, <2>1 DEF DeclareInv, Fresh
  <1> QED
    BY <1>1, <1>2, <1>3, <1>4, <1>5, <1>6, <1>7, <1>8 DEF RefusedInv, LoopInv, Ready

\* OPEN is not called when the declaration failed: SQLCODE still says so.
LEMMA SkipCallInv ==
    ASSUME ProgInv, SkipCall
    PROVE  ProgInv'
  <1> USE DEF ProgInv
  <1>1. /\ todo # <<>> /\ todo' = Tail(todo)
        /\ UNCHANGED <<vars, flag, dropped, masked, refused>>
    BY DEF SkipCall
  <1>2. /\ Shape(todo')
        /\ Head(todo) = First
        /\ todo' # <<>> => Follows(First, First') /\ 1 \in 1..Len(todo')
        /\ \A i \in 1..Len(todo') : /\ i + 1 \in 1..Len(todo) /\ todo'[i] = todo[i + 1]
                                    /\ Together(First, todo'[i])
    BY <1>1, NextLine
  <1>3. First.op = "CursorOpen" /\ flag[First.s.crs] # "X"
    BY <1>2 DEF SkipCall, Reached
  <1>4. sqlcode # "zero"
    BY <1>1, <1>3 DEF DeclareInv
  <1>5. StateInv' /\ TypeOK'
    BY <1>1, QuietType
  <1>6. UNCHANGED <<cursors, cursor, resetting, sqlcode, varLists>>
    BY <1>1 DEF vars, curVars, loopVars
  <1>7. ProgTypeOK'
    BY <1>1, <1>5 DEF ProgTypeOK
  <1>8. ListsInv'
    BY <1>2, <1>3, <1>6, OutsideBlock DEF InBlock, Sets, BlockCalls
  <1>9. RefusedInv'
    <2>1. todo' # <<>> => First'.op \notin InBlock
      BY <1>2, <1>3 DEF Follows, GoesOn, Sets, BlockCalls
    <2>2. refused => \A i \in 1..Len(todo') : RefusedLine(todo[i])'
      BY <1>1, <1>6, RefusedLines
    <2> QED
      BY <1>1, <1>4, <1>6, <2>1, <2>2 DEF RefusedInv, InBlock, Sets
  <1>10. FlagInv'
    <2>1. \A x \in cursors : flag[x] = "X"
      BY <1>4, AllMarked
    <2> QED
      BY <1>1, <1>6, <2>1 DEF FlagInv
  <1>11. DeclareInv'
    <2>1. ASSUME NEW i \in 1..Len(todo'),
                 \/ todo'[i].op \in Declares
                 \/ todo'[i].op = "SetSQLParams" /\ todo'[i].s.kind \in DeclKinds
          PROVE  flag[todo'[i].s.crs] = "SPACE" /\ todo'[i].s.crs \notin cursors
      BY <1>2, <2>1 DEF DeclareInv
    <2>2. ASSUME todo' # <<>>, First'.s.kind = "dml", NEW i \in 1..Len(todo'),
                 todo'[i].op = "mark"
          PROVE  todo'[i].s.crs \in masked
      <3>1. First.s.kind = "dml"
        BY <1>2, <2>2 DEF Together, First
      <3> QED
        BY <1>1, <1>2, <2>2, <3>1 DEF DeclareInv
    <2> QED
      BY <1>1, <1>4, <1>6, <2>1, <2>2 DEF DeclareInv
  <1>12. LoopInv'
    BY <1>3, <1>6 DEF LoopInv
  <1> QED
    BY <1>2, <1>5, <1>7, <1>8, <1>9, <1>10, <1>11, <1>12

\* The loop of DISCONNECT ALL runs while the program waits for its SQLCODE.
LEMMA ResetAllInv ==
    ASSUME ProgInv, ResetAll
    PROVE  ProgInv'
  <1> USE DEF ProgInv
  <1>1. /\ ResetAllStep \/ ResetAllEnd
        /\ dropped' = dropped \cup (cursors \ cursors')
        /\ UNCHANGED <<flag, todo, masked, refused>>
    BY DEF ResetAll
  <1>2. resetting /\ todo # <<>> /\ First.op = "whenever" /\ First.s.kind = "resetall" /\ ~refused
    BY <1>1 DEF ResetAllStep, ResetAllEnd, LoopInv
  <1>3. StateInv' /\ TypeOK'
    BY SMTT(40), <1>1, AnyCallStateInv, AnyCallTypeOK DEF ProgTypeOK, AnyCall
  <1>4. cursors' \subseteq cursors /\ UNCHANGED varLists
    BY <1>1 DEF ResetAllStep, ResetAllEnd, ResetNotFound, ResetFails, ResetOk,
                clearConnectionCursors, curVars
  <1>5. ProgTypeOK'
    BY <1>1, <1>3, <1>4 DEF ProgTypeOK, TypeOK, CurTypeOK
  <1>6. ListsInv'
    BY <1>1, <1>2, <1>4, OutsideBlock DEF InBlock, Sets, BlockCalls
  <1>7. FlagInv'
    <2>1. \A x \in cursors : flag[x] = "X"
      BY <1>2, AllMarked
    <2> QED
      BY <1>1, <1>4, <2>1 DEF FlagInv
  <1>8. First' = First
    BY <1>1 DEF First
  <1>9. DeclareInv'
    BY <1>1, <1>2, <1>4, <1>8 DEF DeclareInv
  <1> QED
    BY <1>1, <1>2, <1>3, <1>5, <1>6, <1>7, <1>8, <1>9 DEF RefusedInv, LoopInv

LEMMA CheckFlagInv ==
    ASSUME ProgInv, CheckFlag
    PROVE  ProgInv'
  <1> USE DEF ProgInv
  <1> DEFINE t == Tail(todo)
             x == First.s.crs
             u == InitParagraph(Declaring(First.s)) \o <<Line("mark", First.s)>> \o t
  <1>1. /\ Ready /\ todo # <<>>
        /\ UNCHANGED <<connVars, curVars, varLists, loopVars, alive, ret>>
        /\ UNCHANGED <<flag, dropped, masked, refused>>
    BY DEF CheckFlag
  <1>2. Head(todo) = First /\ 1 \in 1..Len(todo)
    BY <1>1, TailShape DEF First
  <1>3. /\ First.op \in {"check", "check_reset"}
        /\ \/ flag[x] = "SPACE" /\ todo' = u /\ sqlcode' = sqlcode
           \/ /\ flag[x] # "SPACE" /\ todo' = t
              /\ sqlcode' = IF First.op = "check_reset" THEN "zero" ELSE sqlcode
    BY <1>2 DEF CheckFlag, Check
  <1>4. LineOK(First)
    BY <1>2 DEF Shape, First
  <1>5. x \in CursorNames /\ First.s.kind \in DeclKinds
    BY <1>3, <1>4 DEF LineOK, DeclLines
  <1>6. UNCHANGED <<cursors, cursor, resetting, varLists>>
    BY <1>1 DEF curVars, loopVars
  <1>7. StateInv' /\ ProgTypeOK'
    <2>1. StateInv'
      BY <1>1, UnchangedStateInv
    <2>2. sqlcode' \in Outcomes
      BY <1>3 DEF ProgTypeOK, TypeOK, Outcomes
    <2> QED
      BY <1>1, <2>1, <2>2 DEF ProgTypeOK, TypeOK, StateInv, varLists
  <1>8. ~refused
    BY <1>2, <1>3 DEF RefusedInv, RefusedLine, First
  <1>9. \A y \in cursors : flag[y] = "X"
    BY <1>3, AllMarked
  <1>10. FlagInv'
    BY <1>1, <1>6, <1>9 DEF FlagInv
  <1>11. RefusedInv' /\ LoopInv'
    BY <1>1, <1>6, <1>8 DEF RefusedInv, LoopInv, Ready
  <1>12. First.op \notin InBlock
    BY <1>3 DEF InBlock, Sets, BlockCalls
  <1>13. Shape(todo') => ListsInv'
    BY <1>6, <1>12, OutsideBlock
  <1>14. CASE flag[x] # "SPACE"
    <2>1. todo' = Tail(todo) /\ flag[x] = "X"
      BY <1>3, <1>5, <1>14 DEF ProgTypeOK
    <2>2. /\ Shape(todo')
          /\ todo' # <<>> => Follows(First, First') /\ 1 \in 1..Len(todo')
          /\ \A i \in 1..Len(todo') : /\ i + 1 \in 1..Len(todo) /\ todo'[i] = todo[i + 1]
                                      /\ Together(First, todo'[i])
      BY <1>1, <2>1, NextLine
    <2>3. ASSUME NEW i \in 1..Len(todo')
          PROVE  todo'[i].op \in {"CursorOpen", "whenever"} /\ todo'[i].s = First.s
      BY <1>3, <2>2 DEF Together
    <2>4. todo' # <<>> => First'.op = "CursorOpen" /\ First'.s = First.s
      BY <1>3, <2>2, <2>3 DEF Follows, SingleCalls, First
    <2>5. DeclareInv'
      BY <1>1, <1>5, <2>1, <2>3, <2>4 DEF DeclareInv, Declares, DeclKinds
    <2> QED
      BY <1>7, <1>10, <1>11, <1>13, <2>2, <2>5
  <1>15. CASE flag[x] = "SPACE"
    <2>1. todo' = u
      BY <1>3, <1>15
    <2>2. /\ Shape(t)
          /\ t # <<>> => Follows(First, t[1])
          /\ \A j \in 1..Len(t) : Together(First, t[j])
      <3>1. /\ Shape(t) /\ Len(todo) \in Nat \ {0} /\ Len(t) = Len(todo) - 1
            /\ t # <<>> <=> Len(todo) > 1
            /\ \A i \in 1..Len(t) : t[i] = todo[i + 1]
        BY <1>1, TailShape
      <3> HIDE DEF t
      <3>2. \A j \in 1..Len(t) : Together(First, t[j])
        BY <1>2, <3>1 DEF Shape, First
      <3>3. ASSUME t # <<>>
            PROVE  Follows(First, t[1])
        <4>1. t[1] = todo[1 + 1] /\ 1 < Len(todo)
          BY <3>1, <3>3
        <4>2. Follows(todo[1], todo[1 + 1])
          BY <1>2, <4>1 DEF Shape
        <4> QED
          BY <4>1, <4>2 DEF First
      <3> QED
        BY <3>1, <3>2, <3>3
    <2>3. /\ Shape(u) /\ u # <<>>
          /\ u[1].op \in {"StartSQL", "CursorDeclare"}
          /\ u[1].s.crs = x /\ u[1].s.kind = First.s.kind
      <3> HIDE DEF t
      <3>1. First.op \in {"check", "check_reset"}
        BY <1>3
      <3> QED
        BY <1>4, <2>2, <3>1, PrependParagraph
    <2> HIDE DEF u
    <2>4. Shape(todo') /\ todo' # <<>> /\ First' = u[1]
      BY <2>1, <2>3 DEF First
    <2>5. ASSUME NEW i \in 1..Len(todo')
          PROVE  todo'[i].s.crs = x
      <3>1. Len(todo') \in Nat \ {0} /\ 1 \in 1..Len(todo')
        BY <2>4, TailShape
      <3>2. CASE i = 1
        BY <2>1, <2>3, <3>2
      <3>3. CASE i # 1
        <4>1. 1 < i
          BY <3>1, <3>3
        <4>2. Together(todo'[1], todo'[i])
          BY <2>4, <3>1, <4>1 DEF Shape
        <4> QED
          BY <2>1, <2>3, <4>2 DEF Together
      <3> QED
        BY <3>2, <3>3
    <2>6. x \notin cursors
      BY <1>9, <1>15
    <2>7. DeclareInv'
      <3>1. /\ First'.s.kind # "dml"
            /\ First'.op \notin {"paragraph_end", "EndSQL", "mark", "CursorOpen", "whenever"}
        BY <1>5, <2>3, <2>4 DEF DeclKinds
      <3> QED
        BY <1>1, <1>6, <1>15, <2>5, <2>6, <3>1 DEF DeclareInv
    <2> QED
      BY <1>7, <1>10, <1>11, <1>13, <2>4, <2>7
  <1> QED
    BY <1>14, <1>15

LEMMA MarkInv ==
    ASSUME ProgInv, Mark
    PROVE  ProgInv'
  <1> USE DEF ProgInv
  <1> DEFINE x == First.s.crs
  <1>1. /\ Ready /\ todo # <<>> /\ todo' = Tail(todo)
        /\ UNCHANGED <<vars, dropped, masked, refused>>
    BY DEF Mark
  <1>2. /\ Shape(todo')
        /\ Head(todo) = First /\ LineOK(First)
        /\ todo' # <<>> => Follows(First, First') /\ 1 \in 1..Len(todo')
        /\ \A i \in 1..Len(todo') : Together(First, todo'[i])
    BY <1>1, NextLine
  <1>3. First.op = "mark" /\ flag' = [flag EXCEPT ![x] = IF sqlcode = "zero" THEN "X" ELSE flag[x]]
    BY <1>2 DEF Mark, Marked
  <1>4. x \in CursorNames /\ First.s.kind \in DeclKinds
    BY <1>2, <1>3 DEF LineOK, DeclLines
  <1>5. \A y \in CursorNames : flag'[y] = IF y = x /\ sqlcode = "zero" THEN "X" ELSE flag[y]
    BY <1>3 DEF ProgTypeOK
  <1>6. StateInv' /\ TypeOK'
    BY <1>1, QuietType
  <1>7. UNCHANGED <<cursors, cursor, resetting, sqlcode, varLists>>
    BY <1>1 DEF vars, curVars, loopVars
  <1>8. ProgTypeOK'
    BY <1>1, <1>3, <1>4, <1>6 DEF ProgTypeOK
  <1>9. ListsInv'
    BY <1>2, <1>3, <1>7, OutsideBlock DEF InBlock, Sets, BlockCalls
  <1>10. todo' # <<>> =>
            /\ First'.op \notin InBlock \cup {"paragraph_end", "mark", "whenever"}
            /\ First'.s.crs = x /\ First'.s.kind # "dml"
    BY <1>2, <1>3, <1>4
       DEF Follows, Together, First, GoesOn, ParagraphEnds, Sets, BlockCalls, SingleCalls, DeclKinds
  <1>11. RefusedInv'
    <2>1. refused => \A i \in 1..Len(todo') : RefusedLine(todo[i])'
      BY <1>1, <1>7, RefusedLines
    <2> QED
      BY <1>1, <1>10, <2>1 DEF RefusedInv, Answered, InBlock, Sets
  <1>12. FlagInv'
    <2>1. ASSUME NEW y \in cursors
          PROVE  flag'[y] = "X"
      <3>1. y \in CursorNames
        BY DEF ProgTypeOK, TypeOK, CurTypeOK
      <3> QED
        BY <1>5, <3>1 DEF FlagInv, ToBeMarked
    <2>2. ASSUME NEW y \in CursorNames, flag'[y] = "X"
          PROVE  y \in cursors \cup dropped \cup masked
      BY <1>1, <1>3, <1>5, <2>2 DEF FlagInv, DeclareInv
    <2>3. ASSUME NEW y \in dropped
          PROVE  flag'[y] = "X" /\ y \notin cursors
      BY <1>5 DEF FlagInv, ProgTypeOK
    <2> QED
      BY <1>1, <1>7, <2>1, <2>2, <2>3 DEF FlagInv
  <1>13. DeclareInv'
    <2>1. \A i \in 1..Len(todo') :
              todo'[i].op \notin Declares /\ todo'[i].op # "SetSQLParams"
      BY <1>2, <1>3 DEF Together, Sets
    <2>2. todo' # <<>> /\ sqlcode' = "zero" => flag'[First'.s.crs] = "X"
      BY <1>4, <1>5, <1>7, <1>10
    <2> QED
      BY <1>10, <2>1, <2>2 DEF DeclareInv, InBlock
  <1>14. LoopInv'
    BY <1>1, <1>7 DEF LoopInv, Ready
  <1> QED
    BY <1>2, <1>6, <1>8, <1>9, <1>11, <1>12, <1>13, <1>14

\* The lines of a handler come before what is left of the statement.
LEMMA HandlerLines ==
    ASSUME Shape(todo), todo # <<>>, First.op \in {"whenever", "paragraph_end"},
           todo' = WithVariables("Exec", HandlerStatement(First.s)) \o Tail(todo)
    PROVE  /\ Shape(todo') /\ todo' # <<>>
           /\ First'.op = "StartSQL" /\ First'.s.kind = "dml"
           /\ \A i \in 1..Len(todo') :
                 \/ todo'[i].op \in {"StartSQL", "Exec", "EndSQL"} /\ todo'[i].s.np = 0
                 \/ \E j \in 1..Len(todo) : todo'[i] = todo[j] /\ Together(First, todo[j])
  <1> DEFINE h == HandlerStatement(First.s)
             t == Tail(todo)
             u == WithVariables("Exec", h) \o t
  <1>1. /\ Shape(t) /\ Len(todo) \in Nat \ {0} /\ Len(t) = Len(todo) - 1
        /\ t # <<>> <=> Len(todo) > 1
        /\ \A i \in 1..Len(t) : t[i] = todo[i + 1]
    BY TailShape
  <1>2. 1 \in 1..Len(todo)
    BY <1>1
  <1>3. LineOK(First)
    BY <1>2 DEF Shape, First
  <1>4. h \in Statement /\ h.kind = "dml" /\ h.np = 0
    BY <1>3, HandlerType DEF LineOK, Lines
  <1> HIDE DEF t
  <1>5. \A j \in 1..Len(t) : /\ j + 1 \in 1..Len(todo) /\ t[j] = todo[j + 1]
                             /\ Together(First, t[j])
    BY <1>1, <1>2 DEF Shape, First
  <1>6. ASSUME t # <<>>
        PROVE  Follows(First, t[1])
    <2>1. t[1] = todo[1 + 1] /\ 1 < Len(todo)
      BY <1>1, <1>6
    <2>2. Follows(todo[1], todo[1 + 1])
      BY <1>2, <2>1 DEF Shape
    <2> QED
      BY <2>1, <2>2 DEF First
  <1>7. \A j \in 1..Len(t) : Together(First, t[j])
    BY <1>5
  <1>8. BlockThen(WithVariables("Exec", HandlerStatement(First.s)) \o t,
                  "Exec", HandlerStatement(First.s), 0, t)
    BY <1>1, <1>3, <1>6, <1>7, PrependHandler
  <1>9. todo' = u
    BY DEF t
  <1> HIDE DEF u, h
  <1>10. BlockThen(todo', "Exec", h, 0, t)
    BY <1>8, <1>9 DEF u, h
  <1>11. /\ Shape(todo') /\ Len(todo') = 3 + Len(t) /\ Len(t) \in Nat
         /\ \A i \in 1..3 : todo'[i] = Line(BlockOp("Exec", h, 0, i), h)
         /\ \A i \in 1..Len(t) : todo'[3 + i] = t[i]
    BY <1>1, <1>4, <1>10 DEF BlockThen
  <1>12. todo' # <<>>
    <2>1. Len(todo') # 0
      BY <1>11
    <2> QED
      BY <2>1
  <1>13. First' = Line("StartSQL", h)
    BY <1>4, <1>11 DEF First, BlockOp, RunOp
  <1>14. ASSUME NEW i \in 1..Len(todo')
         PROVE  \/ todo'[i].op \in {"StartSQL", "Exec", "EndSQL"} /\ todo'[i].s.np = 0
                \/ \E j \in 1..Len(todo) : todo'[i] = todo[j] /\ Together(First, todo[j])
    <2>1. CASE i <= 3
      <3>1. todo'[i] = Line(BlockOp("Exec", h, 0, i), h)
        BY SMTT(40), <1>11, <2>1
      <3>2. BlockOp("Exec", h, 0, i) \in {"StartSQL", "Exec", "EndSQL"}
        BY <1>4, <1>11, <2>1 DEF BlockOp, RunOp
      <3> QED
        BY <1>4, <3>1, <3>2 DEF Line
    <2>2. CASE i > 3
      <3>1. i - 3 \in 1..Len(t) /\ 3 + (i - 3) = i
        BY <1>11, <2>2
      <3>2. todo'[i] = t[i - 3]
        BY <1>11, <3>1
      <3> QED
        BY <1>5, <3>1, <3>2
    <2> QED
      BY SMTT(40), <1>11, <2>1, <2>2
  <1> QED
    BY <1>4, <1>11, <1>12, <1>13, <1>14 DEF Line

LEMMA WheneverInv ==
    ASSUME ProgInv, NEW h, Whenever(h)
    PROVE  ProgInv'
  <1> USE DEF ProgInv
  <1>1. Ready /\ todo # <<>> /\ UNCHANGED <<vars, flag, dropped, refused>>
    BY DEF Whenever
  <1>2. /\ Head(todo) = First /\ 1 \in 1..Len(todo) /\ LineOK(First)
    <2>1. Head(todo) = First /\ 1 \in 1..Len(todo)
      BY <1>1, TailShape DEF First
    <2> QED
      BY <2>1 DEF Shape, First
  <1>3. /\ First.op \in {"whenever", "paragraph_end"}
        /\ \/ todo' = Tail(todo) /\ masked' = masked
           \/ sqlcode # "zero" /\ todo' = <<>> /\ masked' = masked
           \/ /\ sqlcode # "zero"
              /\ todo' = WithVariables("Exec", HandlerStatement(First.s)) \o Tail(todo)
              /\ masked' = IF First.op = "paragraph_end" THEN masked \cup {First.s.crs} ELSE masked
    BY <1>2 DEF Whenever
  <1>4. First.op = "paragraph_end" => First.s.crs \in CursorNames
    BY <1>2 DEF LineOK, DeclLines
  <1>5. StateInv' /\ TypeOK'
    BY <1>1, QuietType
  <1>6. UNCHANGED <<cursors, cursor, resetting, sqlcode, varLists>>
    BY <1>1 DEF vars, curVars, loopVars
  <1>7. masked \subseteq masked' /\ masked' \subseteq CursorNames
    BY <1>3, <1>4 DEF ProgTypeOK
  <1>8. ProgTypeOK' /\ LoopInv'
    BY <1>1, <1>5, <1>6, <1>7 DEF ProgTypeOK, LoopInv, Ready
  <1>9. First.op \notin InBlock
    BY <1>3 DEF InBlock, Sets, BlockCalls
  <1>10. Shape(todo') => ListsInv'
    BY <1>6, <1>9, OutsideBlock
  <1>11. ASSUME \A x \in cursors : flag[x] = "X" \/ ToBeMarked(x)'
         PROVE  FlagInv'
    BY <1>1, <1>6, <1>7, <1>11 DEF FlagInv
  <1>12. CASE todo' = Tail(todo) /\ masked' = masked
    <2>1. /\ Shape(todo')
          /\ todo' = <<>> => ~Incomplete(First)
          /\ todo' # <<>> => Follows(First, First') /\ 1 \in 1..Len(todo') /\ LineOK(First')
          /\ \A i \in 1..Len(todo') : /\ i + 1 \in 1..Len(todo) /\ todo'[i] = todo[i + 1]
                                      /\ Together(First, todo'[i])
      BY <1>1, <1>12, NextLine
    <2>2. todo' # <<>> => First.op = "paragraph_end"
      BY <1>3, <2>1 DEF Together
    <2>3. todo' # <<>> =>
              /\ First'.op = "mark" /\ First'.s.crs = First.s.crs
              /\ First'.s.kind \in DeclKinds
      BY <2>1, <2>2 DEF Follows, Together, LineOK, DeclLines, First
    <2>4. RefusedInv'
      <3>1. refused => \A i \in 1..Len(todo') : RefusedLine(todo[i])'
        BY <1>1, <1>6, <1>12, RefusedLines
      <3> QED
        BY <1>1, <2>3, <3>1 DEF RefusedInv, Answered, BlockCalls, Sets
    <2>5. ASSUME NEW x \in cursors
          PROVE  flag[x] = "X" \/ ToBeMarked(x)'
      <3>1. CASE ToBeMarked(x)
        <4>1. First.op = "paragraph_end" /\ First.s.crs = x /\ sqlcode = "zero"
          BY <1>3, <3>1 DEF ToBeMarked
        <4>2. todo' # <<>>
          BY <2>1, <4>1 DEF Incomplete
        <4> QED
          BY <1>6, <2>3, <4>1, <4>2 DEF ToBeMarked
      <3> QED
        BY <3>1 DEF FlagInv
    <2>6. DeclareInv'
      <3>1. ASSUME NEW i \in 1..Len(todo'),
                   \/ todo'[i].op \in Declares
                   \/ todo'[i].op = "SetSQLParams" /\ todo'[i].s.kind \in DeclKinds
            PROVE  flag[todo'[i].s.crs] = "SPACE" /\ todo'[i].s.crs \notin cursors
        BY <2>1, <3>1 DEF DeclareInv
      <3>2. todo' # <<>> /\ sqlcode' = "zero" => First'.s.crs \in cursors
        BY <1>1, <1>6, <2>2, <2>3 DEF DeclareInv
      <3>3. todo' # <<>> => First'.s.kind # "dml"
        BY <2>3 DEF DeclKinds
      <3> QED
        BY <1>1, <1>6, <2>3, <3>1, <3>2, <3>3 DEF DeclareInv
    <2> QED
      BY <1>5, <1>8, <1>10, <1>11, <2>1, <2>4, <2>5, <2>6
  <1>13. CASE sqlcode # "zero" /\ todo' = <<>>
    <2>1. Shape(todo') /\ Len(todo') = 0
      BY <1>13, EmptyShape
    <2>2. \A i \in 1..Len(todo') : FALSE
      BY <2>1
    <2>3. \A x \in cursors : flag[x] = "X"
      BY <1>13, AllMarked
    <2>4. RefusedInv' /\ DeclareInv'
      BY <1>13, <2>2 DEF RefusedInv, DeclareInv
    <2> QED
      BY <1>5, <1>8, <1>10, <1>11, <2>1, <2>3, <2>4
  <1>14. CASE /\ sqlcode # "zero"
              /\ todo' = WithVariables("Exec", HandlerStatement(First.s)) \o Tail(todo)
              /\ masked' = IF First.op = "paragraph_end" THEN masked \cup {First.s.crs} ELSE masked
    <2>1. /\ Shape(todo') /\ todo' # <<>>
          /\ First'.op = "StartSQL" /\ First'.s.kind = "dml"
          /\ \A i \in 1..Len(todo') :
                \/ todo'[i].op \in {"StartSQL", "Exec", "EndSQL"} /\ todo'[i].s.np = 0
                \/ \E j \in 1..Len(todo) : todo'[i] = todo[j] /\ Together(First, todo[j])
      BY <1>1, <1>3, <1>14, HandlerLines
    <2>2. RefusedInv'
      <3>1. ASSUME refused, NEW i \in 1..Len(todo')
            PROVE  RefusedLine(todo[i])'
        <4>1. RefusedLine(todo'[i])
          <5>1. CASE todo'[i].op \in {"StartSQL", "Exec", "EndSQL"} /\ todo'[i].s.np = 0
            BY <5>1 DEF RefusedLine, SingleCalls
          <5>2. CASE \E j \in 1..Len(todo) : todo'[i] = todo[j]
            BY <3>1, <5>2 DEF RefusedInv
          <5> QED
            BY <2>1, <5>1, <5>2
        <4> QED
          BY <1>6, <4>1 DEF RefusedLine
      <3> QED
        BY <1>1, <2>1, <3>1 DEF RefusedInv, Answered, BlockCalls, Sets
    <2>3. \A x \in cursors : flag[x] = "X"
      BY <1>14, AllMarked
    <2>4. DeclareInv'
      <3>1. ASSUME NEW i \in 1..Len(todo'),
                   \/ todo'[i].op \in Declares
                   \/ todo'[i].op = "SetSQLParams" /\ todo'[i].s.kind \in DeclKinds
            PROVE  flag[todo'[i].s.crs] = "SPACE" /\ todo'[i].s.crs \notin cursors
        <4>1. \E j \in 1..Len(todo) : todo'[i] = todo[j]
          BY <2>1, <3>1 DEF Declares
        <4> QED
          BY <3>1, <4>1 DEF DeclareInv
      <3>2. ASSUME NEW i \in 1..Len(todo'), todo'[i].op = "mark"
            PROVE  todo'[i].s.crs \in masked'
        <4>1. Together(First, todo'[i])
          BY <2>1, <3>2
        <4>2. First.op = "paragraph_end" /\ First.s.crs = todo'[i].s.crs
          BY <1>3, <4>1 DEF Together
        <4> QED
          BY <1>14, <4>2
      <3> QED
        BY <1>1, <1>6, <1>14, <3>1, <3>2 DEF DeclareInv
    <2> QED
      BY <1>5, <1>8, <1>10, <1>11, <2>1, <2>2, <2>3, <2>4
  <1> QED
    BY <1>3, <1>12, <1>13, <1>14

---------------------------------------------------------------------------
(* ProgInv is an invariant, and what follows from it.                      *)

LEMMA ProgInitInv == ProgInit => ProgInv
  <1> SUFFICES ASSUME ProgInit PROVE ProgInv
    OBVIOUS
  <1>1. StateInv /\ TypeOK /\ todo = <<>> /\ cursors = {} /\ ~resetting
        /\ cur_vars = 0 /\ res_vars = 0
    BY InitStateInv, InitTypeOK DEF ProgInit, Init, CurInit
  <1>2. ProgTypeOK
    BY <1>1 DEF ProgInit, ProgTypeOK
  <1>3. Shape(todo) /\ Len(todo) = 0
    BY <1>1, EmptyShape
  <1>4. \A i \in 1..Len(todo) : FALSE
    BY <1>3
  <1>5. ListsInv /\ LoopInv /\ RefusedInv /\ DeclareInv
    BY <1>1, <1>4 DEF ProgInit, ListsInv, LoopInv, RefusedInv, DeclareInv
  <1>6. FlagInv
    BY <1>1 DEF ProgInit, FlagInv
  <1> QED
    BY <1>1, <1>2, <1>3, <1>5, <1>6 DEF ProgInv

LEMMA ProgStutterInv ==
    ASSUME ProgInv, UNCHANGED allVars
    PROVE  ProgInv'
  <1>1. UNCHANGED vars /\ UNCHANGED <<flag, todo, dropped, masked, refused>>
    BY DEF allVars, progVars
  <1>2. StateInv' /\ TypeOK'
    BY <1>1, QuietType
  <1>3. UNCHANGED <<cursors, cursor, resetting, sqlcode, cur_vars, res_vars>>
    BY <1>1 DEF vars, curVars, loopVars, varLists
  <1>4. First' = First /\ (\A k : NextParams(k)' = NextParams(k))
        /\ (\A k : NextResults(k)' = NextResults(k))
    BY <1>1 DEF First, NextParams, NextResults
  <1>5. ProgTypeOK' /\ Shape(todo') /\ LoopInv'
    BY <1>1, <1>2, <1>3, <1>4 DEF ProgInv, ProgTypeOK, LoopInv
  <1>6. ListsInv'
    BY <1>1, <1>3, <1>4 DEF ProgInv, ListsInv
  <1>7. RefusedInv'
    <2>1. \A l : RefusedLine(l)' = RefusedLine(l)
      BY <1>3 DEF RefusedLine
    <2> QED
      BY <1>1, <1>3, <1>4 DEF ProgInv, RefusedInv, RefusedLine, Answered
  <1>8. FlagInv'
    BY <1>1, <1>3, <1>4 DEF ProgInv, FlagInv, ToBeMarked
  <1>9. DeclareInv'
    BY <1>1, <1>3, <1>4 DEF ProgInv, DeclareInv
  <1> QED
    BY <1>2, <1>5, <1>6, <1>7, <1>8, <1>9 DEF ProgInv

LEMMA ProgStepInv ==
    ASSUME ProgInv, [ProgNext]_allVars
    PROVE  ProgInv'
  <1>1. ASSUME NEW s \in Program, Begin(s) PROVE ProgInv'
    BY <1>1, BeginInv
  <1>2. ASSUME NEW h \in Handlers, Whenever(h) PROVE ProgInv'
    BY <1>2, WheneverInv
  <1> QED
    BY <1>1, <1>2, CallInv, SkipCallInv, ResetAllInv, CheckFlagInv, MarkInv, ProgStutterInv
       DEF ProgNext

(***************************************************************************)
(* For every program the preprocessor can write, what is left of a         *)
(* statement, the lists, the flags and SQLCODE fit together after every    *)
(* line.                                                                   *)
(***************************************************************************)
THEOREM ProgramInvariant == ProgSpec => []ProgInv
  BY ProgInitInv, ProgStepInv, PTL DEF ProgSpec

\* The runtime and the program's flags keep their types.
THEOREM ProgramTypes == ProgSpec => []ProgTypeOK
  <1>1. ProgInv => ProgTypeOK
    BY DEF ProgInv
  <1> QED
    BY <1>1, ProgramInvariant, PTL

\* Between two statements the flags and the cursor registry agree.
THEOREM FlagsAreRight == ProgSpec => []FlagsAgree
  <1>1. ProgInv => FlagsAgree
    BY DEF ProgInv, FlagInv, ToBeMarked, FlagsAgree
  <1> QED
    BY <1>1, ProgramInvariant, PTL

\* An OPEN or a DECLARE that ends with SQLCODE 0 has done its work.
THEOREM OpenTellsTheTruth == ProgSpec => []OpenIsTruthful
  <1>1. ProgInv => OpenIsTruthful
    <2> SUFFICES ASSUME ProgInv, NEW s \in Program, sqlcode = "zero"
                 PROVE  /\ s.kind = "open" /\ todo = put_whenever_handler(s) =>
                              s.crs \in cursors /\ cursor[s.crs].open
                        /\ s.kind = "declare" /\ todo = <<Line("mark", s)>> =>
                              s.crs \in cursors \cup masked
      BY DEF OpenIsTruthful
    <2>1. ASSUME NEW o, todo = <<Line(o, s)>>
          PROVE  todo # <<>> /\ First.op = o /\ First.s = s
      BY <2>1 DEF First, Line
    <2> QED
      BY <2>1 DEF ProgInv, DeclareInv, put_whenever_handler
  <1> QED
    BY <1>1, ProgramInvariant, PTL

\* No statement meets the host variables of another.
THEOREM VariablesAreOwn == ProgSpec => []OwnVariables
  <1>1. ProgInv => OwnVariables
    <2> SUFFICES ASSUME ProgInv PROVE OwnVariables
      OBVIOUS
    <2> USE DEF ProgInv
    <2>1. todo = <<>> => cur_vars = 0 /\ res_vars = 0
      BY DEF ListsInv
    <2>2. ASSUME todo # <<>>
          PROVE  cur_vars <= Head(todo).s.np /\ res_vars <= Head(todo).s.nr
      <3>1. Head(todo) = First /\ Len(todo) \in Nat \ {0}
        BY <2>2, TailShape DEF First
      <3>2. LineOK(First)
        BY <3>1 DEF Shape, First
      <3>3. /\ First.s.np \in Nat /\ First.s.nr \in Nat
            /\ cur_vars \in Nat /\ res_vars \in Nat
        BY <3>2, LineArguments, RuntimeAssumption DEF ProgTypeOK, TypeOK
      <3>4. 0 \in 0..Len(todo) /\ NextParams(0) /\ NextResults(0)
        BY <3>1 DEF NextParams, NextResults
      <3>5. CASE First.op \notin InBlock
        BY <3>1, <3>3, <3>5 DEF ListsInv
      <3>6. CASE First.op \in InBlock
        <4>1. res_vars + 0 <= First.s.nr /\ cur_vars + 0 <= First.s.np
          BY <2>2, <3>4, <3>6 DEF ListsInv
        <4> QED
          BY <3>1, <3>3, <4>1
      <3> QED
        BY <3>5, <3>6
    <2> QED
      BY <2>1, <2>2 DEF OwnVariables
  <1> QED
    BY <1>1, ProgramInvariant, PTL

\* A statement one of whose parameters was refused does not end with SQLCODE 0.
THEOREM RefusalsAreReported == ProgSpec => []RefusedIsReported
  <1>1. ProgInv => RefusedIsReported
    <2>1. ProgInv /\ todo # <<>> => Head(todo) = First
      BY TailShape DEF ProgInv, First
    <2> QED
      BY <2>1 DEF ProgInv, RefusedInv, Answered, RefusedIsReported
  <1> QED
    BY <1>1, ProgramInvariant, PTL

\* A cursor that went with its connection is never declared again.
THEOREM DroppedStayDropped == ProgSpec => DroppedForGood
  <1>1. ProgInv' => (\A x \in dropped \cap dropped' : flag[x] = "X" => x \notin cursors')
    BY DEF ProgInv, FlagInv
  <1> QED
    BY <1>1, ProgramInvariant, PTL DEF DroppedForGood

=============================================================================
