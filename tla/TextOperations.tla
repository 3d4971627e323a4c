--------------------------- MODULE TextOperations ---------------------------
(***************************************************************************)
(* The plain-text operations of the collaboration domain and their         *)
(* transformation functions: operations.py and transform.py of the         *)
(* backend.  A text is a sequence of characters, a position is an offset   *)
(* counted from 0, as in the code.  The module has no variables.           *)
(*                                                                         *)
(* An operation is a record of one shape for both kinds, because the code  *)
(* reads a missing "text" as "" and a missing "len" as 0.  NoOperation is  *)
(* Python's None: the operation a transformation leaves when nothing of a  *)
(* delete remains.                                                         *)
(***************************************************************************)
EXTENDS Integers, Sequences

CONSTANT Chars  \* the characters texts are made of

Texts == Seq(Chars)

InsertOp(pos, text) == [type |-> "insert", pos |-> pos, text |-> text, len |-> 0]
DeleteOp(pos, len)  == [type |-> "delete", pos |-> pos, text |-> <<>>, len |-> len]
NoOperation         == [type |-> "none", pos |-> 0, text |-> <<>>, len |-> 0]

\* What the wire schema admits: a position is non-negative, a deleted length
\* positive, an inserted text may be empty.
Operations ==
  {op \in [type : {"insert", "delete"}, pos : Nat, text : Texts, len : Nat] :
     IF op.type = "insert" THEN op.len = 0 ELSE op.text = <<>> /\ op.len > 0}

\* The author of an operation.  Client ids and operation ids are strings the
\* code only compares, so numbers stand for them.
Identities == [client : Nat, op : Nat]

TieKeyLess(i, j) ==
  \/ i.client < j.client
  \/ i.client = j.client /\ i.op < j.op

-----------------------------------------------------------------------------
Lesser(x, y)  == IF x <= y THEN x ELSE y
Greater(x, y) == IF x >= y THEN x ELSE y

ClampIndex(pos, documentLength) == Greater(0, Lesser(pos, Greater(0, documentLength)))

ApplyOperation(content, op) ==
  LET pos == ClampIndex(op.pos, Len(content))
      end == ClampIndex(pos + op.len, Len(content))
  IN  SubSeq(content, 1, pos) \o op.text \o SubSeq(content, end + 1, Len(content))

-----------------------------------------------------------------------------
(* The four cases of the transformation of an incoming operation a over an *)
(* accepted operation b.                                                   *)

\* Mistake: the accepted insert always stays left of one at the same position.
TransformInsertInsertNoTie(a, aId, b, bId) ==
  IF b.pos <= a.pos THEN [a EXCEPT !.pos = a.pos + Len(b.text)] ELSE a

TransformInsertInsert(a, aId, b, bId) ==
  IF b.pos < a.pos \/ (b.pos = a.pos /\ TieKeyLess(bId, aId))
  THEN [a EXCEPT !.pos = a.pos + Len(b.text)]
  ELSE a

\* Mistake: an insert inside the deleted range moves left of it.
TransformInsertDeleteNoFloor(a, b) ==
  IF b.pos < a.pos THEN [a EXCEPT !.pos = a.pos - b.len] ELSE a

TransformInsertDelete(a, b) ==
  IF b.pos < a.pos
  THEN [a EXCEPT !.pos = Greater(b.pos, a.pos - b.len)]
  ELSE a

\* Mistake: a delete does not expand over an insert inside its range.
TransformDeleteInsertNoExpansion(a, b) ==
  IF b.pos <= a.pos THEN [a EXCEPT !.pos = a.pos + Len(b.text)] ELSE a

TransformDeleteInsert(a, b) ==
  IF b.pos <= a.pos THEN [a EXCEPT !.pos = a.pos + Len(b.text)]
  ELSE IF b.pos < a.pos + a.len THEN [a EXCEPT !.len = a.len + Len(b.text)]
  ELSE a

\* Mistake: the start of a delete that overlaps on its left is kept.
TransformDeleteDeleteKeepStart(a, b) ==
  LET aEnd    == a.pos + a.len
      bEnd    == b.pos + b.len
      overlap == Greater(0, Lesser(aEnd, bEnd) - Greater(a.pos, b.pos))
      nextLen == Greater(0, a.len - overlap)
  IN  IF bEnd <= a.pos THEN DeleteOp(Greater(0, a.pos - b.len), a.len)
      ELSE IF b.pos >= aEnd THEN a
      ELSE IF nextLen = 0 THEN NoOperation
      ELSE DeleteOp(a.pos, nextLen)

TransformDeleteDelete(a, b) ==
  LET aEnd    == a.pos + a.len
      bEnd    == b.pos + b.len
      overlap == Greater(0, Lesser(aEnd, bEnd) - Greater(a.pos, b.pos))
      nextLen == Greater(0, a.len - overlap)
  IN  IF bEnd <= a.pos THEN DeleteOp(Greater(0, a.pos - b.len), a.len)
      ELSE IF b.pos >= aEnd THEN a
      ELSE IF nextLen = 0 THEN NoOperation
      ELSE DeleteOp(Lesser(a.pos, b.pos), nextLen)

TransformOperation(a, aId, b, bId) ==
  IF a.type = "insert"
  THEN IF b.type = "insert" THEN TransformInsertInsert(a, aId, b, bId)
                            ELSE TransformInsertDelete(a, b)
  ELSE IF b.type = "insert" THEN TransformDeleteInsert(a, b)
                            ELSE TransformDeleteDelete(a, b)

(* The transformation over the accepted operations of the versions         *)
(* base+1..top, in version order, until None is reached.  log maps versions *)
(* to accepted operations; a version without a row is skipped, as the query *)
(* for the missed operations returns the rows that exist.                  *)
TransformOverVersion(op, id, log, v) ==
  IF v \notin DOMAIN log \/ op = NoOperation THEN op
  ELSE TransformOperation(op, id, log[v].op, log[v].id)

TransformOverHistory(op, id, log, base, top) ==
  LET after[v \in base..top] ==
        IF v = base THEN op ELSE TransformOverVersion(after[v - 1], id, log, v)
  IN  after[top]

\* An operation whose range lies in a text of the given length: clamping does
\* not change what it does.
InBounds(op, length) ==
  /\ op.pos <= length
  /\ op.pos + op.len <= length
=============================================================================
