------------------------ MODULE TextOperationsProofs ------------------------
(***************************************************************************)
(* Facts about the plain-text operations, for every text and every         *)
(* operation the wire schema admits: what a transformation returns, that   *)
(* it keeps an operation within the text it will be applied to, the same   *)
(* for the transformation over a history of any length, and that two       *)
(* transformed operations commute.                                         *)
(***************************************************************************)
EXTENDS TextOperations, WellFoundedInduction, SequenceTheorems, TLAPS

-----------------------------------------------------------------------------
(* Induction over the natural numbers, stated for sets.                    *)

Smaller == {p \in Nat \X Nat : p[1] < p[2]}

\* A set of natural numbers that is not empty has a least element.
LEMMA LeastElement ==
  ASSUME NEW T, T \subseteq Nat, T # {}
  PROVE  \E x \in T : \A y \in T : x <= y
<1>1. IsWellFoundedOn(Smaller, Nat)
  BY NatLessThanWellFounded DEF OpToRel, Smaller
<1>2. PICK x \in T : \A y \in T : ~(<<y, x>> \in Smaller)
  BY <1>1, WFMin
<1>3. \A y \in T : ~(y < x)
  BY <1>2 DEF Smaller
<1> QED BY <1>3

\* A set that holds a number and the successor of each of its members up to a
\* bound holds everything in between.
LEMMA IntervalInduction ==
  ASSUME NEW lo \in Nat, NEW hi \in Nat, NEW S,
         lo \in S,
         \A v \in lo..hi : v < hi /\ v \in S => v + 1 \in S
  PROVE  lo..hi \subseteq S
<1> DEFINE Rest == (lo..hi) \ S
<1> SUFFICES ASSUME Rest # {} PROVE FALSE
  OBVIOUS
<1>0. Rest \subseteq Nat
  OBVIOUS
<1>1. PICK m \in Rest : \A y \in Rest : m <= y
  <2> HIDE DEF Rest
  <2> QED BY <1>0, LeastElement
<1>2. m - 1 \in lo..hi /\ m - 1 < hi
  BY <1>1
<1>3. m - 1 \in S
  BY <1>1, <1>2
<1> QED BY <1>1, <1>2, <1>3

-----------------------------------------------------------------------------
(* Applying an operation.                                                  *)

\* Applying an operation to a text gives a text.
LEMMA ApplyType ==
  ASSUME NEW content \in Texts, NEW op \in Operations
  PROVE  ApplyOperation(content, op) \in Texts
<1> DEFINE pos == ClampIndex(op.pos, Len(content))
           end == ClampIndex(pos + op.len, Len(content))
<1>1. pos \in 0..Len(content) /\ end \in 0..Len(content)
  BY DEF ClampIndex, Greater, Lesser, Operations, Texts
<1>2. SubSeq(content, 1, pos) \in Seq(Chars)
  BY <1>1 DEF Texts
<1>3. SubSeq(content, end + 1, Len(content)) \in Seq(Chars)
  BY <1>1 DEF Texts
<1>4. op.text \in Seq(Chars)
  BY DEF Operations, Texts
<1> QED BY <1>2, <1>3, <1>4 DEF ApplyOperation, Texts

\* The length of the text an operation leaves: an insert adds its text, a
\* delete removes as much of its range as there is.
LEMMA ApplyLength ==
  ASSUME NEW content \in Texts, NEW op \in Operations
  PROVE  Len(ApplyOperation(content, op)) =
           LET pos == ClampIndex(op.pos, Len(content))
               end == ClampIndex(pos + op.len, Len(content))
           IN  Len(content) + Len(op.text) - (end - pos)
<1> DEFINE pos == ClampIndex(op.pos, Len(content))
           end == ClampIndex(pos + op.len, Len(content))
           left == SubSeq(content, 1, pos)
           right == SubSeq(content, end + 1, Len(content))
<1>1. pos \in 0..Len(content) /\ end \in 0..Len(content)
  BY DEF ClampIndex, Greater, Lesser, Operations, Texts
<1>2. left \in Seq(Chars) /\ Len(left) = pos
  BY <1>1 DEF Texts
<1>3. right \in Seq(Chars) /\ Len(right) = Len(content) - end
  BY <1>1 DEF Texts
<1>4. op.text \in Seq(Chars)
  BY DEF Operations, Texts
<1>5. left \o op.text \in Seq(Chars) /\ Len(left \o op.text) = pos + Len(op.text)
  BY <1>2, <1>4
<1>6. Len((left \o op.text) \o right) = pos + Len(op.text) + (Len(content) - end)
  BY <1>3, <1>5
<1>7. Len(op.text) \in Nat /\ Len(content) \in Nat
  BY <1>4 DEF Texts
<1> QED BY <1>1, <1>6, <1>7 DEF ApplyOperation

-----------------------------------------------------------------------------
(* Transforming an operation over one accepted operation.                  *)

\* What a transformation returns is an operation of the wire schema again, or
\* nothing.
LEMMA TransformType ==
  ASSUME NEW a \in Operations, NEW aId, NEW b \in Operations, NEW bId
  PROVE  TransformOperation(a, aId, b, bId) \in Operations \cup {NoOperation}
<1>0. Len(b.text) \in Nat /\ a.pos \in Nat /\ b.pos \in Nat /\ a.len \in Nat /\ b.len \in Nat
  BY DEF Operations, Texts
<1>1. CASE a.type = "insert" /\ b.type = "insert"
  BY <1>0, <1>1 DEF TransformOperation, TransformInsertInsert, Operations
<1>2. CASE a.type = "insert" /\ b.type = "delete"
  BY <1>0, <1>2 DEF TransformOperation, TransformInsertDelete, Greater, Operations
<1>3. CASE a.type = "delete" /\ b.type = "insert"
  BY <1>0, <1>3 DEF TransformOperation, TransformDeleteInsert, Operations
<1>4. CASE a.type = "delete" /\ b.type = "delete"
  <2>1. TransformOperation(a, aId, b, bId) = TransformDeleteDelete(a, b)
    BY <1>4 DEF TransformOperation
  <2>2. \A p \in Nat, n \in Nat \ {0} : DeleteOp(p, n) \in Operations
    BY DEF DeleteOp, Operations, Texts
  <2>3. a.len > 0
    BY <1>4 DEF Operations
  <2>4. a \in Operations
    OBVIOUS
  <2> QED BY <1>0, <2>1, <2>2, <2>3, <2>4, SMTT(30) DEF TransformDeleteDelete, Greater, Lesser
<1> QED BY <1>1, <1>2, <1>3, <1>4 DEF Operations

\* The arithmetic of two overlapping deletes.
LEMMA OverlapBound ==
  ASSUME NEW n \in Nat, NEW ap \in Nat, NEW al \in Nat, NEW bp \in Nat, NEW bl \in Nat,
         NEW next, NEW left, NEW overlap,
         ap + al <= n, bp <= n, ~(bp + bl <= ap), ~(bp >= ap + al),
         (next = n - bl /\ bp + bl <= n) \/ (next = bp /\ bp + bl > n),
         overlap = Lesser(ap + al, bp + bl) - Greater(ap, bp),
         left = al - overlap \/ left = 0
  PROVE  Lesser(ap, bp) + left <= next
<1>1. CASE bp <= ap /\ ap + al <= bp + bl
  BY <1>1 DEF Lesser, Greater
<1>2. CASE bp <= ap /\ ~(ap + al <= bp + bl)
  BY <1>2 DEF Lesser, Greater
<1>3. CASE ~(bp <= ap) /\ ap + al <= bp + bl
  BY <1>3 DEF Lesser, Greater
<1>4. CASE ~(bp <= ap) /\ ~(ap + al <= bp + bl)
  BY <1>4 DEF Lesser, Greater
<1> QED BY <1>1, <1>2, <1>3, <1>4

\* An operation that lies within a text still does after its transformation
\* over an operation that was applied to that text, even if the applied
\* operation itself reached beyond the text and was clamped.
LEMMA TransformInBounds ==
  ASSUME NEW content \in Texts, NEW a \in Operations, NEW aId, NEW b \in Operations, NEW bId,
         InBounds(a, Len(content)),
         TransformOperation(a, aId, b, bId) # NoOperation
  PROVE  InBounds(TransformOperation(a, aId, b, bId), Len(ApplyOperation(content, b)))
<1> DEFINE n == Len(content)
           p == ClampIndex(b.pos, n)
           e == ClampIndex(p + b.len, n)
           next == Len(ApplyOperation(content, b))
<1>0. /\ n \in Nat /\ Len(b.text) \in Nat
      /\ a.pos \in Nat /\ b.pos \in Nat /\ a.len \in Nat /\ b.len \in Nat
  BY DEF Operations, Texts
<1>1. next = n + Len(b.text) - (e - p)
  BY ApplyLength
<1>2. a.pos <= n /\ a.pos + a.len <= n
  BY DEF InBounds
<1>3. p = IF b.pos <= n THEN b.pos ELSE n
  BY <1>0 DEF ClampIndex, Greater, Lesser
<1>4. e = IF p + b.len <= n THEN p + b.len ELSE n
  <2>1. p + b.len \in Nat
    BY <1>0, <1>3
  <2> HIDE DEF p
  <2> QED BY <1>0, <2>1 DEF ClampIndex, Greater, Lesser
<1> HIDE DEF n, p, e, next
<1>5. CASE a.type = "insert" /\ b.type = "insert"
  <2>1. TransformOperation(a, aId, b, bId) = TransformInsertInsert(a, aId, b, bId)
    BY <1>5 DEF TransformOperation
  <2>2. a.len = 0 /\ b.len = 0
    BY <1>5 DEF Operations
  <2>3. next = n + Len(b.text)
    BY <1>0, <1>1, <1>3, <1>4, <2>2
  <2>4. a \in [type : {"insert", "delete"}, pos : Nat, text : Texts, len : Nat]
    BY DEF Operations
  <2> QED BY <1>0, <1>2, <2>1, <2>2, <2>3, <2>4 DEF InBounds, TransformInsertInsert, next
<1>6. CASE a.type = "insert" /\ b.type = "delete"
  <2>1. TransformOperation(a, aId, b, bId) = TransformInsertDelete(a, b)
    BY <1>6 DEF TransformOperation
  <2>2. a.len = 0 /\ Len(b.text) = 0
    BY <1>6 DEF Operations
  <2>3. next = n - (e - p)
    BY <1>0, <1>1, <1>3, <1>4, <2>2
  <2>4. a \in [type : {"insert", "delete"}, pos : Nat, text : Texts, len : Nat]
    BY DEF Operations
  <2> QED BY <1>0, <1>2, <1>3, <1>4, <2>1, <2>2, <2>3, <2>4, SMTT(30)
          DEF InBounds, TransformInsertDelete, Greater, next
<1>7. CASE a.type = "delete" /\ b.type = "insert"
  <2>1. TransformOperation(a, aId, b, bId) = TransformDeleteInsert(a, b)
    BY <1>7 DEF TransformOperation
  <2>2. b.len = 0
    BY <1>7 DEF Operations
  <2>3. next = n + Len(b.text)
    BY <1>0, <1>1, <1>3, <1>4, <2>2
  <2>4. a \in [type : {"insert", "delete"}, pos : Nat, text : Texts, len : Nat]
    BY DEF Operations
  <2> QED BY <1>0, <1>2, <2>1, <2>3, <2>4 DEF InBounds, TransformDeleteInsert, next
<1>8. CASE a.type = "delete" /\ b.type = "delete"
  <2>1. TransformOperation(a, aId, b, bId) = TransformDeleteDelete(a, b)
    BY <1>8 DEF TransformOperation
  <2>2. Len(b.text) = 0
    BY <1>8 DEF Operations
  <2>3. next = n - (e - p)
    BY <1>0, <1>1, <1>3, <1>4, <2>2
  <2>4. TransformDeleteDelete(a, b) # NoOperation
    BY <2>1
  <2>8. b.len > 0 /\ a.len > 0
    BY <1>8 DEF Operations
  <2>5. CASE b.pos + b.len <= a.pos
    <3>1. TransformDeleteDelete(a, b) = DeleteOp(Greater(0, a.pos - b.len), a.len)
      BY <2>5 DEF TransformDeleteDelete
    <3>2. Greater(0, a.pos - b.len) = a.pos - b.len
      BY <1>0, <2>5 DEF Greater
    <3>3. next = n - b.len
      BY <1>0, <1>2, <1>3, <1>4, <2>3, <2>5
    <3> QED BY <1>0, <1>2, <2>1, <3>1, <3>2, <3>3 DEF InBounds, DeleteOp, next
  <2>6. CASE ~(b.pos + b.len <= a.pos) /\ b.pos >= a.pos + a.len
    <3>1. TransformDeleteDelete(a, b) = a
      BY <2>6 DEF TransformDeleteDelete
    <3> QED BY <1>0, <1>2, <1>3, <1>4, <2>1, <2>3, <2>6, <3>1 DEF InBounds, next
  <2>7. CASE ~(b.pos + b.len <= a.pos) /\ ~(b.pos >= a.pos + a.len)
    <3> DEFINE overlap == Greater(0, Lesser(a.pos + a.len, b.pos + b.len)
                                       - Greater(a.pos, b.pos))
               left == Greater(0, a.len - overlap)
    <3>1. TransformDeleteDelete(a, b) = DeleteOp(Lesser(a.pos, b.pos), left)
      BY <2>4, <2>7 DEF TransformDeleteDelete
    <3>6. b.pos <= n /\ p = b.pos
      BY <1>0, <1>2, <1>3, <2>7
    <3>7. overlap = Lesser(a.pos + a.len, b.pos + b.len) - Greater(a.pos, b.pos)
      BY <1>0, <2>7, <2>8 DEF Greater, Lesser
    <3>8. Lesser(a.pos + a.len, b.pos + b.len) \in Nat /\ Greater(a.pos, b.pos) \in Nat
      BY <1>0 DEF Greater, Lesser
    <3>9. overlap \in Int /\ left \in Nat /\ (left = a.len - overlap \/ left = 0)
      <4>1. overlap \in Int
        BY <3>7, <3>8
      <4> HIDE DEF overlap
      <4> QED BY <1>0, <4>1 DEF Greater
    <3> HIDE DEF left, overlap
    <3>2. Lesser(a.pos, b.pos) + left <= next /\ left \in Nat
      <4>1. (next = n - b.len /\ b.pos + b.len <= n) \/ (next = b.pos /\ b.pos + b.len > n)
        BY <1>0, <1>4, <2>3, <3>6
      <4> DEFINE ap == a.pos
                 al == a.len
                 bp == b.pos
                 bl == b.len
      <4>2. /\ n \in Nat /\ ap \in Nat /\ al \in Nat /\ bp \in Nat /\ bl \in Nat
            /\ ap + al <= n /\ bp <= n /\ ~(bp + bl <= ap) /\ ~(bp >= ap + al)
        BY <1>0, <1>2, <2>7, <3>6
      <4>3. /\ (next = n - bl /\ bp + bl <= n) \/ (next = bp /\ bp + bl > n)
            /\ overlap = Lesser(ap + al, bp + bl) - Greater(ap, bp)
            /\ left = al - overlap \/ left = 0
        BY <3>7, <3>9, <4>1
      <4> HIDE DEF ap, al, bp, bl
      <4>4. Lesser(ap, bp) + left <= next
        BY <4>2, <4>3, OverlapBound, ZenonT(30)
      <4> QED BY <3>9, <4>4 DEF ap, bp
    <3>3. Lesser(a.pos, b.pos) \in Nat
      BY <1>0 DEF Lesser
    <3>4. next \in Int
      BY <1>0, <1>3, <1>4, <2>3
    <3> HIDE DEF left
    <3>5. Lesser(a.pos, b.pos) <= next
      BY <3>2, <3>3, <3>4
    <3> QED BY <2>1, <3>1, <3>2, <3>5 DEF InBounds, DeleteOp, next
  <2> QED BY <2>5, <2>6, <2>7
<1> QED BY <1>5, <1>6, <1>7, <1>8 DEF Operations

-----------------------------------------------------------------------------
(* Transforming an operation over a history.                               *)

\* The recursion over the versions defines a function.
LEMMA HistoryDefined ==
  ASSUME NEW op, NEW id, NEW log, NEW base \in Nat, NEW top \in Nat, base <= top
  PROVE  \E f : f = [v \in base..top |->
                       IF v = base THEN op ELSE TransformOverVersion(f[v - 1], id, log, v)]
<1> DEFINE Solves(f, k) == f = [v \in base..k |->
                       IF v = base THEN op ELSE TransformOverVersion(f[v - 1], id, log, v)]
           S == {k \in base..top : \E f : Solves(f, k)}
<1>1. base \in S
  <2> DEFINE w == [v \in base..base |-> op]
  <2>1. Solves(w, base)
    <3>1. \A v \in base..base : v = base
      OBVIOUS
    <3> QED BY <3>1
  <2>2. base \in base..top
    OBVIOUS
  <2> HIDE DEF w, Solves
  <2> QED BY <2>1, <2>2
<1>2. ASSUME NEW k \in base..top, k < top, k \in S
      PROVE  k + 1 \in S
  <2>1. PICK g : Solves(g, k)
    BY <1>2
  <2> DEFINE h == [v \in base..(k + 1) |->
                     IF v = k + 1 THEN TransformOverVersion(g[k], id, log, k + 1) ELSE g[v]]
  <2>2. \A v \in base..(k + 1) : h[v] = IF v = base THEN op
                                  ELSE TransformOverVersion(h[v - 1], id, log, v)
    <3> SUFFICES ASSUME NEW v \in base..(k + 1)
                 PROVE  h[v] = IF v = base THEN op
                               ELSE TransformOverVersion(h[v - 1], id, log, v)
      OBVIOUS
    <3>1. CASE v = k + 1
      <4>1. k \in base..(k + 1) /\ k # k + 1 /\ v # base /\ v - 1 = k
        BY <3>1
      <4>2. h[k] = g[k]
        BY <4>1
      <4> QED BY <3>1, <4>1, <4>2
    <3>2. CASE v = base
      <4>1. v # k + 1 /\ v \in base..k
        BY <3>2
      <4> QED BY <2>1, <3>2, <4>1
    <3>3. CASE v # k + 1 /\ v # base
      <4>1. v \in base..k /\ v - 1 \in base..(k + 1) /\ v - 1 # k + 1
        BY <3>3
      <4>2. h[v] = g[v] /\ h[v - 1] = g[v - 1]
        BY <3>3, <4>1
      <4>3. g[v] = TransformOverVersion(g[v - 1], id, log, v)
        BY <2>1, <3>3, <4>1
      <4> QED BY <3>3, <4>2, <4>3
    <3> QED BY <3>1, <3>2, <3>3
  <2>3. h = [v \in base..(k + 1) |-> h[v]]
    OBVIOUS
  <2> HIDE DEF h
  <2>4. Solves(h, k + 1)
    BY <2>2, <2>3
  <2> QED BY <1>2, <2>4
<1> HIDE DEF S
<1>3. top \in S
  BY <1>1, <1>2, IntervalInduction
<1> QED BY <1>3 DEF S

\* What holds of an operation at its base version and is kept by the
\* transformation over each version holds of the operation transformed over
\* the whole history.  R relates a version to the operation reached there.
LEMMA HistoryInduction ==
  ASSUME NEW op, NEW id, NEW log, NEW base \in Nat, NEW top \in Nat, base <= top, NEW R,
         <<base, op>> \in R,
         \A v \in (base + 1)..top : \A x :
           <<v - 1, x>> \in R => <<v, TransformOverVersion(x, id, log, v)>> \in R
  PROVE  <<top, TransformOverHistory(op, id, log, base, top)>> \in R
<1> DEFINE Body(f) == [v \in base..top |->
                         IF v = base THEN op ELSE TransformOverVersion(f[v - 1], id, log, v)]
           after == CHOOSE f : f = Body(f)
           S == {k \in base..top : <<k, after[k]>> \in R}
<1>1. after = Body(after)
  BY HistoryDefined
<1>2. TransformOverHistory(op, id, log, base, top) = after[top]
  BY DEF TransformOverHistory
<1> HIDE DEF after
<1>3. base \in S
  BY <1>1
<1>4. ASSUME NEW k \in base..top, k < top, k \in S
      PROVE  k + 1 \in S
  <2>1. k + 1 \in (base + 1)..top /\ (k + 1) - 1 = k /\ k + 1 \in base..top /\ k + 1 # base
    BY <1>4
  <2>2. after[k + 1] = TransformOverVersion(after[k], id, log, k + 1)
    BY <1>1, <2>1
  <2>3. <<(k + 1) - 1, after[k]>> \in R
    BY <1>4, <2>1
  <2>4. <<k + 1, TransformOverVersion(after[k], id, log, k + 1)>> \in R
    BY <2>1, <2>3
  <2> QED BY <2>1, <2>2, <2>4
<1> HIDE DEF S
<1>5. top \in S
  BY <1>3, <1>4, IntervalInduction, SMTT(30)
<1> QED BY <1>2, <1>5 DEF S

\* The transformation over some versions does not depend on the later ones, and
\* goes on from there over the next.
LEMMA HistoryStep ==
  ASSUME NEW op, NEW id, NEW log, NEW longer, NEW base \in Nat, NEW top \in Nat, base <= top,
         \A v \in (base + 1)..top : \A x :
           TransformOverVersion(x, id, longer, v) = TransformOverVersion(x, id, log, v)
  PROVE  /\ TransformOverHistory(op, id, longer, base, top)
              = TransformOverHistory(op, id, log, base, top)
         /\ TransformOverHistory(op, id, longer, base, top + 1)
              = TransformOverVersion(TransformOverHistory(op, id, log, base, top),
                                     id, longer, top + 1)
<1> DEFINE next == top + 1
           Before(f) == [v \in base..top |->
                           IF v = base THEN op ELSE TransformOverVersion(f[v - 1], id, log, v)]
           Same(f)   == [v \in base..top |->
                           IF v = base THEN op ELSE TransformOverVersion(f[v - 1], id, longer, v)]
           After(f)  == [v \in base..next |->
                           IF v = base THEN op ELSE TransformOverVersion(f[v - 1], id, longer, v)]
           before == CHOOSE f : f = Before(f)
           same   == CHOOSE f : f = Same(f)
           after  == CHOOSE f : f = After(f)
           S == {k \in base..top : same[k] = before[k] /\ after[k] = before[k]}
<1>0. next \in Nat /\ base <= next
  OBVIOUS
<1> HIDE DEF next
<1>1. before = Before(before)
  BY HistoryDefined
<1>2. same = Same(same)
  BY HistoryDefined
<1>3. after = After(after)
  BY <1>0, HistoryDefined
<1>4. /\ TransformOverHistory(op, id, log, base, top) = before[top]
      /\ TransformOverHistory(op, id, longer, base, top) = same[top]
      /\ TransformOverHistory(op, id, longer, base, next) = after[next]
  BY DEF TransformOverHistory
<1> HIDE DEF before, same, after
<1>5. base \in S
  <2>1. base \in base..top /\ base \in base..next
    BY <1>0 DEF next
  <2> QED BY <1>1, <1>3, <1>2, <2>1
<1>6. ASSUME NEW k \in base..top, k < top, k \in S
      PROVE  k + 1 \in S
  <2>1. /\ k + 1 \in (base + 1)..top /\ (k + 1) - 1 = k /\ k + 1 # base
        /\ k + 1 \in base..top /\ k + 1 \in base..next
    BY <1>6 DEF next
  <2>2. /\ before[k + 1] = TransformOverVersion(before[k], id, log, k + 1)
        /\ same[k + 1] = TransformOverVersion(same[k], id, longer, k + 1)
    BY <1>1, <1>2, <2>1
  <2>3. after[k + 1] = TransformOverVersion(after[k], id, longer, k + 1)
    BY <1>3, <2>1
  <2>4. same[k] = before[k] /\ after[k] = before[k]
    BY <1>6
  <2>5. same[k + 1] = before[k + 1] /\ after[k + 1] = before[k + 1]
    BY <2>1, <2>2, <2>3, <2>4
  <2> QED BY <2>1, <2>5
<1> HIDE DEF S
<1>7. top \in S
  BY <1>5, <1>6, IntervalInduction
<1>8. same[top] = before[top] /\ after[top] = before[top]
  BY <1>7 DEF S
<1>9. after[next] = TransformOverVersion(after[top], id, longer, next)
  <2>1. next \in base..next /\ next # base /\ next - 1 = top
    BY <1>0 DEF next
  <2> QED BY <1>3, <2>1
<1> QED BY <1>4, <1>8, <1>9 DEF next

\* What the transformation has made nothing of stays nothing.
LEMMA HistoryStaysNone ==
  ASSUME NEW op, NEW id, NEW log, NEW longer, NEW base \in Nat, NEW top \in Nat, base <= top,
         \A v \in (base + 1)..top : v \in DOMAIN log /\ v \in DOMAIN longer /\ longer[v] = log[v],
         TransformOverHistory(op, id, log, base, top) = NoOperation
  PROVE  /\ TransformOverHistory(op, id, longer, base, top) = NoOperation
         /\ TransformOverHistory(op, id, longer, base, top + 1) = NoOperation
<1>1. \A v \in (base + 1)..top : \A x :
        TransformOverVersion(x, id, longer, v) = TransformOverVersion(x, id, log, v)
  BY DEF TransformOverVersion
<1>2. /\ TransformOverHistory(op, id, longer, base, top)
           = TransformOverHistory(op, id, log, base, top)
      /\ TransformOverHistory(op, id, longer, base, top + 1)
           = TransformOverVersion(TransformOverHistory(op, id, log, base, top), id, longer, top + 1)
  BY <1>1, HistoryStep
<1> QED BY <1>2 DEF TransformOverVersion

\* The transformation over any history returns an operation or nothing.
THEOREM HistoryType ==
  ASSUME NEW op \in Operations, NEW id, NEW log, NEW base \in Nat, NEW top \in Nat,
         base <= top,
         \A v \in DOMAIN log : log[v].op \in Operations
  PROVE  TransformOverHistory(op, id, log, base, top) \in Operations \cup {NoOperation}
<1> DEFINE R == (base..top) \X (Operations \cup {NoOperation})
<1>1. <<base, op>> \in R
  OBVIOUS
<1>2. ASSUME NEW v \in (base + 1)..top, NEW x, <<v - 1, x>> \in R
      PROVE  <<v, TransformOverVersion(x, id, log, v)>> \in R
  <2>1. x \in Operations \cup {NoOperation} /\ v \in base..top
    BY <1>2
  <2>2. TransformOverVersion(x, id, log, v) \in Operations \cup {NoOperation}
    BY <2>1, TransformType DEF TransformOverVersion
  <2> QED BY <2>1, <2>2
<1>3. <<top, TransformOverHistory(op, id, log, base, top)>> \in R
  <2> HIDE DEF R
  <2> QED BY <1>1, <1>2, HistoryInduction
<1> QED BY <1>3

\* An operation that lies within the text of its base version lies, transformed
\* over the versions since, within the text of the last of them, provided that
\* the texts are those the logged operations make.
THEOREM HistoryInBounds ==
  ASSUME NEW op \in Operations, NEW id, NEW log, NEW base \in Nat, NEW top \in Nat,
         base <= top, NEW textAt,
         \A v \in base..top : textAt[v] \in Texts,
         \A v \in (base + 1)..top : /\ v \in DOMAIN log
                                    /\ log[v].op \in Operations
                                    /\ textAt[v] = ApplyOperation(textAt[v - 1], log[v].op),
         InBounds(op, Len(textAt[base])),
         TransformOverHistory(op, id, log, base, top) # NoOperation
  PROVE  InBounds(TransformOverHistory(op, id, log, base, top), Len(textAt[top]))
<1> DEFINE R == {p \in (base..top) \X (Operations \cup {NoOperation}) :
                   p[2] # NoOperation => InBounds(p[2], Len(textAt[p[1]]))}
<1>1. <<base, op>> \in R
  OBVIOUS
<1>2. ASSUME NEW v \in (base + 1)..top, NEW x, <<v - 1, x>> \in R
      PROVE  <<v, TransformOverVersion(x, id, log, v)>> \in R
  <2> DEFINE y == TransformOverVersion(x, id, log, v)
  <2>1. /\ x \in Operations \cup {NoOperation} /\ v \in base..top /\ v - 1 \in base..top
        /\ x # NoOperation => InBounds(x, Len(textAt[v - 1]))
    BY <1>2
  <2>2. y \in Operations \cup {NoOperation}
    BY <2>1, TransformType DEF TransformOverVersion
  <2>3. ASSUME y # NoOperation PROVE InBounds(y, Len(textAt[v]))
    <3>1. x # NoOperation
      BY <2>3 DEF TransformOverVersion
    <3>2. y = TransformOperation(x, id, log[v].op, log[v].id)
      BY <3>1 DEF TransformOverVersion
    <3>3. InBounds(TransformOperation(x, id, log[v].op, log[v].id),
                   Len(ApplyOperation(textAt[v - 1], log[v].op)))
      BY <2>1, <2>3, <3>1, <3>2, TransformInBounds
    <3> QED BY <3>2, <3>3
  <2> HIDE DEF y
  <2>4. <<v, y>> \in R
    BY <2>1, <2>2, <2>3
  <2> QED BY <2>4 DEF y
<1>3. <<top, TransformOverHistory(op, id, log, base, top)>> \in R
  <2> HIDE DEF R
  <2> QED BY <1>1, <1>2, HistoryInduction
<1> QED BY <1>3

-----------------------------------------------------------------------------
(* Two transformed operations commute. Each splices a text in place of a   *)
(* range; the ranges are disjoint, or those of two deletes overlap.        *)

\* t with the characters from p + 1 to q replaced by those of u.
Splice(t, p, q, u) == SubSeq(t, 1, p) \o u \o SubSeq(t, q + 1, Len(t))

\* The elements of a concatenation.
LEMMA ConcatChars ==
  ASSUME NEW S, NEW a \in Seq(S), NEW b \in Seq(S)
  PROVE  /\ a \o b \in Seq(S) /\ Len(a \o b) = Len(a) + Len(b)
         /\ \A i \in 1..(Len(a) + Len(b)) : (a \o b)[i] = IF i <= Len(a) THEN a[i] ELSE b[i - Len(a)]
OBVIOUS

\* s has the characters of t, but those of u instead of those from p + 1 to q.
Spliced(s, t, p, q, u) ==
  /\ s \in Texts /\ Len(t) \in Nat /\ Len(u) \in Nat
  /\ Len(s) = p + Len(u) + (Len(t) - q)
  /\ \A i \in 1..p : s[i] = t[i]
  /\ \A i \in 1..Len(u) : s[p + i] = u[i]
  /\ \A i \in 1..(Len(t) - q) : s[p + Len(u) + i] = t[q + i]

\* The characters of a spliced text.
LEMMA SpliceChars ==
  ASSUME NEW t \in Texts, NEW u \in Texts, NEW p \in Nat, NEW q \in Nat, p <= q, q <= Len(t)
  PROVE  Spliced(Splice(t, p, q, u), t, p, q, u)
<1>1. Len(t) \in Nat /\ Len(u) \in Nat /\ p <= Len(t)
  BY DEF Texts
<1> DEFINE a == SubSeq(t, 1, p)
           b == SubSeq(t, q + 1, Len(t))
           c == a \o u
<1>2. Splice(t, p, q, u) = c \o b
  BY DEF Splice
<1>3. /\ a \in Seq(Chars) /\ Len(a) = p /\ \A i \in 1..p : a[i] = t[i]
  BY <1>1 DEF Texts
<1>4. /\ b \in Seq(Chars) /\ Len(b) = Len(t) - q /\ \A i \in 1..(Len(t) - q) : b[i] = t[q + i]
  BY <1>1 DEF Texts
<1>5. u \in Seq(Chars)
  BY DEF Texts
<1>6. /\ c \in Seq(Chars) /\ Len(c) = p + Len(u)
      /\ \A i \in 1..p : c[i] = a[i]
      /\ \A i \in 1..Len(u) : c[p + i] = u[i]
  BY <1>1, <1>3, <1>5
<1> HIDE DEF a, b, c
<1>7. /\ c \o b \in Seq(Chars) /\ Len(c \o b) = Len(c) + Len(b)
      /\ \A i \in 1..Len(c) : (c \o b)[i] = c[i]
      /\ \A i \in 1..Len(b) : (c \o b)[Len(c) + i] = b[i]
  <2>1. c \in Seq(Chars) /\ b \in Seq(Chars)
    BY <1>4, <1>6
  <2>2. QED
    BY <2>1
<1>8. \A i \in 1..p : (c \o b)[i] = t[i]
  BY <1>1, <1>3, <1>6, <1>7
<1>9. \A i \in 1..Len(u) : (c \o b)[p + i] = u[i]
  BY <1>1, <1>6, <1>7
<1>10. \A i \in 1..(Len(t) - q) : (c \o b)[p + Len(u) + i] = t[q + i]
  BY <1>1, <1>4, <1>6, <1>7
<1>11. c \o b \in Texts /\ Len(c \o b) = p + Len(u) + (Len(t) - q)
  BY <1>4, <1>6, <1>7 DEF Texts
<1>12. QED
  BY <1>1, <1>2, <1>8, <1>9, <1>10, <1>11 DEF Spliced

\* An operation splices its text in place of its range, as far as it has one.
LEMMA ApplySplice ==
  ASSUME NEW t \in Texts, NEW op \in Operations
  PROVE  ApplyOperation(t, op)
           = Splice(t, Lesser(op.pos, Len(t)), Lesser(op.pos + op.len, Len(t)), op.text)
<1>1. op.pos \in Nat /\ op.len \in Nat /\ Len(t) \in Nat
  BY DEF Operations, Texts
<1>2. ClampIndex(op.pos, Len(t)) = Lesser(op.pos, Len(t))
  BY <1>1 DEF ClampIndex, Lesser, Greater
<1>3. ClampIndex(Lesser(op.pos, Len(t)) + op.len, Len(t)) = Lesser(op.pos + op.len, Len(t))
  BY <1>1 DEF ClampIndex, Lesser, Greater
<1>4. QED
  BY <1>2, <1>3 DEF ApplyOperation, Splice

\* Two splices of which the first lies left of the second commute.
LEMMA SplicesCommute ==
  ASSUME NEW t \in Texts, NEW u \in Texts, NEW w \in Texts,
         NEW p \in Nat, NEW q \in Nat, NEW x \in Nat, NEW y \in Nat,
         p <= q, q <= x, x <= y, y <= Len(t), NEW d, d = Len(u) - (q - p)
  PROVE  Splice(Splice(t, x, y, w), p, q, u) = Splice(Splice(t, p, q, u), x + d, y + d, w)
<1> DEFINE n == Len(t)
           k == Len(u)
           l == Len(w)
           f == Splice(t, x, y, w)
           g == Splice(t, p, q, u)
<1>1. /\ f \in Texts /\ n \in Nat /\ l \in Nat /\ Len(f) = x + l + (n - y)
      /\ \A i \in 1..x : f[i] = t[i]
      /\ \A i \in 1..l : f[x + i] = w[i]
      /\ \A i \in 1..(n - y) : f[x + l + i] = t[y + i]
  <2>1. Spliced(f, t, x, y, w)
    BY SpliceChars
  <2>2. QED
    BY <2>1 DEF Spliced
<1>2. /\ g \in Texts /\ k \in Nat /\ Len(g) = p + k + (n - q)
      /\ \A i \in 1..p : g[i] = t[i]
      /\ \A i \in 1..k : g[p + i] = u[i]
      /\ \A i \in 1..(n - q) : g[p + k + i] = t[q + i]
  <2>1. q <= n
    BY <1>1
  <2>2. Spliced(g, t, p, q, u)
    BY <2>1, SpliceChars
  <2>3. QED
    BY <2>2 DEF Spliced
<1>3. n = Len(t) /\ k = Len(u) /\ l = Len(w) /\ d = k - (q - p)
  OBVIOUS
<1> HIDE DEF n, k, l, f, g
<1>4. q <= Len(f) /\ x + d \in Nat /\ y + d \in Nat /\ x + d <= y + d /\ y + d <= Len(g)
  BY <1>1, <1>2, <1>3
<1> DEFINE m == x + l + (n - y) - q
           ff == Splice(f, p, q, u)
           gg == Splice(g, x + d, y + d, w)
<1>5. /\ ff \in Texts /\ Len(ff) = p + k + m
      /\ \A i \in 1..p : ff[i] = f[i]
      /\ \A i \in 1..k : ff[p + i] = u[i]
      /\ \A i \in 1..m : ff[p + k + i] = f[q + i]
  <2>1. Spliced(ff, f, p, q, u)
    BY <1>1, <1>4, SpliceChars
  <2>2. QED
    BY <2>1, <1>1, <1>3 DEF Spliced
<1> DEFINE x2 == x + d
           y2 == y + d
           o == p + k + (n - q) - y2
<1>6. /\ gg \in Texts /\ Len(gg) = x2 + l + o
      /\ \A i \in 1..x2 : gg[i] = g[i]
      /\ \A i \in 1..l : gg[x2 + i] = w[i]
      /\ \A i \in 1..o : gg[x2 + l + i] = g[y2 + i]
  <2>1. /\ g \in Texts /\ w \in Texts /\ x2 \in Nat /\ y2 \in Nat /\ x2 <= y2 /\ y2 <= Len(g)
    BY <1>2, <1>4
  <2> HIDE DEF x2, y2
  <2>2. Spliced(Splice(g, x2, y2, w), g, x2, y2, w)
    BY <2>1, SpliceChars
  <2>3. QED
    BY <2>2, <1>2, <1>3 DEF x2, y2, Spliced
<1> HIDE DEF ff, gg
<1>7. Len(ff) = Len(gg) /\ Len(ff) \in Nat /\ o = n - y /\ x2 = p + k + (x - q)
  BY <1>1, <1>2, <1>3, <1>5, <1>6
<1>8. ASSUME NEW i \in 1..Len(ff) PROVE ff[i] = gg[i]
  <2>0. /\ i \in Nat /\ i >= 1 /\ i <= x2 + l + (n - y) /\ n - y >= 0 /\ x - q >= 0
        /\ x2 = p + k + (x - q) /\ p <= x2 /\ p + k <= x2 /\ k \in Nat /\ l \in Nat /\ x2 \in Nat
    BY <1>1, <1>2, <1>3, <1>5, <1>6, <1>7
  <2>1. CASE i <= p
    <3>1. i \in 1..p /\ i \in 1..x /\ i \in 1..x2
      BY <2>0, <2>1, <1>4
    <3>2. QED
      BY <3>1, <1>1, <1>2, <1>5, <1>6
  <2>2. CASE p < i /\ i <= p + k
    <3> DEFINE j == i - p
    <3>1. j \in 1..k /\ i = p + j /\ p + j \in 1..x2
      BY <2>0, <2>2, <1>2, <1>4
    <3> HIDE DEF j
    <3>2. QED
      BY <3>1, <1>2, <1>5, <1>6
  <2>3. CASE p + k < i /\ i <= x2
    <3> DEFINE j == i - (p + k)
    <3>1. j \in 1..m /\ i = p + k + j /\ p + k + j \in 1..x2 /\ q + j \in 1..x /\ j \in 1..(n - q)
      BY <2>0, <2>3, <1>1, <1>2, <1>3, <1>4, SMTT(30)
    <3> HIDE DEF j, x2
    <3>2. ff[p + k + j] = f[q + j] /\ f[q + j] = t[q + j]
      BY <3>1, <1>5, <1>1
    <3>3. gg[p + k + j] = g[p + k + j] /\ g[p + k + j] = t[q + j]
      BY <3>1, <1>6, <1>2
    <3>4. QED
      BY <3>1, <3>2, <3>3
  <2>4. CASE x2 < i /\ i <= x2 + l
    <3> DEFINE j == i - x2
               h == (x - q) + j
    <3>1. j \in 1..l /\ i = x2 + j /\ h \in 1..m /\ x2 + j = p + k + h /\ q + h = x + j
      BY <2>0, <2>4, <1>1, <1>2, <1>3, <1>4, SMTT(30)
    <3> HIDE DEF j, h, x2
    <3>2. ff[p + k + h] = f[x + j] /\ f[x + j] = w[j]
      BY <3>1, <1>5, <1>1
    <3>3. gg[x2 + j] = w[j]
      BY <3>1, <1>6
    <3>4. QED
      BY <3>1, <3>2, <3>3
  <2>5. CASE x2 + l < i
    <3> DEFINE j == i - (x2 + l)
               h == (x - q) + l + j
               r == (y - q) + j
    <3>1. /\ j \in 1..(n - y) /\ j \in 1..o /\ i = x2 + l + j /\ h \in 1..m /\ x2 + l + j = p + k + h
          /\ q + h = x + l + j /\ r \in 1..(n - q) /\ y2 + j = p + k + r /\ q + r = y + j
      BY <2>0, <2>5, <1>1, <1>2, <1>3, <1>4, <1>7, SMTT(30)
    <3> HIDE DEF j, h, r, x2, y2, o
    <3>2. ff[p + k + h] = f[x + l + j] /\ f[x + l + j] = t[y + j]
      BY <3>1, <1>5, <1>1
    <3>3. gg[x2 + l + j] = g[y2 + j]
      BY <3>1, <1>6
    <3>4. g[p + k + r] = t[q + r]
      BY <3>1, <1>2
    <3>5. QED
      BY <3>1, <3>2, <3>3, <3>4
  <2>6. \/ i <= p \/ (p < i /\ i <= p + k) \/ (p + k < i /\ i <= x2)
        \/ (x2 < i /\ i <= x2 + l) \/ x2 + l < i
    <3> HIDE DEF x2
    <3>1. QED
      BY <2>0
  <2>7. QED
    BY <2>1, <2>2, <2>3, <2>4, <2>5, <2>6
<1>9. QED
  BY <1>5, <1>6, <1>7, <1>8 DEF Texts, ff, gg, f, g

\* To delete a range, and then one around the place where it was, is to delete both
\* at once.
LEMMA DeletesJoin ==
  ASSUME NEW t \in Texts, NEW p \in Nat, NEW q \in Nat, NEW x \in Nat, NEW y \in Nat,
         p <= q, q <= Len(t), x <= p, p <= y, y <= Len(t) - (q - p)
  PROVE  Splice(Splice(t, p, q, <<>>), x, y, <<>>) = Splice(t, x, y + (q - p), <<>>)
<1> DEFINE n == Len(t)
           e == <<>>
           z == y + (q - p)
           f == Splice(t, p, q, e)
           ff == Splice(f, x, y, e)
           gg == Splice(t, x, z, e)
<1>0. e \in Texts /\ Len(e) = 0
  BY DEF Texts
<1> HIDE DEF e
<1>1. /\ f \in Texts /\ n \in Nat /\ Len(f) = p + (n - q)
      /\ \A i \in 1..p : f[i] = t[i]
      /\ \A i \in 1..(n - q) : f[p + i] = t[q + i]
  <2>1. Spliced(f, t, p, q, e)
    BY <1>0, SpliceChars
  <2>2. QED
    BY <2>1, <1>0 DEF Spliced
<1>4. z \in Nat /\ x <= z /\ z <= n /\ y <= Len(f)
  BY <1>1
<1> HIDE DEF f, n, z
<1>2. /\ ff \in Texts /\ Len(ff) = x + (p + (n - q) - y)
      /\ \A i \in 1..x : ff[i] = f[i]
      /\ \A i \in 1..(p + (n - q) - y) : ff[x + i] = f[y + i]
  <2>1. Spliced(ff, f, x, y, e)
    BY <1>0, <1>1, <1>4, SpliceChars
  <2>2. QED
    BY <2>1, <1>0, <1>1 DEF Spliced
<1>3. /\ gg \in Texts /\ Len(gg) = x + (n - z)
      /\ \A i \in 1..x : gg[i] = t[i]
      /\ \A i \in 1..(n - z) : gg[x + i] = t[z + i]
  <2>1. Spliced(gg, t, x, z, e)
    BY <1>0, <1>1, <1>4, SpliceChars DEF n
  <2>2. QED
    BY <2>1, <1>0, <1>1 DEF Spliced, n
<1> HIDE DEF ff, gg
<1>7. Len(ff) = Len(gg) /\ Len(ff) \in Nat /\ n = Len(t) /\ n - z = p + (n - q) - y
  BY <1>1, <1>2, <1>3, <1>4 DEF n, z
<1>8. ASSUME NEW i \in 1..Len(ff) PROVE ff[i] = gg[i]
  <2>1. CASE i <= x
    <3>1. i \in 1..x /\ i \in 1..p
      BY <2>1, <1>7
    <3>2. QED
      BY <3>1, <1>1, <1>2, <1>3
  <2>2. CASE i > x
    <3> DEFINE j == i - x
               h == (y - p) + j
    <3>1. j \in 1..(n - z) /\ i = x + j /\ h \in 1..(n - q) /\ y + j = p + h /\ z + j = q + h
      BY <2>2, <1>1, <1>2, <1>3, <1>4, <1>7 DEF z
    <3> HIDE DEF j, h
    <3>2. ff[x + j] = f[y + j] /\ gg[x + j] = t[z + j] /\ f[p + h] = t[q + h]
      BY <3>1, <1>1, <1>2, <1>3, <1>7
    <3>3. QED
      BY <3>1, <3>2
  <2>3. QED
    BY <2>1, <2>2, <1>7
<1>9. QED
  BY <1>2, <1>3, <1>7, <1>8, SMTT(30) DEF Texts, ff, gg, f, z, e

\* The lesser of two numbers.
LEMMA LesserIs ==
  ASSUME NEW a \in Int, NEW b \in Int
  PROVE  (a <= b => Lesser(a, b) = a) /\ (b <= a => Lesser(a, b) = b)
BY DEF Lesser

\* Nothing is nothing.
LEMMA ApplyNothing ==
  ASSUME NEW t \in Texts
  PROVE  ApplyOperation(t, NoOperation) = t
<1>1. Len(t) \in Nat /\ t \in Seq(Chars)
  BY DEF Texts
<1>2. ClampIndex(0, Len(t)) = 0 /\ ClampIndex(0 + 0, Len(t)) = 0
  BY <1>1 DEF ClampIndex, Lesser, Greater
<1>3. SubSeq(t, 1, 0) = <<>> /\ SubSeq(t, 0 + 1, Len(t)) = t
  BY <1>1
<1>4. (<<>> \o <<>>) \o t = t
  BY <1>1
<1>5. ApplyOperation(t, NoOperation) = (SubSeq(t, 1, 0) \o <<>>) \o SubSeq(t, 0 + 1, Len(t))
  BY <1>2 DEF ApplyOperation, NoOperation
<1>6. QED
  BY <1>3, <1>4, <1>5

\* An operation that lies left of another one, and the other one moved by what the
\* first inserts and deletes, commute with the two as they are.
LEMMA AheadCommutes ==
  ASSUME NEW t \in Texts, NEW x \in Operations, NEW y \in Operations, NEW z \in Operations,
         x.pos + x.len <= Len(t), x.pos + x.len <= y.pos,
         z.pos = y.pos + Len(x.text) - x.len, z.len = y.len, z.text = y.text
  PROVE  ApplyOperation(ApplyOperation(t, y), x) = ApplyOperation(ApplyOperation(t, x), z)
<1> DEFINE n  == Len(t)
           p  == x.pos
           q  == x.pos + x.len
           y1 == Lesser(y.pos, n)
           y2 == Lesser(y.pos + y.len, n)
           u  == x.text
           w  == y.text
           d  == Len(u) - (q - p)
           f  == ApplyOperation(t, y)
           g  == ApplyOperation(t, x)
<1>1. /\ x.pos \in Nat /\ x.len \in Nat /\ x.text \in Texts /\ y.pos \in Nat /\ y.len \in Nat
      /\ y.text \in Texts /\ n \in Nat /\ Len(u) \in Nat /\ Len(w) \in Nat
  BY DEF Operations, Texts
<1>2. /\ p \in Nat /\ q \in Nat /\ y1 \in Nat /\ y2 \in Nat /\ p <= q /\ q <= y1 /\ y1 <= y2 /\ y2 <= n
      /\ q <= n
  BY <1>1, SMTT(30) DEF Lesser
<1>3. f = Splice(t, y1, y2, w)
  BY ApplySplice
<1>4. g = Splice(t, p, q, u)
  <2>1. Lesser(x.pos, n) = p /\ Lesser(x.pos + x.len, n) = q
    BY <1>1, <1>2 DEF Lesser
  <2>2. QED
    BY <2>1, ApplySplice
<1> HIDE DEF f, g, y1, y2
<1>5. Spliced(f, t, y1, y2, w) /\ Spliced(g, t, p, q, u)
  BY <1>1, <1>2, <1>3, <1>4, SpliceChars
<1>6. f \in Texts /\ Len(f) = y1 + Len(w) + (n - y2) /\ g \in Texts /\ Len(g) = p + Len(u) + (n - q)
  BY <1>5 DEF Spliced
<1>7. ApplyOperation(f, x) = Splice(f, p, q, u)
  <2>1. Lesser(x.pos, Len(f)) = p /\ Lesser(x.pos + x.len, Len(f)) = q
    <3>1. p \in Int /\ q \in Int /\ Len(f) \in Int /\ p <= Len(f) /\ q <= Len(f)
      <4>1. Len(w) \in Nat /\ n \in Nat
        BY <1>1
      <4> HIDE DEF p, q, w, n
      <4>2. QED
        BY <4>1, <1>2, <1>6
    <3>2. QED
      BY <3>1, LesserIs
  <2>2. QED
    BY <2>1, <1>6, ApplySplice
<1>8. ApplyOperation(g, z) = Splice(g, y1 + d, y2 + d, w)
  <2>1. Lesser(z.pos, Len(g)) = y1 + d /\ Lesser(z.pos + z.len, Len(g)) = y2 + d
    <3> DEFINE v == y.pos
               vl == y.len
    <3>1. z.pos = v + d /\ z.pos + z.len = v + vl + d /\ v \in Nat /\ vl \in Nat /\ d \in Int
      BY <1>1, <1>2, SMTT(30)
    <3>2. y1 = Lesser(v, n) /\ y2 = Lesser(v + vl, n) /\ Len(g) = n + d
      BY <1>1, <1>2, <1>6, SMTT(30) DEF y1, y2
    <3> HIDE DEF v, vl, d, n
    <3>3. n \in Nat
      BY <1>1 DEF n
    <3>4. Lesser(v + d, n + d) = Lesser(v, n) + d /\ Lesser(v + vl + d, n + d) = Lesser(v + vl, n) + d
      BY <3>1, <3>3 DEF Lesser
    <3>5. QED
      BY <3>1, <3>2, <3>4
  <2>2. QED
    BY <2>1, <1>6, ApplySplice
<1>9. Splice(Splice(t, y1, y2, w), p, q, u) = Splice(Splice(t, p, q, u), y1 + d, y2 + d, w)
  <2> HIDE DEF d, p, q, u, w
  <2>1. y2 <= Len(t) /\ u \in Texts /\ w \in Texts
    BY <1>1, <1>2 DEF u, w
  <2>2. d = Len(u) - (q - p)
    BY DEF d
  <2>3. QED
    BY <1>2, <2>1, <2>2, SplicesCommute, SMTT(30)
<1>10. QED
  BY <1>3, <1>4, <1>7, <1>8, <1>9 DEF f, g

\* A delete over another one that it overlaps, applied after it, deletes what lies
\* in one of the two ranges.
LEMMA OverlapDeletesBoth ==
  ASSUME NEW t \in Texts, NEW x \in Operations, NEW y \in Operations,
         x.type = "delete", y.type = "delete",
         x.pos < Len(t), y.pos < Len(t), x.pos < y.pos + y.len, y.pos < x.pos + x.len
  PROVE  ApplyOperation(ApplyOperation(t, y), TransformDeleteDelete(x, y))
           = Splice(t, Lesser(x.pos, y.pos),
                    Lesser(Greater(x.pos + x.len, y.pos + y.len), Len(t)), <<>>)
<1> DEFINE n == Len(t)
           m == Lesser(x.pos, y.pos)
           h == Greater(x.pos + x.len, y.pos + y.len)
           o == Greater(0, Lesser(x.pos + x.len, y.pos + y.len) - Greater(x.pos, y.pos))
           l == Greater(0, x.len - o)
           p == y.pos
           q == Lesser(y.pos + y.len, n)
           f == ApplyOperation(t, y)
<1>1. /\ x.pos \in Nat /\ x.len \in Nat /\ x.text = <<>> /\ y.pos \in Nat /\ y.len \in Nat
      /\ y.text = <<>> /\ n \in Nat /\ x.len > 0 /\ y.len > 0
  BY DEF Operations, Texts
<1>2. /\ m \in Nat /\ h \in Nat /\ l \in Nat /\ p \in Nat /\ q \in Nat /\ m <= p /\ p <= q /\ q <= n
      /\ p <= m + l /\ m + l + y.len = h /\ (l = 0 => h = y.pos + y.len /\ m = p)
      /\ Lesser(h, n) = Lesser(m + l, n - (q - p)) + (q - p)
  <2> HIDE DEF m, h, l, q, o
  <2>1. m = Lesser(x.pos, p) /\ h = Greater(x.pos + x.len, p + y.len) /\ l = Greater(0, x.len - o)
    BY DEF m, h, l
  <2>2. o = Greater(0, Lesser(x.pos + x.len, p + y.len) - Greater(x.pos, p)) /\ q = Lesser(p + y.len, n)
    BY DEF o, q
  <2> DEFINE xp == x.pos
             xl == x.len
             yl == y.len
             yp == y.pos
  <2>3. xp \in Nat /\ xl \in Nat /\ yl \in Nat /\ yp \in Nat /\ xl > 0 /\ yl > 0 /\ xp < n
        /\ yp < n /\ xp < yp + yl /\ yp < xp + xl
    BY <1>1
  <2>4. m = Lesser(xp, yp) /\ h = Greater(xp + xl, yp + yl) /\ l = Greater(0, xl - o)
        /\ o = Greater(0, Lesser(xp + xl, yp + yl) - Greater(xp, yp)) /\ q = Lesser(yp + yl, n)
    BY <2>1, <2>2
  <2> HIDE DEF xp, xl, yl, yp, n
  <2>5. n \in Nat
    BY <1>1 DEF n
  <2>6. /\ m \in Nat /\ h \in Nat /\ l \in Nat /\ q \in Nat /\ m <= yp /\ yp <= q /\ q <= n
        /\ yp <= m + l /\ m + l + yl = h /\ (l = 0 => h = yp + yl /\ m = yp)
        /\ Lesser(h, n) = Lesser(m + l, n - (q - yp)) + (q - yp)
    <3>1. m = (IF xp <= yp THEN xp ELSE yp) /\ h = (IF xp + xl >= yp + yl THEN xp + xl ELSE yp + yl)
      BY <2>3, <2>4, <2>5 DEF Lesser, Greater
    <3>2. o = (IF xp + xl <= yp + yl THEN xp + xl ELSE yp + yl) - (IF xp >= yp THEN xp ELSE yp)
      BY <2>3, <2>4, <2>5 DEF Lesser, Greater
    <3>3. o \in Nat /\ o <= xl
      BY <2>3, <2>4, <2>5, <3>2
    <3>4. l = xl - o /\ l \in Nat
      BY <2>3, <2>4, <2>5, <3>3 DEF Greater
    <3>5. m \in Nat /\ h \in Nat /\ m <= yp /\ m + l + yl = h
      BY <2>3, <2>4, <2>5, <3>1, <3>2, <3>4, SMTT(30)
    <3>6. q \in Nat /\ yp <= q /\ q <= n /\ q <= yp + yl
      BY <2>3, <2>4, <2>5 DEF Lesser
    <3>7. yp <= m + l /\ (l = 0 => h = yp + yl /\ m = yp)
      BY <2>3, <2>4, <2>5, <3>1, <3>5, <3>4
    <3>8. Lesser(h, n) = Lesser(m + l, n - (q - yp)) + (q - yp)
      <4>1. CASE yp + yl <= n
        <5>1. q = yp + yl /\ n - (q - yp) = n - yl
          BY <2>3, <2>4, <2>5, <4>1 DEF Lesser
        <5>2. QED
          BY <2>3, <2>4, <2>5, <5>1, <3>4, <3>5, SMTT(30) DEF Lesser
      <4>2. CASE yp + yl > n
        <5>1. q = n /\ n - (q - yp) = yp /\ h > n
          BY <2>3, <2>4, <2>5, <4>2, <3>1 DEF Lesser
        <5>2. QED
          <6>1. Lesser(h, n) = n
            BY <2>5, <5>1, <3>5, LesserIs
          <6>2. Lesser(m + l, yp) = yp
            BY <2>3, <3>4, <3>5, <3>7, LesserIs
          <6>3. QED
            BY <6>1, <6>2, <5>1, <2>3, <2>5
      <4>3. QED
        BY <2>3, <2>4, <2>5, <4>1, <4>2
    <3>9. QED
      BY <2>3, <2>4, <2>5, <3>4, <3>5, <3>6, <3>7, <3>8
  <2>7. QED
    BY <2>6, <2>3 DEF yp, yl
<1>3. f = Splice(t, p, q, <<>>)
  <2>1. Lesser(y.pos, n) = p
    BY <1>1 DEF Lesser
  <2>2. QED
    BY <2>1, <1>1, ApplySplice
<1>4. f \in Texts /\ Len(f) = n - (q - p)
  <2>1. <<>> \in Texts /\ Len(<<>>) = 0
    BY DEF Texts
  <2>2. Spliced(f, t, p, q, <<>>)
    BY <1>2, <1>3, <2>1, SpliceChars
  <2>3. QED
    BY <2>1, <2>2, <1>1, <1>2 DEF Spliced
<1>5. TransformDeleteDelete(x, y) = IF l = 0 THEN NoOperation ELSE DeleteOp(m, l)
  BY <1>1 DEF TransformDeleteDelete
<1>6. Lesser(h, n) = Lesser(m + l, n - (q - p)) + (q - p)
  BY <1>2
<1>7. CASE l = 0
  <2>1. ApplyOperation(f, TransformDeleteDelete(x, y)) = f
    BY <1>4, <1>5, <1>7, ApplyNothing
  <2>2. q = Lesser(h, n) /\ m = p
    BY <1>2, <1>7
  <2>3. QED
    BY <2>1, <2>2, <1>3
<1>8. CASE l # 0
  <2>1. DeleteOp(m, l) \in Operations
    BY <1>2, <1>8 DEF Operations, DeleteOp, Texts
  <2>2. /\ DeleteOp(m, l).pos = m /\ DeleteOp(m, l).len = l /\ DeleteOp(m, l).text = <<>>
    BY DEF DeleteOp
  <2> DEFINE r == Lesser(m + l, n - (q - p))
  <2> HIDE DEF m, l, f, q, h
  <2>3. ApplyOperation(f, DeleteOp(m, l)) = Splice(f, Lesser(m, Len(f)), Lesser(m + l, Len(f)), <<>>)
    BY <2>1, <2>2, <1>4, ApplySplice
  <2>4. Lesser(m, Len(f)) = m /\ r \in Nat /\ p <= r /\ r <= n - (q - p)
    BY <1>1, <1>2, <1>4 DEF Lesser
  <2>5. Splice(Splice(t, p, q, <<>>), m, r, <<>>) = Splice(t, m, r + (q - p), <<>>)
    <3> HIDE DEF r
    <3>1. q <= Len(t) /\ r <= Len(t) - (q - p)
      BY <1>2, <2>4
    <3>2. QED
      BY <1>2, <2>4, <3>1, DeletesJoin
  <2>6. QED
    <3>1. ApplyOperation(f, TransformDeleteDelete(x, y)) = Splice(f, m, r, <<>>)
      BY <2>3, <2>4, <1>4, <1>5, <1>8
    <3>2. r + (q - p) = Lesser(h, n)
      BY <1>6
    <3>3. QED
      BY <3>1, <3>2, <2>5, <1>3 DEF m, h, f
<1>9. QED
  BY <1>7, <1>8

\* The insert lies strictly within the range of the delete.
Within(ins, del) == /\ ins.type = "insert" /\ del.type = "delete"
                    /\ del.pos < ins.pos /\ ins.pos < del.pos + del.len

\* Of two different authors one comes first.
LEMMA TieBroken ==
  ASSUME NEW i \in Identities, NEW j \in Identities, i # j
  PROVE  (TieKeyLess(i, j) \/ TieKeyLess(j, i)) /\ ~(TieKeyLess(i, j) /\ TieKeyLess(j, i))
BY DEF TieKeyLess, Identities

\* Of two inserts one is ahead of the other, which moves.
LEMMA InsertsCommute ==
  ASSUME NEW t \in Texts, NEW a \in Operations, NEW b \in Operations,
         NEW aId \in Identities, NEW bId \in Identities, aId # bId,
         a.type = "insert", b.type = "insert", InBounds(a, Len(t))
  PROVE  ApplyOperation(ApplyOperation(t, b), TransformOperation(a, aId, b, bId))
           = ApplyOperation(ApplyOperation(t, a), TransformOperation(b, bId, a, aId))
<1> DEFINE a2 == TransformOperation(a, aId, b, bId)
           b2 == TransformOperation(b, bId, a, aId)
<1>1. /\ a.pos \in Nat /\ b.pos \in Nat /\ Len(a.text) \in Nat /\ Len(b.text) \in Nat
      /\ a.len = 0 /\ b.len = 0 /\ Len(t) \in Nat /\ a.pos + a.len <= Len(t)
      /\ DOMAIN a = {"type", "pos", "text", "len"} /\ DOMAIN b = {"type", "pos", "text", "len"}
  BY DEF Operations, Texts, InBounds
<1>2. a2 = TransformInsertInsert(a, aId, b, bId) /\ b2 = TransformInsertInsert(b, bId, a, aId)
  BY DEF TransformOperation
<1>3. CASE a.pos < b.pos \/ (a.pos = b.pos /\ TieKeyLess(aId, bId))
  <2>1. a2 = a /\ b2 = [b EXCEPT !.pos = b.pos + Len(a.text)]
    BY <1>1, <1>2, <1>3, TieBroken DEF TransformInsertInsert
  <2>2. b2 \in Operations
    BY <2>1, <1>1 DEF Operations
  <2>3. b2.pos = b.pos + Len(a.text) - a.len /\ b2.len = b.len /\ b2.text = b.text
    BY <2>1, <1>1
  <2> HIDE DEF a2, b2
  <2>4. a.pos + a.len <= b.pos
    BY <1>1, <1>3
  <2>5. ApplyOperation(ApplyOperation(t, b), a) = ApplyOperation(ApplyOperation(t, a), b2)
    BY <2>2, <2>3, <2>4, <1>1, AheadCommutes
  <2>6. QED
    BY <2>1, <2>5 DEF a2, b2
<1>4. CASE b.pos < a.pos \/ (b.pos = a.pos /\ TieKeyLess(bId, aId))
  <2>1. b2 = b /\ a2 = [a EXCEPT !.pos = a.pos + Len(b.text)]
    BY <1>1, <1>2, <1>4, TieBroken DEF TransformInsertInsert
  <2>2. a2 \in Operations
    BY <2>1, <1>1 DEF Operations
  <2>3. a2.pos = a.pos + Len(b.text) - b.len /\ a2.len = a.len /\ a2.text = a.text
    BY <2>1, <1>1
  <2> HIDE DEF a2, b2
  <2>4. b.pos + b.len <= a.pos /\ b.pos + b.len <= Len(t)
    BY <1>1, <1>4
  <2>5. ApplyOperation(ApplyOperation(t, a), b) = ApplyOperation(ApplyOperation(t, b), a2)
    BY <2>2, <2>3, <2>4, <1>1, AheadCommutes
  <2>6. QED
    BY <2>1, <2>5 DEF a2, b2
<1>5. QED
  BY <1>1, <1>3, <1>4, TieBroken

\* An insert that is not strictly within the range of a delete is ahead of it or
\* follows it. One of them lies within the text.
LEMMA InsertDeleteCommute ==
  ASSUME NEW t \in Texts, NEW a \in Operations, NEW b \in Operations,
         NEW aId, NEW bId, a.type = "insert", b.type = "delete",
         InBounds(a, Len(t)) \/ InBounds(b, Len(t)), ~Within(a, b)
  PROVE  ApplyOperation(ApplyOperation(t, b), TransformOperation(a, aId, b, bId))
           = ApplyOperation(ApplyOperation(t, a), TransformOperation(b, bId, a, aId))
<1> DEFINE a2 == TransformOperation(a, aId, b, bId)
           b2 == TransformOperation(b, bId, a, aId)
<1>1. /\ a.pos \in Nat /\ b.pos \in Nat /\ Len(a.text) \in Nat /\ b.text = <<>>
      /\ a.len = 0 /\ b.len \in Nat /\ b.len > 0 /\ Len(t) \in Nat
      /\ DOMAIN a = {"type", "pos", "text", "len"} /\ DOMAIN b = {"type", "pos", "text", "len"}
  BY DEF Operations, Texts
<1>2. a2 = TransformInsertDelete(a, b) /\ b2 = TransformDeleteInsert(b, a)
  BY DEF TransformOperation
<1>3. CASE a.pos <= b.pos
  <2>1. a2 = a /\ b2 = [b EXCEPT !.pos = b.pos + Len(a.text)]
    BY <1>1, <1>2, <1>3 DEF TransformInsertDelete, TransformDeleteInsert
  <2>2. b2 \in Operations
    BY <2>1, <1>1 DEF Operations
  <2>3. b2.pos = b.pos + Len(a.text) - a.len /\ b2.len = b.len /\ b2.text = b.text
    BY <2>1, <1>1
  <2> HIDE DEF a2, b2
  <2>4. a.pos + a.len <= b.pos /\ a.pos + a.len <= Len(t)
    BY <1>1, <1>3 DEF InBounds
  <2>5. ApplyOperation(ApplyOperation(t, b), a) = ApplyOperation(ApplyOperation(t, a), b2)
    BY <2>2, <2>3, <2>4, AheadCommutes
  <2>6. QED
    BY <2>1, <2>5 DEF a2, b2
<1>4. CASE b.pos + b.len <= a.pos
  <2>1. b2 = b /\ a2 = [a EXCEPT !.pos = a.pos - b.len]
    BY <1>1, <1>2, <1>4 DEF TransformInsertDelete, TransformDeleteInsert, Greater
  <2>2. a2 \in Operations
    BY <2>1, <1>1, <1>4 DEF Operations
  <2>3. Len(b.text) = 0
    BY <1>1
  <2>4. a2.pos = a.pos + Len(b.text) - b.len /\ a2.len = a.len /\ a2.text = a.text
    BY <2>1, <2>3, <1>1
  <2> HIDE DEF a2, b2
  <2>5. b.pos + b.len <= Len(t)
    BY <1>1, <1>4 DEF InBounds
  <2>6. ApplyOperation(ApplyOperation(t, a), b) = ApplyOperation(ApplyOperation(t, b), a2)
    BY <2>2, <2>4, <2>5, <1>4, AheadCommutes
  <2>7. QED
    BY <2>1, <2>6 DEF a2, b2
<1>5. QED
  BY <1>1, <1>3, <1>4 DEF Within

\* Of two deletes one is ahead, or they delete both ranges.
LEMMA DeletesCommute ==
  ASSUME NEW t \in Texts, NEW a \in Operations, NEW b \in Operations,
         NEW aId, NEW bId, a.type = "delete", b.type = "delete", InBounds(a, Len(t))
  PROVE  ApplyOperation(ApplyOperation(t, b), TransformOperation(a, aId, b, bId))
           = ApplyOperation(ApplyOperation(t, a), TransformOperation(b, bId, a, aId))
<1> DEFINE a2 == TransformDeleteDelete(a, b)
           b2 == TransformDeleteDelete(b, a)
<1>1. /\ a.pos \in Nat /\ b.pos \in Nat /\ a.text = <<>> /\ b.text = <<>>
      /\ a.len \in Nat /\ b.len \in Nat /\ a.len > 0 /\ b.len > 0 /\ Len(t) \in Nat
      /\ a.pos + a.len <= Len(t) /\ <<>> \in Texts /\ Len(<<>>) = 0
  BY DEF Operations, Texts, InBounds
<1>2. TransformOperation(a, aId, b, bId) = a2 /\ TransformOperation(b, bId, a, aId) = b2
  BY DEF TransformOperation
<1>3. CASE a.pos + a.len <= b.pos
  <2>1. a2 = a /\ b2 = DeleteOp(b.pos - a.len, b.len)
    BY <1>1, <1>3 DEF TransformDeleteDelete, Greater
  <2>2. b2 \in Operations
    BY <2>1, <1>1, <1>3 DEF Operations, DeleteOp
  <2>3. b2.pos = b.pos + Len(a.text) - a.len /\ b2.len = b.len /\ b2.text = b.text
    BY <2>1, <1>1 DEF DeleteOp
  <2> HIDE DEF a2, b2
  <2>5. ApplyOperation(ApplyOperation(t, b), a) = ApplyOperation(ApplyOperation(t, a), b2)
    BY <2>2, <2>3, <1>1, <1>3, AheadCommutes
  <2>6. QED
    BY <2>1, <2>5, <1>2 DEF a2, b2
<1>4. CASE b.pos + b.len <= a.pos
  <2>1. b2 = b /\ a2 = DeleteOp(a.pos - b.len, a.len)
    BY <1>1, <1>4 DEF TransformDeleteDelete, Greater
  <2>2. a2 \in Operations
    BY <2>1, <1>1, <1>4 DEF Operations, DeleteOp
  <2>3. a2.pos = a.pos + Len(b.text) - b.len /\ a2.len = a.len /\ a2.text = a.text
    BY <2>1, <1>1 DEF DeleteOp
  <2> HIDE DEF a2, b2
  <2>4. b.pos + b.len <= Len(t)
    BY <1>1, <1>4
  <2>5. ApplyOperation(ApplyOperation(t, a), b) = ApplyOperation(ApplyOperation(t, b), a2)
    BY <2>2, <2>3, <2>4, <1>4, AheadCommutes
  <2>6. QED
    BY <2>1, <2>5, <1>2 DEF a2, b2
<1>5. CASE a.pos < b.pos + b.len /\ b.pos < a.pos + a.len
  <2> HIDE DEF a2, b2
  <2>1. a.pos < Len(t) /\ b.pos < Len(t)
    BY <1>1, <1>5
  <2>2. ApplyOperation(ApplyOperation(t, b), a2)
          = Splice(t, Lesser(a.pos, b.pos), Lesser(Greater(a.pos + a.len, b.pos + b.len), Len(t)), <<>>)
    BY <2>1, <1>5, OverlapDeletesBoth DEF a2
  <2>3. ApplyOperation(ApplyOperation(t, a), b2)
          = Splice(t, Lesser(b.pos, a.pos), Lesser(Greater(b.pos + b.len, a.pos + a.len), Len(t)), <<>>)
    BY <2>1, <1>5, OverlapDeletesBoth DEF b2
  <2>4. Lesser(a.pos, b.pos) = Lesser(b.pos, a.pos)
    BY <1>1 DEF Lesser
  <2>5. Greater(a.pos + a.len, b.pos + b.len) = Greater(b.pos + b.len, a.pos + a.len)
    BY <1>1 DEF Greater
  <2>6. QED
    BY <2>2, <2>3, <2>4, <2>5, <1>2
<1>6. QED
  BY <1>1, <1>3, <1>4, <1>5

\* Two operations that were made on the same text lead to the same text in either
\* order, each transformed over the other, unless one is an insert strictly
\* within the range the other deletes. What nothing is left of changes nothing. The
\* second may reach beyond the text (transform_operation, apply_operation).
THEOREM TransformsCommute ==
  ASSUME NEW t \in Texts, NEW a \in Operations, NEW b \in Operations,
         NEW aId \in Identities, NEW bId \in Identities, aId # bId,
         InBounds(a, Len(t)), ~Within(a, b), ~Within(b, a)
  PROVE  ApplyOperation(ApplyOperation(t, b), TransformOperation(a, aId, b, bId))
           = ApplyOperation(ApplyOperation(t, a), TransformOperation(b, bId, a, aId))
<1>1. a.type \in {"insert", "delete"} /\ b.type \in {"insert", "delete"}
  BY DEF Operations
<1>2. CASE a.type = "insert" /\ b.type = "insert"
  BY <1>2, InsertsCommute
<1>3. CASE a.type = "insert" /\ b.type = "delete"
  BY <1>3, InsertDeleteCommute
<1>4. CASE a.type = "delete" /\ b.type = "insert"
  BY <1>4, InsertDeleteCommute
<1>5. CASE a.type = "delete" /\ b.type = "delete"
  BY <1>5, DeletesCommute
<1>6. QED
  BY <1>1, <1>2, <1>3, <1>4, <1>5
=============================================================================
