------------------------ MODULE ConcurrentEditsProofs ------------------------
(***************************************************************************)
(* Proofs that concurrent edits are merged as their authors meant, for any *)
(* text, any number of authors with any edit each, and any order in which  *)
(* they are accepted.                                                      *)
(*                                                                         *)
(* What an edit became, transformed over the accepted ones, is compared    *)
(* with the characters of the server's text: an insert is between those of *)
(* the base text that were left and right of it, and the range of a delete *)
(* has those of its original range (StandsInv). Without the exceptions it  *)
(* has no others (Whole), and an insert has the inserted characters left   *)
(* and right of it that are meant to be there (Sorted). So no transformed  *)
(* insert is strictly within a transformed delete unless the original one  *)
(* was, and the editors converge by TransformsCommute (Match).             *)
(*                                                                         *)
(* The cursors of others move with the characters around them              *)
(* (CursorInv): all characters of the text are different, those that are   *)
(* inserted were not there when somebody selected, and what is counted in  *)
(* code units comes back to the number of characters it came from.         *)
(***************************************************************************)
EXTENDS Cursors, TextOperationsProofs, FiniteSetTheorems

-----------------------------------------------------------------------------
(* Types.                                                                  *)

Replicas == [text : Texts, pending : Operations \cup {NoOperation}]

Typed ==
  /\ \A a \in Authors : edits[a] \in Edits(a)
  /\ text \in Texts
  /\ log \in Seq([id : {Identity(a) : a \in Authors}, op : Operations])
  /\ replicas \in [Authors -> Replicas]

\* What an operation became is of its kind, within the text, and nothing only when its
\* author was answered or it is a delete; an accepted operation is not pending.
InFlight(b) ==
  /\ Transformed(b) \in Operations \cup {NoOperation}
  /\ Transformed(b) # NoOperation =>
       /\ Transformed(b).type = edits[b].type /\ Transformed(b).text = edits[b].text
       /\ InBounds(Transformed(b), Len(text))
  /\ edits[b].type = "insert" => Transformed(b) # NoOperation
  /\ replicas[b].pending # NoOperation => b \notin Accepted
  /\ replicas[b].pending = NoOperation /\ b \notin Accepted => Transformed(b) = NoOperation

FlightInv == Typed /\ \A b \in Authors : InFlight(b)

\* An edit is an operation within the base text; what it inserts is its author's.
LEMMA EditsAreOperations ==
  ASSUME NEW a \in Authors, NEW e \in Edits(a)
  PROVE  /\ e \in Operations /\ InBounds(e, Len(Original)) /\ e.type \in {"insert", "delete"}
         /\ e.type = "insert" => /\ Len(e.text) > 0 /\ Len(e.text) \in Nat
                                 /\ \A n \in 1..Len(e.text) : e.text[n] = <<a, n>>
                                 /\ CharsOf(e.text) \cap OriginalChars = {}
<1>1. Len(Original) \in Nat /\ Original \in Seq(Chars) /\ MaxInsert \in Nat
  BY AuthorsAssumption DEF Texts
<1>2. ASSUME NEW pos \in 0..Len(Original), NEW n \in 1..MaxInsert, e = InsertOp(pos, Inserted(a, n))
      PROVE  /\ e \in Operations /\ InBounds(e, Len(Original)) /\ e.type = "insert"
             /\ Len(e.text) = n /\ \A k \in 1..Len(e.text) : e.text[k] = <<a, k>>
             /\ CharsOf(e.text) \cap OriginalChars = {}
  <2> DEFINE t == Inserted(a, n)
  <2>1. t \in Seq(Chars) /\ Len(t) = n /\ \A k \in 1..n : t[k] = <<a, k>>
    <3>1. \A k \in 1..n : <<a, k>> \in Chars
      BY <1>1, AuthorsAssumption
    <3> QED BY <3>1, <1>1 DEF Inserted
  <2>2. e.text = t /\ e.type = "insert" /\ e.pos = pos /\ e.len = 0
    BY <1>2 DEF InsertOp
  <2>3. CharsOf(t) \cap OriginalChars = {}
    <3>1. \A k \in 1..n, i \in DOMAIN Original : Original[i] # <<a, k>>
      BY <1>1, AuthorsAssumption
    <3>2. DOMAIN t = 1..n
      BY <2>1, <1>1
    <3> HIDE DEF t
    <3> QED BY <2>1, <3>1, <3>2 DEF CharsOf, OriginalChars
  <2>4. e \in Operations /\ InBounds(e, Len(Original))
    <3>1. e = [type |-> "insert", pos |-> pos, text |-> t, len |-> 0]
      BY <1>2 DEF InsertOp
    <3> HIDE DEF t
    <3> QED BY <1>1, <2>1, <3>1 DEF Operations, InBounds, Texts
  <2> HIDE DEF t
  <2> QED BY <2>1, <2>2, <2>3, <2>4
<1>3. ASSUME NEW pos \in 0..Len(Original), NEW len \in 1..Len(Original), e = DeleteOp(pos, len),
             InBounds(e, Len(Original))
      PROVE  e \in Operations /\ e.type = "delete"
  BY <1>1, <1>3 DEF DeleteOp, Operations, Texts
<1> QED BY <1>1, <1>2, <1>3 DEF Edits

-----------------------------------------------------------------------------
(* A step, and what it does to the transformation.                         *)

\* Nothing was accepted: an operation is what it was.
LEMMA NothingAccepted ==
  ASSUME NEW op, NEW id
  PROVE  TransformOverHistory(op, id, <<>>, 0, 0) = op
<1> DEFINE R == {<<0, op>>}
<1>1. \A v \in (0 + 1)..0 : FALSE
  OBVIOUS
<1>2. <<0, TransformOverHistory(op, id, <<>>, 0, 0)>> \in R
  <2>1. <<0, op>> \in R /\ 0 \in Nat /\ 0 <= 0
    OBVIOUS
  <2>2. \A v \in (0 + 1)..0 : \A x :
          <<v - 1, x>> \in R => <<v, TransformOverVersion(x, id, <<>>, v)>> \in R
    BY <1>1
  <2> HIDE DEF R
  <2> QED BY <2>1, <2>2, HistoryInduction
<1> QED BY <1>2

\* What accepting op, of author a, makes of what b's operation became.
NextOf(b, op, a) == IF Transformed(b) = NoOperation THEN NoOperation
                    ELSE TransformOperation(Transformed(b), Identity(b), op, Identity(a))

\* The server accepts the operation of a.
LEMMA AcceptSays ==
  ASSUME FlightInv, NEW a \in Authors, Accept(a)
  PROVE  /\ Transformed(a) \in Operations /\ a \notin Accepted
         /\ text' = ApplyOperation(text, Transformed(a)) /\ edits' = edits
         /\ Accepted' = Accepted \cup {a}
         /\ \A b \in Authors : Transformed(b)' = NextOf(b, Transformed(a), a)
         /\ replicas' = [b \in Authors |-> IF b = a THEN Acknowledged(replicas[b])
                                          ELSE Remote(b, replicas[b], Transformed(a), a)]
         /\ Typed'
<1> DEFINE op == Transformed(a)
           row == [id |-> Identity(a), op |-> op]
           Rowset == [id : {Identity(b) : b \in Authors}, op : Operations]
<1>1. op \in Operations /\ a \notin Accepted
  BY DEF Accept, FlightInv, InFlight
<1>2. /\ text' = ApplyOperation(text, op) /\ edits' = edits /\ log' = Append(log, row)
      /\ replicas' = [b \in Authors |-> IF b = a THEN Acknowledged(replicas[b])
                                       ELSE Remote(b, replicas[b], op, a)]
  BY DEF Accept
<1>3. log \in Seq(Rowset) /\ row \in Rowset /\ Len(log) \in Nat
  BY <1>1 DEF FlightInv, Typed
<1>4. Accepted' = Accepted \cup {a}
  <2>1. /\ DOMAIN log' = 1..(Len(log) + 1) /\ DOMAIN log = 1..Len(log)
        /\ \A v \in 1..Len(log) : log'[v] = log[v]
        /\ log'[Len(log) + 1] = row
    BY <1>2, <1>3
  <2>2. \A b, c \in Authors : Identity(b) = Identity(c) => b = c
    BY DEF Identity
  <2>3. row.id = Identity(a)
    OBVIOUS
  <2> HIDE DEF row
  <2>4. ASSUME NEW b \in Authors
        PROVE  (\E v \in DOMAIN log' : log'[v].id = Identity(b)) <=>
                 ((\E v \in DOMAIN log : log[v].id = Identity(b)) \/ b = a)
    <3>1. \E v \in DOMAIN log' : v = Len(log) + 1
      BY <1>3, <2>1
    <3>2. \A v \in DOMAIN log : v \in DOMAIN log' /\ log'[v] = log[v]
      BY <1>3, <2>1
    <3>3. \A v \in DOMAIN log' : v \in DOMAIN log \/ v = Len(log) + 1
      BY <1>3, <2>1
    <3> QED BY <2>1, <2>2, <2>3, <3>1, <3>2, <3>3
  <2> QED BY <2>4 DEF Accepted
<1>5. ASSUME NEW b \in Authors PROVE Transformed(b)' = NextOf(b, op, a)
  <2> DEFINE n == Len(log)
             longer == log'
             e == edits[b]
  <2>1. longer = Append(log, row) /\ Len(longer) = n + 1 /\ n \in Nat
    BY <1>2, <1>3
  <2>2. \A v \in (0 + 1)..n : \A x :
          TransformOverVersion(x, Identity(b), longer, v) = TransformOverVersion(x, Identity(b), log, v)
    <3>1. \A v \in 1..n : v \in DOMAIN log /\ v \in DOMAIN longer /\ longer[v] = log[v]
      BY <1>2, <1>3
    <3> HIDE DEF longer, n
    <3> QED BY <3>1 DEF TransformOverVersion
  <2>3. n + 1 \in DOMAIN longer /\ longer[n + 1] = row
    BY <1>2, <1>3
  <2>4. Transformed(b) = TransformOverHistory(e, Identity(b), log, 0, n)
    BY DEF Transformed
  <2>5. Transformed(b)' = TransformOverHistory(e, Identity(b), longer, 0, n + 1)
    BY <1>2, <2>1 DEF Transformed, Identity
  <2>6. row.id = Identity(a) /\ row.op = op
    OBVIOUS
  <2> HIDE DEF longer, row, e, n, op
  <2>7. 0 \in Nat /\ 0 <= n
    BY <2>1
  <2>8. TransformOverHistory(e, Identity(b), longer, 0, n + 1)
          = TransformOverVersion(TransformOverHistory(e, Identity(b), log, 0, n), Identity(b), longer, n + 1)
    BY <2>1, <2>2, <2>7, HistoryStep
  <2>9. Transformed(b)' = TransformOverVersion(Transformed(b), Identity(b), longer, n + 1)
    BY <2>4, <2>5, <2>8
  <2> QED BY <2>3, <2>6, <2>9 DEF TransformOverVersion, NextOf
<1>6. Typed'
  <2>1. text' \in Texts
    BY <1>1, <1>2, ApplyType DEF FlightInv, Typed
  <2>2. log' \in Seq(Rowset)
    BY <1>2, <1>3
  <2>3. ASSUME NEW b \in Authors PROVE replicas'[b] \in Replicas
    <3>1. replicas[b] \in Replicas
      BY DEF FlightInv, Typed
    <3>2. CASE b = a
      BY <1>2, <3>1, <3>2 DEF Acknowledged, Replicas
    <3>3. CASE b # a
      <4> DEFINE own == replicas[b].pending
                 remote == IF own = NoOperation THEN op
                           ELSE TransformTextOperation(op, Identity(a), own, Identity(b))
                 next == IF own = NoOperation THEN own
                         ELSE TransformTextOperation(own, Identity(b), op, Identity(a))
      <4>1. own \in Operations \cup {NoOperation} /\ replicas[b].text \in Texts
        BY <3>1 DEF Replicas
      <4>2. remote \in Operations \cup {NoOperation} /\ next \in Operations \cup {NoOperation}
        BY <1>1, <4>1, TransformType DEF TransformTextOperation
      <4>3. remote # NoOperation => ApplyTextOperation(replicas[b].text, remote) \in Texts
        BY <4>1, <4>2, ApplyType DEF ApplyTextOperation
      <4>4. replicas'[b] = [text    |-> IF remote = NoOperation THEN replicas[b].text
                                        ELSE ApplyTextOperation(replicas[b].text, remote),
                            pending |-> IF next = NoOperation THEN own ELSE next]
        BY <1>2, <3>3 DEF Remote
      <4> HIDE DEF remote, next, own
      <4> QED BY <4>1, <4>2, <4>3, <4>4 DEF Replicas
    <3> QED BY <3>2, <3>3
  <2>4. replicas' \in [Authors -> Replicas]
    BY <1>2, <2>3
  <2>5. \A b \in Authors : edits'[b] \in Edits(b)
    BY <1>2 DEF FlightInv, Typed
  <2> HIDE DEF op, row
  <2> QED BY <2>1, <2>2, <2>4, <2>5 DEF Typed
<1> QED BY <1>1, <1>2, <1>4, <1>5, <1>6

\* An operation of which nothing is left was a delete; others keep their kind.
LEMMA KindKept ==
  ASSUME NEW x \in Operations, NEW i, NEW y \in Operations, NEW j
  PROVE  LET z == TransformOperation(x, i, y, j)
         IN  /\ x.type = "insert" => z # NoOperation
             /\ z # NoOperation => z.type = x.type /\ z.text = x.text
<1>1. CASE x.type = "insert"
  BY <1>1 DEF TransformOperation, TransformInsertInsert, TransformInsertDelete, Operations, NoOperation
<1>2. CASE x.type = "delete" /\ y.type = "insert"
  BY <1>2 DEF TransformOperation, TransformDeleteInsert, Operations, NoOperation
<1>3. CASE x.type = "delete" /\ y.type = "delete"
  <2>1. x.text = <<>>
    BY <1>3 DEF Operations
  <2> QED BY <1>3, <2>1 DEF TransformOperation, TransformDeleteDelete, DeleteOp, NoOperation
<1> QED BY <1>1, <1>2, <1>3 DEF Operations

\* An acknowledgement of nothing changes one editor.
LEMMA NoOpSays ==
  ASSUME FlightInv, NEW a \in Authors, AcknowledgeNoOp(a)
  PROVE  /\ edits' = edits /\ log' = log /\ text' = text /\ Accepted' = Accepted
         /\ \A b \in Authors : Transformed(b)' = Transformed(b)
         /\ replicas[a].pending # NoOperation /\ Transformed(a) = NoOperation
         /\ replicas' = [replicas EXCEPT ![a] = Acknowledged(@)]
         /\ Typed'
<1>1. /\ edits' = edits /\ log' = log /\ text' = text
      /\ replicas[a].pending # NoOperation /\ Transformed(a) = NoOperation
      /\ replicas' = [replicas EXCEPT ![a] = Acknowledged(@)]
  BY DEF AcknowledgeNoOp
<1>2. Accepted' = Accepted
  BY <1>1 DEF Accepted
<1>3. \A b \in Authors : Transformed(b)' = Transformed(b)
  BY <1>1 DEF Transformed, Identity
<1>4. Acknowledged(replicas[a]) \in Replicas
  BY DEF FlightInv, Typed, Acknowledged, Replicas
<1>5. replicas' \in [Authors -> Replicas]
  BY <1>1, <1>4 DEF FlightInv, Typed
<1> QED BY <1>1, <1>2, <1>3, <1>5 DEF FlightInv, Typed

\* The transformed operations stay operations within the text.
LEMMA FlightStarts ==
  ASSUME Init PROVE FlightInv
<1>1. /\ \A a \in Authors : edits[a] \in Edits(a)
      /\ log = <<>> /\ text = Original
      /\ \A a \in Authors : replicas[a] = [text    |-> ApplyTextOperation(Original, edits[a]),
                                           pending |-> edits[a]]
      /\ replicas = [a \in Authors |-> replicas[a]]
  BY DEF Init
<1>2. Original \in Texts
  BY AuthorsAssumption
<1>3. \A a \in Authors : /\ edits[a] \in Operations /\ InBounds(edits[a], Len(Original))
                         /\ edits[a].type \in {"insert", "delete"}
  BY <1>1, EditsAreOperations
<1>4. \A a \in Authors : replicas[a] \in Replicas
  BY <1>1, <1>2, <1>3, ApplyType DEF Replicas, ApplyTextOperation
<1>5. Len(log) = 0 /\ DOMAIN log = {}
  BY <1>1
<1>6. \A a \in Authors : Transformed(a) = edits[a]
  BY <1>1, <1>5, NothingAccepted DEF Transformed
<1>7. \A a \in Authors : a \notin Accepted /\ edits[a] # NoOperation
  BY <1>3, <1>5 DEF Accepted, NoOperation
<1>8. Typed
  <2>1. log \in Seq([id : {Identity(a) : a \in Authors}, op : Operations])
    BY <1>1
  <2>2. replicas \in [Authors -> Replicas]
    BY <1>1, <1>4
  <2> QED BY <1>1, <1>2, <2>1, <2>2 DEF Typed
<1> QED BY <1>1, <1>3, <1>6, <1>7, <1>8 DEF FlightInv, InFlight

\* Every step keeps them so.
LEMMA FlightKept ==
  ASSUME FlightInv, [Next]_vars PROVE FlightInv'
<1>1. ASSUME NEW a \in Authors, Accept(a) PROVE FlightInv'
  <2> DEFINE op == Transformed(a)
  <2>1. /\ op \in Operations /\ a \notin Accepted /\ text' = ApplyOperation(text, op)
        /\ edits' = edits /\ Accepted' = Accepted \cup {a} /\ Typed'
        /\ \A b \in Authors : Transformed(b)' = NextOf(b, op, a)
        /\ replicas' = [b \in Authors |-> IF b = a THEN Acknowledged(replicas[b])
                                          ELSE Remote(b, replicas[b], op, a)]
    BY <1>1, AcceptSays
  <2> HIDE DEF op
  <2>2. ASSUME NEW b \in Authors PROVE InFlight(b)'
    <3> DEFINE x == Transformed(b)
               y == NextOf(b, op, a)
    <3>1. /\ x \in Operations \cup {NoOperation} /\ text \in Texts
          /\ x # NoOperation => /\ x.type = edits[b].type /\ x.text = edits[b].text
                                /\ InBounds(x, Len(text))
          /\ edits[b].type = "insert" => x # NoOperation
      BY DEF FlightInv, InFlight, Typed
    <3>2. y = IF x = NoOperation THEN NoOperation
              ELSE TransformOperation(x, Identity(b), op, Identity(a))
      BY DEF NextOf
    <3>3. Transformed(b)' = y
      BY <2>1
    <3> HIDE DEF x, y
    <3>4. y \in Operations \cup {NoOperation}
      BY <2>1, <3>1, <3>2, TransformType
    <3>5. ASSUME y # NoOperation
          PROVE  /\ y.type = edits[b].type /\ y.text = edits[b].text
                 /\ InBounds(y, Len(text'))
      <4>1. x \in Operations /\ y = TransformOperation(x, Identity(b), op, Identity(a))
        BY <3>1, <3>2, <3>5
      <4>2. y.type = x.type /\ y.text = x.text
        BY <2>1, <3>5, <4>1, KindKept
      <4>3. InBounds(y, Len(ApplyOperation(text, op)))
        BY <2>1, <3>1, <3>2, <3>5, <4>1, TransformInBounds
      <4> QED BY <2>1, <3>1, <3>2, <3>5, <4>2, <4>3
    <3>6. edits[b].type = "insert" => y # NoOperation
      BY <2>1, <3>1, <3>2, KindKept
    <3>7. replicas'[b].pending = NoOperation <=> (b = a \/ replicas[b].pending = NoOperation)
      <4>1. replicas[b] \in Replicas /\ b \in DOMAIN replicas
        BY DEF FlightInv, Typed
      <4>2. CASE b = a
        BY <2>1, <4>1, <4>2 DEF Acknowledged, Replicas
      <4>3. CASE b # a
        <5>1. replicas'[b] = Remote(b, replicas[b], op, a)
          BY <2>1, <4>3
        <5> QED BY <4>3, <5>1 DEF Remote
      <4> QED BY <4>2, <4>3
    <3>8. /\ replicas[b].pending # NoOperation => b \notin Accepted
          /\ replicas[b].pending = NoOperation /\ b \notin Accepted => x = NoOperation
      BY DEF FlightInv, InFlight, x
    <3> QED BY <2>1, <3>2, <3>3, <3>4, <3>5, <3>6, <3>7, <3>8 DEF InFlight
  <2> QED BY <2>1, <2>2 DEF FlightInv
<1>2. ASSUME NEW a \in Authors, AcknowledgeNoOp(a) PROVE FlightInv'
  <2>1. /\ edits' = edits /\ text' = text /\ Accepted' = Accepted /\ Typed'
        /\ \A b \in Authors : Transformed(b)' = Transformed(b)
        /\ replicas[a].pending # NoOperation /\ Transformed(a) = NoOperation
        /\ replicas' = [replicas EXCEPT ![a] = Acknowledged(@)]
    BY <1>2, NoOpSays
  <2>2. \A b \in Authors : replicas'[b].pending = IF b = a THEN NoOperation ELSE replicas[b].pending
    BY <2>1 DEF FlightInv, Typed, Acknowledged, Replicas
  <2>3. ASSUME NEW b \in Authors PROVE InFlight(b)'
    BY <2>1, <2>2 DEF FlightInv, InFlight
  <2> QED BY <2>1, <2>3 DEF FlightInv
<1>3. CASE UNCHANGED vars
  BY <1>3 DEF vars, FlightInv, Typed, InFlight, Transformed, Accepted
<1> QED BY <1>1, <1>2, <1>3 DEF Next

-----------------------------------------------------------------------------
(* Where the characters go.                                                *)

\* op takes the character at k to k2.
Carries(op, k, k2) == \/ k <= op.pos /\ k2 = k
                      \/ k > op.pos + op.len /\ k2 = k + Len(op.text) - op.len

InRange(op, k) == op.pos < k /\ k <= op.pos + op.len

\* The characters of a text after an operation are those it had, but for the range of
\* the operation, and those of the operation.
LEMMA CharsCarried ==
  ASSUME NEW t \in Texts, NEW op \in Operations, InBounds(op, Len(t)), NEW s, s = ApplyOperation(t, op)
  PROVE  /\ \A k2 \in DOMAIN s :
              \/ \E k \in DOMAIN t : Carries(op, k, k2) /\ s[k2] = t[k]
              \/ \E n \in DOMAIN op.text : k2 = op.pos + n /\ s[k2] = op.text[n]
         /\ \A k \in DOMAIN t : ~InRange(op, k) =>
              \E k2 \in DOMAIN s : Carries(op, k, k2) /\ s[k2] = t[k]
         /\ \A n \in DOMAIN op.text : op.pos + n \in DOMAIN s /\ s[op.pos + n] = op.text[n]
<1> DEFINE p == op.pos
           q == op.pos + op.len
           u == op.text
<1>1. /\ p \in Nat /\ q \in Nat /\ p <= q /\ q <= Len(t) /\ Len(t) \in Nat /\ u \in Texts
      /\ op.len = q - p /\ p <= Len(t)
  <2>1. op.pos \in Nat /\ op.len \in Nat /\ u \in Texts
    BY DEF Operations
  <2>2. Len(t) \in Nat
    BY DEF Texts
  <2> QED BY <2>1, <2>2 DEF InBounds
<1>2. s = Splice(t, p, q, u)
  BY <1>1, ApplySplice DEF Lesser
<1>3. Spliced(s, t, p, q, u)
  BY <1>1, <1>2, SpliceChars
<1>4. /\ Len(u) \in Nat /\ DOMAIN u = 1..Len(u) /\ DOMAIN t = 1..Len(t)
      /\ DOMAIN s = 1..(p + Len(u) + (Len(t) - q))
  BY <1>1, <1>3 DEF Spliced, Texts
<1>5. \A k, k2 : Carries(op, k, k2) <=> (k <= p /\ k2 = k) \/ (k > q /\ k2 = k + Len(u) - (q - p))
  BY <1>1 DEF Carries
<1>6. \A k : InRange(op, k) <=> p < k /\ k <= q
  BY DEF InRange
<1> HIDE DEF p, q, u
<1>7. ASSUME NEW k2 \in DOMAIN s
      PROVE  \/ \E k \in DOMAIN t : Carries(op, k, k2) /\ s[k2] = t[k]
             \/ \E n \in DOMAIN u : k2 = p + n /\ s[k2] = u[n]
  <2>1. CASE k2 <= p
    <3>1. k2 \in DOMAIN t /\ s[k2] = t[k2] /\ Carries(op, k2, k2)
      BY <1>1, <1>3, <1>4, <1>5, <1>7, <2>1 DEF Spliced
    <3> QED BY <3>1
  <2>2. CASE p < k2 /\ k2 <= p + Len(u)
    <3>1. k2 - p \in 1..Len(u) /\ k2 = p + (k2 - p)
      BY <1>1, <1>4, <1>7, <2>2
    <3>2. s[p + (k2 - p)] = u[k2 - p]
      BY <1>3, <3>1 DEF Spliced
    <3> QED BY <1>4, <3>1, <3>2
  <2>3. CASE p + Len(u) < k2
    <3> DEFINE i == k2 - p - Len(u)
    <3>1. i \in 1..(Len(t) - q) /\ k2 = p + Len(u) + i
      BY <1>1, <1>4, <1>7, <2>3
    <3>2. s[p + Len(u) + i] = t[q + i]
      BY <1>3, <3>1 DEF Spliced
    <3>3. q + i \in DOMAIN t
      BY <1>1, <1>4, <3>1
    <3>4. q + i > q /\ k2 = (q + i) + Len(u) - (q - p)
      <4> HIDE DEF i
      <4> QED BY <1>1, <1>4, <3>1
    <3>5. Carries(op, q + i, k2)
      BY <1>5, <3>4
    <3>6. s[k2] = t[q + i]
      BY <3>1, <3>2
    <3> HIDE DEF i
    <3> QED BY <3>3, <3>5, <3>6
  <2> QED BY <1>1, <1>4, <1>7, <2>1, <2>2, <2>3
<1>8. ASSUME NEW k \in DOMAIN t, ~InRange(op, k)
      PROVE  \E k2 \in DOMAIN s : Carries(op, k, k2) /\ s[k2] = t[k]
  <2>1. CASE k <= p
    <3>1. k \in DOMAIN s /\ s[k] = t[k] /\ Carries(op, k, k)
      BY <1>1, <1>3, <1>4, <1>5, <1>8, <2>1 DEF Spliced
    <3> QED BY <3>1
  <2>2. CASE q < k
    <3> DEFINE i == k - q
    <3>1. i \in 1..(Len(t) - q) /\ k = q + i
      BY <1>1, <1>4, <1>8, <2>2
    <3>2. s[p + Len(u) + i] = t[q + i]
      BY <1>3, <3>1 DEF Spliced
    <3>3. p + Len(u) + i \in DOMAIN s /\ Carries(op, k, p + Len(u) + i)
      BY <1>1, <1>4, <1>5, <3>1, <2>2
    <3> QED BY <3>1, <3>2, <3>3
  <2> QED BY <1>1, <1>4, <1>6, <1>8, <2>1, <2>2
<1>9. ASSUME NEW n \in DOMAIN u PROVE p + n \in DOMAIN s /\ s[p + n] = u[n]
  BY <1>1, <1>3, <1>4, <1>9 DEF Spliced
<1> QED BY <1>7, <1>8, <1>9 DEF p, u

\* A transformed insert is between the same characters.
LEMMA InsertsMove ==
  ASSUME NEW x \in Operations, NEW i, NEW y \in Operations, NEW j, x.type = "insert",
         NEW k \in Nat, NEW k2 \in Nat, Carries(y, k, k2)
  PROVE  k2 <= TransformOperation(x, i, y, j).pos <=> k <= x.pos
<1> DEFINE z == TransformOperation(x, i, y, j)
           n == Len(y.text)
<1>1. x.pos \in Nat /\ y.pos \in Nat /\ y.len \in Nat /\ n \in Nat /\ DOMAIN x = {"type", "pos", "text", "len"}
  BY DEF Operations, Texts
<1>2. CASE y.type = "insert"
  <2>1. y.len = 0
    BY <1>2 DEF Operations
  <2>2. z.pos = IF y.pos < x.pos \/ (y.pos = x.pos /\ TieKeyLess(j, i)) THEN x.pos + n ELSE x.pos
    BY <1>1, <1>2 DEF TransformOperation, TransformInsertInsert
  <2> HIDE DEF z, n
  <2>3. (k <= y.pos /\ k2 = k) \/ (k > y.pos /\ k2 = k + n)
    BY <1>1, <2>1 DEF Carries, n
  <2> QED BY <1>1, <2>2, <2>3 DEF z
<1>3. CASE y.type = "delete"
  <2>1. y.text = <<>>
    BY <1>3 DEF Operations
  <2>2. z.pos = IF y.pos < x.pos THEN Greater(y.pos, x.pos - y.len) ELSE x.pos
    BY <1>1, <1>3 DEF TransformOperation, TransformInsertDelete
  <2>3. (k <= y.pos /\ k2 = k) \/ (k > y.pos + y.len /\ k2 = k - y.len)
    BY <1>1, <2>1 DEF Carries
  <2> HIDE DEF z, n
  <2> QED BY <1>1, <2>2, <2>3 DEF z, Greater
<1> QED BY <1>2, <1>3 DEF Operations

\* The range of a transformed delete has the same characters, as far as they are left.
LEMMA DeletesMove ==
  ASSUME NEW x \in Operations, NEW i, NEW y \in Operations, NEW j, x.type = "delete"
  PROVE  LET z == TransformOperation(x, i, y, j)
         IN  /\ z # NoOperation => \A k, k2 \in Nat : Carries(y, k, k2) => (InRange(z, k2) <=> InRange(x, k))
             /\ z = NoOperation => \A k \in Nat : InRange(x, k) => InRange(y, k)
<1> DEFINE z == TransformOperation(x, i, y, j)
           n == Len(y.text)
<1>1. /\ x.pos \in Nat /\ y.pos \in Nat /\ y.len \in Nat /\ n \in Nat /\ x.len \in Nat /\ x.len > 0
      /\ DOMAIN x = {"type", "pos", "text", "len"} /\ x # NoOperation
  BY DEF Operations, Texts, NoOperation
<1>2. CASE y.type = "insert"
  <2>1. y.len = 0
    BY <1>2 DEF Operations
  <2>2. /\ z # NoOperation
        /\ z.pos = IF y.pos <= x.pos THEN x.pos + n ELSE x.pos
        /\ z.len = IF ~(y.pos <= x.pos) /\ y.pos < x.pos + x.len THEN x.len + n ELSE x.len
    BY <1>1, <1>2 DEF TransformOperation, TransformDeleteInsert, NoOperation
  <2>3. \A k, k2 \in Nat : Carries(y, k, k2) => (k <= y.pos /\ k2 = k) \/ (k > y.pos /\ k2 = k + n)
    BY <1>1, <2>1 DEF Carries, n
  <2> HIDE DEF z, n
  <2>4. \A k, k2 \in Nat : Carries(y, k, k2) => (InRange(z, k2) <=> InRange(x, k))
    BY <1>1, <2>2, <2>3 DEF InRange
  <2> QED BY <2>2, <2>4 DEF z
<1>3. CASE y.type = "delete"
  <2> DEFINE overlap == Greater(0, Lesser(x.pos + x.len, y.pos + y.len) - Greater(x.pos, y.pos))
             left == Greater(0, x.len - overlap)
  <2>1. y.text = <<>> /\ y.len > 0
    BY <1>3 DEF Operations
  <2>2. z = IF y.pos + y.len <= x.pos THEN DeleteOp(Greater(0, x.pos - y.len), x.len)
            ELSE IF y.pos >= x.pos + x.len THEN x
            ELSE IF left = 0 THEN NoOperation
            ELSE DeleteOp(Lesser(x.pos, y.pos), left)
    BY <1>3 DEF TransformOperation, TransformDeleteDelete
  <2>3. \A k, k2 \in Nat : Carries(y, k, k2) =>
          (k <= y.pos /\ k2 = k) \/ (k > y.pos + y.len /\ k2 = k - y.len)
    BY <1>1, <2>1 DEF Carries
  <2>4. \A p, l : DeleteOp(p, l) # NoOperation /\ DeleteOp(p, l).pos = p /\ DeleteOp(p, l).len = l
    BY DEF DeleteOp, NoOperation
  <2>5. z = NoOperation => y.pos <= x.pos /\ x.pos + x.len <= y.pos + y.len
    <3>1. ASSUME z = NoOperation
          PROVE  ~(y.pos + y.len <= x.pos) /\ ~(y.pos >= x.pos + x.len) /\ left = 0
      <4> HIDE DEF left
      <4> QED BY <1>1, <2>2, <2>4, <3>1
    <3> HIDE DEF z
    <3> QED BY <1>1, <2>1, <3>1 DEF Greater, Lesser
  <2>6. CASE y.pos + y.len <= x.pos
    <3>1. z # NoOperation /\ z.pos = x.pos - y.len /\ z.len = x.len
      BY <1>1, <2>2, <2>4, <2>6 DEF Greater
    <3> HIDE DEF z
    <3>2. \A k, k2 \in Nat : Carries(y, k, k2) => (InRange(z, k2) <=> InRange(x, k))
      BY <1>1, <2>1, <2>3, <2>6, <3>1 DEF InRange
    <3> QED BY <3>1, <3>2 DEF z
  <2>7. CASE ~(y.pos + y.len <= x.pos) /\ y.pos >= x.pos + x.len
    <3>1. z = x
      BY <2>2, <2>7
    <3> HIDE DEF z
    <3>2. \A k, k2 \in Nat : Carries(y, k, k2) => (InRange(z, k2) <=> InRange(x, k))
      BY <1>1, <2>1, <2>3, <2>7, <3>1 DEF InRange
    <3> QED BY <1>1, <3>1, <3>2 DEF z
  <2>8. CASE ~(y.pos + y.len <= x.pos) /\ ~(y.pos >= x.pos + x.len) /\ z # NoOperation
    <3>1. z.pos = Lesser(x.pos, y.pos) /\ z.len = left
      <4> HIDE DEF left
      <4> QED BY <1>1, <2>2, <2>4, <2>8
    <3>2. left = Greater(0, x.len - Greater(0, Lesser(x.pos + x.len, y.pos + y.len) - Greater(x.pos, y.pos)))
      OBVIOUS
    <3> HIDE DEF z, left
    <3>3. \A k, k2 \in Nat : Carries(y, k, k2) => (InRange(z, k2) <=> InRange(x, k))
      <4> SUFFICES ASSUME NEW k \in Nat, NEW k2 \in Nat, Carries(y, k, k2)
                   PROVE  InRange(z, k2) <=> InRange(x, k)
        OBVIOUS
      <4>1. (k <= y.pos /\ k2 = k) \/ (k > y.pos + y.len /\ k2 = k - y.len)
        BY <2>3
      <4>2. left # 0
        <5>1. left = 0 => z = NoOperation
          BY <2>2, <2>8 DEF left, z
        <5> QED BY <2>8, <5>1
      <4>3. left = IF x.pos <= y.pos
                   THEN IF x.pos + x.len <= y.pos + y.len THEN y.pos - x.pos ELSE x.len - y.len
                   ELSE IF x.pos + x.len <= y.pos + y.len THEN 0 ELSE x.pos + x.len - (y.pos + y.len)
        BY <1>1, <2>1, <2>8, <3>2 DEF Greater, Lesser
      <4>4. z.pos = IF x.pos <= y.pos THEN x.pos ELSE y.pos
        BY <3>1 DEF Lesser
      <4>5. InRange(z, k2) <=> z.pos < k2 /\ k2 <= z.pos + left
        BY <3>1 DEF InRange
      <4>6. InRange(x, k) <=> x.pos < k /\ k <= x.pos + x.len
        BY DEF InRange
      <4>7. CASE x.pos <= y.pos /\ x.pos + x.len <= y.pos + y.len
        <5>1. left = y.pos - x.pos /\ z.pos = x.pos
          BY <4>3, <4>4, <4>7
        <5> QED BY <1>1, <2>1, <2>8, <4>1, <4>5, <4>6, <4>7, <5>1
      <4>8. CASE x.pos <= y.pos /\ ~(x.pos + x.len <= y.pos + y.len)
        <5>1. left = x.len - y.len /\ z.pos = x.pos
          BY <4>3, <4>4, <4>8
        <5> QED BY <1>1, <2>1, <2>8, <4>1, <4>5, <4>6, <4>8, <5>1
      <4>9. CASE ~(x.pos <= y.pos)
        <5>1. ~(x.pos + x.len <= y.pos + y.len)
          BY <4>2, <4>3, <4>9
        <5>2. left = x.pos + x.len - (y.pos + y.len) /\ z.pos = y.pos
          BY <4>3, <4>4, <4>9, <5>1
        <5> QED BY <1>1, <2>1, <2>8, <4>1, <4>5, <4>6, <4>9, <5>1, <5>2
      <4> QED BY <4>7, <4>8, <4>9
    <3> QED BY <2>8, <3>3 DEF z
  <2>9. z = NoOperation => \A k \in Nat : InRange(x, k) => InRange(y, k)
    <3> HIDE DEF z
    <3> QED BY <1>1, <2>5 DEF InRange
  <2> HIDE DEF left, overlap
  <2> QED BY <1>1, <2>5, <2>6, <2>7, <2>8, <2>9
<1> QED BY <1>2, <1>3 DEF Operations

-----------------------------------------------------------------------------
(* Edits, characters and their places.                                     *)

\* A character of the base text stands where it is in it.
LEMMA OriginalPlaces ==
  ASSUME NEW i \in DOMAIN Original
  PROVE  Original[i] \in OriginalChars /\ Place(Original[i]) = i
<1>1. Original[i] \in OriginalChars
  BY DEF OriginalChars, CharsOf
<1>2. \A j \in DOMAIN Original : Original[j] = Original[i] => j = i
  BY AuthorsAssumption
<1> QED BY <1>1, <1>2 DEF Place

\* The other way round.
LEMMA PlacesOfOriginals ==
  ASSUME NEW c \in OriginalChars
  PROVE  Place(c) \in DOMAIN Original /\ Original[Place(c)] = c /\ Place(c) \in Nat
<1>1. PICK i \in DOMAIN Original : Original[i] = c
  BY DEF OriginalChars, CharsOf
<1>2. Place(c) = i
  BY <1>1, OriginalPlaces
<1>3. i \in Nat
  BY AuthorsAssumption DEF Texts
<1> QED BY <1>1, <1>2, <1>3

\* What an edit is.
LEMMA EditSays ==
  ASSUME Typed, NEW a \in Authors
  PROVE  LET e == edits[a]
         IN  /\ e.pos \in Nat /\ e.len \in Nat /\ e.type \in {"insert", "delete"}
             /\ e.type = "insert" =>
                  /\ DOMAIN e.text = 1..Len(e.text) /\ Len(e.text) \in Nat /\ 1 \in DOMAIN e.text
                  /\ \A n \in DOMAIN e.text : /\ e.text[n] = <<a, n>> /\ <<a, n>> \notin OriginalChars
                                             /\ Place(<<a, n>>) = e.pos /\ <<a, n>>[1] = a
                                             /\ <<a, n>>[2] = n /\ n \in Nat
             /\ e.type = "delete" => Removes(a) \subseteq DOMAIN Original
<1> DEFINE e == edits[a]
<1>1. /\ e \in Operations /\ InBounds(e, Len(Original)) /\ e.type \in {"insert", "delete"}
      /\ e.type = "insert" => /\ Len(e.text) > 0 /\ Len(e.text) \in Nat
                              /\ \A n \in 1..Len(e.text) : e.text[n] = <<a, n>>
                              /\ CharsOf(e.text) \cap OriginalChars = {}
  BY EditsAreOperations DEF Typed
<1>2. e.pos \in Nat /\ e.len \in Nat /\ e.text \in Seq(Chars)
  BY <1>1 DEF Operations, Texts
<1>3. ASSUME e.type = "insert"
      PROVE  /\ DOMAIN e.text = 1..Len(e.text) /\ 1 \in DOMAIN e.text
             /\ \A n \in DOMAIN e.text : /\ e.text[n] = <<a, n>> /\ <<a, n>> \notin OriginalChars
                                        /\ Place(<<a, n>>) = e.pos /\ n \in Nat
  <2>1. DOMAIN e.text = 1..Len(e.text) /\ 1 \in DOMAIN e.text
    BY <1>1, <1>2, <1>3
  <2>2. \A n \in DOMAIN e.text : e.text[n] = <<a, n>> /\ n \in Nat
    BY <1>1, <1>3, <2>1
  <2>3. \A n \in DOMAIN e.text : <<a, n>> \notin OriginalChars
    BY <1>1, <1>3, <2>2 DEF CharsOf
  <2>4. \A n \in DOMAIN e.text : Place(<<a, n>>) = e.pos
    BY <2>3 DEF Place
  <2> QED BY <2>1, <2>2, <2>3, <2>4
<1>4. ASSUME e.type = "delete" PROVE Removes(a) \subseteq DOMAIN Original
  <2>1. DOMAIN Original = 1..Len(Original) /\ Len(Original) \in Nat
    BY AuthorsAssumption DEF Texts
  <2> HIDE DEF e
  <2> QED BY <1>1, <1>2, <2>1 DEF InBounds, Removes, e
<1> QED BY <1>1, <1>2, <1>3, <1>4

\* The characters inserted by the accepted ones.
LEMMA AddedSays ==
  ASSUME Typed, NEW c
  PROVE  c \in Added <=> \E a \in Inserting : \E n \in DOMAIN edits[a].text : c = <<a, n>>
<1>1. \A a \in Inserting : a \in Authors /\ edits[a].type = "insert"
  BY DEF Inserting, Accepted
<1>2. ASSUME NEW a \in Inserting PROVE \A n \in DOMAIN edits[a].text : edits[a].text[n] = <<a, n>>
  <2>1. a \in Authors /\ edits[a].type = "insert"
    BY <1>1
  <2> QED BY <2>1, EditSays
<1>3. ASSUME NEW a \in Inserting
      PROVE  c \in CharsOf(edits[a].text) <=> \E n \in DOMAIN edits[a].text : c = <<a, n>>
  BY <1>2 DEF CharsOf
<1>4. c \in Added <=> \E a \in Inserting : c \in CharsOf(edits[a].text)
  BY DEF Added
<1> QED BY <1>3, <1>4

\* The range of an operation of which something or nothing is left, and a character
\* that stays.
LEMMA RangeMoves ==
  ASSUME NEW x \in Operations \cup {NoOperation}, x.type # "insert", NEW i,
         NEW y \in Operations, NEW j, NEW k \in Nat, NEW k2 \in Nat, Carries(y, k, k2), NEW z,
         z = IF x = NoOperation THEN NoOperation ELSE TransformOperation(x, i, y, j)
  PROVE  InRange(z, k2) <=> InRange(x, k)
<1>1. ~InRange(NoOperation, k) /\ ~InRange(NoOperation, k2)
  BY DEF InRange, NoOperation
<1>2. CASE x = NoOperation
  BY <1>1, <1>2
<1>3. CASE x # NoOperation
  <2>1. x \in Operations /\ x.type = "delete" /\ z = TransformOperation(x, i, y, j)
    BY <1>3 DEF Operations
  <2>2. ~InRange(y, k)
    BY DEF Carries, InRange, Operations
  <2> QED BY <1>1, <2>1, <2>2, DeletesMove
<1> QED BY <1>2, <1>3

\* The text s is t after op, character by character.
Carried(op, t, s) ==
  /\ \A k2 \in DOMAIN s :
       \/ \E k \in DOMAIN t : Carries(op, k, k2) /\ s[k2] = t[k]
       \/ \E n \in DOMAIN op.text : k2 = op.pos + n /\ s[k2] = op.text[n]
  /\ \A k \in DOMAIN t : ~InRange(op, k) => \E k2 \in DOMAIN s : Carries(op, k, k2) /\ s[k2] = t[k]
  /\ \A n \in DOMAIN op.text : op.pos + n \in DOMAIN s /\ s[op.pos + n] = op.text[n]
  /\ DOMAIN s \subseteq Nat \ {0}

\* What the operation of a is when it is accepted, and what it makes of the text.
LEMMA AcceptCarries ==
  ASSUME FlightInv, NEW a \in Authors, Accept(a)
  PROVE  LET op == Transformed(a)
         IN  /\ op \in Operations /\ op.pos \in Nat /\ op.len \in Nat /\ InBounds(op, Len(text))
             /\ op.type = edits[a].type /\ op.text = edits[a].text
             /\ op.type = "insert" => op.len = 0
             /\ op.type = "delete" => DOMAIN op.text = {}
             /\ Carried(op, text, text') /\ DOMAIN text = 1..Len(text) /\ Len(text) \in Nat
<1> DEFINE op == Transformed(a)
<1>1. op \in Operations /\ text' = ApplyOperation(text, op) /\ text \in Texts /\ text' \in Texts
  BY AcceptSays DEF FlightInv, Typed
<1>2. op # NoOperation
  BY <1>1 DEF Operations, NoOperation
<1>3. InBounds(op, Len(text)) /\ op.type = edits[a].type /\ op.text = edits[a].text
  BY <1>2 DEF FlightInv, InFlight
<1>4. /\ op.pos \in Nat /\ op.len \in Nat
      /\ op.type = "insert" => op.len = 0
      /\ op.type = "delete" => op.text = <<>>
  BY <1>1 DEF Operations
<1>5. /\ DOMAIN text' \subseteq Nat \ {0}
      /\ DOMAIN text = 1..Len(text) /\ Len(text) \in Nat
  BY <1>1 DEF Texts
<1> HIDE DEF op
<1>6. Carried(op, text, text')
  <2> DEFINE s == text'
  <2>1. s = ApplyOperation(text, op) /\ DOMAIN s \subseteq Nat \ {0}
    BY <1>1, <1>5
  <2> HIDE DEF s
  <2>2. Carried(op, text, s)
    BY <1>1, <1>3, <2>1, CharsCarried DEF Carried
  <2> QED BY <2>2 DEF s
<1>7. op.type = "delete" => DOMAIN op.text = {}
  BY <1>4
<1>8. op.type = "insert" => op.len = 0
  BY <1>4
<1> QED BY <1>8, <1>1, <1>3, <1>4, <1>5, <1>6, <1>7 DEF op

-----------------------------------------------------------------------------
(* The base text under concurrent edits.                                   *)

\* A pending insert is between the characters of the base text that it was made
\* between, and a pending delete has those of its range that are left.
Stands(b) ==
  \A k \in DOMAIN text : text[k] \in OriginalChars =>
    IF edits[b].type = "insert" THEN k <= Transformed(b).pos <=> Place(text[k]) <= edits[b].pos
                                ELSE InRange(Transformed(b), k) <=> Place(text[k]) \in Removes(b)

StandsInv == OriginalTextAsIntended /\ \A b \in Authors \ Accepted : Stands(b)

\* The edits, and so what was meant by them, never change.
LEMMA EditsStay ==
  ASSUME edits' = edits
  PROVE  /\ \A c : Place(c)' = Place(c)
         /\ \A c, d : LeftOf(c, d)' <=> LeftOf(c, d)
         /\ \A b : Removes(b)' = Removes(b)
         /\ OriginalChars' = OriginalChars
<1>1. \A c : Place(c)' = Place(c)
  BY DEF Place, OriginalChars, CharsOf
<1>2. \A c, d : LeftOf(c, d)' <=> LeftOf(c, d)
  BY <1>1 DEF LeftOf, OriginalChars, CharsOf
<1>3. \A b : Removes(b)' = Removes(b)
  BY DEF Removes
<1> QED BY <1>1, <1>2, <1>3 DEF OriginalChars, CharsOf

\* What remains, when one more was accepted.
LEMMA RemainingNext ==
  ASSUME edits' = edits, NEW a \in Authors, Accepted' = Accepted \cup {a}
  PROVE  \A i \in DOMAIN Original :
           i \in Removed' <=> i \in Removed \/ (edits[a].type = "delete" /\ i \in Removes(a))
<1>1. \A b : Removes(b)' = Removes(b)
  BY EditsStay
<1>2. \A b : b \in Deleting' <=> b \in Deleting \/ (b = a /\ edits[a].type = "delete")
  BY DEF Deleting
<1>3. \A i : i \in Removed <=> \E b \in Deleting : i \in Removes(b)
  BY DEF Removed
<1>4. \A i : i \in Removed' <=> \E b \in Deleting' : i \in Removes(b)'
  BY DEF Removed
<1> QED BY <1>1, <1>2, <1>3, <1>4

\* Which characters of the base text remain.
LEMMA RemainingSays ==
  ASSUME NEW i \in DOMAIN Original
  PROVE  Original[i] \in Remaining <=> i \notin Removed
<1>1. \A j \in DOMAIN Original : Original[j] = Original[i] => j = i
  BY AuthorsAssumption
<1> QED BY <1>1 DEF Remaining

\* They are those of the next text, when they were those of the text.
LEMMA OriginalsKept ==
  ASSUME FlightInv, StandsInv, NEW a \in Authors, Accept(a)
  PROVE  OriginalTextAsIntended'
<1> DEFINE op == Transformed(a)
           s == text'
<1>1. /\ op \in Operations /\ op.pos \in Nat /\ op.len \in Nat
      /\ op.type = edits[a].type /\ op.text = edits[a].text
      /\ op.type = "delete" => DOMAIN op.text = {}
      /\ op.type = "insert" => op.len = 0
      /\ Carried(op, text, s) /\ DOMAIN text = 1..Len(text) /\ Len(text) \in Nat
  BY AcceptCarries
<1>2. edits' = edits /\ Accepted' = Accepted \cup {a} /\ a \notin Accepted
  BY AcceptSays
<1>3. /\ \A c, d : LeftOf(c, d)' <=> LeftOf(c, d)
      /\ OriginalChars' = OriginalChars
  BY <1>2, EditsStay
<1>4. /\ CharsOf(text) \cap OriginalChars = Remaining
      /\ \A k, l \in DOMAIN text :
           k < l /\ text[k] \in OriginalChars /\ text[l] \in OriginalChars => LeftOf(text[k], text[l])
      /\ Stands(a)
  BY <1>2 DEF StandsInv, OriginalTextAsIntended
<1>5. \A n \in DOMAIN op.text : op.text[n] \notin OriginalChars
  <2>1. op.type \in {"insert", "delete"}
    BY <1>1 DEF Operations
  <2>2. edits[a].type = "insert" =>
          \A n \in DOMAIN edits[a].text : edits[a].text[n] = <<a, n>> /\ <<a, n>> \notin OriginalChars
    BY EditSays DEF FlightInv
  <2> HIDE DEF op, s
  <2> QED BY <1>1, <2>1, <2>2
<1> HIDE DEF op, s
\* Where the characters of the base text come from.
<1>6. ASSUME NEW k2 \in DOMAIN s, s[k2] \in OriginalChars
      PROVE  \E k \in DOMAIN text : Carries(op, k, k2) /\ s[k2] = text[k]
  BY <1>1, <1>5, <1>6 DEF Carried
<1>7. CharsOf(s) \cap OriginalChars = Remaining'
  <2>1. ASSUME NEW i \in DOMAIN Original
        PROVE  (\E k2 \in DOMAIN s : s[k2] = Original[i]) <=> i \notin Removed'
    <3>1. Original[i] \in OriginalChars /\ Place(Original[i]) = i
      BY OriginalPlaces
    <3>2. (\E k \in DOMAIN text : text[k] = Original[i]) <=> i \notin Removed
      <4>1. (\E k \in DOMAIN text : text[k] = Original[i]) <=> Original[i] \in CharsOf(text)
        BY DEF CharsOf
      <4> QED BY <1>4, <3>1, <4>1, RemainingSays
    <3>3. i \in Removed' <=> i \in Removed \/ (edits[a].type = "delete" /\ i \in Removes(a))
      BY <1>2, RemainingNext
    <3>4. \A k \in DOMAIN text : text[k] = Original[i] /\ edits[a].type # "insert"
            => (InRange(op, k) <=> i \in Removes(a))
      BY <1>4, <3>1 DEF Stands, op
    <3>5. edits[a].type = "insert" => \A k \in DOMAIN text : ~InRange(op, k)
      BY <1>1 DEF InRange
    <3>6. edits[a].type \in {"insert", "delete"}
      BY <1>1 DEF Operations
    <3>7. ASSUME NEW k2 \in DOMAIN s, s[k2] = Original[i] PROVE i \notin Removed'
      <4>1. PICK k \in DOMAIN text : Carries(op, k, k2) /\ s[k2] = text[k]
        BY <1>6, <3>1, <3>7
      <4>2. ~InRange(op, k)
        BY <1>1, <4>1 DEF Carries, InRange
      <4> QED BY <3>2, <3>3, <3>4, <3>6, <3>7, <4>1, <4>2
    <3>8. ASSUME i \notin Removed' PROVE \E k2 \in DOMAIN s : s[k2] = Original[i]
      <4>1. PICK k \in DOMAIN text : text[k] = Original[i]
        BY <3>2, <3>3, <3>8
      <4>2. ~InRange(op, k)
        BY <3>3, <3>4, <3>5, <3>6, <3>8, <4>1
      <4> QED BY <1>1, <4>1, <4>2 DEF Carried
    <3> QED BY <3>7, <3>8
  <2>2. \A c \in OriginalChars : \E i \in DOMAIN Original : c = Original[i]
    BY DEF OriginalChars, CharsOf
  <2>3. \A i \in DOMAIN Original : Original[i] \in OriginalChars
    BY OriginalPlaces
  <2>4. Remaining' = {Original[i] : i \in DOMAIN Original \ Removed'}
    BY DEF Remaining
  <2>5. \A c : c \in CharsOf(s) <=> \E k2 \in DOMAIN s : s[k2] = c
    BY DEF CharsOf
  <2>6. \A c : c \in Remaining' <=> \E i \in DOMAIN Original : i \notin Removed' /\ c = Original[i]
    BY <2>4
  <2> QED BY <2>1, <2>2, <2>3, <2>5, <2>6
<1>8. ASSUME NEW k2 \in DOMAIN s, NEW l2 \in DOMAIN s, k2 < l2,
             s[k2] \in OriginalChars, s[l2] \in OriginalChars
      PROVE  LeftOf(s[k2], s[l2])
  <2>1. PICK k \in DOMAIN text : Carries(op, k, k2) /\ s[k2] = text[k]
    BY <1>6, <1>8
  <2>2. PICK l \in DOMAIN text : Carries(op, l, l2) /\ s[l2] = text[l]
    BY <1>6, <1>8
  <2>3. k < l
    <3>1. op.text = <<>> \/ op.len = 0
      BY <1>1 DEF Operations
    <3>2. Len(op.text) \in Nat
      BY <1>1 DEF Operations, Texts
    <3> QED BY <1>1, <1>8, <2>1, <2>2, <3>1, <3>2 DEF Carries
  <2> QED BY <1>4, <1>8, <2>1, <2>2, <2>3
<1>9. \A k2, l2 \in DOMAIN s : k2 < l2 /\ s[k2] \in OriginalChars /\ s[l2] \in OriginalChars
        => LeftOf(s[k2], s[l2])
  BY <1>8
<1> QED BY <1>2, <1>7, <1>9 DEF OriginalTextAsIntended, LeftOf, Place, OriginalChars, CharsOf, s

\* What is pending stands as it stood.
LEMMA StandsKept ==
  ASSUME FlightInv, StandsInv, NEW a \in Authors, Accept(a), NEW b \in Authors \ Accepted
  PROVE  Stands(b)'
<1> DEFINE op == Transformed(a)
           x == Transformed(b)
           z == NextOf(b, op, a)
           s == text'
<1>1. /\ op \in Operations /\ op.text = edits[a].text
      /\ op.type = edits[a].type
      /\ op.type = "delete" => DOMAIN op.text = {}
      /\ Carried(op, text, s) /\ DOMAIN text = 1..Len(text) /\ Len(text) \in Nat
  BY AcceptCarries
<1>2. edits' = edits /\ Transformed(b)' = z
  BY AcceptSays
<1>3. \A c : Place(c)' = Place(c)
  BY <1>2, EditsStay
<1>4. Removes(b)' = Removes(b) /\ OriginalChars' = OriginalChars
  BY <1>2, EditsStay
<1>5. Stands(b)
  BY DEF StandsInv
<1>6. \A n \in DOMAIN op.text : op.text[n] \notin OriginalChars
  <2>1. op.type \in {"insert", "delete"}
    BY <1>1 DEF Operations
  <2>2. edits[a].type = "insert" =>
          \A n \in DOMAIN edits[a].text : edits[a].text[n] = <<a, n>> /\ <<a, n>> \notin OriginalChars
    BY EditSays DEF FlightInv
  <2> HIDE DEF op, s
  <2> QED BY <1>1, <2>1, <2>2
<1>7. /\ x \in Operations \cup {NoOperation}
      /\ x # NoOperation => x.type = edits[b].type
      /\ edits[b].type = "insert" => x # NoOperation
  BY DEF FlightInv, InFlight
<1>8. z = IF x = NoOperation THEN NoOperation ELSE TransformOperation(x, Identity(b), op, Identity(a))
  BY DEF NextOf
<1>9. edits[b].type \in {"insert", "delete"}
  BY EditSays DEF FlightInv
<1> HIDE DEF op, x, z, s
<1>10. ASSUME NEW k2 \in DOMAIN s, s[k2] \in OriginalChars
       PROVE  IF edits[b].type = "insert" THEN k2 <= z.pos <=> Place(s[k2]) <= edits[b].pos
                                          ELSE InRange(z, k2) <=> Place(s[k2]) \in Removes(b)
  <2>1. PICK k \in DOMAIN text : Carries(op, k, k2) /\ s[k2] = text[k]
    BY <1>1, <1>6, <1>10 DEF Carried
  <2>2. k \in Nat /\ k2 \in Nat
    BY <1>1 DEF Carried
  <2>3. CASE edits[b].type = "insert"
    <3>1. k <= x.pos <=> Place(text[k]) <= edits[b].pos
      BY <1>5, <1>10, <2>1, <2>3 DEF Stands, x
    <3>2. x \in Operations /\ x.type = "insert" /\ z = TransformOperation(x, Identity(b), op, Identity(a))
      BY <1>7, <1>8, <2>3
    <3>3. k2 <= z.pos <=> k <= x.pos
      BY <1>1, <2>1, <2>2, <3>2, InsertsMove
    <3> QED BY <2>1, <2>3, <3>1, <3>3
  <2>4. CASE edits[b].type # "insert"
    <3>1. InRange(x, k) <=> Place(text[k]) \in Removes(b)
      BY <1>5, <1>10, <2>1, <2>4 DEF Stands, x
    <3>2. x.type # "insert"
      BY <1>7, <2>4 DEF NoOperation
    <3>3. InRange(z, k2) <=> InRange(x, k)
      <4>1. x \in Operations \cup {NoOperation} /\ op \in Operations /\ Carries(op, k, k2)
        BY <1>1, <1>7, <2>1
      <4> QED BY <1>8, <2>2, <3>2, <4>1, RangeMoves
    <3> QED BY <2>1, <2>4, <3>1, <3>3
  <2> QED BY <2>3, <2>4
<1>11. \A k2 \in DOMAIN s : s[k2] \in OriginalChars =>
         IF edits[b].type = "insert" THEN k2 <= z.pos <=> Place(s[k2]) <= edits[b].pos
                                     ELSE InRange(z, k2) <=> Place(s[k2]) \in Removes(b)
  BY <1>10
<1> QED BY <1>2, <1>11 DEF Stands, Place, OriginalChars, CharsOf, Removes, s, InRange

\* Nothing moved yet.
LEMMA StandsStarts ==
  ASSUME Init, FlightInv PROVE StandsInv
<1>1. text = Original /\ log = <<>> /\ \A b \in Authors : Transformed(b) = edits[b]
  <2>1. text = Original /\ log = <<>> /\ Len(log) = 0
    BY DEF Init
  <2> QED BY <2>1, NothingAccepted DEF Transformed
<1>2. Accepted = {}
  BY <1>1 DEF Accepted
<1>3. Removed = {}
  BY <1>2 DEF Removed, Deleting
<1>4. \A k \in DOMAIN Original : Original[k] \in OriginalChars /\ Place(Original[k]) = k /\ k \in Nat
  BY OriginalPlaces, PlacesOfOriginals
<1>5. CharsOf(Original) \cap OriginalChars = Remaining
  BY <1>3 DEF OriginalChars, Remaining, CharsOf
<1>6. \A k, l \in DOMAIN Original : k < l => LeftOf(Original[k], Original[l])
  BY <1>4 DEF LeftOf
<1>7. ASSUME NEW b \in Authors PROVE Stands(b)
  <2>1. edits[b].pos \in Nat /\ edits[b].len \in Nat
    BY EditSays DEF FlightInv
  <2> QED BY <1>1, <1>4, <2>1 DEF Stands, InRange, Removes
<1> QED BY <1>1, <1>5, <1>6, <1>7 DEF StandsInv, OriginalTextAsIntended

\* A step that leaves the edits, the text and what was accepted.
LEMMA StandsStays ==
  ASSUME StandsInv, edits' = edits, text' = text, Accepted' = Accepted,
         \A b \in Authors : Transformed(b)' = Transformed(b)
  PROVE  StandsInv'
<1>1. \A b \in Authors : Stands(b) => Stands(b)'
  BY DEF Stands, Place, OriginalChars, CharsOf, Removes, InRange
<1>2. OriginalTextAsIntended'
  BY DEF StandsInv, OriginalTextAsIntended, CharsOf, OriginalChars, Remaining, Removed, Deleting,
         Removes, LeftOf, Place
<1> QED BY <1>1, <1>2 DEF StandsInv

\* Steps other than an acceptance, which the invariants about the text do not see.
LEMMA OtherSteps ==
  ASSUME FlightInv, [Next]_vars, \A a \in Authors : ~Accept(a)
  PROVE  /\ edits' = edits /\ text' = text /\ Accepted' = Accepted
         /\ \A b \in Authors : Transformed(b)' = Transformed(b)
<1>1. CASE \E a \in Authors : AcknowledgeNoOp(a)
  BY <1>1, NoOpSays
<1>2. CASE UNCHANGED vars
  BY <1>2 DEF vars, Transformed, Accepted, Identity
<1> QED BY <1>1, <1>2 DEF Next

\* In every behaviour: the types, and the base text with what is pending in it.
LEMMA StandsAlways ==
  Spec => [](FlightInv /\ StandsInv)
<1>1. Init => FlightInv /\ StandsInv
  BY FlightStarts, StandsStarts
<1>2. FlightInv /\ StandsInv /\ [Next]_vars => (FlightInv /\ StandsInv)'
  <2> SUFFICES ASSUME FlightInv, StandsInv, [Next]_vars PROVE StandsInv'
    BY FlightKept
  <2>1. ASSUME NEW a \in Authors, Accept(a) PROVE StandsInv'
    <3>1. OriginalTextAsIntended'
      BY <2>1, OriginalsKept
    <3>2. \A b \in Authors \ Accepted : Stands(b)'
      BY <2>1, StandsKept
    <3>3. Accepted' = Accepted \cup {a}
      BY <2>1, AcceptSays
    <3> QED BY <3>1, <3>2, <3>3 DEF StandsInv
  <2>2. ASSUME \A a \in Authors : ~Accept(a) PROVE StandsInv'
    BY <2>2, OtherSteps, StandsStays
  <2> QED BY <2>1, <2>2
<1> QED BY <1>1, <1>2, PTL DEF Spec

\* Of the base text exactly the characters are gone that an accepted delete meant, and
\* the others stand in their order (transform_delete_delete, transform_delete_insert).
THEOREM OriginalsAsMeant == Spec => []OriginalTextAsIntended
<1>1. StandsInv => OriginalTextAsIntended
  BY DEF StandsInv
<1> QED BY <1>1, StandsAlways, PTL

-----------------------------------------------------------------------------
(* What is inserted.                                                       *)

\* The insert of a was made strictly within the range that d deletes.
Strictly(a, d) ==
  /\ edits[a].type = "insert" /\ edits[d].type = "delete"
  /\ edits[d].pos < edits[a].pos /\ edits[a].pos < edits[d].pos + edits[d].len

Inside(S) == \E a, d \in S : Strictly(a, d)

\* The range of a pending delete has nothing that was inserted, unless strictly within.
Whole(b) ==
  edits[b].type = "delete" /\ ~Inside(Accepted \cup {b}) =>
    \A k \in DOMAIN text : InRange(Transformed(b), k) => text[k] \in OriginalChars

WholeInv == \A b \in Authors \ Accepted : Whole(b)

\* No insert gets strictly within a delete that was not made there.
LEMMA StaysOut ==
  ASSUME FlightInv, StandsInv, WholeInv,
         NEW a \in Authors \ Accepted, NEW b \in Authors \ Accepted,
         Transformed(a) # NoOperation, Transformed(b) # NoOperation,
         ~Inside(Accepted \cup {a, b})
  PROVE  ~Within(Transformed(a), Transformed(b))
<1> DEFINE op == Transformed(a)
           x == Transformed(b)
<1>1. /\ op \in Operations /\ op.type = edits[a].type
      /\ x \in Operations /\ x.type = edits[b].type /\ InBounds(x, Len(text)) /\ text \in Texts
  BY DEF FlightInv, InFlight, Typed
<1>2. Stands(a) /\ Stands(b) /\ Whole(b)
  BY DEF StandsInv, WholeInv
<1>3. ~Inside(Accepted \cup {b}) /\ ~Strictly(a, b)
  BY DEF Inside
<1>4. /\ op.pos \in Nat /\ x.pos \in Nat /\ x.len \in Nat /\ DOMAIN text = 1..Len(text) /\ Len(text) \in Nat
      /\ x.pos + x.len <= Len(text)
  BY <1>1 DEF Operations, Texts, InBounds
<1>5. edits[a].pos \in Nat /\ edits[b].pos \in Nat /\ edits[b].len \in Nat
  BY EditSays DEF FlightInv
<1> HIDE DEF op, x
<1>6. ASSUME Within(op, x) PROVE FALSE
  <2>1. op.type = "insert" /\ x.type = "delete" /\ x.pos < op.pos /\ op.pos < x.pos + x.len
    BY <1>6 DEF Within
  <2> DEFINE k == op.pos
             l == op.pos + 1
  <2>2. /\ k \in DOMAIN text /\ l \in DOMAIN text /\ InRange(x, k) /\ InRange(x, l)
        /\ k <= op.pos /\ ~(l <= op.pos)
    BY <1>4, <2>1 DEF InRange
  <2> HIDE DEF k, l
  <2>3. text[k] \in OriginalChars /\ text[l] \in OriginalChars
    BY <1>1, <1>2, <1>3, <2>1, <2>2 DEF Whole, x
  <2>4. Place(text[k]) <= edits[a].pos /\ ~(Place(text[l]) <= edits[a].pos)
    BY <1>1, <1>2, <2>1, <2>2, <2>3 DEF Stands, op
  <2>5. Place(text[k]) \in Removes(b) /\ Place(text[l]) \in Removes(b)
    BY <1>1, <1>2, <2>1, <2>2, <2>3 DEF Stands, x
  <2>6. Place(text[k]) \in Nat /\ Place(text[l]) \in Nat
    BY <2>3, PlacesOfOriginals
  <2> QED BY <1>1, <1>3, <1>5, <2>1, <2>4, <2>5, <2>6 DEF Strictly, Removes
<1> QED BY <1>6 DEF op, x

\* The exceptions, when one more was accepted.
LEMMA InsideNext ==
  ASSUME edits' = edits, NEW a \in Authors, Accepted' = Accepted \cup {a}, NEW b
  PROVE  /\ Inside(Accepted \cup {b})' <=> Inside((Accepted \cup {b}) \cup {a})
         /\ Inside(Accepted \cup {b}) => Inside((Accepted \cup {b}) \cup {a})
         /\ Inside(Accepted \cup {a}) => Inside((Accepted \cup {b}) \cup {a})
<1>1. (Accepted \cup {b})' = (Accepted \cup {b}) \cup {a}
  OBVIOUS
<1> QED BY <1>1 DEF Inside, Strictly

\* A pending delete takes in nothing that was inserted outside of it.
LEMMA WholeKept ==
  ASSUME FlightInv, StandsInv, WholeInv, NEW a \in Authors, Accept(a),
         NEW b \in Authors \ Accepted, b # a
  PROVE  Whole(b)'
<1> DEFINE op == Transformed(a)
           x == Transformed(b)
           z == NextOf(b, op, a)
           s == text'
<1>1. /\ op \in Operations /\ op.pos \in Nat /\ op.len \in Nat
      /\ op.type = "delete" => DOMAIN op.text = {}
      /\ Carried(op, text, s) /\ DOMAIN text = 1..Len(text) /\ Len(text) \in Nat
  BY AcceptCarries
<1>2. /\ edits' = edits /\ Transformed(b)' = z /\ Accepted' = Accepted \cup {a} /\ a \notin Accepted
  BY AcceptSays
<1>3. /\ x \in Operations \cup {NoOperation}
      /\ x # NoOperation => x.type = edits[b].type
  BY DEF FlightInv, InFlight
<1>4. z = IF x = NoOperation THEN NoOperation ELSE TransformOperation(x, Identity(b), op, Identity(a))
  BY DEF NextOf
<1>5. SUFFICES ASSUME edits[b].type = "delete", ~Inside((Accepted \cup {b}) \cup {a})
               PROVE  \A k2 \in DOMAIN s : InRange(z, k2) => s[k2] \in OriginalChars
  <2>1. Inside(Accepted \cup {b})' <=> Inside((Accepted \cup {b}) \cup {a})
    BY <1>2, InsideNext
  <2>2. edits[b].type' = edits[b].type
    BY <1>2
  <2>3. OriginalChars' = OriginalChars
    BY <1>2, EditsStay
  <2> HIDE DEF z
  <2> QED BY <1>2, <2>1, <2>2, <2>3 DEF Whole, InRange, s
<1>6. ~Inside(Accepted \cup {b})
  BY <1>2, <1>5, InsideNext
<1>7. \A k \in DOMAIN text : InRange(x, k) => text[k] \in OriginalChars
  BY <1>5, <1>6 DEF WholeInv, Whole
<1>8. x # NoOperation => ~Within(op, x)
  <2>1. (Accepted \cup {b}) \cup {a} = Accepted \cup {a, b}
    OBVIOUS
  <2>2. op # NoOperation
    BY <1>1 DEF Operations, NoOperation
  <2> QED BY <1>2, <1>5, <2>1, <2>2, StaysOut
<1> HIDE DEF op, x, z, s
<1>9. x.type # "insert"
  BY <1>3, <1>5 DEF NoOperation
<1>10. ASSUME NEW k2 \in DOMAIN s, InRange(z, k2) PROVE s[k2] \in OriginalChars
  <2>1. CASE \E k \in DOMAIN text : Carries(op, k, k2) /\ s[k2] = text[k]
    <3>1. PICK k \in DOMAIN text : Carries(op, k, k2) /\ s[k2] = text[k]
      BY <2>1
    <3>2. k \in Nat /\ k2 \in Nat
      BY <1>1 DEF Carried
    <3>3. InRange(x, k)
      <4>1. x \in Operations \cup {NoOperation} /\ op \in Operations /\ Carries(op, k, k2)
        BY <1>1, <1>3, <3>1
      <4> QED BY <1>4, <1>9, <1>10, <3>2, <4>1, RangeMoves
    <3> QED BY <1>7, <3>1, <3>3
  <2>2. CASE \E n \in DOMAIN op.text : k2 = op.pos + n /\ s[k2] = op.text[n]
    <3>1. PICK n \in DOMAIN op.text : k2 = op.pos + n
      BY <2>2
    <3>2. op.type = "insert" /\ n \in 1..Len(op.text) /\ Len(op.text) \in Nat
      <4>1. op.type = "insert" /\ op.text \in Seq(Chars)
        BY <1>1, <3>1 DEF Operations, Texts
      <4> QED BY <3>1, <4>1
    <3>3. x # NoOperation
      <4>1. ~InRange(NoOperation, k2)
        BY <1>1, <3>1, <3>2 DEF InRange, NoOperation
      <4> QED BY <1>4, <1>10, <4>1
    <3>4. x \in Operations /\ x.type = "delete" /\ z = TransformDeleteInsert(x, op)
      BY <1>3, <1>4, <1>5, <3>2, <3>3 DEF TransformOperation
    <3>5. x.pos \in Nat /\ x.len \in Nat /\ DOMAIN x = {"type", "pos", "text", "len"}
      BY <3>4 DEF Operations
    <3>6. op.pos <= x.pos \/ x.pos + x.len <= op.pos
      BY <1>1, <1>8, <3>2, <3>3, <3>4, <3>5 DEF Within
    <3>7. ~InRange(z, k2)
      BY <1>1, <3>1, <3>2, <3>4, <3>5, <3>6 DEF InRange, TransformDeleteInsert
    <3> QED BY <1>10, <3>7
  <2> QED BY <1>1, <2>1, <2>2 DEF Carried
<1> QED BY <1>10

\* There is nothing that was inserted.
LEMMA WholeStarts ==
  ASSUME Init, FlightInv PROVE WholeInv
<1>1. text = Original
  BY DEF Init
<1>2. \A k \in DOMAIN Original : Original[k] \in OriginalChars
  BY OriginalPlaces
<1> QED BY <1>1, <1>2 DEF WholeInv, Whole

\* Nothing it is about changes.
LEMMA WholeStays ==
  ASSUME WholeInv, edits' = edits, text' = text, Accepted' = Accepted,
         \A b \in Authors : Transformed(b)' = Transformed(b)
  PROVE  WholeInv'
<1>1. \A b \in Authors : Whole(b) => Whole(b)'
  BY DEF Whole, Inside, Strictly, OriginalChars, CharsOf, InRange
<1> QED BY <1>1 DEF WholeInv

-----------------------------------------------------------------------------
(* The order of characters.                                                *)

\* The positions of the base text the deletes of S have; whether they leave nothing
\* between two inserts of S.
RemovedBy(S) == UNION {Removes(c) : c \in {d \in S : edits[d].type = "delete"}}

CollapsedBy(S) == \E a, b \in S :
  /\ edits[a].type = "insert" /\ edits[b].type = "insert"
  /\ edits[a].pos < edits[b].pos /\ edits[a].pos + 1..edits[b].pos \subseteq RemovedBy(S)

Unclear(S) == Inside(S) \/ CollapsedBy(S)

\* The characters there can be.
Known(c) == \/ c \in OriginalChars
            \/ \E a \in Authors : /\ edits[a].type = "insert"
                                  /\ \E n \in DOMAIN edits[a].text : c = <<a, n>>

\* Each has a place, and an inserted one the identity of its author and a number.
LEMMA KnownSays ==
  ASSUME Typed, NEW c, Known(c)
  PROVE  /\ Place(c) \in Nat
         /\ c \notin OriginalChars => c[1] \in Authors /\ c[1] \in Nat /\ c[2] \in Nat
<1>1. CASE c \in OriginalChars
  BY <1>1, PlacesOfOriginals
<1>2. CASE c \notin OriginalChars
  <2>1. PICK a \in Authors : edits[a].type = "insert" /\ \E n \in DOMAIN edits[a].text : c = <<a, n>>
    BY <1>2 DEF Known
  <2>2. PICK n \in DOMAIN edits[a].text : c = <<a, n>>
    BY <2>1
  <2>3. Place(<<a, n>>) = edits[a].pos /\ n \in Nat /\ edits[a].pos \in Nat
    BY <2>1, EditSays
  <2>4. a \in Nat
    BY AuthorsAssumption
  <2> QED BY <2>2, <2>3, <2>4
<1> QED BY <1>1, <1>2

\* The order that is meant is transitive.
LEMMA LeftTransitive ==
  ASSUME Typed, NEW c, NEW d, NEW e, Known(c), Known(d), Known(e), LeftOf(c, d), LeftOf(d, e)
  PROVE  LeftOf(c, e)
<1>1. Place(c) \in Nat /\ Place(d) \in Nat /\ Place(e) \in Nat
  BY KnownSays
<1>2. /\ c \notin OriginalChars => c[1] \in Nat /\ c[2] \in Nat
      /\ d \notin OriginalChars => d[1] \in Nat /\ d[2] \in Nat
      /\ e \notin OriginalChars => e[1] \in Nat /\ e[2] \in Nat
  BY KnownSays
<1> QED BY <1>1, <1>2 DEF LeftOf

\* A character of another author is left or right of all that one inserts.
LEMMA AllLeftOrRight ==
  ASSUME Typed, NEW a \in Authors, edits[a].type = "insert", NEW n \in DOMAIN edits[a].text,
         NEW c, Known(c), c \in OriginalChars \/ c[1] # a
  PROVE  /\ LeftOf(c, <<a, 1>>) => LeftOf(c, <<a, n>>)
         /\ ~LeftOf(c, <<a, 1>>) => LeftOf(<<a, n>>, c)
         /\ Known(<<a, 1>>)
<1>1. /\ <<a, n>> \notin OriginalChars /\ <<a, 1>> \notin OriginalChars
      /\ Place(<<a, n>>) = edits[a].pos /\ Place(<<a, 1>>) = edits[a].pos
      /\ 1 \in DOMAIN edits[a].text /\ n \in Nat /\ edits[a].pos \in Nat
  BY EditSays
<1>2. Place(c) \in Nat /\ (c \notin OriginalChars => c[1] \in Nat /\ c[2] \in Nat)
  BY KnownSays
<1>3. a \in Nat
  BY AuthorsAssumption
<1>4. <<a, n>>[1] = a /\ <<a, 1>>[1] = a /\ <<a, n>>[2] = n /\ <<a, 1>>[2] = 1
  OBVIOUS
<1>5. LeftOf(c, <<a, 1>>) <=>
        (Place(c) < edits[a].pos
          \/ (Place(c) = edits[a].pos /\ (c \in OriginalChars \/ c[1] < a)))
  <2>1. c \notin OriginalChars => c[1] # a
    OBVIOUS
  <2> QED BY <1>1, <1>2, <1>3, <1>4, <2>1 DEF LeftOf
<1>6. LeftOf(c, <<a, n>>) <=>
        (Place(c) < edits[a].pos
          \/ (Place(c) = edits[a].pos /\ (c \in OriginalChars \/ c[1] < a)))
  <2>1. c \notin OriginalChars => c[1] # a
    OBVIOUS
  <2> QED BY <1>1, <1>2, <1>3, <1>4, <2>1 DEF LeftOf
<1>7. LeftOf(<<a, n>>, c) <=>
        (edits[a].pos < Place(c)
          \/ (Place(c) = edits[a].pos /\ c \notin OriginalChars /\ a < c[1]))
  <2>1. c \notin OriginalChars => c[1] # a
    OBVIOUS
  <2> QED BY <1>1, <1>2, <1>3, <1>4, <2>1 DEF LeftOf
<1>8. Known(<<a, 1>>)
  BY <1>1 DEF Known
<1> QED BY <1>1, <1>2, <1>3, <1>5, <1>6, <1>7, <1>8

\* Without the exceptions, a pending insert is between the characters left and right of
\* what it inserts.
Sorted(b) ==
  edits[b].type = "insert" /\ ~Unclear(Accepted \cup {b}) =>
    \A k \in DOMAIN text : k <= Transformed(b).pos <=> LeftOf(text[k], <<b, 1>>)

SortedText == \A k, l \in DOMAIN text : k < l => LeftOf(text[k], text[l])

OrderInv ==
  /\ CharsOf(text) \subseteq OriginalChars \cup Added
  /\ ~Unclear(Accepted) => Added \subseteq CharsOf(text) /\ SortedText
  /\ \A b \in Authors \ Accepted : Sorted(b)

MergeInv == FlightInv /\ StandsInv /\ WholeInv /\ OrderInv

\* The characters of the text are known, and no pending author inserted one.
LEMMA TextKnown ==
  ASSUME FlightInv, OrderInv, NEW k \in DOMAIN text
  PROVE  /\ Known(text[k])
         /\ \A b \in Authors \ Accepted : text[k] \in OriginalChars \/ text[k][1] # b
<1>1. text[k] \in OriginalChars \/ text[k] \in Added
  BY DEF OrderInv, CharsOf
<1>2. CASE text[k] \in OriginalChars
  BY <1>2 DEF Known
<1>3. CASE text[k] \in Added
  <2>1. PICK a \in Inserting : \E n \in DOMAIN edits[a].text : text[k] = <<a, n>>
    BY <1>3, AddedSays DEF FlightInv
  <2>2. a \in Authors /\ a \in Accepted /\ edits[a].type = "insert"
    BY DEF Inserting, Accepted
  <2>3. text[k][1] = a
    BY <2>1
  <2> QED BY <2>1, <2>2, <2>3 DEF Known
<1> QED BY <1>1, <1>2, <1>3

\* Exceptions stay exceptions when more is accepted.
LEMMA UnclearGrows ==
  ASSUME NEW S, NEW T, S \subseteq T, Unclear(S)
  PROVE  Unclear(T)
<1>1. Inside(S) => Inside(T)
  BY DEF Inside
<1>2. RemovedBy(S) \subseteq RemovedBy(T)
  BY DEF RemovedBy
<1>3. CollapsedBy(S) => CollapsedBy(T)
  BY <1>2 DEF CollapsedBy
<1> QED BY <1>1, <1>3 DEF Unclear

\* Of two pending inserts that one is left of the other which is meant to be.
LEMMA OneIsLeft ==
  ASSUME MergeInv, NEW a \in Authors \ Accepted, NEW b \in Authors \ Accepted, a # b,
         edits[a].type = "insert", edits[b].type = "insert", ~Unclear(Accepted \cup {a, b}),
         LeftOf(<<a, 1>>, <<b, 1>>)
  PROVE  \/ Transformed(a).pos < Transformed(b).pos
         \/ Transformed(a).pos = Transformed(b).pos /\ a < b
<1> DEFINE x == Transformed(a)
           y == Transformed(b)
<1>1. /\ x \in Operations /\ InBounds(x, Len(text)) /\ y \in Operations /\ text \in Texts /\ Typed
  BY DEF MergeInv, FlightInv, InFlight, Typed
<1>2. x.pos \in Nat /\ y.pos \in Nat /\ x.pos <= Len(text) /\ DOMAIN text = 1..Len(text) /\ Len(text) \in Nat
  BY <1>1 DEF Operations, Texts, InBounds
<1>3. /\ 1 \in DOMAIN edits[a].text /\ <<a, 1>> \notin OriginalChars /\ Place(<<a, 1>>) = edits[a].pos
      /\ edits[a].pos \in Nat
      /\ 1 \in DOMAIN edits[b].text /\ <<b, 1>> \notin OriginalChars /\ Place(<<b, 1>>) = edits[b].pos
      /\ edits[b].pos \in Nat /\ edits[b].pos <= Len(Original)
  <2>1. edits[b].pos <= Len(Original)
    BY <1>1, EditsAreOperations DEF Typed, InBounds
  <2> QED BY <1>1, <2>1, EditSays
<1>4. Known(<<a, 1>>) /\ Known(<<b, 1>>)
  BY <1>3 DEF Known
<1>5. /\ \A k \in DOMAIN text : k <= x.pos <=> LeftOf(text[k], <<a, 1>>)
      /\ \A k \in DOMAIN text : k <= y.pos <=> LeftOf(text[k], <<b, 1>>)
  <2>1. ~Unclear(Accepted \cup {a}) /\ ~Unclear(Accepted \cup {b})
    <3>1. Accepted \cup {a} \subseteq Accepted \cup {a, b} /\ Accepted \cup {b} \subseteq Accepted \cup {a, b}
      OBVIOUS
    <3> QED BY <3>1, UnclearGrows
  <2> QED BY <2>1 DEF MergeInv, OrderInv, Sorted
<1>6. a \in Nat /\ b \in Nat
  BY AuthorsAssumption
<1> HIDE DEF x, y
<1>7. x.pos <= y.pos
  <2>1. CASE x.pos = 0
    BY <1>2, <2>1
  <2>2. CASE x.pos # 0
    <3>1. x.pos \in DOMAIN text /\ x.pos <= x.pos
      BY <1>2, <2>2
    <3>2. LeftOf(text[x.pos], <<a, 1>>)
      BY <1>5, <3>1
    <3>3. Known(text[x.pos])
      BY <3>1, TextKnown DEF MergeInv
    <3>4. LeftOf(text[x.pos], <<b, 1>>)
      BY <1>1, <1>4, <3>2, <3>3, LeftTransitive
    <3> QED BY <1>5, <3>1, <3>4
  <2> QED BY <2>1, <2>2
<1>8. edits[a].pos < edits[b].pos \/ (edits[a].pos = edits[b].pos /\ a < b)
  <2>1. <<a, 1>>[1] = a /\ <<a, 1>>[2] = 1 /\ <<b, 1>>[1] = b /\ <<b, 1>>[2] = 1
    OBVIOUS
  <2> QED BY <1>3, <1>6, <2>1 DEF LeftOf
<1>9. CASE edits[a].pos < edits[b].pos
  <2>1. PICK i \in edits[a].pos + 1..edits[b].pos : i \notin RemovedBy(Accepted \cup {a, b})
    BY <1>9 DEF Unclear, CollapsedBy
  <2>2. i \in DOMAIN Original
    <3>1. DOMAIN Original = 1..Len(Original) /\ Len(Original) \in Nat
      BY AuthorsAssumption DEF Texts
    <3> QED BY <1>3, <2>1, <3>1
  <2>3. i \notin Removed
    <3>1. Deleting \subseteq {d \in Accepted \cup {a, b} : edits[d].type = "delete"}
      BY DEF Deleting
    <3> QED BY <2>1, <3>1 DEF Removed, RemovedBy
  <2>4. Original[i] \in CharsOf(text) /\ Original[i] \in OriginalChars /\ Place(Original[i]) = i
    <3>1. CharsOf(text) \cap OriginalChars = Remaining
      BY DEF MergeInv, StandsInv, OriginalTextAsIntended
    <3> QED BY <2>2, <2>3, <3>1, RemainingSays, OriginalPlaces
  <2>5. PICK k \in DOMAIN text : text[k] = Original[i]
    BY <2>4 DEF CharsOf
  <2>6. k <= x.pos <=> i <= edits[a].pos
    BY <2>4, <2>5 DEF MergeInv, StandsInv, Stands, x
  <2>7. k <= y.pos <=> i <= edits[b].pos
    BY <2>4, <2>5 DEF MergeInv, StandsInv, Stands, y
  <2>8. i \in Nat /\ k \in Nat
    BY <1>2, <1>3, <2>1
  <2>9. x.pos < y.pos
    BY <1>2, <1>3, <2>1, <2>6, <2>7, <2>8
  <2> QED BY <2>9 DEF x, y
<1> QED BY <1>2, <1>7, <1>8, <1>9 DEF x, y

\* So the transformation breaks the tie of two inserts as it is meant.
LEMMA TieSays ==
  ASSUME MergeInv, NEW a \in Authors \ Accepted, NEW b \in Authors \ Accepted, a # b,
         edits[a].type = "insert", edits[b].type = "insert", ~Unclear(Accepted \cup {a, b})
  PROVE  LeftOf(<<a, 1>>, <<b, 1>>) <=>
           (Transformed(a).pos < Transformed(b).pos
             \/ (Transformed(a).pos = Transformed(b).pos /\ TieKeyLess(Identity(a), Identity(b))))
<1> DEFINE x == Transformed(a).pos
           y == Transformed(b).pos
<1>1. x \in Nat /\ y \in Nat /\ a \in Nat /\ b \in Nat
  <2>1. Transformed(a) \in Operations /\ Transformed(b) \in Operations
    BY DEF MergeInv, FlightInv, InFlight
  <2>2. a \in Nat /\ b \in Nat
    BY AuthorsAssumption
  <2> QED BY <2>1, <2>2 DEF Operations
<1>2. TieKeyLess(Identity(a), Identity(b)) <=> a < b
  BY <1>1 DEF TieKeyLess, Identity
<1>3. LeftOf(<<a, 1>>, <<b, 1>>) \/ LeftOf(<<b, 1>>, <<a, 1>>)
  <2>1. /\ <<a, 1>> \notin OriginalChars /\ Place(<<a, 1>>) \in Nat
        /\ <<b, 1>> \notin OriginalChars /\ Place(<<b, 1>>) \in Nat
    BY EditSays DEF MergeInv, FlightInv
  <2>2. <<a, 1>>[1] = a /\ <<a, 1>>[2] = 1 /\ <<b, 1>>[1] = b /\ <<b, 1>>[2] = 1
    OBVIOUS
  <2> QED BY <1>1, <2>1, <2>2 DEF LeftOf
<1>4. LeftOf(<<a, 1>>, <<b, 1>>) => x < y \/ (x = y /\ a < b)
  BY OneIsLeft
<1>5. LeftOf(<<b, 1>>, <<a, 1>>) => y < x \/ (y = x /\ b < a)
  <2>1. {a, b} = {b, a}
    OBVIOUS
  <2>2. ~Unclear(Accepted \cup {b, a})
    BY <2>1
  <2> QED BY <2>2, OneIsLeft
<1> HIDE DEF x, y
<1>6. LeftOf(<<a, 1>>, <<b, 1>>) <=> (x < y \/ (x = y /\ TieKeyLess(Identity(a), Identity(b))))
  BY <1>1, <1>2, <1>3, <1>4, <1>5
<1> QED BY <1>6 DEF x, y

\* The exceptions and the inserted characters, when one more was accepted.
LEMMA UnclearNext ==
  ASSUME edits' = edits, NEW a \in Authors, Accepted' = Accepted \cup {a}, NEW b
  PROVE  /\ Unclear(Accepted \cup {b})' <=> Unclear((Accepted \cup {b}) \cup {a})
         /\ Unclear(Accepted)' <=> Unclear(Accepted \cup {a})
<1>1. /\ (Accepted \cup {b})' = (Accepted \cup {b}) \cup {a}
      /\ Accepted' = Accepted \cup {a}
  OBVIOUS
<1> QED BY <1>1 DEF Unclear, Inside, Strictly, CollapsedBy, RemovedBy, Removes

\* What the next one inserts is added.
LEMMA AddedNext ==
  ASSUME edits' = edits, NEW a \in Authors, Accepted' = Accepted \cup {a}, NEW c
  PROVE  c \in Added' <=> c \in Added \/ (edits[a].type = "insert" /\ c \in CharsOf(edits[a].text))
<1>1. \A b : b \in Inserting' <=> b \in Inserting \/ (b = a /\ edits[a].type = "insert")
  BY DEF Inserting
<1>2. c \in Added <=> \E b \in Inserting : c \in CharsOf(edits[b].text)
  BY DEF Added
<1>3. c \in Added' <=> \E b \in Inserting' : c \in CharsOf(edits[b].text)
  BY DEF Added, CharsOf
<1> QED BY <1>1, <1>2, <1>3

\* A pending insert stays between the characters left and right of it.
LEMMA SortedKept ==
  ASSUME MergeInv, NEW a \in Authors, Accept(a), NEW b \in Authors \ Accepted, b # a
  PROVE  Sorted(b)'
<1> DEFINE op == Transformed(a)
           x == Transformed(b)
           z == NextOf(b, op, a)
           s == text'
<1>0. FlightInv /\ Typed
  BY DEF MergeInv, FlightInv
<1>1. /\ op \in Operations /\ op.pos \in Nat
      /\ op.type = edits[a].type /\ op.text = edits[a].text
      /\ op.type = "delete" => DOMAIN op.text = {}
      /\ Carried(op, text, s) /\ DOMAIN text = 1..Len(text) /\ Len(text) \in Nat
  BY <1>0, AcceptCarries
<1>2. /\ edits' = edits /\ Transformed(b)' = z /\ Accepted' = Accepted \cup {a} /\ a \notin Accepted
  BY <1>0, AcceptSays
<1>3. SUFFICES ASSUME edits[b].type = "insert", ~Unclear((Accepted \cup {b}) \cup {a})
               PROVE  \A k2 \in DOMAIN s : k2 <= z.pos <=> LeftOf(s[k2], <<b, 1>>)
  <2>1. Unclear(Accepted \cup {b})' <=> Unclear((Accepted \cup {b}) \cup {a})
    BY <1>2, UnclearNext
  <2>2. edits[b].type' = edits[b].type
    BY <1>2
  <2> HIDE DEF z
  <2> QED BY <1>2, <2>1, <2>2 DEF Sorted, LeftOf, Place, OriginalChars, CharsOf, s
<1>4. /\ x \in Operations /\ x.type = "insert"
      /\ z = TransformOperation(x, Identity(b), op, Identity(a))
  BY <1>0, <1>3 DEF FlightInv, InFlight, NextOf
<1>5. \A k \in DOMAIN text : k <= x.pos <=> LeftOf(text[k], <<b, 1>>)
  <2>1. Accepted \cup {b} \subseteq (Accepted \cup {b}) \cup {a}
    OBVIOUS
  <2>2. ~Unclear(Accepted \cup {b})
    BY <1>3, <2>1, UnclearGrows
  <2> QED BY <1>3, <2>2 DEF MergeInv, OrderInv, Sorted
<1>6. edits[a].type = "insert" =>
        (LeftOf(<<a, 1>>, <<b, 1>>) <=>
          (op.pos < x.pos \/ (op.pos = x.pos /\ TieKeyLess(Identity(a), Identity(b)))))
  <2>1. (Accepted \cup {b}) \cup {a} = Accepted \cup {a, b}
    OBVIOUS
  <2>2. a \in Authors \ Accepted /\ ~Unclear(Accepted \cup {a, b})
    BY <1>2, <1>3, <2>1
  <2> QED BY <1>3, <2>2, TieSays
<1>7. edits[a].type = "insert" =>
        \A n \in DOMAIN edits[a].text :
          edits[a].text[n] = <<a, n>> /\ (LeftOf(<<a, n>>, <<b, 1>>) <=> LeftOf(<<a, 1>>, <<b, 1>>))
  <2> SUFFICES ASSUME edits[a].type = "insert", NEW n \in DOMAIN edits[a].text
               PROVE  /\ edits[a].text[n] = <<a, n>>
                      /\ LeftOf(<<a, n>>, <<b, 1>>) <=> LeftOf(<<a, 1>>, <<b, 1>>)
    OBVIOUS
  <2>1. /\ <<a, n>> \notin OriginalChars /\ <<a, 1>> \notin OriginalChars
        /\ Place(<<a, n>>) = edits[a].pos /\ Place(<<a, 1>>) = edits[a].pos
        /\ edits[a].text[n] = <<a, n>> /\ edits[a].pos \in Nat
    BY <1>0, EditSays
  <2>2. <<b, 1>> \notin OriginalChars /\ Place(<<b, 1>>) \in Nat
    BY <1>0, <1>3, EditSays
  <2>3. <<a, 1>>[1] = a /\ <<a, n>>[1] = a /\ <<b, 1>>[1] = b
    OBVIOUS
  <2> QED BY <2>1, <2>2, <2>3 DEF LeftOf
<1>8. Len(op.text) \in Nat /\ DOMAIN op.text = 1..Len(op.text) /\ x.pos \in Nat /\ DOMAIN x = {"type", "pos", "text", "len"}
  BY <1>1, <1>4 DEF Operations, Texts
<1> HIDE DEF op, x, z, s
<1>9. ASSUME NEW k2 \in DOMAIN s PROVE k2 <= z.pos <=> LeftOf(s[k2], <<b, 1>>)
  <2>1. CASE \E k \in DOMAIN text : Carries(op, k, k2) /\ s[k2] = text[k]
    <3>1. PICK k \in DOMAIN text : Carries(op, k, k2) /\ s[k2] = text[k]
      BY <2>1
    <3>2. k \in Nat /\ k2 \in Nat
      BY <1>1 DEF Carried
    <3>3. k2 <= z.pos <=> k <= x.pos
      BY <1>1, <1>4, <3>1, <3>2, InsertsMove
    <3> QED BY <1>5, <3>1, <3>3
  <2>2. CASE \E n \in DOMAIN op.text : k2 = op.pos + n /\ s[k2] = op.text[n]
    <3>1. PICK n \in DOMAIN op.text : k2 = op.pos + n /\ s[k2] = op.text[n]
      BY <2>2
    <3>2. op.type = "insert" /\ edits[a].type = "insert"
      BY <1>1, <3>1 DEF Operations
    <3>3. z.pos = IF op.pos < x.pos \/ (op.pos = x.pos /\ TieKeyLess(Identity(a), Identity(b)))
                  THEN x.pos + Len(op.text) ELSE x.pos
      BY <1>4, <1>8, <3>2 DEF TransformOperation, TransformInsertInsert
    <3>4. s[k2] = <<a, n>> /\ (LeftOf(<<a, n>>, <<b, 1>>) <=> LeftOf(<<a, 1>>, <<b, 1>>))
      BY <1>1, <1>7, <3>1, <3>2
    <3>5. k2 <= z.pos <=> (op.pos < x.pos \/ (op.pos = x.pos /\ TieKeyLess(Identity(a), Identity(b))))
      BY <1>1, <1>8, <3>1, <3>3
    <3> QED BY <1>6, <3>2, <3>4, <3>5
  <2> QED BY <1>1, <2>1, <2>2 DEF Carried
<1> QED BY <1>9

\* The text has no other characters than those of the base text and the inserted ones.
LEMMA CharsKept ==
  ASSUME MergeInv, NEW a \in Authors, Accept(a)
  PROVE  CharsOf(text') \subseteq OriginalChars \cup Added'
<1> DEFINE op == Transformed(a)
           s == text'
<1>0. FlightInv /\ Typed
  BY DEF MergeInv, FlightInv
<1>1. /\ op \in Operations /\ op.type = edits[a].type /\ op.text = edits[a].text
      /\ op.type = "delete" => DOMAIN op.text = {}
      /\ Carried(op, text, s)
  BY <1>0, AcceptCarries
<1>2. edits' = edits /\ Accepted' = Accepted \cup {a}
  BY <1>0, AcceptSays
<1> HIDE DEF op
<1>3. ASSUME NEW k2 \in DOMAIN s PROVE s[k2] \in OriginalChars \cup Added'
  <2>1. CASE \E k \in DOMAIN text : Carries(op, k, k2) /\ s[k2] = text[k]
    <3>1. PICK k \in DOMAIN text : s[k2] = text[k]
      BY <2>1
    <3>2. text[k] \in OriginalChars \cup Added
      BY DEF MergeInv, OrderInv, CharsOf
    <3> QED BY <1>2, <3>1, <3>2, AddedNext
  <2>2. CASE \E n \in DOMAIN op.text : k2 = op.pos + n /\ s[k2] = op.text[n]
    <3>1. PICK n \in DOMAIN op.text : s[k2] = op.text[n]
      BY <2>2
    <3>2. edits[a].type = "insert" /\ s[k2] \in CharsOf(edits[a].text)
      BY <1>1, <3>1 DEF Operations, CharsOf
    <3> HIDE DEF s
    <3> QED BY <1>2, <3>2, AddedNext
  <2> HIDE DEF s
  <2> QED BY <1>1, <2>1, <2>2 DEF Carried
<1> QED BY <1>3 DEF CharsOf

\* Nothing that was inserted is lost, and what is inserted stands in its order.
LEMMA SortedTextKept ==
  ASSUME MergeInv, NEW a \in Authors, Accept(a), ~Unclear(Accepted \cup {a})
  PROVE  /\ Added' \subseteq CharsOf(text')
         /\ \A k2, l2 \in DOMAIN text' : k2 < l2 => \A c, d : text'[k2] = c /\ text'[l2] = d => LeftOf(c, d)
<1> DEFINE op == Transformed(a)
           s == text'
<1>0. FlightInv /\ Typed /\ OrderInv
  BY DEF MergeInv, FlightInv
<1>1. /\ op \in Operations /\ op.pos \in Nat /\ op.len \in Nat
      /\ op.type = edits[a].type /\ op.text = edits[a].text
      /\ op.type = "delete" => DOMAIN op.text = {}
      /\ op.type = "insert" => op.len = 0
      /\ Carried(op, text, s) /\ DOMAIN text = 1..Len(text) /\ Len(text) \in Nat
  BY <1>0, AcceptCarries
<1>2. edits' = edits /\ Accepted' = Accepted \cup {a} /\ a \in Authors \ Accepted
  BY <1>0, AcceptSays
<1>3. Added \subseteq CharsOf(text) /\ SortedText
  <2>1. Accepted \subseteq Accepted \cup {a}
    OBVIOUS
  <2> QED BY <1>0, <2>1, UnclearGrows DEF OrderInv
<1>4. edits[a].type = "delete" => \A k \in DOMAIN text : InRange(op, k) => text[k] \in OriginalChars
  BY <1>2 DEF MergeInv, WholeInv, Whole, Unclear
<1>5. edits[a].type = "insert" => \A k \in DOMAIN text : k <= op.pos <=> LeftOf(text[k], <<a, 1>>)
  BY <1>2 DEF MergeInv, OrderInv, Sorted
<1>6. edits[a].type = "insert" =>
        \A n \in DOMAIN edits[a].text : edits[a].text[n] = <<a, n>> /\ n \in Nat
  BY <1>0, EditSays
<1>7. op.type \in {"insert", "delete"} /\ Len(op.text) \in Nat
  BY <1>1 DEF Operations, Texts
<1> HIDE DEF op, s
<1>8. ASSUME NEW c \in Added' PROVE \E k2 \in DOMAIN s : s[k2] = c
  <2>1. CASE c \in Added
    <3>1. PICK k \in DOMAIN text : text[k] = c
      BY <1>3, <2>1 DEF CharsOf
    <3>2. c \notin OriginalChars
      <4>1. PICK b \in Inserting : \E n \in DOMAIN edits[b].text : c = <<b, n>>
        BY <1>0, <2>1, AddedSays
      <4>2. b \in Authors /\ edits[b].type = "insert"
        BY DEF Inserting, Accepted
      <4> QED BY <1>0, <4>1, <4>2, EditSays
    <3>3. ~InRange(op, k)
      <4>1. CASE op.type = "insert"
        BY <1>1, <4>1 DEF InRange
      <4>2. CASE op.type = "delete"
        BY <1>1, <1>4, <3>1, <3>2, <4>2
      <4> QED BY <1>7, <4>1, <4>2
    <3> QED BY <1>1, <3>1, <3>3 DEF Carried
  <2>2. CASE edits[a].type = "insert" /\ c \in CharsOf(edits[a].text)
    <3>1. PICK n \in DOMAIN op.text : op.text[n] = c
      BY <1>1, <2>2 DEF CharsOf
    <3> QED BY <1>1, <3>1 DEF Carried
  <2> QED BY <1>2, <2>1, <2>2, AddedNext
<1>9. ASSUME NEW k2 \in DOMAIN s, NEW l2 \in DOMAIN s, k2 < l2 PROVE LeftOf(s[k2], s[l2])
  <2>1. CASE /\ \E k \in DOMAIN text : Carries(op, k, k2) /\ s[k2] = text[k]
             /\ \E l \in DOMAIN text : Carries(op, l, l2) /\ s[l2] = text[l]
    <3>1. PICK k \in DOMAIN text : Carries(op, k, k2) /\ s[k2] = text[k]
      BY <2>1
    <3>2. PICK l \in DOMAIN text : Carries(op, l, l2) /\ s[l2] = text[l]
      BY <2>1
    <3>3. op.text = <<>> \/ op.len = 0
      BY <1>1 DEF Operations
    <3>4. k < l
      BY <1>1, <1>7, <1>9, <3>1, <3>2, <3>3 DEF Carries
    <3> QED BY <1>3, <3>1, <3>2, <3>4 DEF SortedText
  <2>2. CASE /\ \E k \in DOMAIN text : Carries(op, k, k2) /\ s[k2] = text[k]
             /\ \E n \in DOMAIN op.text : l2 = op.pos + n /\ s[l2] = op.text[n]
    <3>1. PICK k \in DOMAIN text : Carries(op, k, k2) /\ s[k2] = text[k]
      BY <2>2
    <3>2. PICK n \in DOMAIN op.text : l2 = op.pos + n /\ s[l2] = op.text[n]
      BY <2>2
    <3>3. edits[a].type = "insert" /\ n \in DOMAIN edits[a].text /\ s[l2] = <<a, n>> /\ op.len = 0
      BY <1>1, <1>6, <1>7, <3>2
    <3>4. n <= Len(op.text) /\ n \in Nat
      <4>1. DOMAIN op.text = 1..Len(op.text)
        BY <1>1 DEF Operations, Texts
      <4> QED BY <1>7, <3>2, <4>1
    <3>5. k <= op.pos
      BY <1>1, <1>7, <1>9, <3>1, <3>2, <3>3, <3>4 DEF Carries
    <3>6. LeftOf(text[k], <<a, 1>>)
      BY <1>5, <3>3, <3>5
    <3>7. Known(text[k]) /\ (text[k] \in OriginalChars \/ text[k][1] # a)
      BY <1>0, <1>2, TextKnown
    <3>8. LeftOf(text[k], <<a, n>>)
      BY <1>0, <3>3, <3>6, <3>7, AllLeftOrRight
    <3> QED BY <3>1, <3>3, <3>8
  <2>3. CASE /\ \E n \in DOMAIN op.text : k2 = op.pos + n /\ s[k2] = op.text[n]
             /\ \E l \in DOMAIN text : Carries(op, l, l2) /\ s[l2] = text[l]
    <3>1. PICK n \in DOMAIN op.text : k2 = op.pos + n /\ s[k2] = op.text[n]
      BY <2>3
    <3>2. PICK l \in DOMAIN text : Carries(op, l, l2) /\ s[l2] = text[l]
      BY <2>3
    <3>3. edits[a].type = "insert" /\ n \in DOMAIN edits[a].text /\ s[k2] = <<a, n>> /\ op.len = 0
      BY <1>1, <1>6, <1>7, <3>1
    <3>4. ~(l <= op.pos)
      BY <1>1, <1>6, <1>7, <1>9, <3>1, <3>2, <3>3 DEF Carries
    <3>5. ~LeftOf(text[l], <<a, 1>>)
      BY <1>5, <3>3, <3>4
    <3>6. Known(text[l]) /\ (text[l] \in OriginalChars \/ text[l][1] # a)
      BY <1>0, <1>2, TextKnown
    <3>7. LeftOf(<<a, n>>, text[l])
      BY <1>0, <3>3, <3>5, <3>6, AllLeftOrRight
    <3> QED BY <3>2, <3>3, <3>7
  <2>4. CASE /\ \E n \in DOMAIN op.text : k2 = op.pos + n /\ s[k2] = op.text[n]
             /\ \E m \in DOMAIN op.text : l2 = op.pos + m /\ s[l2] = op.text[m]
    <3>1. PICK n \in DOMAIN op.text : k2 = op.pos + n /\ s[k2] = op.text[n]
      BY <2>4
    <3>2. PICK m \in DOMAIN op.text : l2 = op.pos + m /\ s[l2] = op.text[m]
      BY <2>4
    <3>3. /\ edits[a].type = "insert" /\ n \in DOMAIN edits[a].text /\ m \in DOMAIN edits[a].text
          /\ s[k2] = <<a, n>> /\ s[l2] = <<a, m>> /\ n \in Nat /\ m \in Nat
      BY <1>1, <1>6, <1>7, <3>1, <3>2
    <3>4. n < m
      BY <1>1, <1>9, <3>1, <3>2, <3>3
    <3>5. Place(<<a, n>>) = Place(<<a, m>>) /\ <<a, m>> \notin OriginalChars
      BY <1>0, <3>3, EditSays
    <3>6. <<a, n>>[1] = a /\ <<a, m>>[1] = a /\ <<a, n>>[2] = n /\ <<a, m>>[2] = m
      OBVIOUS
    <3>7. LeftOf(<<a, n>>, <<a, m>>)
      BY <3>4, <3>5, <3>6 DEF LeftOf
    <3> QED BY <3>3, <3>7
  <2>5. \A i \in DOMAIN s :
          \/ \E k \in DOMAIN text : Carries(op, k, i) /\ s[i] = text[k]
          \/ \E n \in DOMAIN op.text : i = op.pos + n /\ s[i] = op.text[n]
    BY <1>1 DEF Carried
  <2> QED BY <2>1, <2>2, <2>3, <2>4, <2>5
<1>10. Added' \subseteq CharsOf(s)
  BY <1>8 DEF CharsOf
<1> QED BY <1>9, <1>10 DEF s, CharsOf

\* The base text is in its order, and a pending edit where it was made.
LEMMA OrderStarts ==
  ASSUME Init, FlightInv, StandsInv PROVE OrderInv
<1>1. text = Original /\ log = <<>> /\ \A b \in Authors : Transformed(b) = edits[b]
  <2>1. text = Original /\ log = <<>> /\ Len(log) = 0
    BY DEF Init
  <2> QED BY <2>1, NothingAccepted DEF Transformed
<1>2. Added = {}
  BY <1>1 DEF Accepted, Added, Inserting
<1>3. \A k \in DOMAIN Original : Original[k] \in OriginalChars /\ Place(Original[k]) = k /\ k \in Nat
  BY OriginalPlaces, PlacesOfOriginals
<1>4. SortedText
  BY <1>1, <1>3 DEF SortedText, LeftOf
<1>5. ASSUME NEW b \in Authors PROVE Sorted(b)
  <2>1. /\ edits[b].pos \in Nat
        /\ edits[b].type = "insert" => <<b, 1>> \notin OriginalChars /\ Place(<<b, 1>>) = edits[b].pos
    BY EditSays DEF FlightInv
  <2> QED BY <1>1, <1>3, <2>1 DEF Sorted, LeftOf
<1>6. CharsOf(text) \subseteq OriginalChars
  BY <1>1 DEF OriginalChars
<1> QED BY <1>2, <1>4, <1>5, <1>6 DEF OrderInv

\* Nothing it is about changes.
LEMMA OrderStays ==
  ASSUME OrderInv, edits' = edits, text' = text, Accepted' = Accepted,
         \A b \in Authors : Transformed(b)' = Transformed(b)
  PROVE  OrderInv'
<1>1. \A c, d : LeftOf(c, d)' <=> LeftOf(c, d)
  BY EditsStay
<1>2. SortedText => SortedText'
  BY DEF SortedText, LeftOf, Place, OriginalChars, CharsOf
<1>3. Added' = Added
  BY DEF Added, Inserting, CharsOf
<1>4. Unclear(Accepted)' <=> Unclear(Accepted)
  BY DEF Unclear, Inside, Strictly, CollapsedBy, RemovedBy, Removes
<1>5. \A b \in Authors : Sorted(b) => Sorted(b)'
  BY DEF Sorted, Unclear, Inside, Strictly, CollapsedBy, RemovedBy, Removes,
         LeftOf, Place, OriginalChars, CharsOf
<1>6. OriginalChars' = OriginalChars /\ CharsOf(text)' = CharsOf(text)
  BY DEF OriginalChars, CharsOf
<1> QED BY <1>2, <1>3, <1>4, <1>5, <1>6 DEF OrderInv

\* An acceptance keeps the order.
LEMMA OrderKept ==
  ASSUME MergeInv, NEW a \in Authors, Accept(a) PROVE OrderInv'
<1>1. edits' = edits /\ Accepted' = Accepted \cup {a}
  BY AcceptSays DEF MergeInv
<1>2. Unclear(Accepted)' <=> Unclear(Accepted \cup {a})
  BY <1>1, UnclearNext
<1>3. CharsOf(text)' \subseteq OriginalChars' \cup Added'
  <2>1. CharsOf(text') \subseteq OriginalChars \cup Added'
    BY CharsKept
  <2> QED BY <2>1 DEF OriginalChars, CharsOf
<1>4. ~Unclear(Accepted)' => Added' \subseteq CharsOf(text)' /\ SortedText'
  <2> SUFFICES ASSUME ~Unclear(Accepted \cup {a}) PROVE Added' \subseteq CharsOf(text)' /\ SortedText'
    BY <1>2
  <2>1. /\ Added' \subseteq CharsOf(text')
        /\ \A k2, l2 \in DOMAIN text' : k2 < l2 => \A c, d : text'[k2] = c /\ text'[l2] = d => LeftOf(c, d)
    BY SortedTextKept
  <2>2. \A k2, l2 \in DOMAIN text' : k2 < l2 => LeftOf(text'[k2], text'[l2])
    BY <2>1
  <2>3. SortedText'
    BY <1>1, <2>2 DEF SortedText, LeftOf, Place, OriginalChars, CharsOf
  <2>4. Added' \subseteq CharsOf(text)'
    BY <2>1 DEF CharsOf
  <2> QED BY <2>3, <2>4
<1>5. \A b \in Authors \ Accepted' : Sorted(b)'
  BY <1>1, SortedKept
<1> QED BY <1>3, <1>4, <1>5 DEF OrderInv

\* In every behaviour, all that the theorems about the text rest on.
LEMMA MergeAlways ==
  Spec => []MergeInv
<1>1. Init => MergeInv
  BY FlightStarts, StandsStarts, WholeStarts, OrderStarts DEF MergeInv
<1>2. MergeInv /\ [Next]_vars => MergeInv'
  <2> SUFFICES ASSUME MergeInv, [Next]_vars PROVE MergeInv'
    OBVIOUS
  <2>1. FlightInv /\ StandsInv /\ WholeInv /\ OrderInv /\ FlightInv'
    BY FlightKept DEF MergeInv
  <2>2. ASSUME NEW a \in Authors, Accept(a) PROVE MergeInv'
    <3>1. Accepted' = Accepted \cup {a} /\ a \notin Accepted
      BY <2>1, <2>2, AcceptSays
    <3>2. OriginalTextAsIntended'
      BY <2>1, <2>2, OriginalsKept
    <3>3. \A b \in Authors \ Accepted : Stands(b)'
      BY <2>1, <2>2, StandsKept
    <3>4. \A b \in Authors \ Accepted' : Whole(b)'
      BY <2>1, <2>2, <3>1, WholeKept
    <3>5. OrderInv'
      BY <2>2, OrderKept
    <3> QED BY <2>1, <3>1, <3>2, <3>3, <3>4, <3>5 DEF MergeInv, StandsInv, WholeInv
  <2>3. ASSUME \A a \in Authors : ~Accept(a) PROVE MergeInv'
    <3>1. /\ edits' = edits /\ text' = text /\ Accepted' = Accepted
          /\ \A b \in Authors : Transformed(b)' = Transformed(b)
      BY <2>1, <2>3, OtherSteps
    <3> QED BY <2>1, <3>1, StandsStays, WholeStays, OrderStays DEF MergeInv
  <2> QED BY <2>2, <2>3
<1> QED BY <1>1, <1>2, PTL DEF Spec

\* In any order of acceptance the text is what the authors meant, but for inserts
\* strictly within a deleted range or brought to one position by deletes
\* (transform_operation, OperationIdentity).
THEOREM MergedAsMeant == Spec => []MergedAsIntended
<1>1. MergeInv => MergedAsIntended
  <2> SUFFICES ASSUME MergeInv, ~InsideDelete, ~Collapsed
               PROVE  CharsOf(text) = Remaining \cup Added /\ SortedText
    BY DEF MergedAsIntended, SortedText
  <2>1. ~Inside(Accepted)
    <3>1. ASSUME NEW a \in Accepted, NEW d \in Accepted, Strictly(a, d) PROVE InsideDelete
      BY <3>1 DEF InsideDelete, Strictly, Inserting, Deleting
    <3> QED BY <3>1 DEF Inside
  <2>2. ~CollapsedBy(Accepted)
    <3>1. RemovedBy(Accepted) = Removed
      BY DEF RemovedBy, Removed, Deleting
    <3> QED BY <3>1 DEF CollapsedBy, Collapsed, Inserting
  <2>3. Added \subseteq CharsOf(text) /\ SortedText /\ CharsOf(text) \subseteq OriginalChars \cup Added
    BY <2>1, <2>2 DEF MergeInv, OrderInv, Unclear
  <2>4. CharsOf(text) \cap OriginalChars = Remaining
    BY DEF MergeInv, StandsInv, OriginalTextAsIntended
  <2> QED BY <2>3, <2>4
<1> QED BY <1>1, MergeAlways, PTL

-----------------------------------------------------------------------------
(* The editors.                                                            *)

\* An editor that was acknowledged shows the server's text, and one whose operation is
\* pending shows that text with what its operation became, which is what it holds.
Match(b) ==
  ~Inside(Accepted \cup {b}) =>
    /\ b \in Accepted => replicas[b].text = text
    /\ b \notin Accepted /\ Transformed(b) # NoOperation =>
         /\ replicas[b].pending = Transformed(b)
         /\ replicas[b].text = ApplyOperation(text, Transformed(b))

MatchInv == \A b \in Authors : Match(b)

\* Every editor shows the base text with its own edit.
LEMMA MatchStarts ==
  ASSUME Init PROVE MatchInv
<1>1. /\ text = Original /\ log = <<>> /\ Len(log) = 0
      /\ \A b \in Authors : /\ replicas[b].pending = edits[b]
                            /\ replicas[b].text = ApplyTextOperation(Original, edits[b])
  BY DEF Init
<1>2. \A b \in Authors : Transformed(b) = edits[b]
  BY <1>1, NothingAccepted DEF Transformed
<1>3. Accepted = {}
  BY <1>1 DEF Accepted
<1> QED BY <1>1, <1>2, <1>3 DEF MatchInv, Match, ApplyTextOperation

\* An editor that receives the operation of another.
LEMMA RemoteMatches ==
  ASSUME MergeInv, MatchInv, NEW a \in Authors, Accept(a), NEW b \in Authors \ {a},
         ~Inside((Accepted \cup {b}) \cup {a})
  PROVE  LET op == Transformed(a)
             r  == Remote(b, replicas[b], op, a)
         IN  /\ b \in Accepted => r.text = ApplyOperation(text, op)
             /\ b \notin Accepted /\ NextOf(b, op, a) # NoOperation =>
                  /\ r.pending = NextOf(b, op, a)
                  /\ r.text = ApplyOperation(ApplyOperation(text, op), NextOf(b, op, a))
<1> DEFINE op == Transformed(a)
           x == Transformed(b)
           z == NextOf(b, op, a)
           r == Remote(b, replicas[b], op, a)
<1>0. FlightInv /\ Typed
  BY DEF MergeInv, FlightInv
<1>1. /\ op \in Operations /\ op # NoOperation /\ a \in Authors \ Accepted
      /\ text \in Texts /\ InBounds(op, Len(text))
  <2>1. op \in Operations /\ a \notin Accepted
    BY <1>0, AcceptSays
  <2>2. InBounds(op, Len(text))
    BY <1>0, AcceptCarries
  <2> QED BY <1>0, <2>1, <2>2 DEF Typed, Operations, NoOperation
<1>2. ~Inside(Accepted \cup {b})
  BY DEF Inside
<1>3. /\ b \in Accepted => replicas[b].text = text
      /\ b \notin Accepted /\ x # NoOperation =>
           replicas[b].pending = x /\ replicas[b].text = ApplyOperation(text, x)
  BY <1>2 DEF MatchInv, Match
<1>4. ASSUME b \in Accepted PROVE r.text = ApplyOperation(text, op)
  <2>1. replicas[b].pending = NoOperation
    BY <1>0, <1>4 DEF FlightInv, InFlight
  <2> HIDE DEF op
  <2> QED BY <1>1, <1>3, <1>4, <2>1 DEF Remote, ApplyTextOperation
<1>5. ASSUME b \notin Accepted, z # NoOperation
      PROVE  r.pending = z /\ r.text = ApplyOperation(ApplyOperation(text, op), z)
  <2>1. x # NoOperation /\ z = TransformOperation(x, Identity(b), op, Identity(a))
    BY <1>5 DEF NextOf
  <2>2. x \in Operations /\ replicas[b].pending = x /\ replicas[b].text = ApplyOperation(text, x)
    BY <1>0, <1>3, <1>5, <2>1 DEF FlightInv, InFlight
  <2> DEFINE remote == TransformOperation(op, Identity(a), x, Identity(b))
  <2>3. ApplyOperation(ApplyOperation(text, x), remote) = ApplyOperation(ApplyOperation(text, op), z)
    <3>1. (Accepted \cup {b}) \cup {a} = Accepted \cup {a, b} /\ Accepted \cup {b, a} = Accepted \cup {a, b}
      OBVIOUS
    <3>2. ~Within(op, x) /\ ~Within(x, op)
      BY <1>0, <1>1, <1>5, <2>1, <3>1, StaysOut DEF MergeInv
    <3>3. Identity(a) \in Identities /\ Identity(b) \in Identities /\ Identity(a) # Identity(b)
      BY AuthorsAssumption DEF Identity, Identities
    <3> HIDE DEF op, x, z
    <3> QED BY <1>1, <2>1, <2>2, <3>2, <3>3, TransformsCommute
  <2>4. r = [text    |-> IF remote = NoOperation THEN replicas[b].text
                         ELSE ApplyOperation(replicas[b].text, remote),
             pending |-> z]
    <3> HIDE DEF op, x, z
    <3> QED BY <1>5, <2>1, <2>2 DEF Remote, TransformTextOperation, ApplyTextOperation
  <2>5. ApplyOperation(text, x) \in Texts
    BY <1>1, <2>2, ApplyType
  <2> HIDE DEF op, x, z, r, remote
  <2> QED BY <2>2, <2>3, <2>4, <2>5, ApplyNothing
<1> QED BY <1>4, <1>5

\* An acceptance keeps the editors in step with the server.
LEMMA MatchKept ==
  ASSUME MergeInv, MatchInv, NEW a \in Authors, Accept(a), NEW b \in Authors
  PROVE  Match(b)'
<1> DEFINE op == Transformed(a)
           z == NextOf(b, op, a)
<1>0. FlightInv /\ Typed
  BY DEF MergeInv, FlightInv
<1>1. /\ op \in Operations /\ a \notin Accepted /\ edits' = edits
      /\ text' = ApplyOperation(text, op) /\ Accepted' = Accepted \cup {a}
      /\ Transformed(b)' = z
      /\ replicas'[b] = IF b = a THEN Acknowledged(replicas[b]) ELSE Remote(b, replicas[b], op, a)
  BY <1>0, AcceptSays
<1>2. Inside(Accepted \cup {b})' <=> Inside((Accepted \cup {b}) \cup {a})
  BY <1>1, InsideNext
<1>3. SUFFICES ASSUME ~Inside((Accepted \cup {b}) \cup {a})
               PROVE  /\ b \in Accepted' => replicas'[b].text = text'
                      /\ b \notin Accepted' /\ z # NoOperation =>
                           replicas'[b].pending = z /\ replicas'[b].text = ApplyOperation(text', z)
  <2> HIDE DEF op, z
  <2> QED BY <1>1, <1>2 DEF Match
<1>4. CASE b = a
  <2>1. (Accepted \cup {b}) \cup {a} = Accepted \cup {a} /\ op # NoOperation
    BY <1>1, <1>4 DEF Operations, NoOperation
  <2>2. replicas[a].text = ApplyOperation(text, op)
    BY <1>1, <1>3, <2>1 DEF MatchInv, Match
  <2>3. replicas'[a].text = replicas[a].text
    BY <1>0, <1>1, <1>4 DEF Acknowledged, Typed, Replicas
  <2> QED BY <1>1, <1>4, <2>2, <2>3
<1>5. CASE b # a
  <2>1. /\ b \in Accepted => replicas'[b].text = ApplyOperation(text, op)
        /\ b \notin Accepted /\ z # NoOperation =>
             /\ replicas'[b].pending = z
             /\ replicas'[b].text = ApplyOperation(ApplyOperation(text, op), z)
    BY <1>1, <1>3, <1>5, RemoteMatches
  <2> HIDE DEF op, z
  <2> QED BY <1>1, <1>5, <2>1
<1> QED BY <1>4, <1>5

\* An acknowledgement of nothing keeps them so.
LEMMA MatchStays ==
  ASSUME FlightInv, MatchInv, NEW a \in Authors, AcknowledgeNoOp(a), NEW b \in Authors
  PROVE  Match(b)'
<1>1. /\ edits' = edits /\ text' = text /\ Accepted' = Accepted /\ Transformed(b)' = Transformed(b)
      /\ replicas[a].pending # NoOperation /\ Transformed(a) = NoOperation
      /\ replicas' = [replicas EXCEPT ![a] = Acknowledged(@)]
  BY NoOpSays
<1>2. a \notin Accepted
  BY <1>1 DEF FlightInv, InFlight
<1>3. b # a => replicas'[b] = replicas[b]
  BY <1>1 DEF FlightInv, Typed
<1>4. Inside(Accepted \cup {b})' <=> Inside(Accepted \cup {b})
  BY <1>1 DEF Inside, Strictly
<1>5. Match(b)
  BY DEF MatchInv
<1> QED BY <1>1, <1>2, <1>3, <1>4, <1>5 DEF Match

\* In every behaviour, the text and the editors.
LEMMA MatchAlways ==
  Spec => [](MergeInv /\ MatchInv)
<1>1. Init => MatchInv
  BY MatchStarts
<1>2. MergeInv /\ MatchInv /\ [Next]_vars => MatchInv'
  <2> SUFFICES ASSUME MergeInv, MatchInv, [Next]_vars PROVE MatchInv'
    OBVIOUS
  <2>1. FlightInv
    BY DEF MergeInv
  <2>2. CASE \E a \in Authors : Accept(a)
    BY <2>2, MatchKept DEF MatchInv
  <2>3. CASE \E a \in Authors : AcknowledgeNoOp(a)
    BY <2>1, <2>3, MatchStays DEF MatchInv
  <2>4. CASE UNCHANGED vars
    BY <2>4 DEF vars, MatchInv, Match, Inside, Strictly, Transformed, Accepted, Identity
  <2> QED BY <2>2, <2>3, <2>4 DEF Next
<1> QED BY <1>1, <1>2, MergeAlways, PTL DEF Spec

\* Nothing is left of a delete only when others deleted all of its range.
LEMMA NothingLeftIsCovered ==
  ASSUME MergeInv, NEW a \in Authors \ Accepted, Transformed(a) = NoOperation
  PROVE  Covered
<1>1. edits[a].type = "delete" /\ Removes(a) \subseteq DOMAIN Original /\ Stands(a)
  <2>1. edits[a].type = "delete"
    BY EditSays DEF MergeInv, FlightInv, InFlight
  <2> QED BY <2>1, EditSays DEF MergeInv, FlightInv, StandsInv
<1>2. ASSUME NEW i \in Removes(a) PROVE i \in Removed
  <2>1. i \in DOMAIN Original /\ Original[i] \in OriginalChars /\ Place(Original[i]) = i
    BY <1>1, OriginalPlaces
  <2>2. ASSUME i \notin Removed PROVE FALSE
    <3>1. Original[i] \in CharsOf(text)
      BY <2>1, <2>2, RemainingSays DEF MergeInv, StandsInv, OriginalTextAsIntended
    <3>2. PICK k \in DOMAIN text : text[k] = Original[i]
      BY <3>1 DEF CharsOf
    <3>3. InRange(NoOperation, k)
      BY <1>1, <2>1, <3>2 DEF Stands
    <3>4. k \in Nat
      BY DEF MergeInv, FlightInv, Typed, Texts
    <3> QED BY <3>3, <3>4 DEF InRange, NoOperation
  <2> QED BY <2>2
<1>3. a \notin Deleting
  BY DEF Deleting
<1>4. Removed = UNION {Removes(b) : b \in Deleting \ {a}}
  BY <1>3 DEF Removed
<1> QED BY <1>1, <1>2, <1>4 DEF Covered

\* When every operation was answered, every editor shows the server's text, but for an
\* insert strictly within a deleted range or a delete that others cover
\* (handleRemoteOperation).
THEOREM EditorsMeet == Spec => []EditorsConvergeMostly
<1>1. MergeInv /\ MatchInv => EditorsConvergeMostly
  <2> SUFFICES ASSUME MergeInv, MatchInv, ~InsideDelete, ~Covered,
                      \A a \in Authors : replicas[a].pending = NoOperation, NEW b \in Authors
               PROVE  replicas[b].text = text
    BY DEF EditorsConvergeMostly, EditorsConverge
  <2>1. b \in Accepted
    <3>1. b \notin Accepted => Transformed(b) = NoOperation
      BY DEF MergeInv, FlightInv, InFlight
    <3> QED BY <3>1, NothingLeftIsCovered
  <2>2. ~Inside(Accepted \cup {b})
    <3>1. ASSUME NEW a \in Accepted, NEW d \in Accepted, Strictly(a, d) PROVE InsideDelete
      BY <3>1 DEF InsideDelete, Strictly, Inserting, Deleting
    <3>2. Accepted \cup {b} = Accepted
      BY <2>1
    <3> QED BY <3>1, <3>2 DEF Inside
  <2> QED BY <2>1, <2>2 DEF MatchInv, Match
<1> QED BY <1>1, MatchAlways, PTL

-----------------------------------------------------------------------------
(* Code units, and where cursors go.                                       *)

\* More characters take more code units.
LEMMA CodeUnitsRise ==
  ASSUME NEW s, NEW k \in Nat, NEW l \in Nat
  PROVE  /\ CodeUnits(s, k) \in Nat
         /\ k < l => CodeUnits(s, k) < CodeUnits(s, l)
<1> DEFINE K == {i \in 1..k : s[i] \in Wide}
           L == {i \in 1..l : s[i] \in Wide}
<1>1. IsFiniteSet(1..k) /\ IsFiniteSet(1..l)
  BY FS_Interval
<1>2. IsFiniteSet(K) /\ IsFiniteSet(L)
  BY <1>1, FS_Subset
<1>3. Cardinality(K) \in Nat /\ Cardinality(L) \in Nat
  BY <1>2, FS_CardinalityType
<1>4. k < l => Cardinality(K) <= Cardinality(L)
  <2>1. k < l => K \subseteq L
    OBVIOUS
  <2> QED BY <1>2, <2>1, FS_Subset
<1>5. CodeUnits(s, k) = k + Cardinality(K) /\ CodeUnits(s, l) = l + Cardinality(L)
  BY DEF CodeUnits
<1> HIDE DEF K, L
<1> QED BY <1>3, <1>4, <1>5

\* A number of characters, in code units and back.
LEMMA OffsetsInvert ==
  ASSUME NEW s \in Texts, NEW p \in Nat
  PROVE  CodeUnitOffsetToCodePointOffset(s, CodePointOffsetToCodeUnitOffset(s, p)) = Lesser(p, Len(s))
<1> DEFINE q == Lesser(p, Len(s))
           u == CodeUnits(s, q)
<1>1. Len(s) \in Nat /\ DOMAIN s = 1..Len(s)
  BY DEF Texts
<1>2. q \in Nat /\ q <= Len(s) /\ ClampIndex(p, Len(s)) = q
  BY <1>1 DEF ClampIndex, Lesser, Greater
<1>3. CodePointOffsetToCodeUnitOffset(s, p) = u
  BY <1>2 DEF CodePointOffsetToCodeUnitOffset
<1> HIDE DEF q, u
<1>4. ASSUME NEW i \in 1..Len(s) PROVE CodeUnits(s, i - 1) < u <=> i <= q
  <2>1. i - 1 \in Nat /\ i \in Nat
    BY <1>1
  <2>2. i - 1 < q => CodeUnits(s, i - 1) < u
    BY <1>2, <2>1, CodeUnitsRise DEF u
  <2>3. q < i - 1 => u < CodeUnits(s, i - 1)
    BY <1>2, <2>1, CodeUnitsRise DEF u
  <2>4. q = i - 1 => u = CodeUnits(s, i - 1)
    BY DEF u
  <2>5. u \in Nat /\ CodeUnits(s, i - 1) \in Nat
    BY <1>2, <2>1, CodeUnitsRise DEF u
  <2> QED BY <1>1, <1>2, <2>1, <2>2, <2>3, <2>4, <2>5
<1>5. {i \in DOMAIN s : CodeUnits(s, i - 1) < u} = 1..q
  BY <1>1, <1>2, <1>4
<1>6. Cardinality(1..q) = q
  BY <1>2, FS_Interval
<1> QED BY <1>3, <1>5, <1>6 DEF CodeUnitOffsetToCodePointOffset, q

\* The editor's document, of which code units are replaced, is the text.
LEMMA RemoteIsApply ==
  ASSUME NEW s \in Texts, NEW op \in Operations
  PROVE  ApplyRemoteOperation(s, op) = ApplyOperation(s, op)
<1>1. op.pos \in Nat /\ op.len \in Nat /\ Len(s) \in Nat
  BY DEF Operations, Texts
<1>2. /\ ClampIndex(op.pos, Len(s)) = Lesser(op.pos, Len(s))
      /\ ClampIndex(Lesser(op.pos, Len(s)) + op.len, Len(s)) = Lesser(op.pos + op.len, Len(s))
  BY <1>1 DEF ClampIndex, Lesser, Greater
<1>3. /\ CodeUnitOffsetToCodePointOffset(s, CodePointOffsetToCodeUnitOffset(s, op.pos)) = Lesser(op.pos, Len(s))
      /\ CodeUnitOffsetToCodePointOffset(s, CodePointOffsetToCodeUnitOffset(s, op.pos + op.len))
           = Lesser(op.pos + op.len, Len(s))
  BY <1>1, OffsetsInvert
<1> QED BY <1>2, <1>3 DEF ApplyRemoteOperation, ApplyOperation

\* A position stays between the same characters, within the text, and in its order.
LEMMA PositionsMove ==
  ASSUME NEW op \in Operations, NEW p \in Nat
  PROVE  /\ TransformCursorPosition(p, op) \in Nat
         /\ \A k, k2 \in Nat : Carries(op, k, k2) => (k2 <= TransformCursorPosition(p, op) <=> k <= p)
         /\ \A q \in Nat : p <= q => TransformCursorPosition(p, op) <= TransformCursorPosition(q, op)
         /\ \A n \in Nat : InBounds(op, n) /\ p <= n =>
              TransformCursorPosition(p, op) <= n + Len(op.text) - op.len
<1> DEFINE n == Len(op.text)
           T(x) == TransformCursorPosition(x, op)
<1>1. op.pos \in Nat /\ op.len \in Nat /\ n \in Nat
  BY DEF Operations, Texts
<1>2. CASE op.type = "insert"
  <2>1. op.len = 0
    BY <1>2 DEF Operations
  <2>2. \A x : T(x) = IF op.pos <= x THEN x + n ELSE x
    BY <1>2 DEF TransformCursorPosition
  <2>3. \A k, k2 \in Nat : Carries(op, k, k2) => (k <= op.pos /\ k2 = k) \/ (k > op.pos /\ k2 = k + n)
    BY <1>1, <2>1 DEF Carries
  <2>4. \A m : InBounds(op, m) => op.pos <= m
    BY DEF InBounds
  <2> HIDE DEF T, n
  <2>5. /\ T(p) \in Nat
        /\ \A k, k2 \in Nat : Carries(op, k, k2) => (k2 <= T(p) <=> k <= p)
        /\ \A q \in Nat : p <= q => T(p) <= T(q)
        /\ \A m \in Nat : InBounds(op, m) /\ p <= m => T(p) <= m + n - op.len
    BY <1>1, <2>1, <2>2, <2>3, <2>4
  <2> QED BY <2>5 DEF T, n
<1>3. CASE op.type = "delete"
  <2>1. op.text = <<>> /\ n = 0
    BY <1>3 DEF Operations
  <2>2. \A x \in Nat : T(x) = IF op.pos < x THEN IF op.pos >= x - op.len THEN op.pos ELSE x - op.len ELSE x
    BY <1>3 DEF TransformCursorPosition, Greater
  <2>3. \A k, k2 \in Nat : Carries(op, k, k2) =>
          (k <= op.pos /\ k2 = k) \/ (k > op.pos + op.len /\ k2 = k - op.len)
    BY <1>1, <2>1 DEF Carries
  <2>4. \A m : InBounds(op, m) => op.pos + op.len <= m
    BY DEF InBounds
  <2> HIDE DEF T, n
  <2>5. /\ T(p) \in Nat
        /\ \A k, k2 \in Nat : Carries(op, k, k2) => (k2 <= T(p) <=> k <= p)
        /\ \A q \in Nat : p <= q => T(p) <= T(q)
        /\ \A m \in Nat : InBounds(op, m) /\ p <= m => T(p) <= m + n - op.len
    <3>1. T(p) \in Nat
      BY <1>1, <2>2
    <3>2. \A k, k2 \in Nat : Carries(op, k, k2) => (k2 <= T(p) <=> k <= p)
      <4> SUFFICES ASSUME NEW k \in Nat, NEW k2 \in Nat, Carries(op, k, k2)
                   PROVE  k2 <= T(p) <=> k <= p
        OBVIOUS
      <4>1. (k <= op.pos /\ k2 = k) \/ (k > op.pos + op.len /\ k2 = k - op.len)
        BY <2>3
      <4> QED BY <1>1, <2>2, <4>1
    <3>3. \A q \in Nat : p <= q => T(p) <= T(q)
      BY <1>1, <2>2
    <3>4. ASSUME NEW m \in Nat, InBounds(op, m), p <= m PROVE T(p) <= m + n - op.len
      <4>1. op.pos + op.len <= m
        BY <2>4, <3>4
      <4> QED BY <1>1, <2>1, <2>2, <3>4, <4>1
    <3> QED BY <3>1, <3>2, <3>3, <3>4
  <2> QED BY <2>5 DEF T, n
<1> QED BY <1>2, <1>3 DEF Operations

\* The cursors within a text of n characters.
CursorsIn(n) == {c \in [pos : 0..n, start : 0..n, end : 0..n] : c.start <= c.end}

\* The three positions of a cursor move alike, and clamping does not change them.
LEMMA CursorMoves ==
  ASSUME NEW op \in Operations, NEW n \in Nat, NEW m \in Nat, InBounds(op, n),
         m = n + Len(op.text) - op.len, NEW c \in CursorsIn(n)
  PROVE  LET d == TransformCursor(c, op)
         IN  /\ d \in CursorsIn(m) /\ TransformCursorState(c, op, m) = d
             /\ d.pos = TransformCursorPosition(c.pos, op)
             /\ d.start = TransformCursorPosition(c.start, op)
             /\ d.end = TransformCursorPosition(c.end, op)
<1> DEFINE d == TransformCursor(c, op)
           x == TransformCursorPosition(c.pos, op)
           y == TransformCursorPosition(c.start, op)
           z == TransformCursorPosition(c.end, op)
<1>1. /\ c.pos \in Nat /\ c.start \in Nat /\ c.end \in Nat
      /\ c.pos <= n /\ c.start <= n /\ c.end <= n /\ c.start <= c.end
      /\ DOMAIN c = {"pos", "start", "end"}
  BY DEF CursorsIn
<1>2. x \in 0..m /\ y \in 0..m /\ z \in 0..m /\ y <= z
  <2>1. x \in Nat /\ y \in Nat /\ z \in Nat /\ x <= m /\ y <= m /\ z <= m /\ y <= z
    BY <1>1, PositionsMove
  <2> HIDE DEF x, y, z
  <2> QED BY <2>1
<1>3. d = [pos |-> x, start |-> y, end |-> z]
  <2>1. TransformSelectionRange(c.start, c.end, op) = <<Lesser(y, z), Greater(y, z)>>
    BY DEF TransformSelectionRange
  <2>2. Lesser(y, z) = y /\ Greater(y, z) = z
    <3> HIDE DEF y, z
    <3> QED BY <1>2 DEF Lesser, Greater
  <2>3. d = [pos |-> x, start |-> Lesser(y, z), end |-> Greater(y, z)]
    <3> HIDE DEF x, y, z
    <3> QED BY <2>1 DEF TransformCursor, Cursor, x
  <2> HIDE DEF x, y, z, d
  <2> QED BY <2>2, <2>3
<1> HIDE DEF x, y, z, d
<1>4. d \in CursorsIn(m)
  BY <1>2, <1>3 DEF CursorsIn
<1>5. TransformCursorState(c, op, m) = d
  <2>1. TransformCursorState(c, op, m) = [k \in {"pos", "start", "end"} |-> ClampIndex(d[k], m)]
    BY <1>1 DEF TransformCursorState, d
  <2>2. \A v \in 0..m : ClampIndex(v, m) = v
    BY DEF ClampIndex, Lesser, Greater
  <2>3. \A k \in {"pos", "start", "end"} : d[k] \in 0..m
    BY <1>2, <1>3
  <2>4. d = [k \in {"pos", "start", "end"} |-> d[k]]
    BY <1>3
  <2> QED BY <2>1, <2>2, <2>3, <2>4
<1> QED BY <1>3, <1>4, <1>5 DEF d, x, y, z

\* What is sent of a selection is within the text.
LEMMA EmitSays ==
  ASSUME NEW s \in Texts, NEW c \in Selections
  PROVE  EmitCursor(s, c) \in CursorsIn(Len(s))
<1>1. c.pos \in Nat /\ c.start \in Nat /\ c.end \in Nat /\ c.start <= c.end /\ Len(s) \in Nat
  BY CursorsAssumption DEF Texts
<1>2. EmitCursor(s, c) = [pos   |-> Lesser(c.pos, Len(s)), start |-> Lesser(c.start, Len(s)),
                          end   |-> Lesser(c.end, Len(s))]
  BY <1>1, OffsetsInvert DEF EmitCursor, Cursor
<1>3. /\ Lesser(c.pos, Len(s)) \in 0..Len(s) /\ Lesser(c.start, Len(s)) \in 0..Len(s)
      /\ Lesser(c.end, Len(s)) \in 0..Len(s) /\ Lesser(c.start, Len(s)) <= Lesser(c.end, Len(s))
  BY <1>1 DEF Lesser
<1> QED BY <1>2, <1>3 DEF CursorsIn

\* What is displayed of a cursor within the text is where it is.
LEMMA DecorationsSay ==
  ASSUME NEW s \in Texts, NEW c \in CursorsIn(Len(s))
  PROVE  LET d == Decorations(s, c)
         IN  /\ DOMAIN d = {"from", "to", "caret"}
             /\ CodeUnitOffsetToCodePointOffset(s, d.from) = c.start
             /\ CodeUnitOffsetToCodePointOffset(s, d.to) = c.end
             /\ CodeUnitOffsetToCodePointOffset(s, d.caret) = c.pos
<1> DEFINE U(p) == CodePointOffsetToCodeUnitOffset(s, p)
<1>1. /\ Len(s) \in Nat /\ c.pos \in Nat /\ c.start \in Nat /\ c.end \in Nat
      /\ c.pos <= Len(s) /\ c.start <= Len(s) /\ c.end <= Len(s) /\ c.start <= c.end
  BY DEF CursorsIn, Texts
<1>2. \A p \in Nat : p <= Len(s) => U(p) = CodeUnits(s, p)
  <2>1. \A p \in Nat : p <= Len(s) => ClampIndex(p, Len(s)) = p
    BY <1>1 DEF ClampIndex, Lesser, Greater
  <2> QED BY <2>1 DEF CodePointOffsetToCodeUnitOffset
<1>3. \A p \in Nat : p <= Len(s) => CodeUnitOffsetToCodePointOffset(s, U(p)) = p
  <2>1. \A p \in Nat : p <= Len(s) => Lesser(p, Len(s)) = p
    BY <1>1 DEF Lesser
  <2> QED BY <2>1, OffsetsInvert
<1>4. U(c.start) \in Nat /\ U(c.end) \in Nat /\ U(c.start) <= U(c.end)
  <2>1. U(c.start) = CodeUnits(s, c.start) /\ U(c.end) = CodeUnits(s, c.end)
    BY <1>1, <1>2
  <2>2. CodeUnits(s, c.start) \in Nat /\ CodeUnits(s, c.end) \in Nat
    BY <1>1, CodeUnitsRise
  <2>3. c.start < c.end => CodeUnits(s, c.start) < CodeUnits(s, c.end)
    BY <1>1, CodeUnitsRise
  <2>4. c.start = c.end \/ c.start < c.end
    BY <1>1
  <2> HIDE DEF U
  <2> QED BY <2>1, <2>2, <2>3, <2>4
<1>5. Decorations(s, c) = [from |-> U(c.start), to |-> U(c.end), caret |-> U(c.pos)]
  <2>1. Decorations(s, c) = [from |-> Lesser(U(c.start), U(c.end)), to |-> Greater(U(c.start), U(c.end)),
                             caret |-> U(c.pos)]
    BY DEF Decorations
  <2>2. Lesser(U(c.start), U(c.end)) = U(c.start) /\ Greater(U(c.start), U(c.end)) = U(c.end)
    <3> HIDE DEF U
    <3> QED BY <1>4 DEF Lesser, Greater
  <2> HIDE DEF U
  <2> QED BY <2>1, <2>2
<1> HIDE DEF U
<1> QED BY <1>1, <1>3, <1>5

-----------------------------------------------------------------------------
(* The cursors of others.                                                  *)

\* Of the characters of s and t, those before p in s are before q in t.
Keeps(s, p, t, q) == \A i \in DOMAIN s, j \in DOMAIN t : s[i] = t[j] => (i <= p <=> j <= q)

Alike(s, c, t, d) ==
  Keeps(s, c.pos, t, d.pos) /\ Keeps(s, c.start, t, d.start) /\ Keeps(s, c.end, t, d.end)

Distinct(s) == \A i, j \in DOMAIN s : s[i] = s[j] => i = j

\* The room's cursors stand where they were selected, and clients that did not edit
\* show those.
SelectionsStand ==
  /\ CharsOf(home[1]) \subseteq OriginalChars \cup Added
  /\ \A c \in Selections : /\ stored[c] \in CursorsIn(Len(text))
                           /\ Alike(home[1], EmitCursor(home[1], c), text, stored[c])
  /\ \A e \in Clients \ drifted : \A c \in Selections : shown[e][c] = stored[c]

CursorInv ==
  /\ Distinct(text)
  /\ doc = <<>> \/ doc = <<text>>
  /\ home = <<>> \/ \E s \in Texts : home = <<s>>
  /\ DOMAIN shown = Authors \cup {Watcher}
  /\ home # <<>> => SelectionsStand

\* What an author inserts is not there before.
LEMMA NewIsNew ==
  ASSUME MergeInv, NEW a \in Authors \ Accepted, edits[a].type = "insert",
         NEW n \in DOMAIN edits[a].text
  PROVE  <<a, n>> \notin OriginalChars \cup Added
<1>1. Typed
  BY DEF MergeInv, FlightInv
<1>2. <<a, n>> \notin OriginalChars
  BY <1>1, EditSays
<1>3. ASSUME <<a, n>> \in Added PROVE FALSE
  <2>1. PICK b \in Inserting : \E m \in DOMAIN edits[b].text : <<a, n>> = <<b, m>>
    BY <1>1, <1>3, AddedSays
  <2>2. b \in Accepted /\ a = b
    BY <2>1 DEF Inserting
  <2> QED BY <2>2
<1> QED BY <1>2, <1>3

\* The characters of the next text that a character set without the new ones has.
LEMMA OldCharsCarried ==
  ASSUME MergeInv, NEW a \in Authors, Accept(a), NEW k2 \in DOMAIN text', NEW ch,
         ch = text'[k2], ch \in OriginalChars \cup Added
  PROVE  \E k \in DOMAIN text : Carries(Transformed(a), k, k2) /\ ch = text[k]
<1> DEFINE op == Transformed(a)
           s == text'
<1>1. /\ op \in Operations /\ op.type = edits[a].type /\ op.text = edits[a].text
      /\ op.type = "delete" => DOMAIN op.text = {}
      /\ Carried(op, text, s)
  BY AcceptCarries DEF MergeInv
<1>2. a \in Authors \ Accepted
  BY AcceptSays DEF MergeInv
<1>3. k2 \in DOMAIN s /\ ch = s[k2]
  OBVIOUS
<1>4. \A n \in DOMAIN op.text : op.text[n] # ch
  <2> SUFFICES ASSUME NEW n \in DOMAIN op.text, op.text[n] = ch PROVE FALSE
    OBVIOUS
  <2>1. edits[a].type = "insert" /\ n \in DOMAIN edits[a].text /\ ch = edits[a].text[n]
    BY <1>1 DEF Operations
  <2>2. ch = <<a, n>>
    BY <2>1, EditSays DEF MergeInv, FlightInv
  <2> QED BY <1>2, <2>1, <2>2, NewIsNew
<1> HIDE DEF op, s
<1> QED BY <1>1, <1>3, <1>4 DEF Carried, op

\* The characters stay different.
LEMMA DistinctKept ==
  ASSUME MergeInv, Distinct(text), NEW a \in Authors, Accept(a), NEW s, s = text'
  PROVE  Distinct(s)
<1> DEFINE op == Transformed(a)
<1>1. /\ op \in Operations /\ op.pos \in Nat /\ op.len \in Nat
      /\ op.type = edits[a].type /\ op.text = edits[a].text
      /\ op.type = "delete" => DOMAIN op.text = {}
      /\ Carried(op, text, s) /\ DOMAIN text = 1..Len(text) /\ Len(text) \in Nat
  BY AcceptCarries DEF MergeInv
<1>2. a \in Authors \ Accepted
  BY AcceptSays DEF MergeInv
<1>3. \A n \in DOMAIN op.text : op.text[n] = <<a, n>> /\ \A k \in DOMAIN text : text[k] # <<a, n>>
  <2> SUFFICES ASSUME NEW n \in DOMAIN op.text
               PROVE  op.text[n] = <<a, n>> /\ \A k \in DOMAIN text : text[k] # <<a, n>>
    OBVIOUS
  <2>1. edits[a].type = "insert" /\ n \in DOMAIN edits[a].text /\ op.text[n] = edits[a].text[n]
    BY <1>1 DEF Operations
  <2>2. edits[a].text[n] = <<a, n>>
    BY <2>1, EditSays DEF MergeInv, FlightInv
  <2>3. \A k \in DOMAIN text : text[k] \in OriginalChars \cup Added
    BY DEF MergeInv, OrderInv, CharsOf
  <2> QED BY <1>2, <2>1, <2>2, <2>3, NewIsNew
<1>4. Len(op.text) \in Nat /\ (op.text = <<>> \/ op.len = 0)
  BY <1>1 DEF Operations, Texts
<1> HIDE DEF op
<1>5. ASSUME NEW i \in DOMAIN s, NEW j \in DOMAIN s, s[i] = s[j] PROVE i = j
  <2>1. \A h \in DOMAIN s :
          \/ \E k \in DOMAIN text : Carries(op, k, h) /\ s[h] = text[k]
          \/ \E n \in DOMAIN op.text : h = op.pos + n /\ s[h] = op.text[n]
    BY <1>1 DEF Carried
  <2>2. CASE \E k \in DOMAIN text : Carries(op, k, i) /\ s[i] = text[k]
    <3>1. PICK k \in DOMAIN text : Carries(op, k, i) /\ s[i] = text[k]
      BY <2>2
    <3>2. PICK l \in DOMAIN text : Carries(op, l, j) /\ s[j] = text[l]
      BY <1>3, <1>5, <2>1, <3>1
    <3>3. k = l
      BY <1>5, <3>1, <3>2 DEF Distinct
    <3> QED BY <1>1, <1>4, <3>1, <3>2, <3>3 DEF Carries
  <2>3. CASE \E n \in DOMAIN op.text : i = op.pos + n /\ s[i] = op.text[n]
    <3>1. PICK n \in DOMAIN op.text : i = op.pos + n /\ s[i] = op.text[n]
      BY <2>3
    <3>2. PICK m \in DOMAIN op.text : j = op.pos + m /\ s[j] = op.text[m]
      BY <1>3, <1>5, <2>1, <3>1
    <3>3. <<a, n>> = <<a, m>>
      BY <1>3, <1>5, <3>1, <3>2
    <3> QED BY <3>1, <3>2, <3>3
  <2> QED BY <2>1, <2>2, <2>3
<1> QED BY <1>5 DEF Distinct

\* The room's cursors move with the text.
LEMMA StoredKept ==
  ASSUME MergeInv, NEW a \in Authors, Accept(a), NEW h \in Texts,
         CharsOf(h) \subseteq OriginalChars \cup Added,
         NEW c, NEW d \in CursorsIn(Len(text)), Alike(h, c, text, d), NEW s, s = text'
  PROVE  LET e == TransformCursor(d, Transformed(a))
         IN  /\ e \in CursorsIn(Len(s)) /\ TransformCursorState(d, Transformed(a), Len(s)) = e
             /\ Alike(h, c, s, e)
<1> DEFINE op == Transformed(a)
           e == TransformCursor(d, op)
<1>1. /\ op \in Operations /\ op.pos \in Nat /\ op.len \in Nat /\ InBounds(op, Len(text))
      /\ Carried(op, text, s) /\ DOMAIN text = 1..Len(text) /\ Len(text) \in Nat
  BY AcceptCarries DEF MergeInv
<1>2. s = ApplyOperation(text, op) /\ text \in Texts
  BY AcceptSays DEF MergeInv, FlightInv, Typed
<1>3. Len(s) = Len(text) + Len(op.text) - op.len /\ Len(s) \in Nat
  <2>1. op.pos <= Len(text) /\ op.pos + op.len <= Len(text)
    BY <1>1 DEF InBounds
  <2>2. ClampIndex(op.pos, Len(text)) = op.pos /\ ClampIndex(op.pos + op.len, Len(text)) = op.pos + op.len
    BY <1>1, <2>1 DEF ClampIndex, Lesser, Greater
  <2>3. Len(op.text) \in Nat
    BY <1>1 DEF Operations, Texts
  <2>4. Len(s) = Len(text) + Len(op.text) - ((op.pos + op.len) - op.pos)
    BY <1>1, <1>2, <2>2, ApplyLength
  <2> HIDE DEF op
  <2> QED BY <1>1, <2>1, <2>3, <2>4
<1>4. /\ e \in CursorsIn(Len(s)) /\ TransformCursorState(d, op, Len(s)) = e
      /\ e.pos = TransformCursorPosition(d.pos, op)
      /\ e.start = TransformCursorPosition(d.start, op)
      /\ e.end = TransformCursorPosition(d.end, op)
  <2> HIDE DEF op
  <2> QED BY <1>1, <1>3, CursorMoves DEF e
<1>5. ASSUME NEW k2 \in DOMAIN s, NEW i \in DOMAIN h, h[i] = s[k2]
      PROVE  \E k \in DOMAIN text : Carries(op, k, k2) /\ h[i] = text[k]
  <2>1. h[i] \in OriginalChars \cup Added
    BY DEF CharsOf
  <2> QED BY <1>5, <2>1, OldCharsCarried
<1>6. ASSUME NEW p, NEW q \in Nat, Keeps(h, p, text, q)
      PROVE  Keeps(h, p, s, TransformCursorPosition(q, op))
  <2> HIDE DEF op, e
  <2>1. SUFFICES ASSUME NEW i \in DOMAIN h, NEW k2 \in DOMAIN s, h[i] = s[k2]
                 PROVE  i <= p <=> k2 <= TransformCursorPosition(q, op)
    BY DEF Keeps
  <2>2. PICK k \in DOMAIN text : Carries(op, k, k2) /\ h[i] = text[k]
    BY <1>5, <2>1
  <2>3. k \in Nat /\ k2 \in Nat
    BY <1>1 DEF Carried
  <2>4. k2 <= TransformCursorPosition(q, op) <=> k <= q
    BY <1>1, <2>2, <2>3, PositionsMove
  <2> QED BY <1>6, <2>2, <2>4 DEF Keeps
<1>7. d.pos \in Nat /\ d.start \in Nat /\ d.end \in Nat
  BY DEF CursorsIn
<1> HIDE DEF op, e
<1>8. Alike(h, c, s, e)
  BY <1>4, <1>6, <1>7 DEF Alike
<1> QED BY <1>4, <1>8 DEF e, op

\* An operation is accepted and everything moves by it.
LEMMA CursorsKept ==
  ASSUME MergeInv, CursorInv, NEW a \in Authors, Accept(a), Moves(a, Transformed(a))
  PROVE  CursorInv'
<1> DEFINE op == Transformed(a)
           s == text'
<1>1. /\ op \in Operations /\ edits' = edits /\ Accepted' = Accepted \cup {a}
      /\ s = ApplyOperation(text, op) /\ text \in Texts
  BY AcceptSays DEF MergeInv, FlightInv, Typed
<1>2. /\ stored' = IF home = <<>> THEN stored
                   ELSE [c \in Selections |-> TransformCursorState(stored[c], op, Len(s))]
      /\ shown' = [e \in DOMAIN shown |->
                     IF e \in Clients \ {a}
                     THEN [c \in Selections |-> TransformCursor(shown[e][c], op)] ELSE shown[e]]
      /\ doc' = [i \in DOMAIN doc |-> ApplyRemoteOperation(doc[i], op)]
      /\ drifted' = drifted \cup {a} /\ home' = home
  BY DEF Moves
<1>3. Distinct(s)
  BY DistinctKept DEF CursorInv
<1>4. (doc' = <<>> /\ doc = <<>>) \/ (doc' = <<s>> /\ doc = <<text>>)
  <2>1. CASE doc = <<>>
    <3>1. DOMAIN doc = {}
      BY <2>1
    <3>2. doc' = <<>>
      BY <1>2, <3>1
    <3> QED BY <2>1, <3>2
  <2>2. CASE doc = <<text>>
    <3>1. DOMAIN doc = 1..1 /\ doc[1] = text
      BY <2>2
    <3>2. ApplyRemoteOperation(text, op) = s
      BY <1>1, RemoteIsApply
    <3> HIDE DEF op, s
    <3>3. doc' = [i \in 1..1 |-> s]
      BY <1>2, <3>1, <3>2
    <3>4. [i \in 1..1 |-> s] = <<s>>
      OBVIOUS
    <3> QED BY <2>2, <3>3, <3>4
  <2> QED BY <2>1, <2>2 DEF CursorInv
<1>5. Clients' = Clients
  BY <1>4 DEF Clients
<1>6. DOMAIN shown' = Authors \cup {Watcher} /\ Clients \subseteq DOMAIN shown
  BY <1>2 DEF CursorInv, Clients
<1> HIDE DEF op, s
<1>7. ASSUME home # <<>> PROVE SelectionsStand'
  <2>1. PICK h \in Texts : home = <<h>>
    BY <1>7 DEF CursorInv
  <2>2. home[1] = h /\ home'[1] = h
    BY <1>2, <2>1
  <2>3. SelectionsStand
    BY <1>7 DEF CursorInv
  <2>4. CharsOf(h) \subseteq OriginalChars \cup Added
    BY <2>2, <2>3 DEF SelectionsStand
  <2>5. CharsOf(h) \subseteq OriginalChars \cup Added'
    BY <1>1, <2>4, AddedNext
  <2>6. ASSUME NEW c \in Selections
        PROVE  /\ stored'[c] \in CursorsIn(Len(s)) /\ Alike(h, EmitCursor(h, c), s, stored'[c])
               /\ stored'[c] = TransformCursor(stored[c], op)
    <3>1. stored[c] \in CursorsIn(Len(text)) /\ Alike(h, EmitCursor(h, c), text, stored[c])
      BY <2>2, <2>3 DEF SelectionsStand
    <3>2. /\ TransformCursor(stored[c], op) \in CursorsIn(Len(s))
          /\ TransformCursorState(stored[c], op, Len(s)) = TransformCursor(stored[c], op)
          /\ Alike(h, EmitCursor(h, c), s, TransformCursor(stored[c], op))
      BY <2>4, <3>1, StoredKept DEF op, s
    <3>3. stored'[c] = TransformCursorState(stored[c], op, Len(s))
      BY <1>2, <1>7
    <3> QED BY <3>2, <3>3
  <2>7. ASSUME NEW e \in Clients \ (drifted \cup {a}), NEW c \in Selections
        PROVE  shown'[e][c] = stored'[c]
    <3>1. shown'[e] = [x \in Selections |-> TransformCursor(shown[e][x], op)]
      BY <1>2, <1>6
    <3>2. shown[e][c] = stored[c]
      BY <2>3 DEF SelectionsStand
    <3> QED BY <2>6, <3>1, <3>2
  <2>8. \A c \in Selections : stored'[c] \in CursorsIn(Len(s)) /\ Alike(h, EmitCursor(h, c), s, stored'[c])
    BY <2>6
  <2>9. \A e \in Clients' \ drifted' : \A c \in Selections : shown'[e][c] = stored'[c]
    BY <1>2, <1>5, <2>7
  <2> QED BY <2>2, <2>5, <2>8, <2>9 DEF SelectionsStand, Alike, Keeps, CharsOf, OriginalChars, s
<1>8. \A t \in Texts : home' = <<t>> <=> home = <<t>>
  BY <1>2
<1>9. home' = <<>> <=> home = <<>>
  BY <1>2
<1>10. doc' = <<>> \/ doc' = <<s>>
  BY <1>4
<1> QED BY <1>3, <1>6, <1>7, <1>8, <1>9, <1>10 DEF CursorInv, Distinct, s

\* The reader selects.
LEMMA SelectKept ==
  ASSUME MergeInv, CursorInv, Select
  PROVE  CursorInv'
<1>1. /\ home' = <<text>> /\ stored' = [c \in Selections |-> EmitCursor(text, c)]
      /\ shown' = UpsertCursor(Clients, stored') /\ drifted' = {} /\ doc' = doc
      /\ edits' = edits /\ log' = log /\ text' = text
  BY DEF Select, vars
<1>2. text \in Texts /\ CharsOf(text) \subseteq OriginalChars \cup Added
  BY DEF MergeInv, FlightInv, Typed, OrderInv
<1>3. Clients' = Clients
  BY <1>1 DEF Clients
<1>4. DOMAIN shown' = DOMAIN shown /\ \A e \in Clients : shown'[e] = stored'
  <2>1. Clients \subseteq DOMAIN shown
    BY DEF CursorInv, Clients
  <2> QED BY <1>1, <2>1 DEF UpsertCursor
<1>5. home'[1] = text
  BY <1>1
<1>6. Added' = Added /\ OriginalChars' = OriginalChars
  BY <1>1 DEF Added, Inserting, Accepted, CharsOf, OriginalChars
<1>7. ASSUME NEW c \in Selections
      PROVE  /\ stored'[c] = EmitCursor(text, c) /\ EmitCursor(text, c) \in CursorsIn(Len(text))
             /\ Alike(text, EmitCursor(text, c), text, EmitCursor(text, c))
  <2>1. \A p : Keeps(text, p, text, p)
    BY DEF Keeps, CursorInv, Distinct
  <2> QED BY <1>1, <1>2, <2>1, EmitSays DEF Alike
<1>8. SelectionsStand'
  <2>1. \A c \in Selections : stored'[c] \in CursorsIn(Len(text)) /\ Alike(text, EmitCursor(text, c), text, stored'[c])
    BY <1>7
  <2>2. \A e \in Clients' \ drifted' : \A c \in Selections : shown'[e][c] = stored'[c]
    BY <1>3, <1>4
  <2> QED BY <1>1, <1>2, <1>5, <1>6, <2>1, <2>2 DEF SelectionsStand, Alike, Keeps, CharsOf, OriginalChars
<1>9. home' = <<>> \/ \E t \in Texts : home' = <<t>>
  BY <1>1, <1>2
<1> QED BY <1>1, <1>4, <1>8, <1>9 DEF CursorInv, Distinct

\* The second reader joins.
LEMMA JoinKept ==
  ASSUME MergeInv, CursorInv, Join
  PROVE  CursorInv'
<1>1. /\ doc' = <<text>> /\ shown' = UpsertCursor(DOMAIN shown, stored) /\ drifted' = {}
      /\ home' = home /\ stored' = stored /\ edits' = edits /\ log' = log /\ text' = text
  BY DEF Join, vars
<1>2. DOMAIN shown' = DOMAIN shown /\ \A e \in DOMAIN shown : shown'[e] = stored
  BY <1>1 DEF UpsertCursor
<1>3. Clients' \subseteq DOMAIN shown
  <2>1. Clients' \subseteq Authors \cup {Watcher}
    BY DEF Clients
  <2> QED BY <2>1 DEF CursorInv
<1>4. Added' = Added
  BY <1>1 DEF Added, Inserting, Accepted, CharsOf
<1>5. SelectionsStand => SelectionsStand'
  <2>1. \A e \in Clients' \ drifted' : \A c \in Selections : shown'[e][c] = stored'[c]
    BY <1>1, <1>2, <1>3
  <2> QED BY <1>1, <1>4, <2>1 DEF SelectionsStand, Alike, Keeps, CharsOf, OriginalChars
<1> QED BY <1>1, <1>2, <1>5 DEF CursorInv, Distinct

\* Nobody selected anything yet.
LEMMA CursorsStart ==
  ASSUME CInit, FlightInv PROVE CursorInv
<1>1. text = Original /\ home = <<>> /\ doc = <<>> /\ shown = [e \in Authors \cup {Watcher} |-> stored]
  BY DEF CInit, Init
<1>2. Distinct(text)
  BY <1>1, AuthorsAssumption DEF Distinct
<1> QED BY <1>1, <1>2 DEF CursorInv

\* The authors do with readers what they do without.
THEOREM ReadersOnlyRead == CSpec => Spec
<1>1. CInit => Init
  BY DEF CInit
<1>2. [CNext]_<<vars, cursorVars>> => [Next]_vars
  BY DEF CNext, Next, Select, Join
<1> QED BY <1>1, <1>2, PTL DEF CSpec, Spec

\* Types, what the edits became, and the cursors.
THEOREM CursorInvariant == CSpec => [](MergeInv /\ CursorInv)
<1>1. CInit => CursorInv
  BY FlightStarts, CursorsStart DEF CInit
<1>2. MergeInv /\ CursorInv /\ [CNext]_<<vars, cursorVars>> => CursorInv'
  <2> SUFFICES ASSUME MergeInv, CursorInv, [CNext]_<<vars, cursorVars>> PROVE CursorInv'
    OBVIOUS
  <2>1. ASSUME NEW a \in Authors, Accept(a), Moves(a, Transformed(a)) PROVE CursorInv'
    BY <2>1, CursorsKept
  <2>2. ASSUME NEW a \in Authors, AcknowledgeNoOp(a), UNCHANGED cursorVars PROVE CursorInv'
    <3>1. edits' = edits /\ log' = log /\ text' = text
      BY <2>2 DEF AcknowledgeNoOp
    <3>2. home' = home /\ stored' = stored /\ shown' = shown /\ doc' = doc /\ drifted' = drifted
      BY <2>2 DEF cursorVars
    <3> QED BY <3>1, <3>2 DEF CursorInv, Distinct, SelectionsStand, Alike, Keeps, Clients, CharsOf,
                              OriginalChars, Added, Inserting, Accepted
  <2>3. CASE Select
    BY <2>3, SelectKept
  <2>4. CASE Join
    BY <2>4, JoinKept
  <2>5. CASE UNCHANGED <<vars, cursorVars>>
    <3>1. edits' = edits /\ log' = log /\ text' = text
      BY <2>5 DEF vars
    <3>2. home' = home /\ stored' = stored /\ shown' = shown /\ doc' = doc /\ drifted' = drifted
      BY <2>5 DEF cursorVars
    <3> QED BY <3>1, <3>2 DEF CursorInv, Distinct, SelectionsStand, Alike, Keeps, Clients, CharsOf,
                              OriginalChars, Added, Inserting, Accepted
  <2> QED BY <2>1, <2>2, <2>3, <2>4, <2>5 DEF CNext
<1> QED BY <1>1, <1>2, ReadersOnlyRead, MergeAlways, PTL DEF CSpec

\* What others selected stays before and behind the same characters, in the room, for a
\* reader who joined later, and for each client that did not edit since it was told
\* (transform_cursor_state, transformCursor, buildRemoteCursorDecorations).
THEOREM CursorsStand == CSpec => []CursorsKeepTheirPlace
<1>1. MergeInv /\ CursorInv => CursorsKeepTheirPlace
  <2> SUFFICES ASSUME MergeInv, CursorInv PROVE CursorsKeepTheirPlace
    OBVIOUS
  <2>1. text \in Texts
    BY DEF MergeInv, FlightInv, Typed
  <2>2. ReaderSeesTheText
    BY DEF ReaderSeesTheText, CursorInv
  <2>3. ASSUME home # <<>>, NEW c \in Selections
        PROVE  LET made  == Decorations(home[1], EmitCursor(home[1], c))
                   moved == Decorations(text, stored[c])
               IN  /\ \A k \in DOMAIN made : SamePlace(home[1], made[k], text, moved[k])
                   /\ \A e \in Clients \ drifted : shown[e][c] = stored[c]
    <3>1. PICK h \in Texts : home = <<h>>
      BY <2>3 DEF CursorInv
    <3>2. home[1] = h /\ SelectionsStand
      BY <2>3, <3>1 DEF CursorInv
    <3> DEFINE x == EmitCursor(h, c)
               y == stored[c]
               made == Decorations(h, x)
               moved == Decorations(text, y)
    <3>3. x \in CursorsIn(Len(h)) /\ y \in CursorsIn(Len(text)) /\ Alike(h, x, text, y)
      BY <3>2, EmitSays DEF SelectionsStand
    <3> HIDE DEF x, y
    <3>4. /\ DOMAIN made = {"from", "to", "caret"}
          /\ CodeUnitOffsetToCodePointOffset(h, made.from) = x.start
          /\ CodeUnitOffsetToCodePointOffset(h, made.to) = x.end
          /\ CodeUnitOffsetToCodePointOffset(h, made.caret) = x.pos
      BY <3>3, DecorationsSay
    <3>5. /\ CodeUnitOffsetToCodePointOffset(text, moved.from) = y.start
          /\ CodeUnitOffsetToCodePointOffset(text, moved.to) = y.end
          /\ CodeUnitOffsetToCodePointOffset(text, moved.caret) = y.pos
      BY <2>1, <3>3, DecorationsSay
    <3> HIDE DEF made, moved
    <3>6. /\ SamePlace(h, made.from, text, moved.from) /\ SamePlace(h, made.to, text, moved.to)
          /\ SamePlace(h, made.caret, text, moved.caret)
      BY <3>3, <3>4, <3>5 DEF SamePlace, Alike, Keeps
    <3>7. \A k \in DOMAIN made : SamePlace(h, made[k], text, moved[k])
      BY <3>4, <3>6
    <3>8. \A e \in Clients \ drifted : shown[e][c] = stored[c]
      BY <3>2 DEF SelectionsStand
    <3> QED BY <3>2, <3>7, <3>8 DEF made, moved, x, y
  <2> QED BY <2>2, <2>3 DEF CursorsKeepTheirPlace
<1> QED BY <1>1, CursorInvariant, PTL
=============================================================================
