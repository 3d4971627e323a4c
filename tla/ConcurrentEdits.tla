--------------------------- MODULE ConcurrentEdits ---------------------------
(***************************************************************************)
(* What the transformation functions make of concurrent edits, against a   *)
(* definition of what the authors meant.                                   *)
(*                                                                         *)
(* Several authors look at the same text, whose characters are all         *)
(* different, and each makes one edit. Each sees the edit at once in the   *)
(* editor, while its operation is on the way. The server accepts the       *)
(* operations in some order, transforming each over those accepted before  *)
(* it, which is what transform_over_history does for operations of one     *)
(* base version. The other editors are sent the accepted operation and     *)
(* transform it over their own, if that was not acknowledged yet. An       *)
(* editor makes no other edit here, so what it ends up with depends only   *)
(* on the order of the messages it is sent, which is that of the versions, *)
(* and a step sends and handles them at once.                              *)
(***************************************************************************)
EXTENDS TextOperations

CONSTANTS Authors,    \* client ids, numbers
          Original,   \* the text of the common base version
          MaxInsert   \* bound: the length of an inserted text

ASSUME AuthorsAssumption ==
  /\ Authors \subseteq Nat /\ MaxInsert \in Nat
  /\ Original \in Texts /\ \A i, j \in DOMAIN Original : Original[i] = Original[j] => i = j
  /\ \A a \in Authors, n \in 1..MaxInsert :
       <<a, n>> \in Chars /\ \A i \in DOMAIN Original : Original[i] # <<a, n>>

VARIABLES edits,      \* the operation of each author
          log,        \* the accepted operations by version
          text,       \* the server's text
          replicas    \* the text in each author's editor, and the operation
                      \* that is not acknowledged, as it stands

vars == <<edits, log, text, replicas>>

Identity(a) == [client |-> a, op |-> 0]

\* The characters an author inserts are nobody else's.
Inserted(a, n) == [i \in 1..n |-> <<a, i>>]

\* The operations an author can formulate on the base text.
Edits(a) ==
  {InsertOp(pos, Inserted(a, n)) : pos \in 0..Len(Original), n \in 1..MaxInsert}
    \cup {op \in {DeleteOp(pos, len) : pos \in 0..Len(Original), len \in 1..Len(Original)} :
            InBounds(op, Len(Original))}

Accepted == {a \in Authors : \E v \in DOMAIN log : log[v].id = Identity(a)}

\* The editor's own transformation and application, operationTransform.ts:
\* they compute what the server's do.
TransformTextOperation(incoming, incomingId, accepted, acceptedId) ==
  TransformOperation(incoming, incomingId, accepted, acceptedId)

ApplyTextOperation(content, op) == ApplyOperation(content, op)

Init ==
  /\ edits \in {f \in [Authors -> UNION {Edits(a) : a \in Authors}] :
                  \A a \in Authors : f[a] \in Edits(a)}
  /\ log = <<>>
  /\ text = Original
  /\ replicas = [a \in Authors |-> [text    |-> ApplyTextOperation(Original, edits[a]),
                                    pending |-> edits[a]]]

Acknowledged(r) == [r EXCEPT !.pending = NoOperation]

\* Mistake: the pending operation is not transformed.
RemoteOnly(b, r, op, a) ==
  LET own    == r.pending
      remote == IF own = NoOperation THEN op
                ELSE TransformTextOperation(op, Identity(a), own, Identity(b))
  IN  [r EXCEPT !.text = IF remote = NoOperation THEN @ ELSE ApplyTextOperation(@, remote)]

\* The editor of author b receives an operation of author a.  A transformation
\* that leaves nothing does not replace the pending operation.
Remote(b, r, op, a) ==
  LET own    == r.pending
      remote == IF own = NoOperation THEN op
                ELSE TransformTextOperation(op, Identity(a), own, Identity(b))
      next   == IF own = NoOperation THEN own
                ELSE TransformTextOperation(own, Identity(b), op, Identity(a))
  IN  [text    |-> IF remote = NoOperation THEN r.text ELSE ApplyTextOperation(r.text, remote),
       pending |-> IF next = NoOperation THEN own ELSE next]

Transformed(a) == TransformOverHistory(edits[a], Identity(a), log, 0, Len(log))

\* The server accepts the operation of author a.
Accept(a) ==
  LET op == Transformed(a)
  IN  /\ replicas[a].pending # NoOperation
      /\ op # NoOperation
      /\ log' = Append(log, [id |-> Identity(a), op |-> op])
      /\ text' = ApplyOperation(text, op)
      /\ replicas' = [b \in Authors |-> IF b = a THEN Acknowledged(replicas[b])
                                       ELSE Remote(b, replicas[b], op, a)]
      /\ UNCHANGED edits

\* Nothing is left of the operation: it is acknowledged, and that is all.
AcknowledgeNoOp(a) ==
  /\ replicas[a].pending # NoOperation
  /\ Transformed(a) = NoOperation
  /\ replicas' = [replicas EXCEPT ![a] = Acknowledged(@)]
  /\ UNCHANGED <<edits, log, text>>

Next == \E a \in Authors : Accept(a) \/ AcknowledgeNoOp(a)

Spec == Init /\ [][Next]_vars

-----------------------------------------------------------------------------
(* What the authors meant.                                                 *)

Inserting == {a \in Accepted : edits[a].type = "insert"}
Deleting  == {a \in Accepted : edits[a].type = "delete"}

\* The positions of the base text an edit deletes.
Removes(a) == edits[a].pos + 1..edits[a].pos + edits[a].len
Removed == UNION {Removes(a) : a \in Deleting}

\* The characters of a text; those of the base text, those that were not deleted, and
\* those that were inserted.
CharsOf(s)    == {s[i] : i \in DOMAIN s}
OriginalChars == CharsOf(Original)
Remaining     == {Original[i] : i \in DOMAIN Original \ Removed}
Added         == UNION {CharsOf(edits[a].text) : a \in Inserting}

\* Where a character stands in the base text, or was inserted.
Place(ch) == IF ch \in OriginalChars THEN CHOOSE i \in DOMAIN Original : Original[i] = ch
             ELSE edits[ch[1]].pos

\* The order the authors meant: what is inserted at a position stands behind the
\* character there, the inserts of one position by the identity of their authors.
LeftOf(c, d) ==
  \/ Place(c) < Place(d)
  \/ /\ Place(c) = Place(d) /\ d \notin OriginalChars
     /\ c \in OriginalChars \/ c[1] < d[1] \/ (c[1] = d[1] /\ c[2] < d[2])

\* An insert strictly inside a range somebody deletes.
InsideDelete == \E a \in Inserting, d \in Deleting :
  edits[d].pos < edits[a].pos /\ edits[a].pos < edits[d].pos + edits[d].len

\* Two inserts at different positions with nothing left between them.
Collapsed == \E a, b \in Inserting :
  edits[a].pos < edits[b].pos /\ edits[a].pos + 1..edits[b].pos \subseteq Removed

\* A delete that the deletes of others cover.
Covered == \E a \in Authors :
  /\ edits[a].type = "delete"
  /\ Removes(a) \subseteq UNION {Removes(b) : b \in Deleting \ {a}}

-----------------------------------------------------------------------------
(* Properties.                                                             *)

\* Of the base text exactly those characters are gone that an accepted delete
\* meant, and the others stand in their order, whatever was accepted in between: a
\* delete that moved, shrank over an overlapping delete or expanded over an insert
\* removes neither more nor less of it (transform_delete_delete,
\* transform_delete_insert).
OriginalTextAsIntended ==
  /\ CharsOf(text) \cap OriginalChars = Remaining
  /\ \A k, l \in DOMAIN text :
       k < l /\ text[k] \in OriginalChars /\ text[l] \in OriginalChars => LeftOf(text[k], text[l])

\* In any order of acceptance the text is the intended one: inserts of one
\* position stand in the order of their authors' identities, the others where
\* they were made (OperationIdentity).  Excepted are an insert inside a deleted
\* range and inserts that a delete brought to one position.
MergedAsIntended ==
  \/ InsideDelete \/ Collapsed
  \/ /\ CharsOf(text) = Remaining \cup Added
     /\ \A k, l \in DOMAIN text : k < l => LeftOf(text[k], text[l])

\* When every operation was answered, every editor shows the server's text
\* (handleRemoteOperation transforms both sides so that they meet).
EditorsConverge ==
  (\A a \in Authors : replicas[a].pending = NoOperation) =>
    \A a \in Authors : replicas[a].text = text

\* The same, unless an insert is inside a deleted range, or there is a delete all of
\* whose range others delete.
EditorsConvergeMostly == InsideDelete \/ Covered \/ EditorsConverge
=============================================================================
