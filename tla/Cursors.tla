------------------------------- MODULE Cursors -------------------------------
(***************************************************************************)
(* The cursors of others, while the authors of module ConcurrentEdits edit *)
(* a text.                                                                 *)
(*                                                                         *)
(* A reader who edits nothing selects something, and the room tells all    *)
(* clients. The room moves the selection with every operation it accepts,  *)
(* each client with every operation it is sent; nobody sends it again. A   *)
(* second reader joins, and the room tells everybody what it holds. What   *)
(* becomes of several selections is computed at once.                      *)
(*                                                                         *)
(* A client with an operation of its own does not move the cursors by it:  *)
(* until it is told of them again they are not where the room has them.    *)
(* The readers' editors count in UTF-16 code units, of which a character   *)
(* takes one or two.                                                       *)
(***************************************************************************)
EXTENDS ConcurrentEdits, FiniteSets

CONSTANTS Wide,     \* the characters that take two code units
          Watcher,  \* the client that joins
          Selections  \* those that are looked at, by code points

ASSUME CursorsAssumption ==
  /\ Wide \subseteq Chars /\ Watcher \notin Authors
  /\ Selections \subseteq [pos : Nat, start : Nat, end : Nat]
  /\ \A c \in Selections : c.start <= c.end /\ c.pos \in {c.start, c.end}

VARIABLES home,     \* the text when the reader selected, in a sequence of one
          stored,   \* [Selections -> Cursors]: the room's cursor of the reader
          shown,    \* those of the clients: [client -> [Selections -> Cursors]]
          doc,      \* the document of the second reader, in a sequence of one
          drifted   \* history: clients with an own operation since they were told

cursorVars == <<home, stored, shown, doc, drifted>>

-----------------------------------------------------------------------------
(* Code units and code points, operationTransform.ts.                      *)

\* The code units that the first n characters of s take.
CodeUnits(s, n) == n + Cardinality({i \in 1..n : s[i] \in Wide})

CodePointOffsetToCodeUnitOffset(s, offset) == CodeUnits(s, ClampIndex(offset, Len(s)))

CodeUnitOffsetToCodePointOffset(s, offset) ==
  Cardinality({i \in DOMAIN s : CodeUnits(s, i - 1) < offset})

\* Mistake: code points are taken for code units.
ApplyRemoteOperationRaw(s, op) ==
  LET from == CodeUnitOffsetToCodePointOffset(s, op.pos)
      to   == CodeUnitOffsetToCodePointOffset(s, op.pos + op.len)
  IN  SubSeq(s, 1, from) \o op.text \o SubSeq(s, to + 1, Len(s))

\* A document of the editor after an operation: the code units from one offset to
\* another are replaced.
ApplyRemoteOperation(s, op) ==
  LET from == CodePointOffsetToCodeUnitOffset(s, op.pos)
      to   == CodePointOffsetToCodeUnitOffset(s, op.pos + op.len)
  IN  SubSeq(s, 1, CodeUnitOffsetToCodePointOffset(s, from)) \o op.text
        \o SubSeq(s, CodeUnitOffsetToCodePointOffset(s, to) + 1, Len(s))

-----------------------------------------------------------------------------
(* Cursors and their transformation, cursorTransform.ts and                *)
(* cursor_transform.py.                                                    *)

Cursor(pos, start, end) == [pos |-> pos, start |-> start, end |-> end]

\* Mistake: a position inside of a deleted range is moved by all of it.
TransformCursorPositionPast(position, op) ==
  IF op.type = "insert" THEN IF op.pos <= position THEN position + Len(op.text) ELSE position
  ELSE IF op.pos < position THEN Greater(0, position - op.len) ELSE position

\* Inserts at the position move it; it stays at the beginning of a deleted range.
TransformCursorPosition(position, op) ==
  IF op.type = "insert" THEN IF op.pos <= position THEN position + Len(op.text) ELSE position
  ELSE IF op.pos < position THEN Greater(op.pos, position - op.len) ELSE position

TransformSelectionRange(start, end, op) ==
  LET s == TransformCursorPosition(start, op)
      e == TransformCursorPosition(end, op)
  IN  <<Lesser(s, e), Greater(s, e)>>

TransformCursor(cursor, op) ==
  LET range == TransformSelectionRange(cursor.start, cursor.end, op)
  IN  Cursor(TransformCursorPosition(cursor.pos, op), range[1], range[2])

\* The server also keeps what it stores within the text.
TransformCursorState(cursor, op, documentLength) ==
  [k \in DOMAIN cursor |-> ClampIndex(TransformCursor(cursor, op)[k], documentLength)]

\* The cursor of a client that has sent none.
NoCursor == Cursor(0, 0, 0)

-----------------------------------------------------------------------------
\* emitCursor: the selection in the document s, or of one that the document is too
\* short for the part that it has, taken from its code units.
EmitCursor(s, c) ==
  LET Point(p) == CodeUnitOffsetToCodePointOffset(s, CodePointOffsetToCodeUnitOffset(s, p))
  IN  Cursor(Point(c.pos), Point(c.start), Point(c.end))

Clients == Authors \cup (IF doc = <<>> THEN {} ELSE {Watcher})

CInit ==
  /\ Init
  /\ home = <<>> /\ doc = <<>> /\ drifted = {}
  /\ stored = [c \in Selections |-> NoCursor]
  /\ shown = [e \in Authors \cup {Watcher} |-> stored]

\* The clients es put the cursors in the place of what they had.
UpsertCursor(es, cursors) == [e \in DOMAIN shown |-> IF e \in es THEN cursors ELSE shown[e]]

\* The reader selects; the room keeps it and tells the clients.
Select ==
  /\ home = <<>>
  /\ home' = <<text>>
  /\ stored' = [c \in Selections |-> EmitCursor(text, c)]
  /\ shown' = UpsertCursor(Clients, stored')
  /\ drifted' = {}
  /\ UNCHANGED <<doc, vars>>

\* The second reader joins, and everybody is told what the room holds.
Join ==
  /\ doc = <<>>
  /\ doc' = <<text>>
  /\ shown' = UpsertCursor(DOMAIN shown, stored)
  /\ drifted' = {}
  /\ UNCHANGED <<home, stored, vars>>

\* The room moves what it holds, and the clients that are sent the operation what
\* they show.
Moves(a, op) ==
  /\ stored' = IF home = <<>> THEN stored
               ELSE [c \in Selections |-> TransformCursorState(stored[c], op, Len(text'))]
  /\ shown' = [e \in DOMAIN shown |->
                 IF e \in Clients \ {a}
                 THEN [c \in Selections |-> TransformCursor(shown[e][c], op)] ELSE shown[e]]
  /\ doc' = [i \in DOMAIN doc |-> ApplyRemoteOperation(doc[i], op)]
  /\ drifted' = drifted \cup {a}
  /\ UNCHANGED home

CNext ==
  \/ \E a \in Authors : \/ Accept(a) /\ Moves(a, Transformed(a))
                        \/ AcknowledgeNoOp(a) /\ UNCHANGED cursorVars
  \/ Select \/ Join

CSpec == CInit /\ [][CNext]_<<vars, cursorVars>>

-----------------------------------------------------------------------------
(* What is displayed, remoteCursorExtension.ts.                            *)

\* The code units that are marked, and where the caret is.
Decorations(s, cursor) ==
  LET start == CodePointOffsetToCodeUnitOffset(s, cursor.start)
      end   == CodePointOffsetToCodeUnitOffset(s, cursor.end)
  IN  [from |-> Lesser(start, end), to |-> Greater(start, end),
       caret |-> CodePointOffsetToCodeUnitOffset(s, cursor.pos)]

-----------------------------------------------------------------------------
(* Properties.                                                             *)

\* Of the characters that the texts s and t both have, those are before the code unit u
\* of s that are before the code unit v of t.
SamePlace(s, u, t, v) ==
  LET p == CodeUnitOffsetToCodePointOffset(s, u)
      q == CodeUnitOffsetToCodePointOffset(t, v)
  IN  \A i \in DOMAIN s, j \in DOMAIN t : s[i] = t[j] => (i <= p <=> j <= q)

\* A second reader sees the text of the server.
ReaderSeesTheText == doc # <<>> => doc[1] = text

\* A selection stays where it was made: of the characters that were there then and
\* still are, those are before its beginning, its end and its caret that were before
\* them ("keeps presence markers stable", cursor_transform.py). This is so in the
\* room, for what is displayed to the second reader, who may have joined later, and
\* for every client that has not edited since it was told.
CursorsKeepTheirPlace ==
  /\ ReaderSeesTheText
  /\ home # <<>> =>
       \A c \in Selections :
         LET made  == Decorations(home[1], EmitCursor(home[1], c))
             moved == Decorations(text, stored[c])
         IN  /\ \A k \in DOMAIN made : SamePlace(home[1], made[k], text, moved[k])
             /\ \A e \in Clients \ drifted : shown[e][c] = stored[c]
=============================================================================
