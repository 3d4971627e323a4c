---------------------------- MODULE EditorSession ----------------------------
(***************************************************************************)
(* Several browsers that edit one document over the WebSocket protocol:    *)
(* useWebSocketPlainTextEditor of hooks/usePlainTextCollaboration.ts, which *)
(* keeps the queue, the operation in flight and the version, and           *)
(* components/PlainTextEditorSurface.tsx, which keeps the CodeMirror text.  *)
(*                                                                         *)
(* Inside a browser everything runs on one thread, but three things come   *)
(* at times of their own: keystrokes, socket events, and React's next      *)
(* rendering, whose effects carry over what a handler put into the state.  *)
(* Each is an action of its own.                                           *)
(*                                                                         *)
(* Of the server there is what an editor can notice of it, see module Room *)
(* for what it really does: it accepts operations in some order, tells the *)
(* author and then, one by one, the others; authors are served             *)
(* concurrently, so that one author's announcement may overtake another's. *)
(* A socket delivers messages in the order they were sent on it.           *)
(*                                                                         *)
(* A behaviour is one of the Scenarios, each a small instance with its own *)
(* bounds and with the disturbances that may happen in it:                 *)
(*   overtake  other steps happen while an operation is being announced    *)
(*   lag       other steps happen while a rendering is due                 *)
(*   close     sockets close, and are opened again                         *)
(*   resync    the user asks for the server's text (handleResyncSnapshot)  *)
(*   grant     the owner of the document changes an editor's permission    *)
(*   metadata  the request for the document's name may fail                *)
(*   leave     the user leaves the page                                    *)
(*                                                                         *)
(* The editors do not always recover from what happens to them. Mishaps    *)
(* are the events after which an editor need not display the document any  *)
(* more, each of them possible in the code as it stands; that there are no *)
(* others is what the properties say.                                      *)
(***************************************************************************)
EXTENDS TextOperations, FiniteSets

CONSTANTS Editors,       \* client ids, numbers
          Scenarios      \* the instances, see EditorsAssumption

\* An instance: the editors that are open, those that may not write at first,
\* those that type, what they do, the text they start with, and bounds: the edits typed in one editor,
\* the closed sockets of one editor, and the checks of one editor that are
\* unanswered, see module Divergence.
ASSUME EditorsAssumption ==
  /\ Editors \subseteq Nat /\ IsFiniteSet(Editors)
  /\ Scenarios \subseteq
       [open : SUBSET Editors, readers : SUBSET Editors, typists : SUBSET Editors,
        kinds : SUBSET {"insert", "delete", "erase", "replace"}, text : Texts,
        maxEdits : Nat, maxCloses : Nat, maxChecks : Nat,
        disturbances : SUBSET {"overtake", "lag", "close", "resync", "grant", "metadata", "leave"}]

\* The characters edit n of editor e may insert are nobody else's.
Char(e, n) == 10 * e + n

ASSUME CharsAssumption ==
  \A e \in Editors, s \in Scenarios : \A n \in 1..s.maxEdits : Char(e, n) \in Chars

VARIABLES
  scenario,   \* the instance this behaviour is one of
  editor,     \* the hook's state and references, with the socket
  surface,    \* the CodeMirror view and the surface's references
  \* The server.
  log,        \* the accepted operations by version
  texts,      \* texts[v + 1] is the text of version v
  joined,     \* the editors whose present connection is registered
  access,     \* write access, as it was when the connection joined
  role,       \* write access now
  announcing, \* of every author the operation being announced, and who was told
  stragglers, \* operations received on a socket that closed since
  \* What the user did.
  typed,      \* edits typed so far
  closes,     \* sockets closed so far
  resync      \* the request for the server's text

clientVars == <<editor, surface>>
serverVars == <<log, texts, joined, access, role, announcing, stragglers>>
userVars   == <<typed, closes, resync>>
vars == <<clientVars, serverVars, userVars>>

Disturbances == scenario.disturbances

-----------------------------------------------------------------------------
Version == Len(log)
Text    == texts[Version + 1]

Identity(e, n) == [client |-> e, op |-> n]

OpMsg(q, v)             == [kind |-> "op", id |-> q.id, base |-> v, op |-> q.op]
JoinMsg                 == [kind |-> "join"]
SnapshotMsg(v, t, w)    == [kind |-> "snapshot", version |-> v, text |-> t, canWrite |-> w]
AckMsg(id, v)           == [kind |-> "ack", version |-> v, id |-> id]
BroadcastMsg(id, v, op) == [kind |-> "broadcast_op", version |-> v, id |-> id, op |-> op]
ReadOnlyMsg             == [kind |-> "error", code |-> "READ_ONLY"]

NoAnnouncement == [version |-> 0, told |-> {}]

\* What the metrics count since the last snapshot; latencies are left out.
EmptyMetrics == [sent |-> 0, acked |-> 0, remote |-> 0, pending |-> 0]

\* inFlight and slot hold at most one element. fresh says that the content of
\* the last snapshot was not put into the view yet (contentSerial). mishaps is
\* history no code keeps.
InitialEditor ==
  [socket |-> "none", status |-> "loading", canWrite |-> FALSE, version |-> 0,
   queue |-> <<>>, inFlight |-> <<>>, content |-> <<>>, fresh |-> TRUE,
   slot |-> <<>>, latest |-> <<>>, metrics |-> EmptyMetrics,
   upstream |-> <<>>, inbox |-> <<>>, mishaps |-> {},
   metadata |-> IF "metadata" \in Disturbances THEN "loading" ELSE "loaded"]

InitialSurface == [doc |-> <<>>, editable |-> FALSE, applied |-> <<>>]

Init ==
  /\ scenario \in Scenarios
  /\ editor = [e \in Editors |-> InitialEditor]
  /\ surface = [e \in Editors |-> InitialSurface]
  /\ log = <<>> /\ texts = <<scenario.text>>
  /\ joined = {} /\ access = [e \in Editors |-> FALSE]
  /\ role = [e \in Editors |-> e \notin scenario.readers]
  /\ announcing = [e \in Editors |-> NoAnnouncement]
  /\ stragglers = [e \in Editors |-> <<>>]
  /\ typed = [e \in Editors |-> 0]
  /\ closes = [e \in Editors |-> 0]
  /\ resync = [e \in Editors |-> <<>>]

-----------------------------------------------------------------------------
(* The handlers of the hook, from the editor's state to its next state.    *)

Pending(r) == r.inFlight \o r.queue

RefreshPendingMetrics(r) == [r EXCEPT !.metrics.pending = Len(Pending(r))]

RecordSentOperations(r, n) == [r EXCEPT !.metrics.sent = @ + n]

RecordAcknowledgement(r) == [r EXCEPT !.metrics.acked = @ + 1]

RecordRemoteOperation(r) == [r EXCEPT !.metrics.remote = @ + 1]

ResetMetrics(r) == [r EXCEPT !.metrics = EmptyMetrics]

\* Mistake: an operation does not wait for the acknowledgement of the last.
SendNextAtOnce(r) ==
  IF r.socket # "open" \/ r.queue = <<>> THEN r
  ELSE [r EXCEPT !.queue    = Tail(@),
                 !.inFlight = Append(@, Head(r.queue)),
                 !.upstream = Append(@, OpMsg(Head(r.queue), r.version))]

\* Mistake: the newest operation is sent first.
SendNextNewest(r) ==
  IF r.socket # "open" \/ r.inFlight # <<>> \/ r.queue = <<>> THEN r
  ELSE LET last == r.queue[Len(r.queue)]
       IN  [r EXCEPT !.queue    = SubSeq(@, 1, Len(@) - 1),
                     !.inFlight = <<last>>,
                     !.upstream = Append(@, OpMsg(last, r.version))]

SendNext(r) ==
  IF r.socket # "open" \/ r.inFlight # <<>> \/ r.queue = <<>> THEN r
  ELSE RefreshPendingMetrics([r EXCEPT !.queue    = Tail(@),
                                       !.inFlight = <<Head(r.queue)>>,
                                       !.upstream = Append(@, OpMsg(Head(r.queue), r.version))])

SendLocal(r, ops) ==
  SendNext(RefreshPendingMetrics(RecordSentOperations([r EXCEPT !.queue = @ \o ops], Len(ops))))

HandleSnapshot(r, m) ==
  RefreshPendingMetrics(ResetMetrics(
    [r EXCEPT !.version = m.version, !.queue = <<>>, !.inFlight = <<>>,
              !.canWrite = m.canWrite, !.content = m.text, !.latest = m.text,
              !.fresh = TRUE, !.status = "connected"]))

\* Mistake: an acknowledgement does not release the next operation.
HandleAckOnly(r, m) ==
  LET known == [r EXCEPT !.version = Greater(@, m.version)]
  IN  IF r.inFlight # <<>> /\ Head(r.inFlight).id = m.id
      THEN RefreshPendingMetrics([RecordAcknowledgement(known) EXCEPT !.inFlight = <<>>])
      ELSE known

HandleAck(r, m) ==
  LET known == [r EXCEPT !.version = Greater(@, m.version)]
  IN  SendNext(IF r.inFlight # <<>> /\ Head(r.inFlight).id = m.id
               THEN RefreshPendingMetrics([RecordAcknowledgement(known) EXCEPT !.inFlight = <<>>])
               ELSE known)

\* The remote operation over the pending ones, in their order, until nothing is
\* left of it: the pending ones are to it what accepted ones are to a new one.
OverPending(m, pending) == TransformOverHistory(m.op, m.id, pending, 0, Len(pending))

\* A pending operation over the remote one, as it was received. A
\* transformation that leaves nothing does not replace the operation.
OverRemote(q, m) ==
  LET op == TransformOperation(q.op, q.id, m.op, m.id)
  IN  IF op = NoOperation THEN q ELSE [q EXCEPT !.op = op]

\* Mistake: the pending operations are left as they are.
HandleRemoteOnly(r, m) ==
  LET op == OverPending(m, Pending(r))
  IN  [r EXCEPT !.version  = Greater(@, m.version),
                !.slot     = IF op = NoOperation THEN @
                             ELSE <<[event |-> <<m.version, m.id>>, op |-> op]>>]

HandleRemoteOperation(r, m) ==
  LET op == OverPending(m, Pending(r))
  IN  RefreshPendingMetrics(RecordRemoteOperation(
       [r EXCEPT !.version  = Greater(@, m.version),
                !.inFlight = [i \in DOMAIN @ |-> OverRemote(@[i], m)],
                !.queue    = [i \in DOMAIN @ |-> OverRemote(@[i], m)],
                !.slot     = IF op = NoOperation THEN @
                             ELSE <<[event |-> <<m.version, m.id>>, op |-> op]>>]))

\* READ_ONLY is a recoverable error.
HandleError(r) == [r EXCEPT !.status = "connected"]

HandleResyncSnapshot(r, s) ==
  RefreshPendingMetrics(ResetMetrics(
    [r EXCEPT !.version = s.version, !.queue = <<>>, !.inFlight = <<>>,
              !.canWrite = s.canWrite, !.content = s.text, !.latest = s.text,
              !.fresh = TRUE, !.slot = <<>>]))

Handle(r, m) ==
  CASE m.kind = "snapshot"     -> HandleSnapshot(r, m)
    [] m.kind = "ack"          -> HandleAck(r, m)
    [] m.kind = "broadcast_op" -> HandleRemoteOperation(r, m)
    [] m.kind = "error"        -> HandleError(r)

-----------------------------------------------------------------------------
(* Mishaps.                                                                *)

Unapplied(e) == /\ editor[e].slot # <<>>
                /\ surface[e].applied # Head(editor[e].slot).event

RenderingDue(e) == \/ editor[e].fresh \/ Unapplied(e)
                   \/ editor[e].canWrite # surface[e].editable

\* A pending edit and a remote one, an insert strictly inside a deleted range.
Inside(ins, del) == /\ ins.type = "insert" /\ del.type = "delete"
                    /\ del.pos < ins.pos /\ ins.pos < del.pos + del.len

\* A message that tells of the version after the one the editor knows, or of
\* nothing new.
InOrder(r, m) ==
  IF m.kind = "ack" /\ (m.version = 0 \/ log[m.version].id # m.id)
  THEN m.version = r.version
  ELSE m.version = r.version + 1

\* behind     a message or an edit came before a due rendering
\* order      a version was skipped or told twice
\* queue      a remote operation came while several were pending
\* inside     an insert was made inside a range deleted concurrently
\* kept       nothing was left of a pending operation
\* discarded  a snapshot or a resync replaced operations that were pending
\* rewound    a resync went back behind the version that was known
\* untold     an operation was accepted of which its author is not told
Mishaps(e, m) ==
  LET r == editor[e]
  IN  {x \in {"behind", "order", "queue", "inside", "kept", "discarded"} :
         CASE x = "behind"    -> m.kind \in {"snapshot", "broadcast_op"} /\ Unapplied(e)
           [] x = "order"     -> m.kind \in {"ack", "broadcast_op"} /\ ~InOrder(r, m)
           [] x = "queue"     -> m.kind = "broadcast_op" /\ Len(Pending(r)) > 1
           [] x = "inside"    -> /\ m.kind = "broadcast_op"
                                 /\ \E i \in DOMAIN Pending(r) :
                                      LET op == Pending(r)[i].op
                                      IN  Inside(op, m.op) \/ Inside(m.op, op)
           [] x = "kept"      -> /\ m.kind = "broadcast_op"
                                 /\ \E i \in DOMAIN Pending(r) :
                                      TransformOperation(Pending(r)[i].op, Pending(r)[i].id,
                                                         m.op, m.id) = NoOperation
           [] x = "discarded" -> m.kind = "snapshot" /\ Pending(r) # <<>>}

ResyncMishaps(r, s) ==
  {x \in {"discarded", "rewound"} :
     IF x = "discarded" THEN Pending(r) # <<>> ELSE s.version < r.version}

-----------------------------------------------------------------------------
(* The browser.                                                            *)

\* The effects at the first rendering. Without a token there is no connection.
Mount(e) ==
  /\ editor[e].socket = "none" /\ editor[e].status = "loading"
  /\ \/ editor' = [editor EXCEPT ![e].socket = "scheduled", ![e].status = "connecting"]
     \/ editor' = [editor EXCEPT ![e].status = "error"]
  /\ UNCHANGED <<surface, serverVars, userVars>>

\* getDocumentMetadata returns; the name of the document is not kept.
LoadMetadata(e) ==
  /\ editor[e].metadata = "loading" /\ editor[e].socket # "none"
  /\ \/ editor' = [editor EXCEPT ![e].metadata = "loaded"]
     \/ editor' = [editor EXCEPT ![e].metadata = "failed", ![e].status = "error"]
  /\ UNCHANGED <<surface, serverVars, userVars>>

Connect(e) ==
  /\ editor[e].socket = "scheduled"
  /\ editor' = [editor EXCEPT ![e].socket = "connecting", ![e].status = "connecting"]
  /\ UNCHANGED <<surface, serverVars, userVars>>

Opened(e) ==
  /\ editor[e].socket = "connecting"
  /\ editor' = [editor EXCEPT ![e].socket = "open", ![e].upstream = <<JoinMsg>>]
  /\ UNCHANGED <<surface, serverVars, userVars>>

\* What the server still receives of a closed socket; the connection is not
\* registered any more. A new one has the key of this one, which the broadcast
\* of an operation leaves out.
Abandon(e, ops) ==
  /\ joined' = joined \ {e}
  /\ announcing' = [announcing EXCEPT ![e].told = IF announcing[e] = NoAnnouncement
                                                  THEN @ ELSE @ \cup {e}]
  /\ (ops # <<>>) => IF e \in joined THEN access[e] ELSE role[e]
  /\ stragglers' = [stragglers EXCEPT ![e] = @ \o ops]

\* The operations on the way to the server: only the first message of a socket
\* is none.
SentOps(e) ==
  LET sent == editor[e].upstream
  IN  IF sent # <<>> /\ Head(sent).kind = "join" THEN Tail(sent) ELSE sent

\* The user leaves the page: the clean-up of the effect closes the socket, which
\* still transmits what was sent on it. What waits in the queue is lost.
Leave(e) ==
  /\ "leave" \in Disturbances /\ editor[e].socket # "gone"
  /\ editor' = [editor EXCEPT ![e] = [InitialEditor EXCEPT
                  !.socket = "gone", !.fresh = FALSE, !.metadata = "loaded"]]
  /\ surface' = [surface EXCEPT ![e] = InitialSurface]
  /\ Abandon(e, SentOps(e))
  /\ UNCHANGED <<log, texts, access, role, userVars>>

\* The delay grows with every attempt; when it ends is left open.
ScheduleReconnect(r) == [r EXCEPT !.socket = "scheduled", !.status = "disconnected"]

\* The socket closes before or after it opened, and another one is scheduled.
\* What is on the way to the editor is lost; of what is on the way to the
\* server, the server still receives a part.
Closed(e) ==
  /\ "close" \in Disturbances /\ closes[e] < scenario.maxCloses
  /\ editor[e].socket \in {"connecting", "open"}
  /\ closes' = [closes EXCEPT ![e] = @ + 1]
  /\ editor' = [editor EXCEPT ![e] = ScheduleReconnect([@ EXCEPT !.upstream = <<>>,
                                                                 !.inbox = <<>>])]
  /\ \E n \in 0..Len(SentOps(e)) : Abandon(e, SubSeq(SentOps(e), 1, n))
  /\ UNCHANGED <<surface, log, texts, access, role, typed, resync>>

\* The edits of one transaction of the view: a replacement is a delete and an
\* insert, which are formulated one after the other (emitLocalOperations).
Transactions(e, doc) ==
  LET n     == typed[e] + 1
      first == [id |-> Identity(e, 2 * n), op |-> NoOperation]
      next  == [id |-> Identity(e, 2 * n + 1), op |-> NoOperation]
      ins(p) == InsertOp(p, <<Char(e, n)>>)
  IN  (IF "insert" \in scenario.kinds
       THEN {<<[first EXCEPT !.op = ins(p)]>> : p \in 0..Len(doc)} ELSE {})
      \cup
      (IF "delete" \in scenario.kinds
       THEN {<<[first EXCEPT !.op = DeleteOp(p, 1)]>> : p \in 0..(Len(doc) - 1)} ELSE {})
      \cup
      (IF "erase" \in scenario.kinds /\ doc # <<>>
       THEN {<<[first EXCEPT !.op = DeleteOp(0, Len(doc))]>>} ELSE {})
      \cup
      (IF "replace" \in scenario.kinds
       THEN {<<[first EXCEPT !.op = DeleteOp(p, 1)], [next EXCEPT !.op = ins(p)]>> :
               p \in 0..(Len(doc) - 1)} ELSE {})

\* The text after a transaction.
AfterTransaction(doc, ops) ==
  LET after[i \in 0..Len(ops)] ==
        IF i = 0 THEN doc ELSE ApplyOperation(after[i - 1], ops[i].op)
  IN  after[Len(ops)]

\* The user edits the view. The hook ignores operations while it cannot write.
Type(e) ==
  /\ e \in scenario.typists /\ typed[e] < scenario.maxEdits
  /\ surface[e].editable
  /\ typed' = [typed EXCEPT ![e] = @ + 1]
  /\ \E ops \in Transactions(e, surface[e].doc) :
       LET doc == AfterTransaction(surface[e].doc, ops)
       IN  /\ surface' = [surface EXCEPT ![e].doc = doc]
           /\ editor' = [editor EXCEPT ![e] =
                [(IF editor[e].canWrite THEN SendLocal(editor[e], ops) ELSE editor[e])
                   EXCEPT !.latest = doc,
                          !.mishaps = IF RenderingDue(e) THEN @ \cup {"behind"} ELSE @]]
  /\ UNCHANGED <<serverVars, closes, resync>>

\* The next message of the socket.
Deliver(e) ==
  /\ editor[e].inbox # <<>>
  /\ editor' = [editor EXCEPT ![e] =
                  [Handle(editor[e], Head(editor[e].inbox))
                     EXCEPT !.inbox = Tail(@),
                            !.mishaps = @ \cup Mishaps(e, Head(editor[e].inbox))]]
  /\ UNCHANGED <<surface, serverVars, userVars>>

\* A rendering and its effects, in the order they are declared: the view
\* becomes editable or not, takes the text of a new snapshot, and then the remote
\* operation, once (markRemoteApplied empties the slot).
Render(e) ==
  LET content == IF editor[e].fresh THEN editor[e].content ELSE surface[e].doc
      doc     == IF Unapplied(e) THEN ApplyOperation(content, Head(editor[e].slot).op)
                 ELSE content
  IN  /\ RenderingDue(e)
      /\ surface' = [surface EXCEPT
                       ![e].editable = editor[e].canWrite,
                       ![e].doc      = doc,
                       ![e].applied  = IF Unapplied(e) THEN Head(editor[e].slot).event ELSE @]
      /\ editor' = [editor EXCEPT
                       ![e].fresh  = FALSE,
                       ![e].slot   = IF Unapplied(e) THEN <<>> ELSE @,
                       ![e].latest = IF editor[e].fresh \/ Unapplied(e) THEN doc ELSE @]
      /\ UNCHANGED <<serverVars, userVars>>

\* The user asks for the server's text, once in a behaviour.
AskResync(e) ==
  /\ "resync" \in Disturbances /\ resync[e] = <<>> /\ editor[e].status = "connected"
  /\ resync' = [resync EXCEPT ![e] = <<"asked">>]
  /\ UNCHANGED <<clientVars, serverVars, typed, closes>>

\* The answer arrives, however much later, at an editor that is still there.
Resync(e) ==
  /\ Len(resync[e]) = 2 /\ editor[e].socket # "gone"
  /\ editor' = [editor EXCEPT ![e] =
       [HandleResyncSnapshot(editor[e], resync[e][2])
          EXCEPT !.mishaps = @ \cup ResyncMishaps(editor[e], resync[e][2])]]
  /\ resync' = [resync EXCEPT ![e] = <<"done">>]
  /\ UNCHANGED <<surface, serverVars, typed, closes>>

-----------------------------------------------------------------------------
(* The server, as far as editors notice it.                                *)

Send(f, e, m) == [f EXCEPT ![e].inbox = Append(@, m)]

Receive(e, k) == editor[e].upstream # <<>> /\ Head(editor[e].upstream).kind = k

Received(f, e) == [f EXCEPT ![e].upstream = Tail(@)]

ServeJoin(e) ==
  /\ Receive(e, "join")
  /\ joined' = joined \cup {e}
  /\ access' = [access EXCEPT ![e] = role[e]]
  /\ editor' = Send(Received(editor, e), e, SnapshotMsg(Version, Text, role[e]))
  /\ UNCHANGED <<surface, log, texts, role, announcing, stragglers, userVars>>

Refuse(e) ==
  /\ Receive(e, "op") /\ ~access[e] /\ announcing[e] = NoAnnouncement
  /\ editor' = Send(Received(editor, e), e, ReadOnlyMsg)
  /\ UNCHANGED <<surface, serverVars, userVars>>

Transformed(m) == TransformOverHistory(m.op, m.id, log, m.base, Version)

\* Nothing is left of the operation: it is acknowledged at the current version.
AcknowledgeNoOp(e) ==
  /\ Receive(e, "op") /\ access[e] /\ announcing[e] = NoAnnouncement
  /\ Transformed(Head(editor[e].upstream)) = NoOperation
  /\ editor' = Send(Received(editor, e), e, AckMsg(Head(editor[e].upstream).id, Version))
  /\ UNCHANGED <<surface, serverVars, userVars>>

Append2Log(e, m, told) ==
  LET op == Transformed(m)
  IN  /\ op # NoOperation
      /\ log' = Append(log, [id |-> m.id, op |-> op])
      /\ texts' = Append(texts, ApplyOperation(Text, op))
      /\ announcing' = [announcing EXCEPT ![e] = [version |-> Version + 1, told |-> told]]

Accept(e) ==
  /\ Receive(e, "op") /\ access[e] /\ announcing[e] = NoAnnouncement
  /\ Append2Log(e, Head(editor[e].upstream), {})
  /\ editor' = Received(editor, e)
  /\ UNCHANGED <<surface, joined, access, role, stragglers, userVars>>

\* An operation that came in on a socket that is closed by now: its author is
\* not told, whatever connection it has meanwhile.
AcceptStraggler(e) ==
  /\ stragglers[e] # <<>> /\ announcing[e] = NoAnnouncement
  /\ stragglers' = [stragglers EXCEPT ![e] = Tail(@)]
  /\ \/ Append2Log(e, Head(stragglers[e]), {e})
     \/ /\ Transformed(Head(stragglers[e])) = NoOperation
        /\ UNCHANGED <<log, texts, announcing>>
  /\ editor' = [editor EXCEPT ![e].mishaps = IF e \in joined THEN @ \cup {"untold"} ELSE @]
  /\ UNCHANGED <<surface, joined, access, role, userVars>>

\* The author is told first, then, one by one, those who are registered.
Tell(a, e) ==
  LET n == announcing[a].version
  IN  /\ announcing[a] # NoAnnouncement
      /\ e \notin announcing[a].told
      /\ IF e = a THEN TRUE ELSE a \in announcing[a].told /\ e \in joined
      /\ announcing' = [announcing EXCEPT ![a].told = @ \cup {e}]
      /\ editor' = Send(editor, e, IF e = a THEN AckMsg(log[n].id, n)
                                   ELSE BroadcastMsg(log[n].id, n, log[n].op))
      /\ UNCHANGED <<surface, log, texts, joined, access, role, stragglers, userVars>>

EndAnnouncement(a) ==
  /\ announcing[a] # NoAnnouncement
  /\ joined \cup {a} \subseteq announcing[a].told
  /\ announcing' = [announcing EXCEPT ![a] = NoAnnouncement]
  /\ UNCHANGED <<clientVars, log, texts, joined, access, role, stragglers, userVars>>

AnswerResync(e) ==
  /\ resync[e] = <<"asked">>
  /\ resync' = [resync EXCEPT ![e] =
                  Append(@, [version |-> Version, text |-> Text, canWrite |-> role[e]])]
  /\ UNCHANGED <<clientVars, serverVars, typed, closes>>

\* The owner changes a permission, once for each editor.
Grant(e) ==
  /\ "grant" \in Disturbances /\ role[e] = (e \notin scenario.readers)
  /\ role' = [role EXCEPT ![e] = ~@]
  /\ UNCHANGED <<clientVars, log, texts, joined, access, announcing, stragglers, userVars>>

-----------------------------------------------------------------------------
Announce == \E a \in Editors : EndAnnouncement(a) \/ \E e \in Editors : Tell(a, e)

Browser(e) == \/ Mount(e) \/ LoadMetadata(e) \/ Connect(e) \/ Opened(e) \/ Deliver(e)
              \/ Resync(e)

Server(e) == \/ ServeJoin(e) \/ Refuse(e) \/ AcknowledgeNoOp(e) \/ Accept(e)
             \/ AcceptStraggler(e) \/ AnswerResync(e)

User(e) == Type(e) \/ AskResync(e)

World(e) == Closed(e) \/ Leave(e) \/ Grant(e)

AnnouncementsAwaited ==
  "overtake" \notin Disturbances => \A a \in Editors : announcing[a] = NoAnnouncement

RenderingsAwaited ==
  "lag" \notin Disturbances => \A e \in scenario.open : ~RenderingDue(e)

Next ==
  /\ \/ Announce
     \/ AnnouncementsAwaited /\ \E e \in scenario.open : Render(e)
     \/ /\ AnnouncementsAwaited /\ RenderingsAwaited
        /\ \E e \in scenario.open : Browser(e) \/ Server(e) \/ User(e) \/ World(e)
  /\ UNCHANGED scenario

Spec == Init /\ [][Next]_<<vars, scenario>>

\* The thread of a browser always comes back to its event queue, sockets deliver
\* what was sent while they are open, and the server answers; users and the
\* world do as they please.
Fairness ==
  /\ \A e \in Editors : /\ WF_vars(Render(e)) /\ WF_vars(Deliver(e)) /\ WF_vars(Resync(e))
                       /\ WF_vars(Connect(e)) /\ WF_vars(Opened(e)) /\ WF_vars(Server(e))
  /\ WF_vars(Announce)

FairSpec == Spec /\ Fairness
-----------------------------------------------------------------------------
(* Properties.                                                             *)

TypeOK ==
  /\ \A e \in Editors :
       LET r == editor[e]
           queued == [id : [client : {e}, op : Nat], op : Operations]
       IN  /\ r.socket \in {"none", "scheduled", "connecting", "open", "gone"}
           /\ r.status \in {"loading", "connecting", "connected", "disconnected", "error"}
           /\ r.canWrite \in BOOLEAN /\ r.fresh \in BOOLEAN /\ r.version \in 0..Version
           /\ r.queue \in Seq(queued) /\ r.inFlight \in Seq(queued) /\ Len(r.inFlight) <= 1
           /\ r.content \in Texts /\ r.latest \in Texts /\ Len(r.slot) <= 1
           /\ surface[e].doc \in Texts /\ surface[e].editable \in BOOLEAN
  /\ Len(texts) = Version + 1
  /\ joined \subseteq Editors
  /\ access \in [Editors -> BOOLEAN] /\ role \in [Editors -> BOOLEAN]
  /\ typed \in [Editors -> 0..scenario.maxEdits] /\ closes \in [Editors -> 0..scenario.maxCloses]

AfterPending(text, pending) == AfterTransaction(text, pending)

\* What a user looks at is the text of a version of the document with the
\* pending operations of this editor applied to it, in their order: the
\* operations that wait are those that turn the server's text into the one
\* displayed ("local pending operations are also transformed over the remote
\* operation so their future server submission remains in the correct
\* coordinate space", handleRemoteOperation). So it is unless one of the
\* mishaps happened to this editor: nothing else takes an editor off the
\* document.
EditorShowsItsVersion ==
  \A e \in Editors :
    editor[e].status = "connected" /\ ~RenderingDue(e) /\ editor[e].mishaps \subseteq {"rewound"} =>
      surface[e].doc = AfterPending(texts[editor[e].version + 1], Pending(editor[e]))

\* The same whatever happened.
EditorAlwaysShowsItsVersion ==
  \A e \in Editors :
    editor[e].status = "connected" /\ ~RenderingDue(e) =>
      surface[e].doc = AfterPending(texts[editor[e].version + 1], Pending(editor[e]))

\* Nothing is on its way between the editor and the server.
Quiet(e) == /\ editor[e].socket = "open" /\ e \in joined
            /\ editor[e].inbox = <<>> /\ editor[e].upstream = <<>>
            /\ Pending(editor[e]) = <<>>
            /\ \A a \in Editors : announcing[a] = NoAnnouncement
            /\ Len(resync[e]) < 2 /\ ~RenderingDue(e)

\* When nothing is on its way, an editor displays the server's text, and its
\* metrics say that all it sent was acknowledged, unless one of the mishaps
\* happened to it.
QuietEditorsShowTheText ==
  \A e \in Editors : Quiet(e) /\ editor[e].mishaps = {} =>
    /\ surface[e].doc = Text
    /\ editor[e].metrics.pending = 0
    /\ editor[e].metrics.sent = editor[e].metrics.acked

\* The operations of an editor whose socket never closed are accepted in the
\* order they were typed, each at most once, whatever is dropped from its queue,
\* whether or not the user leaves the page, and however late its renderings and
\* the announcements are. (An operation of a closed socket may be overtaken by one
\* of the next.)
AcceptedInTypedOrder ==
  \A v, w \in DOMAIN log :
    v < w /\ log[v].id.client = log[w].id.client /\ closes[log[v].id.client] = 0
      => log[v].id.op < log[w].id.op

\* The operations an editor sent on its present connection that it has no
\* answer to: where they are now.
Unanswered(e) ==
  {<<"sent", i>> : i \in {j \in DOMAIN editor[e].upstream : editor[e].upstream[j].kind = "op"}}
  \cup {<<"accepted", i>> : i \in {v \in {announcing[e].version} :
                             announcing[e] # NoAnnouncement /\ e \notin announcing[e].told}}
  \cup {<<"answered", i>> : i \in {j \in DOMAIN editor[e].inbox :
                                    editor[e].inbox[j].kind \in {"ack", "error"}}}

\* At most one operation of an editor is under way ("the WebSocket mode
\* intentionally keeps one client operation in flight", sendNextQueuedOperation),
\* as long as no snapshot made the editor forget one.
OneOperationInFlight ==
  \A e \in Editors : "discarded" \notin editor[e].mishaps =>
    \A x, y \in Unanswered(e) : x = y

\* Operations that wait are sent and answered, or dropped by a new snapshot:
\* the queue of an editor does not stay blocked.
QueueDrains ==
  \A e \in Editors : Pending(editor[e]) # <<>> ~> Pending(editor[e]) = <<>>
=============================================================================
