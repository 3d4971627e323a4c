-------------------------------- MODULE Room --------------------------------
(***************************************************************************)
(* The collaboration room of one document: class Room of                   *)
(* domain/collaboration/service.py with the repository calls it makes, the *)
(* WebSocket endpoint of main.py that drives it, and the database rows it  *)
(* leaves behind.                                                          *)
(*                                                                         *)
(* Every connection has one handler: the endpoint's receive loop, which    *)
(* handles one message at a time.  The event loop switches handlers where  *)
(* the code awaits, so a handler is split there: pc[c] names the await at  *)
(* which the handler of connection c is suspended, and an action is what   *)
(* the code does between two awaits.                                       *)
(*                                                                         *)
(*   absent       not connected yet                                        *)
(*   idle         waiting for the next message                             *)
(*   waiting      the lookup found no row of the operation's identity, the *)
(*                handler has not entered room.lock yet                    *)
(*   persisting   holds the lock, the database transaction is under way    *)
(*   publishing   committed, reading the document back for subscribers     *)
(*   snapshotting holds the lock, inserting a periodic snapshot            *)
(*   acking       lock released, acknowledgement under way                 *)
(*   acked        acknowledged, the broadcast has not started              *)
(*   broadcasting part of the recipients have been sent the operation      *)
(*   failed       the handler raised; leave() has not run yet              *)
(*   gone         left the room, never comes back                          *)
(*                                                                         *)
(* The time a lookup takes is arbitrary, so the handlers that wait enter   *)
(* the lock in any order, although the lock itself is first come, first    *)
(* served: who has come to it is not kept.                                 *)
(*                                                                         *)
(* A client that reconnects uses a new member of Connections: the room     *)
(* tells its connections apart by a key that both share, see roster.       *)
(* Presence and cursor payloads are not kept. Of the broadcasts that carry *)
(* them, which every handler makes all the time, it is kept what they do   *)
(* to the roster, and not which handler is busy with one.                  *)
(***************************************************************************)
EXTENDS TextOperations, FiniteSets

CONSTANTS Connections,      \* WebSocket connections, each used once
          Clients,          \* numbers that stand for client ids
          ClientOf,         \* the client that opens a connection
          Writers,          \* the clients with write access
          Ids,              \* the identities of the operations clients may submit
          RawOps,           \* the operations clients may submit
          InitialText,      \* the stored text the document starts with
          SnapshotEveryOps, \* settings.snapshot_every_ops, 0 for never
          MaxOutbox,        \* bound: messages sent to one connection
          MayClose,         \* bound: the connections whose client end may close
          NoConnection

ASSUME ConnectionsAssumption ==
  /\ Clients \subseteq Nat
  /\ Writers \subseteq Clients
  /\ ClientOf \in [Connections -> Clients]
  /\ MayClose \subseteq Connections
  /\ NoConnection \notin Connections
  /\ IsFiniteSet(Clients)

ASSUME OperationsAssumption ==
  /\ Ids \subseteq [client : Clients, op : Nat]
  /\ RawOps \subseteq Operations
  /\ InitialText \in Texts
  /\ SnapshotEveryOps \in Nat
  /\ MaxOutbox \in Nat

VARIABLES
  \* The room object, or nothing when the process has no room for the document.
  loaded, content, version,
  roster,        \* self.clients: the connection registered under a client's key
  marked,        \* keys a presence or cursor broadcast under way will remove
  lock,          \* self.lock: the connection whose handler holds it
  \* The database.
  dbContent, dbVersion,  \* the collab_documents row
  log,                   \* the collab_operations rows, by server version
  snapshots,             \* the collab_snapshots rows
  \* The handlers.
  pc,
  request,       \* the operation message a handler works on
  target,        \* next_version of the operation it accepts
  walk,           \* where its broadcast stands
  \* The sockets.
  up,            \* the connections whose client end is open
  outbox,        \* everything sent on a connection
  \* What clients did, and history no code keeps.
  submitted,     \* the message first submitted under an operation identity
  textAt,        \* the durable text of every version
  dropped,       \* versions whose handler died before its broadcast was complete
  stale          \* a commit was not followed by the update of the room

roomVars   == <<loaded, content, version, roster, marked, lock>>
dbVars     == <<dbContent, dbVersion, log, snapshots>>
handlerVars == <<pc, request, target, walk>>
socketVars == <<up, outbox>>
historyVars == <<submitted, textAt, dropped, stale>>
vars == <<roomVars, dbVars, handlerVars, socketVars, historyVars>>

-----------------------------------------------------------------------------
(* Messages, identities and the empty values.                              *)

Requests == [id : Ids, base : Nat, op : Operations]

NoRequest == [none |-> "request"]
NoWalk    == [visited |-> {}, size |-> 0, unreachable |-> {}]

SnapshotMsg(v, text)     == [kind |-> "snapshot", version |-> v, text |-> text]
AckMsg(id, v, op)        == [kind |-> "ack", version |-> v, id |-> id, op |-> op]
BroadcastMsg(id, v, op)  == [kind |-> "broadcast_op", version |-> v, id |-> id, op |-> op]
ReadOnlyMsg              == [kind |-> "error", code |-> "READ_ONLY"]

Messages == [kind : {"snapshot"}, version : Nat, text : Texts]
       \cup [kind : {"ack", "broadcast_op"}, version : Nat, id : Ids, op : Operations]
       \cup {ReadOnlyMsg}

PcValues == {"absent", "idle", "waiting",
             "persisting", "publishing", "snapshotting",
             "acking", "acked", "broadcasting", "failed", "gone"}

Critical   == {"persisting", "publishing", "snapshotting"}   \* holds room.lock
Announcing == {"snapshotting", "acking", "acked", "broadcasting"}

RosterKeys == {k \in Clients : roster[k] # NoConnection}

\* operation_by_id: the version an operation was accepted at, as a set.
VersionsOf(id) == {v \in DOMAIN log : log[v].id = id}

EmptyFunction == [v \in {} |-> NoOperation]

Extend(f, x, y) == [z \in DOMAIN f \cup {x} |-> IF z = x THEN y ELSE f[z]]

\* A message is only transmitted while the client end is open.  A send on a
\* closed socket may also go unnoticed or raise; the actions say which.
Transmit(c, msg) ==
  outbox' = IF c \in up THEN [outbox EXCEPT ![c] = Append(@, msg)] ELSE outbox

ReleaseLock == lock' = NoConnection

Goto(c, label) == pc' = [pc EXCEPT ![c] = label]

LockIsFree == lock = NoConnection
-----------------------------------------------------------------------------
TypeOK ==
  /\ loaded \in BOOLEAN
  /\ content \in Texts /\ version \in Nat
  /\ roster \in [Clients -> Connections \cup {NoConnection}]
  /\ marked \subseteq Clients
  /\ lock \in Connections \cup {NoConnection}
  /\ dbContent \in Texts /\ dbVersion \in Nat
  /\ DOMAIN log \subseteq Nat /\ log \in [DOMAIN log -> [id : Ids, op : Operations]]
  /\ snapshots \subseteq [version : Nat, text : Texts]
  /\ pc \in [Connections -> PcValues]
  /\ request \in [Connections -> Requests \cup {NoRequest}]
  /\ target \in [Connections -> Nat]
  /\ walk \in [Connections -> [visited : SUBSET Clients, size : Nat,
                               unreachable : SUBSET Clients]]
  /\ up \subseteq Connections
  /\ outbox \in [Connections -> Seq(Messages)]
  /\ submitted \in [Ids -> Requests \cup {NoRequest}]
  /\ DOMAIN textAt \subseteq Nat /\ textAt \in [DOMAIN textAt -> Texts]
  /\ dropped \subseteq Nat
  /\ stale \in BOOLEAN

Init ==
  /\ loaded = FALSE /\ content = <<>> /\ version = 0
  /\ roster = [k \in Clients |-> NoConnection]
  /\ marked = {}
  /\ lock = NoConnection
  /\ dbContent = InitialText /\ dbVersion = 0
  /\ log = EmptyFunction
  /\ snapshots = {}
  /\ pc = [c \in Connections |-> "absent"]
  /\ request = [c \in Connections |-> NoRequest]
  /\ target = [c \in Connections |-> 0]
  /\ walk = [c \in Connections |-> NoWalk]
  /\ up = {}
  /\ outbox = [c \in Connections |-> <<>>]
  /\ submitted = [i \in Ids |-> NoRequest]
  /\ textAt = [v \in {0} |-> InitialText]
  /\ dropped = {}
  /\ stale = FALSE
-----------------------------------------------------------------------------
(* Joining and leaving.                                                    *)

\* Mistake: the snapshot's text is the stored one, its version the room's.
JoinMixingStores(c) ==
  /\ pc[c] = "absent"
  /\ \A d \in up : ClientOf[d] # ClientOf[c]
  /\ loaded' = TRUE
  /\ content' = (IF loaded THEN content ELSE dbContent)
  /\ version' = (IF loaded THEN version ELSE dbVersion)
  /\ up' = up \cup {c}
  /\ roster' = [roster EXCEPT ![ClientOf[c]] = c]
  /\ outbox' = [outbox EXCEPT ![c] = Append(@, SnapshotMsg(version', dbContent))]
  /\ Goto(c, "idle")
  /\ UNCHANGED <<marked, lock, dbVars, request, target, walk, historyVars>>

\* get_room, join: the room is loaded if the process has none; the connection
\* is registered under its key, in the place of an older one of the same
\* client, and gets a snapshot.  The presence broadcast follows, see
\* MarkUnreachable.  A client connects anew only after its previous socket
\* closed.
Join(c) ==
  LET text == IF loaded THEN content ELSE dbContent
      v    == IF loaded THEN version ELSE dbVersion
  IN  /\ pc[c] = "absent"
      /\ \A d \in up : ClientOf[d] # ClientOf[c]
      /\ loaded' = TRUE /\ content' = text /\ version' = v
      /\ up' = up \cup {c}
      /\ roster' = [roster EXCEPT ![ClientOf[c]] = c]
      /\ outbox' = [outbox EXCEPT ![c] = Append(@, SnapshotMsg(v, text))]
      /\ Goto(c, "idle")
      /\ UNCHANGED <<marked, lock, dbVars, request, target, walk, historyVars>>

\* The endpoint's finally clause, reached when the next receive finds the socket
\* closed or when the handler raised: where pc says so, or outside the lock, as
\* a presence broadcast, the lookup of a retry or the insertion of a metric
\* may.  leave() pops the key, whichever connection is registered under it.
Leave(c) ==
  /\ pc[c] \in {"idle", "failed"}
  /\ up' = up \ {c}
  /\ roster' = [roster EXCEPT ![ClientOf[c]] = NoConnection]
  /\ Goto(c, "gone")
  /\ request' = [request EXCEPT ![c] = NoRequest]
  /\ target' = [target EXCEPT ![c] = 0]
  /\ walk' = [walk EXCEPT ![c] = NoWalk]
  /\ UNCHANGED <<loaded, content, version, marked, lock, dbVars, outbox, historyVars>>

\* A presence or cursor broadcast, after a join, for a message of a client or
\* in leave(): a send on a closed socket raises the RuntimeError that marks the
\* key for removal.
MarkUnreachable(k) ==
  /\ k \in RosterKeys \ marked /\ roster[k] \notin up
  /\ marked' = marked \cup {k}
  /\ UNCHANGED <<loaded, content, version, roster, lock, dbVars, handlerVars, socketVars,
                 historyVars>>

WithoutKeys(keys) == [k \in Clients |-> IF k \in keys THEN NoConnection ELSE roster[k]]

\* At its end the broadcast removes a marked key, whatever connection is
\* registered under it by now.
RemoveMarked(k) ==
  /\ k \in marked
  /\ roster' = WithoutKeys({k})
  /\ marked' = marked \ {k}
  /\ UNCHANGED <<loaded, content, version, lock, dbVars, handlerVars, socketVars, historyVars>>

\* The client end closes: a closed tab, a lost network, a reload.
Disconnect(c) ==
  /\ c \in up \cap MayClose
  /\ up' = up \ {c}
  /\ UNCHANGED <<roomVars, dbVars, handlerVars, outbox, historyVars>>

-----------------------------------------------------------------------------
(* Receiving an operation message: handle_operation up to the lock.        *)

\* An operation identity belongs to one client, and a client that submits it
\* again repeats its first message.
Receive(c, m) ==
  /\ pc[c] = "idle"
  /\ Len(outbox[c]) < MaxOutbox
  /\ m.id.client = ClientOf[c]
  /\ submitted[m.id] \in {NoRequest, m}
  /\ submitted' = [submitted EXCEPT ![m.id] = m]

RefuseReadOnly(c, m) ==
  /\ Receive(c, m)
  /\ ClientOf[c] \notin Writers
  /\ Transmit(c, ReadOnlyMsg)
  /\ UNCHANGED <<roomVars, dbVars, handlerVars, up, textAt, dropped, stale>>

\* Mistake: the retry is acknowledged at the room's current version.
AcknowledgeAgainAtCurrent(c, m) ==
  /\ Receive(c, m)
  /\ ClientOf[c] \in Writers
  /\ \E v \in VersionsOf(m.id) : Transmit(c, AckMsg(m.id, version, log[v].op))
  /\ UNCHANGED <<roomVars, dbVars, handlerVars, up, textAt, dropped, stale>>

\* The identity has a row already: the stored outcome is acknowledged again.
AcknowledgeAgain(c, m) ==
  /\ Receive(c, m)
  /\ ClientOf[c] \in Writers
  /\ \E v \in VersionsOf(m.id) : Transmit(c, AckMsg(m.id, v, log[v].op))
  /\ UNCHANGED <<roomVars, dbVars, handlerVars, up, textAt, dropped, stale>>

\* The identity has no row yet.
LookUp(c, m) ==
  /\ Receive(c, m)
  /\ ClientOf[c] \in Writers
  /\ VersionsOf(m.id) = {}
  /\ request' = [request EXCEPT ![c] = m]
  /\ Goto(c, "waiting")
  /\ UNCHANGED <<roomVars, dbVars, target, walk, socketVars, textAt, dropped, stale>>

-----------------------------------------------------------------------------
(* The critical section.                                                   *)

\* Mistake: the row of the base version itself is read as well.
TransformedFromBase(m) ==
  IF m.base < version
  THEN TransformOverHistory(m.op, m.id, log, m.base - 1, dbVersion)
  ELSE m.op

\* Mistake: the newest row is not read.
TransformedButLast(m) ==
  IF m.base < version
  THEN TransformOverHistory(m.op, m.id, log, m.base, dbVersion - 1)
  ELSE m.op

\* The operation over the rows newer than its base; rows of versions the room
\* has not reached yet are read as well.
Transformed(m) ==
  IF m.base < version
  THEN TransformOverHistory(m.op, m.id, log, m.base, dbVersion)
  ELSE m.op

\* The lock is acquired, the operation transformed.  If nothing is left of it,
\* the raw operation is acknowledged at the current version, and that is all.
AcknowledgeNoOp(c) ==
  /\ LockIsFree /\ pc[c] = "waiting"
  /\ Transformed(request[c]) = NoOperation
  /\ Transmit(c, AckMsg(request[c].id, version, request[c].op))
  /\ Goto(c, "idle")
  /\ request' = [request EXCEPT ![c] = NoRequest]
  /\ UNCHANGED <<roomVars, dbVars, target, walk, up, historyVars>>

Transform(c) ==
  /\ LockIsFree /\ pc[c] = "waiting"
  /\ Transformed(request[c]) # NoOperation
  /\ request' = [request EXCEPT ![c].op = Transformed(request[c])]
  /\ target' = [target EXCEPT ![c] = version + 1]
  /\ lock' = c
  /\ Goto(c, "persisting")
  /\ UNCHANGED <<loaded, content, version, roster, marked, dbVars, walk, socketVars, historyVars>>

\* Mistake: no unique key on the operation identity.
PersistTwice(c) ==
  LET m    == request[c]
      text == ApplyOperation(content, m.op)
  IN  /\ pc[c] = "persisting"
      /\ target[c] \notin DOMAIN log
      /\ dbContent' = text
      /\ dbVersion' = target[c]
      /\ log' = Extend(log, target[c], [id |-> m.id, op |-> m.op])
      /\ textAt' = Extend(textAt, target[c], text)
      /\ Goto(c, "publishing")
      /\ UNCHANGED <<roomVars, snapshots, request, target, walk, socketVars,
                     submitted, dropped, stale>>

\* The transaction of persist_operation.  The primary key admits one row per
\* operation identity, a unique constraint one row per version.
Persist(c) ==
  LET m    == request[c]
      text == ApplyOperation(content, m.op)
  IN  /\ pc[c] = "persisting"
      /\ VersionsOf(m.id) = {}
      /\ target[c] \notin DOMAIN log
      /\ dbContent' = text
      /\ dbVersion' = target[c]
      /\ log' = Extend(log, target[c], [id |-> m.id, op |-> m.op])
      /\ textAt' = Extend(textAt, target[c], text)
      /\ Goto(c, "publishing")
      /\ UNCHANGED <<roomVars, snapshots, request, target, walk, socketVars,
                     submitted, dropped, stale>>

\* Mistake: the room was updated ahead of the transaction.
PersistFailsTooLate(c) ==
  /\ pc[c] = "persisting"
  /\ ReleaseLock
  /\ Goto(c, "failed")
  /\ content' = ApplyOperation(content, request[c].op)
  /\ version' = target[c]
  /\ UNCHANGED <<loaded, roster, marked, dbVars, request, target, walk, socketVars, historyVars>>

\* Mistake: the lock is not released when the transaction fails.
PersistFailsLocked(c) ==
  /\ pc[c] = "persisting"
  /\ Goto(c, "failed")
  /\ UNCHANGED <<roomVars, dbVars, request, target, walk, socketVars, historyVars>>

\* The transaction is rolled back: a constraint failed or the database did.
PersistFails(c) ==
  /\ pc[c] = "persisting"
  /\ ReleaseLock
  /\ Goto(c, "failed")
  /\ UNCHANGED <<loaded, content, version, roster, marked, dbVars, request, target, walk,
                 socketVars, historyVars>>

SnapshotDue(v) == SnapshotEveryOps > 0 /\ v % SnapshotEveryOps = 0

\* Mistake: the room takes over the version but not the text.
PublishVersionOnly(c) ==
  /\ pc[c] = "publishing"
  /\ version' = target[c]
  /\ IF SnapshotDue(target[c])
     THEN Goto(c, "snapshotting") /\ UNCHANGED lock
     ELSE Goto(c, "acking") /\ ReleaseLock
  /\ UNCHANGED <<loaded, content, roster, marked, dbVars, request, target, walk, socketVars,
                 historyVars>>

\* The document was read back and published to the subscribers; the room takes
\* over the new text and version, and gives the lock back unless a periodic
\* snapshot is due.
Publish(c) ==
  /\ pc[c] = "publishing"
  /\ content' = ApplyOperation(content, request[c].op)
  /\ version' = target[c]
  /\ IF SnapshotDue(target[c])
     THEN Goto(c, "snapshotting") /\ UNCHANGED lock
     ELSE Goto(c, "acking") /\ ReleaseLock
  /\ UNCHANGED <<loaded, roster, marked, dbVars, request, target, walk, socketVars, historyVars>>

\* Reading the document back raises: the author has lost access since joining,
\* or the database fails.  The commit stands, the room is not updated.
PublishFails(c) ==
  /\ pc[c] = "publishing"
  /\ ReleaseLock
  /\ Goto(c, "failed")
  /\ dropped' = dropped \cup {target[c]}
  /\ stale' = TRUE
  /\ UNCHANGED <<loaded, content, version, roster, marked, dbVars, request, target, walk,
                 socketVars, submitted, textAt>>

SaveSnapshot(c) ==
  /\ pc[c] = "snapshotting"
  /\ snapshots' = snapshots \cup {[version |-> version, text |-> content]}
  /\ ReleaseLock
  /\ Goto(c, "acking")
  /\ UNCHANGED <<loaded, content, version, roster, marked, dbContent, dbVersion, log,
                 request, target, walk, socketVars, historyVars>>

SaveSnapshotFails(c) ==
  /\ pc[c] = "snapshotting"
  /\ ReleaseLock
  /\ Goto(c, "failed")
  /\ dropped' = dropped \cup {target[c]}
  /\ UNCHANGED <<loaded, content, version, roster, marked, dbVars, request, target, walk,
                 socketVars, submitted, textAt, stale>>
-----------------------------------------------------------------------------
(* After the lock: the acknowledgement and the broadcast.                  *)

Acknowledge(c) ==
  /\ pc[c] = "acking"
  /\ Transmit(c, AckMsg(request[c].id, target[c], request[c].op))
  /\ Goto(c, "acked")
  /\ UNCHANGED <<roomVars, dbVars, request, target, walk, up, historyVars>>

\* A step of the broadcast's loop over self.clients.items().  The loop starts
\* with the roster as it stands; Python raises if the size changed since.
Walk(c) ==
  IF pc[c] = "acked"
  THEN [visited |-> {ClientOf[c]}, size |-> Cardinality(RosterKeys), unreachable |-> {}]
  ELSE walk[c]

Broadcasting(c) ==
  /\ pc[c] \in {"acked", "broadcasting"}
  /\ Cardinality(RosterKeys) = Walk(c).size

\* The operation is sent to the connection registered under key k, or a send
\* on a closed socket goes unnoticed, or it raises the RuntimeError that marks
\* the key for removal.
DeliverTo(c, k) ==
  LET w == [Walk(c) EXCEPT !.visited = @ \cup {k}]
      d == roster[k]
  IN  /\ Broadcasting(c)
      /\ k \in RosterKeys \ Walk(c).visited
      /\ Transmit(d, BroadcastMsg(request[c].id, target[c], request[c].op))
      /\ \/ walk' = [walk EXCEPT ![c] = w]
         \/ d \notin up /\ walk' = [walk EXCEPT ![c] = [w EXCEPT !.unreachable = @ \cup {k}]]
      /\ Goto(c, "broadcasting")
      /\ UNCHANGED <<roomVars, dbVars, request, target, up, historyVars>>

\* Mistake: the loop ends at the first recipient it cannot reach.
FinishBroadcastEarly(c) ==
  /\ Broadcasting(c)
  /\ \/ RosterKeys \subseteq Walk(c).visited
     \/ Walk(c).unreachable # {}
  /\ roster' = WithoutKeys(Walk(c).unreachable)
  /\ Goto(c, "idle")
  /\ request' = [request EXCEPT ![c] = NoRequest]
  /\ target' = [target EXCEPT ![c] = 0]
  /\ walk' = [walk EXCEPT ![c] = NoWalk]
  /\ UNCHANGED <<loaded, content, version, marked, lock, dbVars, socketVars, historyVars>>

\* Mistake: every recipient is removed, not only those that cannot be reached.
FinishBroadcastAlone(c) ==
  /\ Broadcasting(c)
  /\ RosterKeys \subseteq Walk(c).visited
  /\ roster' = WithoutKeys(Walk(c).visited)
  /\ Goto(c, "idle")
  /\ request' = [request EXCEPT ![c] = NoRequest]
  /\ target' = [target EXCEPT ![c] = 0]
  /\ walk' = [walk EXCEPT ![c] = NoWalk]
  /\ UNCHANGED <<loaded, content, version, marked, lock, dbVars, socketVars, historyVars>>

\* All keys were visited: the marked ones are removed, whatever connection is
\* registered under them by now, and the handler takes the next message.
FinishBroadcast(c) ==
  /\ Broadcasting(c)
  /\ RosterKeys \subseteq Walk(c).visited
  /\ roster' = WithoutKeys(Walk(c).unreachable)
  /\ Goto(c, "idle")
  /\ request' = [request EXCEPT ![c] = NoRequest]
  /\ target' = [target EXCEPT ![c] = 0]
  /\ walk' = [walk EXCEPT ![c] = NoWalk]
  /\ UNCHANGED <<loaded, content, version, marked, lock, dbVars, socketVars, historyVars>>

\* The handler of an accepted operation raises before its broadcast is
\* complete: its own client end is closed when it acknowledges, a recipient's
\* is when it delivers, or the roster changed its size between two recipients.
AnnouncementFails(c) ==
  /\ \/ pc[c] = "acking" /\ c \notin up
     \/ /\ Broadcasting(c)
        /\ \E k \in RosterKeys \ Walk(c).visited : roster[k] \notin up
     \/ pc[c] = "broadcasting" /\ Cardinality(RosterKeys) # walk[c].size
  /\ Goto(c, "failed")
  /\ dropped' = dropped \cup {target[c]}
  /\ UNCHANGED <<roomVars, dbVars, request, target, walk, socketVars, submitted, textAt,
                 stale>>

-----------------------------------------------------------------------------
(* The surroundings.                                                       *)

\* The server process stops and starts again: what it kept in memory is gone,
\* every socket closes, committed rows stay.
Restart ==
  /\ loaded
  /\ loaded' = FALSE /\ content' = <<>> /\ version' = 0
  /\ roster' = [k \in Clients |-> NoConnection] /\ marked' = {}
  /\ ReleaseLock
  /\ pc' = [c \in Connections |-> IF pc[c] = "absent" THEN "absent" ELSE "gone"]
  /\ request' = [c \in Connections |-> NoRequest]
  /\ target' = [c \in Connections |-> 0]
  /\ walk' = [c \in Connections |-> NoWalk]
  /\ up' = {}
  /\ dropped' = dropped \cup {target[c] : c \in {d \in Connections :
                                pc[d] \in Announcing \cup {"publishing"}}}
  /\ stale' = FALSE
  /\ UNCHANGED <<dbVars, outbox, submitted, textAt>>

-----------------------------------------------------------------------------
\* What a client may submit: an operation against a version of the document
\* that the room has reached.
Submissions(c) ==
  [id : {i \in Ids : i.client = ClientOf[c]}, base : 0..version, op : RawOps]

Handle(c) ==
  \/ AcknowledgeNoOp(c) \/ Transform(c)
  \/ Persist(c) \/ PersistFails(c)
  \/ Publish(c) \/ PublishFails(c)
  \/ SaveSnapshot(c) \/ SaveSnapshotFails(c)
  \/ Acknowledge(c)
  \/ \E k \in Clients : DeliverTo(c, k)
  \/ FinishBroadcast(c)
  \/ AnnouncementFails(c)

Submit(c, m) == RefuseReadOnly(c, m) \/ AcknowledgeAgain(c, m) \/ LookUp(c, m)

Next ==
  \/ \E c \in Connections : \/ Join(c) \/ Leave(c) \/ Disconnect(c) \/ Handle(c)
                            \/ \E m \in Submissions(c) : Submit(c, m)
  \/ \E k \in Clients : MarkUnreachable(k) \/ RemoveMarked(k)
  \/ Restart

Spec == Init /\ [][Next]_vars

\* The event loop runs every handler that is not waiting for another one, and
\* an await of the database or of a socket returns or raises.  The lock serves
\* the handlers in the order they come to it: one that waits is not passed over
\* for ever.
FairSpec ==
  Spec /\ \A c \in Connections : /\ WF_vars(Handle(c))
                                 /\ SF_vars(Transform(c) \/ AcknowledgeNoOp(c))
-----------------------------------------------------------------------------
(* Properties.                                                             *)

\* The room implements the abstract document: its durable rows are the text,
\* the revision and the accepted operations, and whatever handlers, failures
\* and restarts do, every change of them is one commit that transforms an
\* operation as its client first submitted it over everything accepted since
\* its base.
Document == INSTANCE SequentialDocument
              WITH text <- dbContent, revision <- dbVersion, accepted <- log,
                   formulated <- submitted
ImplementsDocument == Document!Spec

\* The durable history is one chain: versions are consecutive, the text of
\* each is the text before it with the operation logged for it applied, and
\* the document row is the end of the chain.  It survives restarts and every
\* failure between two awaits (persist_operation, one transaction).
LogReplays ==
  /\ DOMAIN textAt = 0..dbVersion
  /\ DOMAIN log = 1..dbVersion
  /\ textAt[0] = InitialText
  /\ \A v \in 1..dbVersion : textAt[v] = ApplyOperation(textAt[v - 1], log[v].op)
  /\ dbContent = textAt[dbVersion]

\* While no handler is past its commit and no publication failed, the room
\* that serves joins and transforms operations is the document that is stored.
RoomMirrorsDatabase ==
  loaded /\ ~stale /\ (\A c \in Connections : pc[c] # "publishing")
    => content = dbContent /\ version = dbVersion

\* A retried submission is never accepted a second time, although the lookup
\* that recognises it runs before the lock is taken.
AcceptedOnce ==
  \A v, w \in DOMAIN log : log[v].id = log[w].id => v = w

\* An operation that lay within the text its author saw lies within the text
\* it is applied to: the transformation over the missed operations never
\* leaves the clamping of apply_operation anything to hide.
AcceptedInBounds ==
  \A v \in DOMAIN log :
    LET raw == submitted[log[v].id]
    IN  InBounds(raw.op, Len(textAt[raw.base])) => InBounds(log[v].op, Len(textAt[v - 1]))

\* The client came back: it has another connection besides c.
Reconnected(c) == \E d \in Connections \ {c} : ClientOf[d] = ClientOf[c] /\ pc[d] # "absent"

\* Nothing is announced before it is durable, and everybody is told the same:
\* every broadcast of an operation names its version and its stored form, and
\* so does every acknowledgement of an operation that is accepted, at any
\* time, if its client has this one connection.  In particular an operation
\* acknowledged as a no-op is not accepted later.
AnnouncedAsStored ==
  \A c \in Connections : \A i \in DOMAIN outbox[c] :
    LET msg == outbox[c][i]
    IN  /\ msg.kind = "broadcast_op" => /\ msg.version \in VersionsOf(msg.id)
                                        /\ msg.op = log[msg.version].op
        /\ msg.kind = "ack" /\ ~Reconnected(c) =>
             \A v \in VersionsOf(msg.id) : msg.version = v /\ msg.op = log[v].op

\* The same for every acknowledgement, over whatever connection the operation
\* is retried, as long as no publication failed: a retry gets the stored
\* outcome (operation_by_id, "idempotent retry handling").
RetryGetsStoredOutcome ==
  ~stale => \A c \in Connections : \A i \in DOMAIN outbox[c] :
    LET msg == outbox[c][i]
    IN  msg.kind = "ack" => \A v \in VersionsOf(msg.id) :
                              msg.version = v /\ msg.op = log[v].op

\* A snapshot, sent to a joining client or stored periodically, is the text of
\* its version.
SnapshotsAreHistory ==
  /\ \A row \in snapshots : row.version \in DOMAIN textAt /\ textAt[row.version] = row.text
  /\ \A c \in Connections : \A i \in DOMAIN outbox[c] :
       LET msg == outbox[c][i]
       IN  msg.kind = "snapshot" => /\ msg.version \in DOMAIN textAt
                                    /\ textAt[msg.version] = msg.text

\* The versions a connection was told of after its snapshot.
Heard(c) == {outbox[c][i].version : i \in {j \in DOMAIN outbox[c] :
                                             outbox[c][j].kind \in {"ack", "broadcast_op"}}}

\* When no accepted operation is being announced, a connection that is registered and open
\* has been told of every version since its snapshot, unless the handler of a
\* version died (dropped) or the version is an operation its own client sent
\* over an earlier connection.
DeliveryComplete ==
  (\A d \in Connections : pc[d] \notin Announcing) =>
    \A c \in up : roster[ClientOf[c]] = c =>
      \A v \in (outbox[c][1].version + 1)..version :
        \/ v \in Heard(c) \cup dropped
        \/ log[v].id.client = ClientOf[c] /\ Reconnected(c)

\* Every operation message that is received is dealt with: its handler takes
\* the next message, or the connection ends.  Nobody keeps the lock.
EveryRequestEnds ==
  \A c \in Connections :
    pc[c] = "waiting" ~> pc[c] \in {"idle", "failed", "gone"}

\* A connection whose client end is open and whose handler serves it is the
\* one registered for its client, so that it gets the broadcasts, unless the
\* client had another one before: the end of that one's handler (leave), and a
\* broadcast that found it closed, remove the newer one.
ServedMeansRegistered ==
  \A c \in up : pc[c] = "idle" /\ ~Reconnected(c) => roster[ClientOf[c]] = c
=============================================================================
