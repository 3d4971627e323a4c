----------------------------- MODULE RoomProofs -----------------------------
(***************************************************************************)
(* Proofs about the collaboration room, for every set of connections,      *)
(* clients, operations and characters: type correctness, the durable       *)
(* history, what the room in memory has to do with it, who is registered,  *)
(* what is announced and to whom, and the implementation of the abstract   *)
(* document.                                                               *)
(*                                                                         *)
(* None of the properties is inductive.  What they rest on is the lock: a  *)
(* handler in the critical section holds the lock, so that there           *)
(* is one at most, the version it is about to write is the successor of    *)
(* the room's, and nobody moves the room's version under it.               *)
(***************************************************************************)
EXTENDS Room, TextOperationsProofs, FiniteSetTheorems

Busy == {"waiting"} \cup Critical \cup Announcing

\* The room is somewhere in the durable history, at its end or behind it.
RoomInHistory ==
  /\ version <= dbVersion
  /\ loaded => content = textAt[version]
  /\ ~loaded => /\ version = 0
                /\ lock = NoConnection
                /\ \A c \in Connections : pc[c] \in {"absent", "gone"}

\* Mutual exclusion: a handler in the critical section holds the lock.
LockHeld == \A c \in Connections : pc[c] \in Critical => lock = c

\* A handler at work has a request.
RequestsKept == \A c \in Connections : pc[c] \in Busy => request[c] \in Requests

\* What the holder of the lock writes next, and what it has written.
HolderReady ==
  \A c \in Connections :
    /\ pc[c] = "persisting" => target[c] = version + 1
    /\ pc[c] = "publishing" => /\ target[c] = dbVersion
                               /\ dbVersion = version + 1
                               /\ log[dbVersion].op = request[c].op

\* The room lags behind only between a commit and its publication, or after a
\* publication that failed.
RoomLagsOnlyThen ==
  loaded /\ ~stale => version = dbVersion \/ \E c \in Connections : pc[c] = "publishing"

HistoryInv == TypeOK /\ LogReplays /\ RoomInHistory /\ LockHeld /\ RequestsKept /\ HolderReady

-----------------------------------------------------------------------------
(* Facts about single definitions.                                         *)

\* The critical section holds one handler at most.
LEMMA MutualExclusion ==
  ASSUME LockHeld, NEW c \in Connections, NEW d \in Connections,
         pc[c] \in Critical, pc[d] \in Critical
  PROVE  c = d
BY DEF LockHeld

\* What is sent is typed.
LEMMA TransmitType ==
  ASSUME outbox \in [Connections -> Seq(Messages)],
         NEW c \in Connections, NEW msg \in Messages, Transmit(c, msg)
  PROVE  outbox' \in [Connections -> Seq(Messages)]
BY DEF Transmit

\* Messages are typed.
LEMMA MessagesType ==
  ASSUME NEW id \in Ids, NEW v \in Nat, NEW op \in Operations
  PROVE  AckMsg(id, v, op) \in Messages /\ BroadcastMsg(id, v, op) \in Messages
BY DEF Messages, AckMsg, BroadcastMsg

\* A typed request has typed parts.
LEMMA RequestParts ==
  ASSUME NEW m \in Requests
  PROVE  m.id \in Ids /\ m.base \in Nat /\ m.op \in Operations
BY DEF Requests

\* What a client submits is a request.
LEMMA SubmissionsType ==
  ASSUME version \in Nat, NEW c \in Connections, NEW m \in Submissions(c)
  PROVE  m \in Requests /\ m.base <= version /\ m.op \in RawOps
BY OperationsAssumption DEF Submissions, Requests

\* What the transformation under the lock returns is an operation or nothing.
LEMMA TransformedType ==
  ASSUME TypeOK, version <= dbVersion, NEW m \in Requests
  PROVE  Transformed(m) \in Operations \cup {NoOperation}
<1>1. \A v \in DOMAIN log : log[v].op \in Operations
  BY DEF TypeOK
<1>2. CASE m.base < version
  <2>1. m.base <= dbVersion /\ m.base \in Nat /\ dbVersion \in Nat
    BY <1>2, RequestParts DEF TypeOK
  <2> QED BY <1>1, <1>2, <2>1, RequestParts, HistoryType DEF Transformed
<1>3. CASE ~(m.base < version)
  BY <1>3, RequestParts DEF Transformed
<1> QED BY <1>2, <1>3

-----------------------------------------------------------------------------
(* Type correctness.                                                       *)

\* The initial state has the right types.
LEMMA InitTyped == Init => TypeOK
<1> SUFFICES ASSUME Init PROVE TypeOK
  OBVIOUS
<1>1. DOMAIN log = {} /\ log \in [DOMAIN log -> [id : Ids, op : Operations]]
  BY DEF Init, EmptyFunction
<1>2. DOMAIN textAt = {0} /\ textAt \in [DOMAIN textAt -> Texts]
  BY OperationsAssumption DEF Init
<1>3. content \in Texts /\ dbContent \in Texts
  BY OperationsAssumption DEF Init, Texts
<1>4. walk \in [Connections -> [visited : SUBSET Clients, size : Nat, unreachable : SUBSET Clients]]
  BY DEF Init, NoWalk
<1>5. outbox \in [Connections -> Seq(Messages)] /\ lock = NoConnection /\ marked = {}
  BY DEF Init
<1>6. /\ request \in [Connections -> Requests \cup {NoRequest}]
      /\ submitted \in [Ids -> Requests \cup {NoRequest}]
      /\ target \in [Connections -> Nat] /\ pc \in [Connections -> PcValues]
  BY DEF Init, PcValues
<1>7. roster \in [Clients -> Connections \cup {NoConnection}]
  BY DEF Init
<1>8. /\ snapshots \subseteq [version : Nat, text : Texts]
      /\ up \subseteq Connections /\ dropped \subseteq Nat
      /\ version \in Nat /\ dbVersion \in Nat
  BY DEF Init
<1>9. loaded \in BOOLEAN /\ stale \in BOOLEAN
  BY DEF Init
<1>10. DOMAIN log \subseteq Nat /\ DOMAIN textAt \subseteq Nat
  BY <1>1, <1>2
<1> QED BY <1>1, <1>2, <1>3, <1>4, <1>5, <1>6, <1>7, <1>8, <1>9, <1>10 DEF TypeOK

\* Every step preserves the types.
LEMMA StepTyped ==
  ASSUME TypeOK, RoomInHistory, LockHeld, RequestsKept, [Next]_vars
  PROVE  TypeOK'
<1> USE DEF TypeOK, roomVars, dbVars, handlerVars, socketVars, historyVars, Goto, PcValues
<1>1. ASSUME NEW c \in Connections, Join(c) PROVE TypeOK'
  <2>1. content' \in Texts /\ version' \in Nat
    BY <1>1 DEF Join
  <2>2. outbox' = [outbox EXCEPT ![c] = Append(@, SnapshotMsg(version', content'))]
    BY <1>1 DEF Join
  <2>3. outbox' \in [Connections -> Seq(Messages)]
    BY <2>1, <2>2 DEF SnapshotMsg, Messages
  <2>4. roster' \in [Clients -> Connections \cup {NoConnection}]
    BY <1>1, ConnectionsAssumption DEF Join
  <2> QED BY <1>1, <2>1, <2>3, <2>4 DEF Join
<1>2. ASSUME NEW c \in Connections, Leave(c) PROVE TypeOK'
  BY <1>2, ConnectionsAssumption DEF Leave, NoWalk
<1>3. ASSUME NEW c \in Connections, Disconnect(c) PROVE TypeOK'
  BY <1>3 DEF Disconnect
<1>4. ASSUME NEW c \in Connections, NEW m \in Submissions(c), RefuseReadOnly(c, m) PROVE TypeOK'
  <2>1. outbox' \in [Connections -> Seq(Messages)]
    BY <1>4, TransmitType DEF RefuseReadOnly, Messages
  <2>2. submitted' \in [Ids -> Requests \cup {NoRequest}]
    BY <1>4, SubmissionsType DEF RefuseReadOnly, Receive
  <2> QED BY <1>4, <2>1, <2>2 DEF RefuseReadOnly
<1>5. ASSUME NEW c \in Connections, NEW m \in Submissions(c), AcknowledgeAgain(c, m) PROVE TypeOK'
  BY <1>5, SubmissionsType, TransmitType, MessagesType DEF AcknowledgeAgain, Receive, VersionsOf
<1>6. ASSUME NEW c \in Connections, NEW m \in Submissions(c), LookUp(c, m) PROVE TypeOK'
  <2>1. submitted' \in [Ids -> Requests \cup {NoRequest}]
    BY <1>6, SubmissionsType DEF LookUp, Receive
  <2>2. request' \in [Connections -> Requests \cup {NoRequest}]
    BY <1>6, SubmissionsType DEF LookUp
  <2> QED BY <1>6, <2>1, <2>2 DEF LookUp
<1>7. ASSUME NEW c \in Connections, AcknowledgeNoOp(c) PROVE TypeOK'
  BY <1>7, TransmitType, MessagesType, RequestParts
     DEF AcknowledgeNoOp, RequestsKept, Busy, ReleaseLock
<1>8. ASSUME NEW c \in Connections, Transform(c) PROVE TypeOK'
  <2>1. request[c] \in Requests
    BY <1>8 DEF Transform, RequestsKept, Busy
  <2>2. Transformed(request[c]) \in Operations
    BY <1>8, <2>1, TransformedType DEF Transform, RoomInHistory
  <2>3. [request[c] EXCEPT !.op = Transformed(request[c])] \in Requests
    BY <2>1, <2>2 DEF Requests
  <2>4. request' \in [Connections -> Requests \cup {NoRequest}]
    BY <1>8, <2>3 DEF Transform
  <2>5. target' \in [Connections -> Nat]
    BY <1>8 DEF Transform
  <2> QED BY <1>8, <2>4, <2>5 DEF Transform
<1>9. ASSUME NEW c \in Connections, Persist(c) PROVE TypeOK'
  BY <1>9, ApplyType, RequestParts DEF Persist, RequestsKept, Busy, Critical, Extend
<1>10. ASSUME NEW c \in Connections, PersistFails(c) PROVE TypeOK'
  BY <1>10 DEF PersistFails, LockHeld, Critical, ReleaseLock
<1>11. ASSUME NEW c \in Connections, Publish(c) PROVE TypeOK'
  BY <1>11, ApplyType, RequestParts
     DEF Publish, RequestsKept, Busy, LockHeld, Critical, ReleaseLock
<1>12. ASSUME NEW c \in Connections, PublishFails(c) PROVE TypeOK'
  BY <1>12 DEF PublishFails, LockHeld, Critical, ReleaseLock
<1>13. ASSUME NEW c \in Connections, SaveSnapshot(c) PROVE TypeOK'
  BY <1>13 DEF SaveSnapshot, LockHeld, Critical, ReleaseLock
<1>14. ASSUME NEW c \in Connections, SaveSnapshotFails(c) PROVE TypeOK'
  BY <1>14 DEF SaveSnapshotFails, LockHeld, Critical, ReleaseLock
<1>15. ASSUME NEW c \in Connections, Acknowledge(c) PROVE TypeOK'
  BY <1>15, TransmitType, MessagesType, RequestParts
     DEF Acknowledge, RequestsKept, Busy, Announcing
<1>16. ASSUME NEW c \in Connections, NEW k \in Clients, DeliverTo(c, k) PROVE TypeOK'
  <2>1. request[c] \in Requests /\ target[c] \in Nat
    BY <1>16 DEF DeliverTo, Broadcasting, RequestsKept, Busy, Announcing
  <2>2. BroadcastMsg(request[c].id, target[c], request[c].op) \in Messages
    BY <2>1, RequestParts, MessagesType
  <2>3. roster[k] \in Connections
    BY <1>16 DEF DeliverTo, RosterKeys
  <2>4. outbox' \in [Connections -> Seq(Messages)]
    BY <1>16, <2>2, <2>3, TransmitType DEF DeliverTo
  <2>5. Walk(c) \in [visited : SUBSET Clients, size : Nat, unreachable : SUBSET Clients]
    <3>1. Cardinality(RosterKeys) \in Nat
      BY ConnectionsAssumption, FS_Subset, FS_CardinalityType DEF RosterKeys
    <3> QED BY <3>1, ConnectionsAssumption DEF Walk
  <2>6. walk' \in [Connections -> [visited : SUBSET Clients, size : Nat, unreachable : SUBSET Clients]]
    <3>1. [Walk(c) EXCEPT !.visited = @ \cup {k}]
            \in [visited : SUBSET Clients, size : Nat, unreachable : SUBSET Clients]
      BY <2>5
    <3>2. \E w \in [visited : SUBSET Clients, size : Nat, unreachable : SUBSET Clients] :
            walk' = [walk EXCEPT ![c] = w]
      <4>1. CASE walk' = [walk EXCEPT ![c] = [Walk(c) EXCEPT !.visited = @ \cup {k}]]
        BY <3>1, <4>1
      <4>2. CASE walk' = [walk EXCEPT ![c] =
                           [[Walk(c) EXCEPT !.visited = @ \cup {k}] EXCEPT !.unreachable = @ \cup {k}]]
        <5>1. [[Walk(c) EXCEPT !.visited = @ \cup {k}] EXCEPT !.unreachable = @ \cup {k}]
                \in [visited : SUBSET Clients, size : Nat, unreachable : SUBSET Clients]
          BY <2>5
        <5> QED BY <4>2, <5>1
      <4> QED BY <1>16, <4>1, <4>2 DEF DeliverTo
    <3> QED BY <3>2
  <2> QED BY <1>16, <2>4, <2>6 DEF DeliverTo
<1>17. ASSUME NEW c \in Connections, FinishBroadcast(c) PROVE TypeOK'
  BY <1>17 DEF FinishBroadcast, NoWalk, WithoutKeys
<1>18. ASSUME NEW c \in Connections, AnnouncementFails(c) PROVE TypeOK'
  BY <1>18 DEF AnnouncementFails
<1>19. ASSUME Restart PROVE TypeOK'
  <2>1. pc' \in [Connections -> PcValues]
    BY <1>19 DEF Restart
  <2>2. dropped' \subseteq Nat
    BY <1>19 DEF Restart
  <2>3. content' \in Texts /\ lock' = NoConnection
    BY <1>19 DEF Restart, ReleaseLock, Texts
  <2>4. walk' \in [Connections -> [visited : SUBSET Clients, size : Nat, unreachable : SUBSET Clients]]
    BY <1>19 DEF Restart, NoWalk
  <2> QED BY <1>19, <2>1, <2>2, <2>3, <2>4 DEF Restart
<1>20. ASSUME UNCHANGED vars PROVE TypeOK'
  BY <1>20 DEF vars
<1>21. ASSUME NEW k \in Clients, MarkUnreachable(k) PROVE TypeOK'
  BY <1>21 DEF MarkUnreachable
<1>22. ASSUME NEW k \in Clients, RemoveMarked(k) PROVE TypeOK'
  BY <1>22 DEF RemoveMarked, WithoutKeys
<1> QED BY <1>1, <1>2, <1>3, <1>4, <1>5, <1>6, <1>7, <1>8, <1>9, <1>10, <1>11, <1>12, <1>13,
           <1>14, <1>15, <1>16, <1>17, <1>18, <1>19, <1>20, <1>21, <1>22 DEF Next, Handle, Submit

-----------------------------------------------------------------------------
(* The durable history.                                                    *)

\* Only a commit changes the durable document.
LEMMA OnlyPersistWrites ==
  ASSUME [Next]_vars, \A c \in Connections : ~Persist(c)
  PROVE  UNCHANGED <<dbContent, dbVersion, log, textAt>>
BY DEF Next, Handle, Submit, vars, roomVars, dbVars, handlerVars, socketVars, historyVars,
       Join, Leave, Disconnect, RefuseReadOnly, AcknowledgeAgain, LookUp, AcknowledgeNoOp,
       Transform, PersistFails, Publish, PublishFails, SaveSnapshot, SaveSnapshotFails,
       Acknowledge, DeliverTo, FinishBroadcast, AnnouncementFails, Restart,
       MarkUnreachable, RemoveMarked

\* The version a commit writes is the next one: a room that lags behind would
\* write a version that has a row, which the unique constraint refuses.
LEMMA PersistIsNext ==
  ASSUME HistoryInv, NEW c \in Connections, Persist(c)
  PROVE  /\ version = dbVersion
         /\ target[c] = dbVersion + 1
         /\ loaded
         /\ content = dbContent
<1>1. target[c] = version + 1
  BY DEF Persist, HistoryInv, HolderReady
<1>2. target[c] \notin 1..dbVersion
  BY DEF Persist, HistoryInv, LogReplays
<1>3. version \in Nat /\ dbVersion \in Nat /\ version <= dbVersion
  BY DEF HistoryInv, TypeOK, RoomInHistory
<1>4. loaded
  BY DEF Persist, HistoryInv, RoomInHistory
<1>5. version = dbVersion
  BY <1>1, <1>2, <1>3
<1> QED BY <1>1, <1>4, <1>5 DEF HistoryInv, RoomInHistory, LogReplays

\* The transaction appends to the history what it does to the text.
LEMMA PersistReplays ==
  ASSUME HistoryInv, NEW c \in Connections, Persist(c)
  PROVE  LogReplays'
<1> DEFINE n == dbVersion + 1
           text == ApplyOperation(content, request[c].op)
<1>1. dbVersion \in Nat
  BY DEF HistoryInv, TypeOK
<1>2. /\ dbContent' = text
      /\ dbVersion' = n
      /\ log' = Extend(log, n, [id |-> request[c].id, op |-> request[c].op])
      /\ textAt' = Extend(textAt, n, text)
  BY PersistIsNext DEF Persist
<1>3. DOMAIN textAt = 0..dbVersion /\ DOMAIN log = 1..dbVersion
  BY DEF HistoryInv, LogReplays
<1>4. DOMAIN textAt' = 0..n /\ DOMAIN log' = 1..n
  BY <1>1, <1>2, <1>3 DEF Extend
<1>5. \A v \in 0..dbVersion : textAt'[v] = textAt[v]
  BY <1>1, <1>2, <1>3 DEF Extend
<1>6. \A v \in 1..dbVersion : log'[v] = log[v]
  BY <1>1, <1>2, <1>3 DEF Extend
<1>7. textAt'[n] = text /\ log'[n].op = request[c].op
  BY <1>1, <1>2, <1>3 DEF Extend
<1>8. textAt'[n - 1] = content
  <2>1. dbVersion \in 0..dbVersion /\ n - 1 = dbVersion
    BY <1>1
  <2>2. textAt[dbVersion] = content
    BY PersistIsNext DEF HistoryInv, LogReplays
  <2> QED BY <1>5, <2>1, <2>2
<1>9. ASSUME NEW v \in 1..n
      PROVE  textAt'[v] = ApplyOperation(textAt'[v - 1], log'[v].op)
  <2>1. CASE v = n
    BY <1>7, <1>8, <2>1
  <2>2. CASE v # n
    <3>1. v \in 1..dbVersion /\ v \in 0..dbVersion /\ v - 1 \in 0..dbVersion
      BY <1>1, <2>2
    <3>2. textAt[v] = ApplyOperation(textAt[v - 1], log[v].op)
      BY <3>1 DEF HistoryInv, LogReplays
    <3> QED BY <1>5, <1>6, <3>1, <3>2
  <2> QED BY <2>1, <2>2
<1>10. textAt'[0] = InitialText
  <2>1. 0 \in 0..dbVersion /\ textAt[0] = InitialText
    BY <1>1 DEF HistoryInv, LogReplays
  <2> QED BY <1>5, <2>1
<1> HIDE DEF n, text
<1>11. /\ dbContent' = textAt'[dbVersion'] /\ dbVersion' = n
  BY <1>2, <1>7
<1> QED BY <1>4, <1>9, <1>10, <1>11 DEF LogReplays

\* Every step leaves a history that replays to the stored text.
LEMMA StepReplays ==
  ASSUME HistoryInv, [Next]_vars
  PROVE  LogReplays'
<1>1. CASE \E c \in Connections : Persist(c)
  BY <1>1, PersistReplays
<1>2. CASE \A c \in Connections : ~Persist(c)
  <2>1. UNCHANGED <<dbContent, dbVersion, log, textAt>>
    BY <1>2, OnlyPersistWrites
  <2> QED BY <2>1 DEF HistoryInv, LogReplays
<1> QED BY <1>1, <1>2

-----------------------------------------------------------------------------
(* The lock.                                                               *)

\* A handler enters the critical section when the lock is free, and takes it.
LEMMA StepLocked ==
  ASSUME HistoryInv, [Next]_vars
  PROVE  LockHeld'
<1> USE DEF roomVars, dbVars, handlerVars, socketVars, historyVars, Goto, TypeOK, HistoryInv, LockHeld, Critical, RoomInHistory
<1>1. ASSUME NEW c \in Connections, Join(c) PROVE LockHeld'
  BY <1>1 DEF Join
<1>2. ASSUME NEW c \in Connections, Leave(c) PROVE LockHeld'
  BY <1>2 DEF Leave
<1>3. ASSUME NEW c \in Connections, Disconnect(c) PROVE LockHeld'
  BY <1>3 DEF Disconnect
<1>4. ASSUME NEW c \in Connections, NEW m \in Submissions(c), RefuseReadOnly(c, m) PROVE LockHeld'
  BY <1>4, SubmissionsType DEF RefuseReadOnly
<1>5. ASSUME NEW c \in Connections, NEW m \in Submissions(c), AcknowledgeAgain(c, m) PROVE LockHeld'
  BY <1>5, SubmissionsType DEF AcknowledgeAgain
<1>6. ASSUME NEW c \in Connections, NEW m \in Submissions(c), LookUp(c, m) PROVE LockHeld'
  BY <1>6, SubmissionsType DEF LookUp, Receive
<1>7. ASSUME NEW c \in Connections, AcknowledgeNoOp(c) PROVE LockHeld'
  BY <1>7 DEF AcknowledgeNoOp, ReleaseLock
<1>8. ASSUME NEW c \in Connections, Transform(c) PROVE LockHeld'
  BY <1>8, ConnectionsAssumption DEF Transform, LockIsFree
<1>9. ASSUME NEW c \in Connections, Persist(c) PROVE LockHeld'
  BY <1>9 DEF Persist
<1>10. ASSUME NEW c \in Connections, PersistFails(c) PROVE LockHeld'
  BY <1>10 DEF PersistFails, ReleaseLock
<1>11. ASSUME NEW c \in Connections, Publish(c) PROVE LockHeld'
  BY <1>11 DEF Publish, ReleaseLock
<1>12. ASSUME NEW c \in Connections, PublishFails(c) PROVE LockHeld'
  BY <1>12 DEF PublishFails, ReleaseLock
<1>13. ASSUME NEW c \in Connections, SaveSnapshot(c) PROVE LockHeld'
  BY <1>13 DEF SaveSnapshot, ReleaseLock
<1>14. ASSUME NEW c \in Connections, SaveSnapshotFails(c) PROVE LockHeld'
  BY <1>14 DEF SaveSnapshotFails, ReleaseLock
<1>15. ASSUME NEW c \in Connections, Acknowledge(c) PROVE LockHeld'
  BY <1>15 DEF Acknowledge
<1>16. ASSUME NEW c \in Connections, NEW k \in Clients, DeliverTo(c, k) PROVE LockHeld'
  BY <1>16 DEF DeliverTo, Broadcasting
<1>17. ASSUME NEW c \in Connections, FinishBroadcast(c) PROVE LockHeld'
  BY <1>17 DEF FinishBroadcast, Broadcasting
<1>18. ASSUME NEW c \in Connections, AnnouncementFails(c) PROVE LockHeld'
  BY <1>18 DEF AnnouncementFails, Broadcasting
<1>19. ASSUME Restart PROVE LockHeld'
  BY <1>19 DEF Restart
<1>20. ASSUME UNCHANGED vars PROVE LockHeld'
  BY <1>20 DEF vars
<1>21. ASSUME NEW k \in Clients, MarkUnreachable(k) PROVE LockHeld'
  BY <1>21 DEF MarkUnreachable
<1>22. ASSUME NEW k \in Clients, RemoveMarked(k) PROVE LockHeld'
  BY <1>22 DEF RemoveMarked, WithoutKeys
<1> QED BY <1>1, <1>2, <1>3, <1>4, <1>5, <1>6, <1>7, <1>8, <1>9, <1>10, <1>11, <1>12, <1>13,
           <1>14, <1>15, <1>16, <1>17, <1>18, <1>19, <1>20, <1>21, <1>22 DEF Next, Handle, Submit

\* A handler keeps its request until it is done with it.
LEMMA StepKeepsRequests ==
  ASSUME HistoryInv, [Next]_vars
  PROVE  RequestsKept'
<1> USE DEF roomVars, dbVars, handlerVars, socketVars, historyVars, Goto, TypeOK, HistoryInv, RequestsKept, Busy, Critical, Announcing
<1>1. ASSUME NEW c \in Connections, Join(c) PROVE RequestsKept'
  BY <1>1 DEF Join
<1>2. ASSUME NEW c \in Connections, Leave(c) PROVE RequestsKept'
  BY <1>2 DEF Leave
<1>3. ASSUME NEW c \in Connections, Disconnect(c) PROVE RequestsKept'
  BY <1>3 DEF Disconnect
<1>4. ASSUME NEW c \in Connections, NEW m \in Submissions(c), RefuseReadOnly(c, m) PROVE RequestsKept'
  BY <1>4, SubmissionsType DEF RefuseReadOnly
<1>5. ASSUME NEW c \in Connections, NEW m \in Submissions(c), AcknowledgeAgain(c, m) PROVE RequestsKept'
  BY <1>5, SubmissionsType DEF AcknowledgeAgain
<1>6. ASSUME NEW c \in Connections, NEW m \in Submissions(c), LookUp(c, m) PROVE RequestsKept'
  BY <1>6, SubmissionsType DEF LookUp, Receive
<1>7. ASSUME NEW c \in Connections, AcknowledgeNoOp(c) PROVE RequestsKept'
  BY <1>7 DEF AcknowledgeNoOp, ReleaseLock
<1>8. ASSUME NEW c \in Connections, Transform(c) PROVE RequestsKept'
  <2>1. request[c] \in Requests
    BY <1>8 DEF Transform
  <2>2. Transformed(request[c]) \in Operations
    BY <1>8, <2>1, TransformedType DEF Transform, RoomInHistory
  <2>3. [request[c] EXCEPT !.op = Transformed(request[c])] \in Requests
    BY <2>1, <2>2 DEF Requests
  <2> QED BY <1>8, <2>3 DEF Transform
<1>9. ASSUME NEW c \in Connections, Persist(c) PROVE RequestsKept'
  BY <1>9 DEF Persist
<1>10. ASSUME NEW c \in Connections, PersistFails(c) PROVE RequestsKept'
  BY <1>10 DEF PersistFails, ReleaseLock
<1>11. ASSUME NEW c \in Connections, Publish(c) PROVE RequestsKept'
  BY <1>11 DEF Publish, ReleaseLock
<1>12. ASSUME NEW c \in Connections, PublishFails(c) PROVE RequestsKept'
  BY <1>12 DEF PublishFails, ReleaseLock
<1>13. ASSUME NEW c \in Connections, SaveSnapshot(c) PROVE RequestsKept'
  BY <1>13 DEF SaveSnapshot, ReleaseLock
<1>14. ASSUME NEW c \in Connections, SaveSnapshotFails(c) PROVE RequestsKept'
  BY <1>14 DEF SaveSnapshotFails, ReleaseLock
<1>15. ASSUME NEW c \in Connections, Acknowledge(c) PROVE RequestsKept'
  BY <1>15 DEF Acknowledge
<1>16. ASSUME NEW c \in Connections, NEW k \in Clients, DeliverTo(c, k) PROVE RequestsKept'
  BY <1>16 DEF DeliverTo, Broadcasting
<1>17. ASSUME NEW c \in Connections, FinishBroadcast(c) PROVE RequestsKept'
  BY <1>17 DEF FinishBroadcast, Broadcasting
<1>18. ASSUME NEW c \in Connections, AnnouncementFails(c) PROVE RequestsKept'
  BY <1>18 DEF AnnouncementFails, Broadcasting
<1>19. ASSUME Restart PROVE RequestsKept'
  BY <1>19 DEF Restart
<1>20. ASSUME UNCHANGED vars PROVE RequestsKept'
  BY <1>20 DEF vars
<1>21. ASSUME NEW k \in Clients, MarkUnreachable(k) PROVE RequestsKept'
  BY <1>21 DEF MarkUnreachable
<1>22. ASSUME NEW k \in Clients, RemoveMarked(k) PROVE RequestsKept'
  BY <1>22 DEF RemoveMarked, WithoutKeys
<1> QED BY <1>1, <1>2, <1>3, <1>4, <1>5, <1>6, <1>7, <1>8, <1>9, <1>10, <1>11, <1>12, <1>13,
           <1>14, <1>15, <1>16, <1>17, <1>18, <1>19, <1>20, <1>21, <1>22 DEF Next, Handle, Submit

\* The room moves along the durable history.
LEMMA StepInHistory ==
  ASSUME HistoryInv, [Next]_vars
  PROVE  RoomInHistory'
<1> USE DEF roomVars, dbVars, handlerVars, socketVars, historyVars, Goto, TypeOK, HistoryInv, RoomInHistory, LogReplays
<1>1. ASSUME NEW c \in Connections, Join(c) PROVE RoomInHistory'
  BY <1>1 DEF Join
<1>2. ASSUME NEW c \in Connections, Leave(c) PROVE RoomInHistory'
  BY <1>2 DEF Leave
<1>3. ASSUME NEW c \in Connections, Disconnect(c) PROVE RoomInHistory'
  BY <1>3 DEF Disconnect
<1>4. ASSUME NEW c \in Connections, NEW m \in Submissions(c), RefuseReadOnly(c, m) PROVE RoomInHistory'
  BY <1>4, SubmissionsType DEF RefuseReadOnly
<1>5. ASSUME NEW c \in Connections, NEW m \in Submissions(c), AcknowledgeAgain(c, m) PROVE RoomInHistory'
  BY <1>5, SubmissionsType DEF AcknowledgeAgain
<1>6. ASSUME NEW c \in Connections, NEW m \in Submissions(c), LookUp(c, m) PROVE RoomInHistory'
  BY <1>6, SubmissionsType DEF LookUp, Receive
<1>7. ASSUME NEW c \in Connections, AcknowledgeNoOp(c) PROVE RoomInHistory'
  BY <1>7 DEF AcknowledgeNoOp, ReleaseLock
<1>8. ASSUME NEW c \in Connections, Transform(c) PROVE RoomInHistory'
  BY <1>8 DEF Transform
<1>9. ASSUME NEW c \in Connections, Persist(c) PROVE RoomInHistory'
  <2>1. /\ version = dbVersion /\ loaded /\ dbVersion' = dbVersion + 1 /\ target[c] = dbVersion + 1
    BY <1>9, PersistIsNext DEF Persist
  <2>2. version \in DOMAIN textAt /\ version # target[c]
    BY <2>1
  <2>3. textAt'[version] = textAt[version]
    BY <1>9, <2>2 DEF Persist, Extend
  <2> QED BY <1>9, <2>1, <2>3 DEF Persist
<1>10. ASSUME NEW c \in Connections, PersistFails(c) PROVE RoomInHistory'
  BY <1>10 DEF PersistFails, ReleaseLock
<1>11. ASSUME NEW c \in Connections, Publish(c) PROVE RoomInHistory'
  <2>1. /\ target[c] = dbVersion /\ dbVersion = version + 1 /\ log[dbVersion].op = request[c].op
        /\ loaded /\ content = textAt[version]
    BY <1>11 DEF Publish, HolderReady
  <2>2. dbVersion \in 1..dbVersion /\ dbVersion - 1 = version
    <3>1. version \in Nat /\ dbVersion = version + 1
      BY <2>1
    <3> HIDE DEF TypeOK, HistoryInv, RoomInHistory, LogReplays
    <3> QED BY <3>1
  <2>3. textAt[dbVersion] = ApplyOperation(textAt[dbVersion - 1], log[dbVersion].op)
    BY <2>2
  <2>4. /\ content' = ApplyOperation(content, request[c].op) /\ version' = dbVersion
        /\ UNCHANGED <<loaded, dbVersion, textAt>>
    BY <1>11, <2>1 DEF Publish
  <2>5. content' = textAt'[version']
    BY <2>1, <2>2, <2>3, <2>4
  <2> QED BY <2>1, <2>4, <2>5
<1>12. ASSUME NEW c \in Connections, PublishFails(c) PROVE RoomInHistory'
  BY <1>12 DEF PublishFails, ReleaseLock
<1>13. ASSUME NEW c \in Connections, SaveSnapshot(c) PROVE RoomInHistory'
  BY <1>13 DEF SaveSnapshot, ReleaseLock
<1>14. ASSUME NEW c \in Connections, SaveSnapshotFails(c) PROVE RoomInHistory'
  BY <1>14 DEF SaveSnapshotFails, ReleaseLock
<1>15. ASSUME NEW c \in Connections, Acknowledge(c) PROVE RoomInHistory'
  BY <1>15 DEF Acknowledge
<1>16. ASSUME NEW c \in Connections, NEW k \in Clients, DeliverTo(c, k) PROVE RoomInHistory'
  BY <1>16 DEF DeliverTo, Broadcasting
<1>17. ASSUME NEW c \in Connections, FinishBroadcast(c) PROVE RoomInHistory'
  BY <1>17 DEF FinishBroadcast, Broadcasting
<1>18. ASSUME NEW c \in Connections, AnnouncementFails(c) PROVE RoomInHistory'
  BY <1>18 DEF AnnouncementFails, Broadcasting
<1>19. ASSUME Restart PROVE RoomInHistory'
  BY <1>19 DEF Restart, ReleaseLock
<1>20. ASSUME UNCHANGED vars PROVE RoomInHistory'
  BY <1>20 DEF vars
<1>21. ASSUME NEW k \in Clients, MarkUnreachable(k) PROVE RoomInHistory'
  BY <1>21 DEF MarkUnreachable
<1>22. ASSUME NEW k \in Clients, RemoveMarked(k) PROVE RoomInHistory'
  BY <1>22 DEF RemoveMarked, WithoutKeys
<1> QED BY <1>1, <1>2, <1>3, <1>4, <1>5, <1>6, <1>7, <1>8, <1>9, <1>10, <1>11, <1>12, <1>13,
           <1>14, <1>15, <1>16, <1>17, <1>18, <1>19, <1>20, <1>21, <1>22 DEF Next, Handle, Submit

\* Nobody moves the version or the history under the holder of the lock.
LEMMA StepReady ==
  ASSUME HistoryInv, [Next]_vars
  PROVE  HolderReady'
<1> USE DEF roomVars, dbVars, handlerVars, socketVars, historyVars, Goto, TypeOK, HistoryInv, HolderReady, LockHeld, Critical, RoomInHistory
<1>1. ASSUME NEW c \in Connections, Join(c) PROVE HolderReady'
  BY <1>1 DEF Join
<1>2. ASSUME NEW c \in Connections, Leave(c) PROVE HolderReady'
  BY <1>2 DEF Leave
<1>3. ASSUME NEW c \in Connections, Disconnect(c) PROVE HolderReady'
  BY <1>3 DEF Disconnect
<1>4. ASSUME NEW c \in Connections, NEW m \in Submissions(c), RefuseReadOnly(c, m) PROVE HolderReady'
  BY <1>4, SubmissionsType DEF RefuseReadOnly
<1>5. ASSUME NEW c \in Connections, NEW m \in Submissions(c), AcknowledgeAgain(c, m) PROVE HolderReady'
  BY <1>5, SubmissionsType DEF AcknowledgeAgain
<1>6. ASSUME NEW c \in Connections, NEW m \in Submissions(c), LookUp(c, m) PROVE HolderReady'
  BY <1>6, SubmissionsType DEF LookUp, Receive
<1>7. ASSUME NEW c \in Connections, AcknowledgeNoOp(c) PROVE HolderReady'
  BY <1>7 DEF AcknowledgeNoOp, ReleaseLock
<1>8. ASSUME NEW c \in Connections, Transform(c) PROVE HolderReady'
  BY <1>8 DEF Transform
<1>9. ASSUME NEW c \in Connections, Persist(c) PROVE HolderReady'
  <2>1. /\ version = dbVersion /\ version' = version /\ dbVersion' = version + 1
        /\ target[c] = dbVersion' /\ target' = target /\ request' = request
        /\ version \in Nat /\ pc' = [pc EXCEPT ![c] = "publishing"]
    BY <1>9, PersistIsNext DEF Persist
  <2>2. log'[dbVersion'].op = request[c].op
    BY <1>9, <2>1 DEF Persist, Extend
  <2>3. \A d \in Connections : d # c => pc[d] \notin Critical
    BY <1>9, MutualExclusion DEF Persist
  <2> QED BY <2>1, <2>2, <2>3
<1>10. ASSUME NEW c \in Connections, PersistFails(c) PROVE HolderReady'
  BY <1>10 DEF PersistFails, ReleaseLock
<1>11. ASSUME NEW c \in Connections, Publish(c) PROVE HolderReady'
  BY <1>11 DEF Publish, ReleaseLock
<1>12. ASSUME NEW c \in Connections, PublishFails(c) PROVE HolderReady'
  BY <1>12 DEF PublishFails, ReleaseLock
<1>13. ASSUME NEW c \in Connections, SaveSnapshot(c) PROVE HolderReady'
  BY <1>13 DEF SaveSnapshot, ReleaseLock
<1>14. ASSUME NEW c \in Connections, SaveSnapshotFails(c) PROVE HolderReady'
  BY <1>14 DEF SaveSnapshotFails, ReleaseLock
<1>15. ASSUME NEW c \in Connections, Acknowledge(c) PROVE HolderReady'
  BY <1>15 DEF Acknowledge
<1>16. ASSUME NEW c \in Connections, NEW k \in Clients, DeliverTo(c, k) PROVE HolderReady'
  BY <1>16 DEF DeliverTo, Broadcasting
<1>17. ASSUME NEW c \in Connections, FinishBroadcast(c) PROVE HolderReady'
  BY <1>17 DEF FinishBroadcast, Broadcasting
<1>18. ASSUME NEW c \in Connections, AnnouncementFails(c) PROVE HolderReady'
  BY <1>18 DEF AnnouncementFails, Broadcasting
<1>19. ASSUME Restart PROVE HolderReady'
  BY <1>19 DEF Restart
<1>20. ASSUME UNCHANGED vars PROVE HolderReady'
  BY <1>20 DEF vars
<1>21. ASSUME NEW k \in Clients, MarkUnreachable(k) PROVE HolderReady'
  BY <1>21 DEF MarkUnreachable
<1>22. ASSUME NEW k \in Clients, RemoveMarked(k) PROVE HolderReady'
  BY <1>22 DEF RemoveMarked, WithoutKeys
<1> QED BY <1>1, <1>2, <1>3, <1>4, <1>5, <1>6, <1>7, <1>8, <1>9, <1>10, <1>11, <1>12, <1>13,
           <1>14, <1>15, <1>16, <1>17, <1>18, <1>19, <1>20, <1>21, <1>22 DEF Next, Handle, Submit

-----------------------------------------------------------------------------
(* The invariants.                                                         *)

\* The invariant of the history holds initially.
LEMMA InitHistory == Init => HistoryInv
<1> SUFFICES ASSUME Init PROVE HistoryInv
  OBVIOUS
<1>1. TypeOK
  BY InitTyped
<1>2. LogReplays
  <2>1. DOMAIN textAt = 0..0 /\ textAt[0] = InitialText /\ dbVersion = 0 /\ dbContent = InitialText
    BY DEF Init
  <2>2. DOMAIN log = 1..0
    BY DEF Init, EmptyFunction
  <2> QED BY <2>1, <2>2 DEF LogReplays
<1>3. RoomInHistory /\ LockHeld /\ RequestsKept /\ HolderReady
  BY DEF Init, RoomInHistory, LockHeld, RequestsKept, HolderReady, Busy, Critical, Announcing
<1> QED BY <1>1, <1>2, <1>3 DEF HistoryInv

\* The inductive invariant of the room holds in every reachable state.
THEOREM HistoryInvariant == Spec => []HistoryInv
<1>1. HistoryInv /\ [Next]_vars => HistoryInv'
  <2> SUFFICES ASSUME HistoryInv, [Next]_vars PROVE HistoryInv'
    OBVIOUS
  <2>1. TypeOK'
    BY StepTyped DEF HistoryInv
  <2> QED BY <2>1, StepReplays, StepInHistory, StepLocked, StepKeepsRequests, StepReady
          DEF HistoryInv
<1> QED BY <1>1, InitHistory, PTL DEF Spec

\* Every state of the room is typed, whatever its handlers, its clients, its
\* failures and its restarts do.
THEOREM TypeCorrect == Spec => []TypeOK
<1>1. HistoryInv => TypeOK
  BY DEF HistoryInv
<1> QED BY <1>1, HistoryInvariant, PTL

\* The durable history is one chain of versions, each text the one before it
\* with the logged operation applied (persist_operation).
THEOREM HistoryReplays == Spec => []LogReplays
<1>1. HistoryInv => LogReplays
  BY DEF HistoryInv
<1> QED BY <1>1, HistoryInvariant, PTL

\* Only a failed publication leaves the room behind the database.
LEMMA StepLags ==
  ASSUME HistoryInv, RoomLagsOnlyThen, [Next]_vars
  PROVE  RoomLagsOnlyThen'
<1> USE DEF roomVars, dbVars, handlerVars, socketVars, historyVars, Goto, TypeOK, HistoryInv, RoomLagsOnlyThen
<1>1. ASSUME NEW c \in Connections, Join(c) PROVE RoomLagsOnlyThen'
  BY <1>1 DEF Join
<1>2. ASSUME NEW c \in Connections, Leave(c) PROVE RoomLagsOnlyThen'
  BY <1>2 DEF Leave
<1>3. ASSUME NEW c \in Connections, Disconnect(c) PROVE RoomLagsOnlyThen'
  BY <1>3 DEF Disconnect
<1>4. ASSUME NEW c \in Connections, NEW m \in Submissions(c), RefuseReadOnly(c, m) PROVE RoomLagsOnlyThen'
  BY <1>4, SubmissionsType DEF RefuseReadOnly
<1>5. ASSUME NEW c \in Connections, NEW m \in Submissions(c), AcknowledgeAgain(c, m) PROVE RoomLagsOnlyThen'
  BY <1>5, SubmissionsType DEF AcknowledgeAgain
<1>6. ASSUME NEW c \in Connections, NEW m \in Submissions(c), LookUp(c, m) PROVE RoomLagsOnlyThen'
  BY <1>6, SubmissionsType DEF LookUp, Receive
<1>7. ASSUME NEW c \in Connections, AcknowledgeNoOp(c) PROVE RoomLagsOnlyThen'
  BY <1>7 DEF AcknowledgeNoOp
<1>8. ASSUME NEW c \in Connections, Transform(c) PROVE RoomLagsOnlyThen'
  BY <1>8 DEF Transform
<1>9. ASSUME NEW c \in Connections, Persist(c) PROVE RoomLagsOnlyThen'
  BY <1>9 DEF Persist
<1>10. ASSUME NEW c \in Connections, PersistFails(c) PROVE RoomLagsOnlyThen'
  BY <1>10 DEF PersistFails
<1>11. ASSUME NEW c \in Connections, Publish(c) PROVE RoomLagsOnlyThen'
  BY <1>11 DEF Publish, HolderReady
<1>12. ASSUME NEW c \in Connections, PublishFails(c) PROVE RoomLagsOnlyThen'
  BY <1>12 DEF PublishFails
<1>13. ASSUME NEW c \in Connections, SaveSnapshot(c) PROVE RoomLagsOnlyThen'
  BY <1>13 DEF SaveSnapshot
<1>14. ASSUME NEW c \in Connections, SaveSnapshotFails(c) PROVE RoomLagsOnlyThen'
  BY <1>14 DEF SaveSnapshotFails
<1>15. ASSUME NEW c \in Connections, Acknowledge(c) PROVE RoomLagsOnlyThen'
  BY <1>15 DEF Acknowledge
<1>16. ASSUME NEW c \in Connections, NEW k \in Clients, DeliverTo(c, k) PROVE RoomLagsOnlyThen'
  BY <1>16 DEF DeliverTo, Broadcasting
<1>17. ASSUME NEW c \in Connections, FinishBroadcast(c) PROVE RoomLagsOnlyThen'
  BY <1>17 DEF FinishBroadcast, Broadcasting
<1>18. ASSUME NEW c \in Connections, AnnouncementFails(c) PROVE RoomLagsOnlyThen'
  BY <1>18 DEF AnnouncementFails, Broadcasting
<1>19. ASSUME Restart PROVE RoomLagsOnlyThen'
  BY <1>19 DEF Restart
<1>20. ASSUME UNCHANGED vars PROVE RoomLagsOnlyThen'
  BY <1>20 DEF vars
<1>21. ASSUME NEW k \in Clients, MarkUnreachable(k) PROVE RoomLagsOnlyThen'
  BY <1>21 DEF MarkUnreachable
<1>22. ASSUME NEW k \in Clients, RemoveMarked(k) PROVE RoomLagsOnlyThen'
  BY <1>22 DEF RemoveMarked, WithoutKeys
<1> QED BY <1>1, <1>2, <1>3, <1>4, <1>5, <1>6, <1>7, <1>8, <1>9, <1>10, <1>11, <1>12, <1>13,
           <1>14, <1>15, <1>16, <1>17, <1>18, <1>19, <1>20, <1>21, <1>22 DEF Next, Handle, Submit

\* The room that serves joins and transforms operations is the stored document
\* whenever no handler is between its commit and its publication, unless a
\* publication failed (handle_operation, the assignments under the lock).
THEOREM RoomMirrors == Spec => []RoomMirrorsDatabase
<1>1. Init => RoomLagsOnlyThen
  BY DEF Init, RoomLagsOnlyThen
<1>2. HistoryInv /\ RoomLagsOnlyThen /\ [Next]_vars => RoomLagsOnlyThen'
  BY StepLags
<1>3. HistoryInv /\ RoomLagsOnlyThen => RoomMirrorsDatabase
  BY DEF HistoryInv, RoomInHistory, LogReplays, RoomLagsOnlyThen, RoomMirrorsDatabase
<1> QED BY <1>1, <1>2, <1>3, HistoryInvariant, PTL DEF Spec

\* The history is only extended: what a version was, it stays.
LEMMA HistoryGrows ==
  ASSUME HistoryInv, [Next]_vars
  PROVE  /\ dbVersion' >= dbVersion
         /\ \A v \in DOMAIN textAt : v \in DOMAIN textAt' /\ textAt'[v] = textAt[v]
         /\ \A v \in DOMAIN log : v \in DOMAIN log' /\ log'[v] = log[v]
<1>1. ASSUME NEW c \in Connections, Persist(c)
      PROVE  /\ dbVersion' >= dbVersion
             /\ \A v \in DOMAIN textAt : v \in DOMAIN textAt' /\ textAt'[v] = textAt[v]
             /\ \A v \in DOMAIN log : v \in DOMAIN log' /\ log'[v] = log[v]
  <2>1. /\ dbVersion \in Nat /\ dbVersion' = dbVersion + 1
        /\ dbVersion' \notin DOMAIN textAt /\ dbVersion' \notin DOMAIN log
        /\ textAt' = Extend(textAt, dbVersion', ApplyOperation(content, request[c].op))
        /\ log' = Extend(log, dbVersion', [id |-> request[c].id, op |-> request[c].op])
    BY <1>1, PersistIsNext DEF Persist, HistoryInv, LogReplays, TypeOK
  <2> QED BY <2>1 DEF Extend
<1>2. CASE \A c \in Connections : ~Persist(c)
  <2>1. UNCHANGED <<dbContent, dbVersion, log, textAt>>
    BY <1>2, OnlyPersistWrites
  <2> QED BY <2>1 DEF HistoryInv, TypeOK
<1> QED BY <1>1, <1>2

\* No step accepts an operation twice.
LEMMA StepAcceptedOnce ==
  ASSUME HistoryInv, AcceptedOnce, [Next]_vars
  PROVE  AcceptedOnce'
<1>1. ASSUME NEW c \in Connections, Persist(c) PROVE AcceptedOnce'
  <2>1. /\ log' = Extend(log, target[c], [id |-> request[c].id, op |-> request[c].op])
        /\ \A v \in DOMAIN log : log[v].id # request[c].id
        /\ target[c] \notin DOMAIN log
    BY <1>1 DEF Persist, VersionsOf
  <2>2. DOMAIN log' = DOMAIN log \cup {target[c]} /\ log'[target[c]].id = request[c].id
    BY <2>1 DEF Extend
  <2>3. \A v \in DOMAIN log : log'[v] = log[v]
    BY <2>1 DEF Extend
  <2> QED BY <2>1, <2>2, <2>3 DEF AcceptedOnce
<1>2. CASE \A c \in Connections : ~Persist(c)
  BY <1>2, OnlyPersistWrites DEF AcceptedOnce
<1> QED BY <1>1, <1>2

\* No submission is accepted twice, over whatever connections it is retried
\* (persist_operation, the primary key of the operation rows).
THEOREM NoDoubleAccept == Spec => []AcceptedOnce
<1>1. Init => AcceptedOnce
  BY DEF Init, EmptyFunction, AcceptedOnce
<1>2. HistoryInv /\ AcceptedOnce /\ [Next]_vars => AcceptedOnce'
  BY StepAcceptedOnce
<1> QED BY <1>1, <1>2, HistoryInvariant, PTL DEF Spec

-----------------------------------------------------------------------------
(* Snapshots.                                                              *)

\* What a step sends is no snapshot, unless a connection joins.
LEMMA TransmitNoSnapshot ==
  ASSUME outbox \in [Connections -> Seq(Messages)],
         NEW c \in Connections, NEW msg, msg.kind # "snapshot", Transmit(c, msg)
  PROVE  \A d \in Connections : \A i \in DOMAIN outbox'[d] :
           outbox'[d][i].kind = "snapshot" => i \in DOMAIN outbox[d] /\ outbox'[d][i] = outbox[d][i]
BY DEF Transmit

\* Every step leaves snapshots that are texts of the history.
LEMMA StepSnapshots ==
  ASSUME HistoryInv, SnapshotsAreHistory, [Next]_vars
  PROVE  SnapshotsAreHistory'
<1> DEFINE Good(row) == row.version \in DOMAIN textAt /\ textAt[row.version] = row.text
           Kept == \A d \in Connections : \A i \in DOMAIN outbox'[d] :
                     outbox'[d][i].kind = "snapshot" =>
                       i \in DOMAIN outbox[d] /\ outbox'[d][i] = outbox[d][i]
<1>0. outbox \in [Connections -> Seq(Messages)]
  BY DEF HistoryInv, TypeOK
<1>1. ASSUME snapshots' = snapshots, Kept PROVE SnapshotsAreHistory'
  BY <1>1, HistoryGrows DEF SnapshotsAreHistory
<1>2. ASSUME snapshots' = snapshots, outbox' = outbox PROVE SnapshotsAreHistory'
  BY <1>1, <1>2
<1>3. ASSUME NEW c \in Connections, NEW msg, msg.kind # "snapshot", Transmit(c, msg),
             snapshots' = snapshots
      PROVE  SnapshotsAreHistory'
  BY <1>0, <1>1, <1>3, TransmitNoSnapshot
<1> HIDE DEF Kept
<1>4. ASSUME NEW c \in Connections, Join(c) PROVE SnapshotsAreHistory'
  <2>1. outbox' = [outbox EXCEPT ![c] = Append(@, SnapshotMsg(version', content'))]
    BY <1>4 DEF Join
  <2>2. /\ UNCHANGED <<textAt, snapshots, dbVersion>>
        /\ content' = textAt[version'] /\ version' \in DOMAIN textAt
    BY <1>4 DEF Join, HistoryInv, LogReplays, RoomInHistory, TypeOK, dbVars, historyVars
  <2>3. ASSUME NEW d \in Connections, NEW i \in DOMAIN outbox'[d], outbox'[d][i].kind = "snapshot"
        PROVE  outbox'[d][i].version \in DOMAIN textAt /\ textAt[outbox'[d][i].version] = outbox'[d][i].text
    <3>1. CASE i \in DOMAIN outbox[d] /\ outbox'[d][i] = outbox[d][i]
      BY <2>3, <3>1 DEF SnapshotsAreHistory
    <3>2. CASE ~(i \in DOMAIN outbox[d] /\ outbox'[d][i] = outbox[d][i])
      <4>1. outbox'[d][i] = SnapshotMsg(version', content')
        BY <1>0, <2>1, <2>3, <3>2
      <4> QED BY <2>2, <4>1 DEF SnapshotMsg
    <3> QED BY <3>1, <3>2
  <2> QED BY <2>2, <2>3 DEF SnapshotsAreHistory
<1>5. ASSUME NEW c \in Connections, SaveSnapshot(c) PROVE SnapshotsAreHistory'
  <2>1. /\ content = textAt[version] /\ version \in DOMAIN textAt
    <3>1. version \in 0..dbVersion
      BY DEF HistoryInv, RoomInHistory, TypeOK
    <3>2. loaded
      BY <1>5 DEF SaveSnapshot, HistoryInv, RoomInHistory
    <3> QED BY <3>1, <3>2 DEF HistoryInv, LogReplays, RoomInHistory
  <2> QED BY <1>5, <2>1 DEF SaveSnapshot, SnapshotsAreHistory, socketVars, historyVars
<1>6. ASSUME NEW c \in Connections, NEW m \in Submissions(c), Submit(c, m) PROVE SnapshotsAreHistory'
  <2>1. CASE RefuseReadOnly(c, m)
    BY <1>3, <2>1 DEF RefuseReadOnly, ReadOnlyMsg, dbVars
  <2>2. CASE AcknowledgeAgain(c, m)
    BY <1>3, <2>2 DEF AcknowledgeAgain, AckMsg, dbVars
  <2>3. CASE LookUp(c, m)
    BY <1>2, <2>3 DEF LookUp, dbVars, socketVars
  <2> QED BY <1>6, <2>1, <2>2, <2>3 DEF Submit
<1>7. ASSUME NEW c \in Connections, AcknowledgeNoOp(c) PROVE SnapshotsAreHistory'
  BY <1>3, <1>7 DEF AcknowledgeNoOp, AckMsg, dbVars
<1>8. ASSUME NEW c \in Connections, Acknowledge(c) PROVE SnapshotsAreHistory'
  BY <1>3, <1>8 DEF Acknowledge, AckMsg, dbVars
<1>9. ASSUME NEW c \in Connections, NEW k \in Clients, DeliverTo(c, k) PROVE SnapshotsAreHistory'
  <2>1. roster[k] \in Connections
    BY <1>9 DEF DeliverTo, RosterKeys, HistoryInv, TypeOK
  <2> QED BY <1>3, <1>9, <2>1 DEF DeliverTo, BroadcastMsg, dbVars
<1>10. ASSUME NEW c \in Connections,
              \/ Leave(c) \/ Disconnect(c) \/ Transform(c) \/ Persist(c) \/ PersistFails(c)
              \/ Publish(c) \/ PublishFails(c) \/ SaveSnapshotFails(c)
              \/ FinishBroadcast(c) \/ AnnouncementFails(c)
       PROVE  SnapshotsAreHistory'
  BY <1>2, <1>10 DEF Leave, Disconnect, Transform, Persist, PersistFails, Publish, PublishFails,
     SaveSnapshotFails, FinishBroadcast, AnnouncementFails, dbVars, socketVars
<1>11. CASE Restart \/ UNCHANGED vars \/ \E k \in Clients : MarkUnreachable(k) \/ RemoveMarked(k)
  BY <1>2, <1>11 DEF Restart, MarkUnreachable, RemoveMarked, vars, dbVars, socketVars
<1> QED BY <1>4, <1>5, <1>6, <1>7, <1>8, <1>9, <1>10, <1>11 DEF Next, Handle

\* Every snapshot, whether sent to a joining client or stored, is the text of
\* its version (join, persist_snapshot).
THEOREM SnapshotsTrue == Spec => []SnapshotsAreHistory
<1>1. Init => SnapshotsAreHistory
  BY DEF Init, SnapshotsAreHistory
<1>2. HistoryInv /\ SnapshotsAreHistory /\ [Next]_vars => SnapshotsAreHistory'
  BY StepSnapshots
<1> QED BY <1>1, <1>2, HistoryInvariant, PTL DEF Spec

-----------------------------------------------------------------------------
(* What is accepted is what was submitted, transformed.                    *)

\* A handler that waits for the lock has the message its client submitted.
WaitingKept ==
  \A c \in Connections : pc[c] = "waiting" =>
    /\ submitted[request[c].id] = request[c]
    /\ request[c].base <= version
    /\ request[c].op \in RawOps

\* Every row of the log stems from a message submitted before its version.
LoggedKept ==
  \A v \in DOMAIN log : /\ submitted[log[v].id] \in Requests
                        /\ submitted[log[v].id].base < v

\* The operation about to be written is the submitted one, transformed over
\* everything accepted since its base, unless the room lags behind: then it
\* will not be written.
PersistingKept ==
  \A c \in Connections : pc[c] = "persisting" =>
    LET raw == submitted[request[c].id]
    IN  /\ raw \in Requests
        /\ raw.base <= version
        /\ raw.op \in RawOps
        /\ version = dbVersion =>
             request[c].op = TransformOverHistory(raw.op, request[c].id, log, raw.base, dbVersion)

SubmissionInv == WaitingKept /\ LoggedKept /\ PersistingKept

\* No request is confused with none.
LEMMA NoRequestIsNone == NoRequest \notin Requests
<1> SUFFICES ASSUME NoRequest \in Requests PROVE FALSE
  OBVIOUS
<1>1. DOMAIN NoRequest = {"none"}
  BY DEF NoRequest
<1>2. DOMAIN NoRequest = {"id", "base", "op"}
  BY DEF Requests
<1> QED BY <1>1, <1>2

\* A client that submits an operation again repeats it.
LEMMA SubmittedStays ==
  ASSUME HistoryInv, [Next]_vars, NEW i \in Ids, submitted[i] \in Requests
  PROVE  submitted'[i] = submitted[i]
<1>1. ASSUME NEW c \in Connections, NEW m \in Submissions(c), Receive(c, m)
      PROVE  submitted'[i] = submitted[i]
  BY <1>1, NoRequestIsNone, SubmissionsType DEF Receive, HistoryInv, TypeOK
<1>2. CASE submitted' = submitted
  BY <1>2
<1> QED BY <1>1, <1>2 DEF Next, Handle, Submit, vars, historyVars, Join, Leave, Disconnect,
       RefuseReadOnly, AcknowledgeAgain, LookUp, AcknowledgeNoOp, Transform, Persist,
       PersistFails, Publish, PublishFails, SaveSnapshot, SaveSnapshotFails,
       Acknowledge, DeliverTo, FinishBroadcast, AnnouncementFails, Restart,
       MarkUnreachable, RemoveMarked

\* While a handler works, the room's version only grows.
LEMMA VersionGrows ==
  ASSUME HistoryInv, [Next]_vars, NEW d \in Connections, pc'[d] \in Busy, pc[d] \in Busy
  PROVE  version' \in Nat /\ version' >= version
<1>1. version \in Nat /\ version' \in Nat
  BY StepTyped DEF HistoryInv, TypeOK
<1>2. loaded
  BY DEF HistoryInv, RoomInHistory, Busy, Critical, Announcing
<1>3. CASE UNCHANGED version
  BY <1>1, <1>3
<1>4. ASSUME NEW c \in Connections, Publish(c) PROVE version' >= version
  BY <1>1, <1>4 DEF Publish, HistoryInv, HolderReady
<1>5. CASE Restart
  BY <1>5 DEF Restart, Busy, Critical, Announcing, HistoryInv, TypeOK
<1>6. ASSUME NEW c \in Connections, Join(c) PROVE version' = version
  BY <1>2, <1>6 DEF Join
<1> QED BY <1>1, <1>3, <1>4, <1>5, <1>6 DEF Next, Handle, Submit, vars, roomVars, Leave,
       Disconnect, RefuseReadOnly, AcknowledgeAgain, LookUp, AcknowledgeNoOp, Transform, Persist,
       PersistFails, PublishFails, SaveSnapshot, SaveSnapshotFails,
       Acknowledge, DeliverTo, FinishBroadcast, AnnouncementFails, MarkUnreachable, RemoveMarked

\* A handler starts to wait only by receiving a message.
LEMMA WaitingSteps ==
  ASSUME HistoryInv, [Next]_vars, NEW d \in Connections, pc'[d] = "waiting"
  PROVE  \/ pc[d] = "waiting" /\ request'[d] = request[d]
         \/ \E m \in Submissions(d) : LookUp(d, m)
<1> DEFINE Kept == \/ pc[d] = "waiting" /\ request'[d] = request[d]
                   \/ \E m \in Submissions(d) : LookUp(d, m)
<1> USE DEF roomVars, dbVars, handlerVars, Goto, TypeOK, HistoryInv
<1>1. ASSUME NEW c \in Connections, Join(c) PROVE Kept
  BY <1>1 DEF Join
<1>2. ASSUME NEW c \in Connections, Leave(c) PROVE Kept
  BY <1>2 DEF Leave
<1>3. ASSUME NEW c \in Connections, Disconnect(c) PROVE Kept
  BY <1>3 DEF Disconnect
<1>4. ASSUME NEW c \in Connections, NEW m \in Submissions(c), RefuseReadOnly(c, m) PROVE Kept
  BY <1>4, SubmissionsType DEF RefuseReadOnly
<1>5. ASSUME NEW c \in Connections, NEW m \in Submissions(c), AcknowledgeAgain(c, m) PROVE Kept
  BY <1>5, SubmissionsType DEF AcknowledgeAgain
<1>6. ASSUME NEW c \in Connections, NEW m \in Submissions(c), LookUp(c, m) PROVE Kept
  BY <1>6, SubmissionsType DEF LookUp, Receive
<1>7. ASSUME NEW c \in Connections, AcknowledgeNoOp(c) PROVE Kept
  BY <1>7 DEF AcknowledgeNoOp
<1>8. ASSUME NEW c \in Connections, Transform(c) PROVE Kept
  BY <1>8 DEF Transform
<1>9. ASSUME NEW c \in Connections, Persist(c) PROVE Kept
  BY <1>9 DEF Persist
<1>10. ASSUME NEW c \in Connections, PersistFails(c) PROVE Kept
  BY <1>10 DEF PersistFails
<1>11. ASSUME NEW c \in Connections, Publish(c) PROVE Kept
  BY <1>11 DEF Publish
<1>12. ASSUME NEW c \in Connections, PublishFails(c) PROVE Kept
  BY <1>12 DEF PublishFails
<1>13. ASSUME NEW c \in Connections, SaveSnapshot(c) PROVE Kept
  BY <1>13 DEF SaveSnapshot
<1>14. ASSUME NEW c \in Connections, SaveSnapshotFails(c) PROVE Kept
  BY <1>14 DEF SaveSnapshotFails
<1>15. ASSUME NEW c \in Connections, Acknowledge(c) PROVE Kept
  BY <1>15 DEF Acknowledge
<1>16. ASSUME NEW c \in Connections, NEW k \in Clients, DeliverTo(c, k) PROVE Kept
  BY <1>16 DEF DeliverTo, Broadcasting
<1>17. ASSUME NEW c \in Connections, FinishBroadcast(c) PROVE Kept
  BY <1>17 DEF FinishBroadcast, Broadcasting
<1>18. ASSUME NEW c \in Connections, AnnouncementFails(c) PROVE Kept
  BY <1>18 DEF AnnouncementFails, Broadcasting
<1>19. ASSUME Restart PROVE Kept
  BY <1>19 DEF Restart
<1>20. ASSUME UNCHANGED vars PROVE Kept
  BY <1>20 DEF vars
<1>21. ASSUME NEW k \in Clients, MarkUnreachable(k) PROVE Kept
  BY <1>21 DEF MarkUnreachable
<1>22. ASSUME NEW k \in Clients, RemoveMarked(k) PROVE Kept
  BY <1>22 DEF RemoveMarked, WithoutKeys
<1> QED BY <1>1, <1>2, <1>3, <1>4, <1>5, <1>6, <1>7, <1>8, <1>9, <1>10, <1>11, <1>12, <1>13,
           <1>14, <1>15, <1>16, <1>17, <1>18, <1>19, <1>20, <1>21, <1>22 DEF Next, Handle, Submit

\* A request that waits for the lock stays the one that was submitted.
LEMMA StepWaiting ==
  ASSUME HistoryInv, WaitingKept, [Next]_vars
  PROVE  WaitingKept'
<1> SUFFICES ASSUME NEW d \in Connections, pc'[d] = "waiting"
             PROVE  /\ submitted'[request'[d].id] = request'[d]
                    /\ request'[d].base <= version'
                    /\ request'[d].op \in RawOps
  BY DEF WaitingKept
<1>1. CASE pc[d] = "waiting" /\ request'[d] = request[d]
  <2>1. request[d] \in Requests
    BY <1>1 DEF HistoryInv, RequestsKept, Busy
  <2>2. submitted'[request[d].id] = submitted[request[d].id]
    BY <1>1, <2>1, RequestParts, SubmittedStays DEF WaitingKept
  <2>3. version' >= version /\ version' \in Nat /\ version \in Nat
    BY <1>1, VersionGrows DEF Busy, HistoryInv, TypeOK
  <2>4. request[d].base \in Nat /\ request[d].base <= version
    BY <1>1, <2>1, RequestParts DEF WaitingKept
  <2> QED BY <1>1, <2>2, <2>3, <2>4 DEF WaitingKept
<1>2. ASSUME NEW m \in Submissions(d), LookUp(d, m)
      PROVE  /\ submitted'[request'[d].id] = request'[d]
             /\ request'[d].base <= version'
             /\ request'[d].op \in RawOps
  <2>1. request'[d] = m /\ version' = version
    BY <1>2 DEF LookUp, HistoryInv, TypeOK, roomVars
  <2>2. m.id \in Ids /\ m.base <= version /\ m.op \in RawOps
    BY SubmissionsType, RequestParts DEF HistoryInv, TypeOK
  <2>3. submitted'[m.id] = m
    BY <1>2, <2>2 DEF LookUp, Receive, HistoryInv, TypeOK
  <2> QED BY <2>1, <2>2, <2>3
<1> QED BY <1>1, <1>2, WaitingSteps

\* What is stored stays what was made of the submitted operation.
LEMMA StepLogged ==
  ASSUME HistoryInv, SubmissionInv, [Next]_vars
  PROVE  LoggedKept'
<1>1. \A v \in DOMAIN log : submitted'[log[v].id] = submitted[log[v].id]
  <2>1. \A v \in DOMAIN log : log[v].id \in Ids
    BY DEF HistoryInv, TypeOK
  <2> QED BY <2>1, SubmittedStays DEF SubmissionInv, LoggedKept
<1>2. ASSUME NEW c \in Connections, Persist(c) PROVE LoggedKept'
  <2>1. /\ log' = Extend(log, target[c], [id |-> request[c].id, op |-> request[c].op])
        /\ target[c] \notin DOMAIN log /\ target[c] = version + 1 /\ submitted' = submitted
        /\ version \in Nat
    BY <1>2, PersistIsNext DEF Persist, HistoryInv, TypeOK
  <2>2. submitted[request[c].id] \in Requests /\ submitted[request[c].id].base <= version
    BY <1>2 DEF Persist, SubmissionInv, PersistingKept
  <2>3. submitted[request[c].id].base < target[c]
    BY <2>1, <2>2, RequestParts
  <2>4. DOMAIN log' = DOMAIN log \cup {target[c]} /\ log'[target[c]].id = request[c].id
    BY <2>1 DEF Extend
  <2>5. \A v \in DOMAIN log : log'[v] = log[v]
    BY <2>1 DEF Extend
  <2> QED BY <2>1, <2>2, <2>3, <2>4, <2>5 DEF SubmissionInv, LoggedKept
<1>3. CASE \A c \in Connections : ~Persist(c)
  BY <1>1, <1>3, OnlyPersistWrites DEF SubmissionInv, LoggedKept
<1> QED BY <1>2, <1>3

\* A handler starts to persist only by transforming its request, and while it
\* persists neither the room nor the history moves.
LEMMA PersistingSteps ==
  ASSUME HistoryInv, [Next]_vars, NEW d \in Connections, pc'[d] = "persisting"
  PROVE  \/ pc[d] = "persisting" /\ request'[d] = request[d]
            /\ UNCHANGED <<version, dbVersion, log>>
         \/ Transform(d)
<1> DEFINE Kept == \/ /\ pc[d] = "persisting" /\ request'[d] = request[d]
                      /\ UNCHANGED <<version, dbVersion, log>>
                   \/ Transform(d)
<1>0. \A c \in Connections : pc[c] \in Critical /\ pc[d] = "persisting" => c = d
  BY MutualExclusion DEF HistoryInv, Critical
<1>00. pc[d] = "persisting" => loaded
  BY DEF HistoryInv, RoomInHistory
<1> USE <1>0, <1>00 DEF roomVars, dbVars, handlerVars, Goto, TypeOK, HistoryInv, Critical
<1>1. ASSUME NEW c \in Connections, Join(c) PROVE Kept
  BY <1>1 DEF Join
<1>2. ASSUME NEW c \in Connections, Leave(c) PROVE Kept
  BY <1>2 DEF Leave
<1>3. ASSUME NEW c \in Connections, Disconnect(c) PROVE Kept
  BY <1>3 DEF Disconnect
<1>4. ASSUME NEW c \in Connections, NEW m \in Submissions(c), RefuseReadOnly(c, m) PROVE Kept
  BY <1>4, SubmissionsType DEF RefuseReadOnly
<1>5. ASSUME NEW c \in Connections, NEW m \in Submissions(c), AcknowledgeAgain(c, m) PROVE Kept
  BY <1>5, SubmissionsType DEF AcknowledgeAgain
<1>6. ASSUME NEW c \in Connections, NEW m \in Submissions(c), LookUp(c, m) PROVE Kept
  BY <1>6, SubmissionsType DEF LookUp, Receive
<1>7. ASSUME NEW c \in Connections, AcknowledgeNoOp(c) PROVE Kept
  BY <1>7 DEF AcknowledgeNoOp
<1>8. ASSUME NEW c \in Connections, Transform(c) PROVE Kept
  BY <1>8 DEF Transform
<1>9. ASSUME NEW c \in Connections, Persist(c) PROVE Kept
  BY <1>9 DEF Persist
<1>10. ASSUME NEW c \in Connections, PersistFails(c) PROVE Kept
  BY <1>10 DEF PersistFails
<1>11. ASSUME NEW c \in Connections, Publish(c) PROVE Kept
  BY <1>11 DEF Publish
<1>12. ASSUME NEW c \in Connections, PublishFails(c) PROVE Kept
  BY <1>12 DEF PublishFails
<1>13. ASSUME NEW c \in Connections, SaveSnapshot(c) PROVE Kept
  BY <1>13 DEF SaveSnapshot
<1>14. ASSUME NEW c \in Connections, SaveSnapshotFails(c) PROVE Kept
  BY <1>14 DEF SaveSnapshotFails
<1>15. ASSUME NEW c \in Connections, Acknowledge(c) PROVE Kept
  BY <1>15 DEF Acknowledge
<1>16. ASSUME NEW c \in Connections, NEW k \in Clients, DeliverTo(c, k) PROVE Kept
  BY <1>16 DEF DeliverTo, Broadcasting
<1>17. ASSUME NEW c \in Connections, FinishBroadcast(c) PROVE Kept
  BY <1>17 DEF FinishBroadcast, Broadcasting
<1>18. ASSUME NEW c \in Connections, AnnouncementFails(c) PROVE Kept
  BY <1>18 DEF AnnouncementFails, Broadcasting
<1>19. ASSUME Restart PROVE Kept
  BY <1>19 DEF Restart
<1>20. ASSUME UNCHANGED vars PROVE Kept
  BY <1>20 DEF vars
<1>21. ASSUME NEW k \in Clients, MarkUnreachable(k) PROVE Kept
  BY <1>21 DEF MarkUnreachable
<1>22. ASSUME NEW k \in Clients, RemoveMarked(k) PROVE Kept
  BY <1>22 DEF RemoveMarked, WithoutKeys
<1> QED BY <1>1, <1>2, <1>3, <1>4, <1>5, <1>6, <1>7, <1>8, <1>9, <1>10, <1>11, <1>12, <1>13,
           <1>14, <1>15, <1>16, <1>17, <1>18, <1>19, <1>20, <1>21, <1>22 DEF Next, Handle, Submit

\* The transformation over no version at all changes nothing.
LEMMA HistoryEmpty ==
  ASSUME NEW op, NEW id, NEW h, NEW base \in Nat
  PROVE  TransformOverHistory(op, id, h, base, base) = op
<1> DEFINE Body(f) == [v \in base..base |->
                         IF v = base THEN op ELSE TransformOverVersion(f[v - 1], id, h, v)]
           after == CHOOSE f : f = Body(f)
<1>1. after = Body(after)
  BY HistoryDefined
<1>2. TransformOverHistory(op, id, h, base, base) = after[base]
  BY DEF TransformOverHistory
<1> HIDE DEF after
<1> QED BY <1>1, <1>2

\* What is about to be stored stays what was made of the submitted operation.
LEMMA StepPersisting ==
  ASSUME HistoryInv, SubmissionInv, [Next]_vars
  PROVE  PersistingKept'
<1> DEFINE Kept(d) ==
      LET raw == submitted[request[d].id]
      IN  /\ raw \in Requests
          /\ raw.base <= version
          /\ raw.op \in RawOps
          /\ version = dbVersion =>
               request[d].op = TransformOverHistory(raw.op, request[d].id, log, raw.base, dbVersion)
<1> SUFFICES ASSUME NEW d \in Connections, pc'[d] = "persisting"
             PROVE  Kept(d)'
  BY DEF PersistingKept
<1>1. CASE /\ pc[d] = "persisting" /\ request'[d] = request[d]
           /\ UNCHANGED <<version, dbVersion, log>>
  <2>1. Kept(d) /\ request[d].id \in Ids
    BY <1>1, RequestParts DEF SubmissionInv, PersistingKept, HistoryInv, RequestsKept, Busy, Critical
  <2>2. submitted'[request[d].id] = submitted[request[d].id]
    BY <2>1, SubmittedStays
  <2> QED BY <1>1, <2>1, <2>2
<1>2. CASE Transform(d)
  <2> DEFINE m == request[d]
  <2>1. /\ m \in Requests /\ submitted[m.id] = m /\ m.base <= version /\ m.op \in RawOps
    BY <1>2 DEF Transform, SubmissionInv, WaitingKept, HistoryInv, RequestsKept, Busy
  <2>2. /\ UNCHANGED <<version, dbVersion, log, submitted>>
        /\ request' = [request EXCEPT ![d].op = Transformed(m)]
    BY <1>2 DEF Transform, roomVars, dbVars, historyVars
  <2>3. request'[d].op = Transformed(m) /\ request'[d].id = m.id
    BY <2>1, <2>2 DEF HistoryInv, TypeOK, Requests
  <2>4. ASSUME version = dbVersion
        PROVE  Transformed(m) = TransformOverHistory(m.op, m.id, log, m.base, dbVersion)
    <3>1. CASE m.base < version
      BY <3>1 DEF Transformed
    <3>2. CASE ~(m.base < version)
      <4>1. m.base = dbVersion /\ m.base \in Nat
        BY <2>1, <2>4, <3>2, RequestParts DEF HistoryInv, TypeOK
      <4>2. Transformed(m) = m.op
        BY <3>2 DEF Transformed
      <4> QED BY <4>1, <4>2, HistoryEmpty
    <3> QED BY <3>1, <3>2
  <2> HIDE DEF m
  <2> QED BY <2>1, <2>2, <2>3, <2>4
<1> QED BY <1>1, <1>2, PersistingSteps

\* What waits, what is about to be stored and what is stored was made of the
\* operation its client submitted, by the transformation over the history
\* (handle_operation).
THEOREM SubmissionInvariant == Spec => []SubmissionInv
<1>1. Init => SubmissionInv
  BY DEF Init, SubmissionInv, WaitingKept, LoggedKept, PersistingKept, EmptyFunction
<1>2. HistoryInv /\ SubmissionInv /\ [Next]_vars => SubmissionInv'
  BY StepWaiting, StepLogged, StepPersisting DEF SubmissionInv
<1> QED BY <1>1, <1>2, HistoryInvariant, PTL DEF Spec

\* The transformed operation fits the text it is about to be applied to.
LEMMA PersistFits ==
  ASSUME HistoryInv, SubmissionInv, NEW c \in Connections, Persist(c),
         LET raw == submitted[request[c].id] IN InBounds(raw.op, Len(textAt[raw.base]))
  PROVE  InBounds(request[c].op, Len(textAt[dbVersion]))
<1> DEFINE raw == submitted[request[c].id]
<1>1. /\ raw \in Requests /\ raw.base <= version /\ version = dbVersion
      /\ request[c].op = TransformOverHistory(raw.op, request[c].id, log, raw.base, dbVersion)
  BY PersistIsNext DEF Persist, SubmissionInv, PersistingKept
<1>2. raw.base \in Nat /\ raw.op \in Operations /\ dbVersion \in Nat
  BY <1>1, RequestParts DEF HistoryInv, TypeOK
<1>3. request[c].op # NoOperation
  <2>1. request[c].op \in Operations
    BY RequestParts DEF Persist, HistoryInv, RequestsKept, Busy, Critical
  <2> QED BY <2>1 DEF Operations, NoOperation
<1>4. \A v \in raw.base..dbVersion : textAt[v] \in Texts
  <2>1. \A v \in raw.base..dbVersion : v \in 0..dbVersion
    BY <1>2
  <2> QED BY <2>1 DEF HistoryInv, LogReplays, TypeOK
<1>5. \A v \in (raw.base + 1)..dbVersion :
        /\ v \in DOMAIN log /\ log[v].op \in Operations
        /\ textAt[v] = ApplyOperation(textAt[v - 1], log[v].op)
  <2>1. \A v \in (raw.base + 1)..dbVersion : v \in 1..dbVersion
    BY <1>2
  <2>2. \A v \in DOMAIN log : log[v].op \in Operations
    BY DEF HistoryInv, TypeOK
  <2> QED BY <2>1, <2>2 DEF HistoryInv, LogReplays
<1>6. InBounds(raw.op, Len(textAt[raw.base]))
  OBVIOUS
<1> HIDE DEF raw
<1>7. raw.base <= dbVersion
  BY <1>1
<1>8. TransformOverHistory(raw.op, request[c].id, log, raw.base, dbVersion) # NoOperation
  BY <1>1, <1>3
<1>9. InBounds(TransformOverHistory(raw.op, request[c].id, log, raw.base, dbVersion),
               Len(textAt[dbVersion]))
  BY <1>2, <1>4, <1>5, <1>6, <1>7, <1>8, HistoryInBounds
<1> QED BY <1>1, <1>9

\* Every step leaves accepted operations that fit their texts.
LEMMA StepInBounds ==
  ASSUME HistoryInv, SubmissionInv, AcceptedInBounds, [Next]_vars
  PROVE  AcceptedInBounds'
<1>1. ASSUME NEW v \in DOMAIN log
      PROVE  LET raw == submitted'[log'[v].id]
             IN  InBounds(raw.op, Len(textAt'[raw.base]))
                   => InBounds(log'[v].op, Len(textAt'[v - 1]))
  <2>1. /\ v \in 1..dbVersion /\ log'[v] = log[v] /\ log[v].id \in Ids /\ dbVersion \in Nat
    BY HistoryGrows DEF HistoryInv, LogReplays, TypeOK
  <2>2. /\ submitted'[log[v].id] = submitted[log[v].id]
        /\ submitted[log[v].id] \in Requests /\ submitted[log[v].id].base < v
    BY <2>1, SubmittedStays DEF SubmissionInv, LoggedKept
  <2>3. submitted[log[v].id].base \in 0..dbVersion /\ v - 1 \in 0..dbVersion
    BY <2>1, <2>2, RequestParts
  <2>4. \A w \in 0..dbVersion : textAt'[w] = textAt[w]
    BY HistoryGrows DEF HistoryInv, LogReplays
  <2> QED BY <2>1, <2>2, <2>3, <2>4 DEF AcceptedInBounds
<1>2. ASSUME NEW c \in Connections, Persist(c) PROVE AcceptedInBounds'
  <2> DEFINE n == target[c]
             raw == submitted[request[c].id]
  <2>1. /\ log' = Extend(log, n, [id |-> request[c].id, op |-> request[c].op])
        /\ submitted' = submitted /\ n = dbVersion + 1 /\ dbVersion \in Nat
        /\ n - 1 = dbVersion /\ version = dbVersion
    BY <1>2, PersistIsNext DEF Persist, HistoryInv, TypeOK
  <2>2. DOMAIN log' = DOMAIN log \cup {n} /\ log'[n].id = request[c].id /\ log'[n].op = request[c].op
    BY <2>1 DEF Extend
  <2>3. \A w \in 0..dbVersion : textAt'[w] = textAt[w]
    BY HistoryGrows DEF HistoryInv, LogReplays
  <2>4. raw \in Requests /\ raw.base <= version
    BY <1>2 DEF Persist, SubmissionInv, PersistingKept
  <2>5. raw.base \in 0..dbVersion /\ dbVersion \in 0..dbVersion
    BY <2>1, <2>4, RequestParts
  <2>6. InBounds(raw.op, Len(textAt[raw.base])) => InBounds(request[c].op, Len(textAt[dbVersion]))
    BY <1>2, PersistFits
  <2>7. LET r == submitted'[log'[n].id]
        IN  InBounds(r.op, Len(textAt'[r.base])) => InBounds(log'[n].op, Len(textAt'[n - 1]))
    BY <2>1, <2>2, <2>3, <2>5, <2>6
  <2> HIDE DEF n, raw
  <2> QED BY <1>1, <2>2, <2>7 DEF AcceptedInBounds
<1>3. CASE \A c \in Connections : ~Persist(c)
  <2>1. DOMAIN log' = DOMAIN log
    BY <1>3, OnlyPersistWrites
  <2> QED BY <1>1, <2>1 DEF AcceptedInBounds
<1> QED BY <1>2, <1>3

\* An operation that lay within the text its author saw lies within the text
\* it is applied to, whatever was accepted in between: apply_operation's
\* clamping never changes what the author asked for.
THEOREM InBoundsWhenApplied == Spec => []AcceptedInBounds
<1>1. Init => AcceptedInBounds
  BY DEF Init, EmptyFunction, AcceptedInBounds
<1>2. HistoryInv /\ SubmissionInv /\ AcceptedInBounds /\ [Next]_vars => AcceptedInBounds'
  BY StepInBounds
<1> QED BY <1>1, <1>2, HistoryInvariant, SubmissionInvariant, PTL DEF Spec

-----------------------------------------------------------------------------
(* The roster.                                                             *)

\* The client of key k has connected, and a connection of it is closed.
Parted(k) == \E e \in Connections \ up : ClientOf[e] = k /\ pc[e] # "absent"

\* Who is in the roster joined under that key, a key about to be removed is
\* that of a connection that closed, and a client that never had another
\* connection is registered as long as its connection is open.
RosterInv ==
  /\ \A k \in RosterKeys : ClientOf[roster[k]] = k /\ pc[roster[k]] # "absent"
  /\ \A k \in marked : Parted(k)
  /\ \A d \in Connections : \A k \in walk[d].unreachable : Parted(k)
  /\ \A c \in up : pc[c] \notin {"absent", "gone"}
  /\ \A c \in up : ~Reconnected(c) => roster[ClientOf[c]] = c

\* Nobody becomes absent again, and only joining ends the absence.
LEMMA PresenceStays ==
  ASSUME TypeOK, [Next]_vars, NEW e \in Connections
  PROVE  /\ pc[e] # "absent" => pc'[e] # "absent"
         /\ pc[e] = "absent" => pc'[e] = "absent" \/ Join(e)
<1> DEFINE Kept == /\ pc[e] # "absent" => pc'[e] # "absent"
                   /\ pc[e] = "absent" => pc'[e] = "absent" \/ Join(e)
<1>0. pc \in [Connections -> PcValues]
  BY DEF TypeOK
<1>1. ASSUME NEW c \in Connections, Join(c) \/ Leave(c) \/ Disconnect(c) PROVE Kept
  BY <1>0, <1>1 DEF Join, Leave, Disconnect, Goto, handlerVars
<1>2. ASSUME NEW c \in Connections, Handle(c) PROVE Kept
  BY <1>0, <1>2 DEF Handle, AcknowledgeNoOp, Transform, Persist, PersistFails, Publish, PublishFails,
       SaveSnapshot, SaveSnapshotFails, Acknowledge, DeliverTo, FinishBroadcast, Broadcasting,
       AnnouncementFails, Goto, handlerVars
<1>3. ASSUME NEW c \in Connections, NEW m \in Submissions(c), Submit(c, m) PROVE Kept
  BY <1>0, <1>3 DEF Submit, RefuseReadOnly, AcknowledgeAgain, LookUp, Receive, Goto, handlerVars
<1>4. CASE Restart \/ UNCHANGED vars \/ \E k \in Clients : MarkUnreachable(k) \/ RemoveMarked(k)
  BY <1>0, <1>4 DEF Restart, MarkUnreachable, RemoveMarked, vars, handlerVars
<1> QED BY <1>1, <1>2, <1>3, <1>4 DEF Next

\* A step that leaves the roster, the marks and the sockets alone.
LEMMA RosterUnmoved ==
  ASSUME TypeOK, RosterInv, [Next]_vars, UNCHANGED <<roster, marked, up>>,
         \A d \in Connections : \A k \in walk'[d].unreachable : k \in walk[d].unreachable \/ Parted(k),
         \A d \in Connections : pc'[d] = "gone" => pc[d] = "gone",
         \A d \in Connections : ~Join(d)
  PROVE  RosterInv'
<1>1. \A d \in Connections : pc[d] = "absent" <=> pc'[d] = "absent"
  BY PresenceStays
<1>2. \A k : Parted(k) => Parted(k)'
  BY <1>1 DEF Parted
<1>3. \A c \in up : Reconnected(c)' <=> Reconnected(c)
  BY <1>1 DEF Reconnected, TypeOK
<1>4. RosterKeys' = RosterKeys /\ \A k \in RosterKeys : roster[k] \in Connections
  BY DEF RosterKeys, TypeOK
<1>5. up \subseteq Connections
  BY DEF TypeOK
<1> QED BY <1>1, <1>2, <1>3, <1>4, <1>5 DEF RosterInv

\* Every step preserves what is known of who is registered.
LEMMA StepRoster ==
  ASSUME TypeOK, RosterInv, [Next]_vars
  PROVE  RosterInv'
<1>0. /\ pc \in [Connections -> PcValues] /\ up \subseteq Connections
      /\ roster \in [Clients -> Connections \cup {NoConnection}]
      /\ ClientOf \in [Connections -> Clients] /\ NoConnection \notin Connections
      /\ walk \in [Connections -> [visited : SUBSET Clients, size : Nat,
                               unreachable : SUBSET Clients]]
  BY ConnectionsAssumption DEF TypeOK
<1>1. ASSUME NEW c \in Connections, Join(c) PROVE RosterInv'
  <2>1. /\ pc[c] = "absent" /\ pc' = [pc EXCEPT ![c] = "idle"] /\ up' = up \cup {c}
        /\ roster' = [roster EXCEPT ![ClientOf[c]] = c] /\ marked' = marked /\ walk' = walk
        /\ \A d \in up : ClientOf[d] # ClientOf[c]
    BY <1>1 DEF Join, Goto
  <2>2. \A k : Parted(k) => Parted(k)'
    BY <1>0, <2>1 DEF Parted
  <2>3. \A k \in RosterKeys' : ClientOf[roster'[k]] = k /\ pc'[roster'[k]] # "absent"
    BY <1>0, <2>1 DEF RosterInv, RosterKeys
  <2>4. \A d \in up' : pc'[d] \notin {"absent", "gone"}
    BY <1>0, <2>1 DEF RosterInv
  <2>5. \A d \in up : Reconnected(d) => Reconnected(d)'
    BY <1>0, <2>1 DEF Reconnected
  <2>6. \A d \in up' : ~Reconnected(d)' => roster'[ClientOf[d]] = d
    BY <1>0, <2>1, <2>5 DEF RosterInv
  <2> QED BY <2>1, <2>2, <2>3, <2>4, <2>6 DEF RosterInv
<1>2. ASSUME NEW c \in Connections, Leave(c) PROVE RosterInv'
  <2>1. /\ pc[c] \in {"idle", "failed"} /\ pc' = [pc EXCEPT ![c] = "gone"] /\ up' = up \ {c}
        /\ roster' = [roster EXCEPT ![ClientOf[c]] = NoConnection] /\ marked' = marked
        /\ walk' = [walk EXCEPT ![c] = NoWalk]
    BY <1>2 DEF Leave, Goto
  <2>2. \A k : Parted(k) => Parted(k)'
    BY <1>0, <2>1 DEF Parted
  <2>3. \A k \in RosterKeys' : k \in RosterKeys /\ roster'[k] = roster[k] /\ roster[k] \in Connections
    BY <1>0, <2>1 DEF RosterKeys
  <2>4. \A k \in RosterKeys' : ClientOf[roster'[k]] = k /\ pc'[roster'[k]] # "absent"
    BY <1>0, <2>1, <2>3 DEF RosterInv
  <2>5. \A d \in up' : pc'[d] \notin {"absent", "gone"}
    BY <1>0, <2>1 DEF RosterInv
  <2>6. \A d \in Connections : \A k \in walk'[d].unreachable : k \in walk[d].unreachable
    BY <1>0, <2>1 DEF NoWalk
  <2>7. ASSUME NEW d \in up', ~Reconnected(d)' PROVE roster'[ClientOf[d]] = d
    <3>1. ClientOf[d] # ClientOf[c]
      BY <1>0, <2>1, <2>7 DEF Reconnected
    <3>2. ~Reconnected(d)
      BY <1>0, <2>1, <2>7 DEF Reconnected
    <3> QED BY <1>0, <2>1, <2>7, <3>1, <3>2 DEF RosterInv
  <2> QED BY <2>1, <2>2, <2>4, <2>5, <2>6, <2>7 DEF RosterInv
<1>3. ASSUME NEW c \in Connections, Disconnect(c) PROVE RosterInv'
  <2>1. up' = up \ {c} /\ UNCHANGED <<roster, marked, pc, walk>>
    BY <1>3 DEF Disconnect, roomVars, handlerVars
  <2>2. \A k : Parted(k) => Parted(k)'
    BY <2>1 DEF Parted
  <2> QED BY <2>1, <2>2 DEF RosterInv, Reconnected, RosterKeys
<1>4. ASSUME NEW c \in Connections, NEW m \in Submissions(c), Submit(c, m) PROVE RosterInv'
  <2>1. /\ UNCHANGED <<roster, marked, up, walk>>
        /\ \A d \in Connections : pc'[d] = "gone" => pc[d] = "gone"
        /\ \A d \in Connections : ~Join(d)
    BY <1>0, <1>4 DEF Submit, RefuseReadOnly, AcknowledgeAgain, LookUp, Receive, Goto, handlerVars,
         roomVars, socketVars, Join
  <2> QED BY <2>1, RosterUnmoved
<1>5. ASSUME NEW c \in Connections,
             \/ AcknowledgeNoOp(c) \/ Transform(c) \/ Persist(c) \/ PersistFails(c)
             \/ Publish(c) \/ PublishFails(c) \/ SaveSnapshot(c) \/ SaveSnapshotFails(c)
             \/ Acknowledge(c) \/ AnnouncementFails(c)
      PROVE RosterInv'
  <2>1. /\ UNCHANGED <<roster, marked, up, walk>>
        /\ \A d \in Connections : pc'[d] = "gone" => pc[d] = "gone"
        /\ \A d \in Connections : ~Join(d)
    BY <1>0, <1>5 DEF AcknowledgeNoOp, Transform, Persist, PersistFails, Publish, PublishFails,
         SaveSnapshot, SaveSnapshotFails, Acknowledge, AnnouncementFails, Goto, handlerVars,
         roomVars, socketVars, Join, Broadcasting
  <2> QED BY <2>1, RosterUnmoved
<1>6. ASSUME NEW c \in Connections, NEW k \in Clients, DeliverTo(c, k) PROVE RosterInv'
  <2>1. /\ UNCHANGED <<roster, marked, up>> /\ pc' = [pc EXCEPT ![c] = "broadcasting"]
        /\ pc[c] \in {"acked", "broadcasting"}
        /\ k \in RosterKeys
        /\ \/ walk' = [walk EXCEPT ![c] = [Walk(c) EXCEPT !.visited = @ \cup {k}]]
           \/ /\ roster[k] \notin up
              /\ walk' = [walk EXCEPT ![c] = [[Walk(c) EXCEPT !.visited = @ \cup {k}]
                                                EXCEPT !.unreachable = @ \cup {k}]]
    BY <1>6 DEF DeliverTo, Goto, Broadcasting, roomVars
  <2>2. roster[k] \notin up => Parted(k)
    BY <1>0, <2>1 DEF RosterInv, Parted, RosterKeys
  <2>3. /\ Walk(c).unreachable \subseteq walk[c].unreachable
        /\ DOMAIN Walk(c) = {"visited", "size", "unreachable"}
    BY <1>0 DEF Walk
  <2> DEFINE w == Walk(c)
  <2>4. /\ walk'[c].unreachable \subseteq w.unreachable \cup {k}
        /\ k \in walk'[c].unreachable => k \in w.unreachable \/ roster[k] \notin up
    <3>1. DOMAIN w = {"visited", "size", "unreachable"}
      BY <2>3
    <3>2. \/ walk' = [walk EXCEPT ![c] = [w EXCEPT !.visited = @ \cup {k}]]
          \/ /\ roster[k] \notin up
             /\ walk' = [walk EXCEPT ![c] = [[w EXCEPT !.visited = @ \cup {k}]
                                               EXCEPT !.unreachable = @ \cup {k}]]
      BY <2>1
    <3> HIDE DEF w
    <3>3. CASE walk' = [walk EXCEPT ![c] = [w EXCEPT !.visited = @ \cup {k}]]
      <4>1. walk'[c] = [w EXCEPT !.visited = @ \cup {k}]
        BY <1>0, <3>3
      <4> QED BY <3>1, <4>1
    <3>4. CASE /\ roster[k] \notin up
               /\ walk' = [walk EXCEPT ![c] = [[w EXCEPT !.visited = @ \cup {k}]
                                                 EXCEPT !.unreachable = @ \cup {k}]]
      <4>1. walk'[c] = [[w EXCEPT !.visited = @ \cup {k}] EXCEPT !.unreachable = @ \cup {k}]
        BY <1>0, <3>4
      <4>2. walk'[c].unreachable = w.unreachable \cup {k}
        BY <3>1, <4>1
      <4> QED BY <3>4, <4>2
    <3> QED BY <3>2, <3>3, <3>4
  <2>6. \A d \in Connections : \A j \in walk'[d].unreachable : j \in walk[d].unreachable \/ Parted(j)
    <3>1. \A d \in Connections \ {c} : walk'[d] = walk[d]
      BY <1>0, <2>1
    <3> QED BY <2>2, <2>3, <2>4, <3>1
  <2>7. /\ \A d \in Connections : pc'[d] = "gone" => pc[d] = "gone"
        /\ \A d \in Connections : ~Join(d)
    BY <1>0, <2>1 DEF Join, Goto
  <2> QED BY <2>1, <2>6, <2>7, RosterUnmoved
<1>7. ASSUME NEW c \in Connections, FinishBroadcast(c) PROVE RosterInv'
  <2>1. /\ roster' = WithoutKeys(Walk(c).unreachable) /\ UNCHANGED <<marked, up>>
        /\ walk' = [walk EXCEPT ![c] = NoWalk] /\ pc' = [pc EXCEPT ![c] = "idle"]
        /\ pc[c] \in {"acked", "broadcasting"}
    BY <1>7 DEF FinishBroadcast, Goto, Broadcasting, socketVars
  <2>2. \A k \in Walk(c).unreachable : Parted(k)
    BY <1>0 DEF RosterInv, Walk
  <2>3. \A k : Parted(k) => Parted(k)'
    BY <1>0, <2>1 DEF Parted
  <2>4. \A k \in RosterKeys' : k \in RosterKeys /\ roster'[k] = roster[k] /\ roster[k] \in Connections
    BY <1>0, <2>1 DEF RosterKeys, WithoutKeys
  <2>5. \A k \in RosterKeys' : ClientOf[roster'[k]] = k /\ pc'[roster'[k]] # "absent"
    BY <1>0, <2>1, <2>4 DEF RosterInv
  <2>6. \A d \in Connections : \A k \in walk'[d].unreachable : k \in walk[d].unreachable
    BY <1>0, <2>1 DEF NoWalk
  <2>7. ASSUME NEW d \in up', ~Reconnected(d)' PROVE roster'[ClientOf[d]] = d
    <3>1. d \in up /\ ~Reconnected(d) /\ d \in Connections
      BY <1>0, <2>1, <2>7 DEF Reconnected
    <3>2. ~Parted(ClientOf[d])
      BY <1>0, <3>1 DEF Parted, Reconnected
    <3> QED BY <1>0, <2>1, <2>2, <3>1, <3>2 DEF RosterInv, WithoutKeys
  <2>8. \A d \in up' : pc'[d] \notin {"absent", "gone"}
    BY <1>0, <2>1 DEF RosterInv
  <2> QED BY <2>1, <2>3, <2>5, <2>6, <2>7, <2>8 DEF RosterInv
<1>8. CASE Restart
  <2>1. /\ up' = {} /\ marked' = {} /\ roster' = [k \in Clients |-> NoConnection]
        /\ walk' = [c \in Connections |-> NoWalk]
    BY <1>8 DEF Restart
  <2> QED BY <2>1 DEF RosterInv, RosterKeys, NoWalk
<1>9. ASSUME NEW k \in Clients, MarkUnreachable(k) PROVE RosterInv'
  <2>1. /\ marked' = marked \cup {k} /\ k \in RosterKeys /\ roster[k] \notin up
        /\ UNCHANGED <<roster, pc, walk, up>>
    BY <1>9 DEF MarkUnreachable, handlerVars, socketVars
  <2>2. Parted(k)
    BY <1>0, <2>1 DEF RosterInv, Parted, RosterKeys
  <2> QED BY <2>1, <2>2 DEF RosterInv, Parted, Reconnected, RosterKeys
<1>10. ASSUME NEW k \in Clients, RemoveMarked(k) PROVE RosterInv'
  <2>1. /\ marked' = marked \ {k} /\ k \in marked /\ roster' = WithoutKeys({k})
        /\ UNCHANGED <<pc, walk, up>>
    BY <1>10 DEF RemoveMarked, handlerVars, socketVars
  <2>2. \A j \in RosterKeys' : j \in RosterKeys /\ roster'[j] = roster[j]
    BY <1>0, <2>1 DEF RosterKeys, WithoutKeys
  <2>3. ASSUME NEW d \in up, ~Reconnected(d) PROVE roster'[ClientOf[d]] = d
    <3>1. ~Parted(ClientOf[d]) /\ d \in Connections
      BY <1>0, <2>3 DEF Parted, Reconnected
    <3>2. ClientOf[d] # k
      BY <2>1, <3>1 DEF RosterInv
    <3> QED BY <1>0, <2>1, <2>3, <3>1, <3>2 DEF RosterInv, WithoutKeys
  <2>4. /\ \A j \in RosterKeys' : ClientOf[roster'[j]] = j /\ pc'[roster'[j]] # "absent"
        /\ \A j \in marked' : j \in marked
    BY <2>1, <2>2 DEF RosterInv
  <2>5. /\ \A j : Parted(j)' <=> Parted(j)
        /\ \A d \in up : Reconnected(d)' <=> Reconnected(d)
    BY <2>1 DEF Parted, Reconnected
  <2> QED BY <2>1, <2>3, <2>4, <2>5 DEF RosterInv
<1>11. CASE UNCHANGED vars
  BY <1>11 DEF vars, roomVars, handlerVars, socketVars, RosterInv, Parted, Reconnected, RosterKeys
<1> QED BY <1>1, <1>2, <1>3, <1>4, <1>5, <1>6, <1>7, <1>8, <1>9, <1>10, <1>11 DEF Next, Handle

\* The registered connections are those the room serves.
LEMMA RosterInvariant == Spec => []RosterInv
<1>1. Init => RosterInv
  BY DEF Init, RosterInv, RosterKeys, NoWalk
<1>2. TypeOK /\ RosterInv /\ [Next]_vars => RosterInv'
  BY StepRoster
<1> QED BY <1>1, <1>2, TypeCorrect, PTL DEF Spec

\* The connection that a handler serves is the registered one of its client,
\* unless the client had another one before: neither leave() nor the removal of
\* the keys that a broadcast found closed hits it (service.py, join, leave).
THEOREM ServedIsRegistered == Spec => []ServedMeansRegistered
<1>1. RosterInv => ServedMeansRegistered
  BY DEF RosterInv, ServedMeansRegistered
<1> QED BY <1>1, RosterInvariant, PTL

-----------------------------------------------------------------------------
(* What is announced.                                                      *)

\* An operation that is committed and not yet announced to everybody is stored
\* as its handler has it, and the room has reached it.
Announced ==
  \A d \in Connections :
    /\ pc[d] \in Announcing \cup {"publishing"} =>
         /\ target[d] \in DOMAIN log
         /\ log[target[d]] = [id |-> request[d].id, op |-> request[d].op]
    /\ pc[d] \in Announcing => target[d] <= version

\* A handler works on operations of its own client.
OwnRequests == \A d \in Connections : pc[d] \in Busy => request[d].id.client = ClientOf[d]

\* A handler comes to announce an operation only by writing it, and it has been
\* published before anybody is told.
LEMMA AnnouncingSteps ==
  ASSUME HistoryInv, [Next]_vars, NEW d \in Connections,
         pc'[d] \in Announcing \cup {"publishing"}
  PROVE  \/ Persist(d) /\ pc'[d] = "publishing"
         \/ /\ pc[d] \in Announcing \cup {"publishing"}
            /\ request'[d] = request[d] /\ target'[d] = target[d]
            /\ pc'[d] # "publishing" /\ pc[d] = "publishing" => Publish(d)
<1> DEFINE Kept ==
         \/ Persist(d) /\ pc'[d] = "publishing"
         \/ /\ pc[d] \in Announcing \cup {"publishing"}
            /\ request'[d] = request[d] /\ target'[d] = target[d]
            /\ pc'[d] # "publishing" /\ pc[d] = "publishing" => Publish(d)
<1>0. /\ pc \in [Connections -> PcValues] /\ target \in [Connections -> Nat]
      /\ request \in [Connections -> Requests \cup {NoRequest}]
  BY DEF HistoryInv, TypeOK
<1> USE <1>0 DEF Goto, handlerVars, Announcing
<1>1. ASSUME NEW c \in Connections, Join(c) \/ Leave(c) \/ Disconnect(c) PROVE Kept
  BY <1>1 DEF Join, Leave, Disconnect
<1>2. ASSUME NEW c \in Connections, NEW m \in Submissions(c), Submit(c, m) PROVE Kept
  BY <1>2 DEF Submit, RefuseReadOnly, AcknowledgeAgain, LookUp, Receive
<1>3. ASSUME NEW c \in Connections, AcknowledgeNoOp(c) \/ Transform(c) PROVE Kept
  BY <1>3 DEF AcknowledgeNoOp, Transform
<1>4. ASSUME NEW c \in Connections, Persist(c) PROVE Kept
  BY <1>4 DEF Persist
<1>5. ASSUME NEW c \in Connections, Publish(c) PROVE Kept
  BY <1>5 DEF Publish
<1>6. ASSUME NEW c \in Connections, PersistFails(c) \/ PublishFails(c) PROVE Kept
  BY <1>6 DEF PersistFails, PublishFails
<1>7. ASSUME NEW c \in Connections, SaveSnapshot(c) \/ SaveSnapshotFails(c) PROVE Kept
  BY <1>7 DEF SaveSnapshot, SaveSnapshotFails
<1>8. ASSUME NEW c \in Connections, Acknowledge(c) \/ \E k \in Clients : DeliverTo(c, k) PROVE Kept
  BY <1>8 DEF Acknowledge, DeliverTo, Broadcasting
<1>9. ASSUME NEW c \in Connections, FinishBroadcast(c) \/ AnnouncementFails(c) PROVE Kept
  BY <1>9 DEF FinishBroadcast, AnnouncementFails, Broadcasting
<1>10. CASE Restart \/ UNCHANGED vars \/ \E k \in Clients : MarkUnreachable(k) \/ RemoveMarked(k)
  BY <1>10 DEF Restart, MarkUnreachable, RemoveMarked, vars
<1> QED BY <1>1, <1>2, <1>3, <1>4, <1>5, <1>6, <1>7, <1>8, <1>9, <1>10 DEF Next, Handle

\* What a handler announces stays what is stored.
LEMMA StepAnnounced ==
  ASSUME HistoryInv, Announced, [Next]_vars
  PROVE  Announced'
<1> SUFFICES ASSUME NEW d \in Connections, pc'[d] \in Announcing \cup {"publishing"}
             PROVE  /\ target'[d] \in DOMAIN log'
                    /\ log'[target'[d]] = [id |-> request'[d].id, op |-> request'[d].op]
                    /\ pc'[d] \in Announcing => target'[d] <= version'
  BY DEF Announced
<1>1. CASE Persist(d) /\ pc'[d] = "publishing"
  <2>1. /\ log' = Extend(log, target[d], [id |-> request[d].id, op |-> request[d].op])
        /\ request' = request /\ target' = target
    BY <1>1 DEF Persist
  <2>2. /\ target[d] \in DOMAIN log'
        /\ log'[target[d]] = [id |-> request[d].id, op |-> request[d].op]
    BY <2>1 DEF Extend
  <2> QED BY <1>1, <2>1, <2>2 DEF Announcing
<1>2. CASE /\ pc[d] \in Announcing \cup {"publishing"}
           /\ request'[d] = request[d] /\ target'[d] = target[d]
           /\ pc'[d] # "publishing" /\ pc[d] = "publishing" => Publish(d)
  <2>1. /\ target[d] \in DOMAIN log
        /\ log[target[d]] = [id |-> request[d].id, op |-> request[d].op]
    BY <1>2 DEF Announced
  <2>2. target[d] \in DOMAIN log' /\ log'[target[d]] = log[target[d]]
    BY <2>1, HistoryGrows
  <2>3. ASSUME pc'[d] \in Announcing PROVE target[d] <= version'
    <3>1. CASE pc[d] = "publishing"
      <4>1. version' = target[d] /\ version' \in Nat
        BY <1>2, <2>3, <3>1, StepTyped DEF Publish, Announcing, HistoryInv, TypeOK
      <4> QED BY <4>1
    <3>2. CASE pc[d] # "publishing"
      <4>1. target[d] <= version /\ target[d] \in Nat /\ version \in Nat
        BY <1>2, <3>2 DEF Announced, HistoryInv, TypeOK
      <4>2. version' \in Nat /\ version' >= version
        BY <1>2, <2>3, <3>2, VersionGrows DEF Busy
      <4> QED BY <4>1, <4>2
    <3> QED BY <3>1, <3>2
  <2> QED BY <1>2, <2>1, <2>2, <2>3
<1> QED BY <1>1, <1>2, AnnouncingSteps

\* The identity of a request stays while its handler works on it.
LEMMA BusySteps ==
  ASSUME HistoryInv, [Next]_vars, NEW d \in Connections, pc'[d] \in Busy
  PROVE  \/ pc[d] \in Busy /\ request'[d].id = request[d].id
         \/ \E m \in Submissions(d) : LookUp(d, m)
<1> DEFINE Kept == \/ pc[d] \in Busy /\ request'[d].id = request[d].id
                   \/ \E m \in Submissions(d) : LookUp(d, m)
<1>0. /\ pc \in [Connections -> PcValues]
      /\ request \in [Connections -> Requests \cup {NoRequest}]
  BY DEF HistoryInv, TypeOK
<1> USE <1>0 DEF Goto, handlerVars, Busy, Critical, Announcing
<1>1. ASSUME NEW c \in Connections, Join(c) \/ Leave(c) \/ Disconnect(c) PROVE Kept
  BY <1>1 DEF Join, Leave, Disconnect
<1>2. ASSUME NEW c \in Connections, NEW m \in Submissions(c), Submit(c, m) PROVE Kept
  BY <1>2 DEF Submit, RefuseReadOnly, AcknowledgeAgain, LookUp, Receive
<1>3. ASSUME NEW c \in Connections, AcknowledgeNoOp(c) \/ Persist(c) PROVE Kept
  BY <1>3 DEF AcknowledgeNoOp, Persist
<1>4. ASSUME NEW c \in Connections, Transform(c) PROVE Kept
  <2>1. /\ pc[c] = "waiting" /\ pc' = [pc EXCEPT ![c] = "persisting"]
        /\ request' = [request EXCEPT ![c].op = Transformed(request[c])]
    BY <1>4 DEF Transform
  <2>2. request[c] \in Requests
    BY <2>1 DEF HistoryInv, RequestsKept
  <2>3. request'[c].id = request[c].id
    BY <2>1, <2>2 DEF Requests
  <2> QED BY <2>1, <2>3
<1>5. ASSUME NEW c \in Connections, Publish(c) PROVE Kept
  BY <1>5 DEF Publish
<1>6. ASSUME NEW c \in Connections, PersistFails(c) \/ PublishFails(c) PROVE Kept
  BY <1>6 DEF PersistFails, PublishFails
<1>7. ASSUME NEW c \in Connections, SaveSnapshot(c) \/ SaveSnapshotFails(c) PROVE Kept
  BY <1>7 DEF SaveSnapshot, SaveSnapshotFails
<1>8. ASSUME NEW c \in Connections, Acknowledge(c) \/ \E k \in Clients : DeliverTo(c, k) PROVE Kept
  BY <1>8 DEF Acknowledge, DeliverTo, Broadcasting
<1>9. ASSUME NEW c \in Connections, FinishBroadcast(c) \/ AnnouncementFails(c) PROVE Kept
  BY <1>9 DEF FinishBroadcast, AnnouncementFails, Broadcasting
<1>10. CASE Restart \/ UNCHANGED vars \/ \E k \in Clients : MarkUnreachable(k) \/ RemoveMarked(k)
  BY <1>10 DEF Restart, MarkUnreachable, RemoveMarked, vars
<1> QED BY <1>1, <1>2, <1>3, <1>4, <1>5, <1>6, <1>7, <1>8, <1>9, <1>10 DEF Next, Handle

\* A handler stays busy with a request of its own client.
LEMMA StepOwnRequests ==
  ASSUME HistoryInv, OwnRequests, [Next]_vars
  PROVE  OwnRequests'
<1> SUFFICES ASSUME NEW d \in Connections, pc'[d] \in Busy
             PROVE  request'[d].id.client = ClientOf[d]
  BY DEF OwnRequests
<1>1. CASE pc[d] \in Busy /\ request'[d].id = request[d].id
  BY <1>1 DEF OwnRequests
<1>2. ASSUME NEW m \in Submissions(d), LookUp(d, m)
      PROVE  request'[d].id.client = ClientOf[d]
  BY <1>2 DEF LookUp, Receive, HistoryInv, TypeOK
<1> QED BY <1>1, <1>2, BusySteps

\* What a new message on connection d says.
Said(d, msg) ==
  \/ msg.kind \notin {"ack", "broadcast_op"}
  \/ /\ msg.kind = "broadcast_op"
     /\ \E c \in Connections : /\ pc[c] \in {"acked", "broadcasting"}
                               /\ msg = BroadcastMsg(request[c].id, target[c], request[c].op)
  \/ pc[d] = "acking" /\ msg = AckMsg(request[d].id, target[d], request[d].op)
  \/ \E m \in Submissions(d) : \E v \in VersionsOf(m.id) : msg = AckMsg(m.id, v, log[v].op)
  \/ AcknowledgeNoOp(d) /\ msg = AckMsg(request[d].id, version, request[d].op)

\* A step that sends one message.
LEMMA SendsOne ==
  ASSUME outbox \in [Connections -> Seq(Messages)], NEW c \in Connections, NEW msg,
         Transmit(c, msg), NEW d \in Connections, NEW i \in DOMAIN outbox'[d]
  PROVE  \/ i \in DOMAIN outbox[d] /\ outbox'[d][i] = outbox[d][i]
         \/ d = c /\ outbox'[d][i] = msg
BY DEF Transmit

\* A message in an outbox was there before, or is what its handler says now.
LEMMA NewMessages ==
  ASSUME HistoryInv, [Next]_vars, NEW d \in Connections, NEW i \in DOMAIN outbox'[d]
  PROVE  \/ i \in DOMAIN outbox[d] /\ outbox'[d][i] = outbox[d][i]
         \/ Said(d, outbox'[d][i])
<1> DEFINE Kept == \/ i \in DOMAIN outbox[d] /\ outbox'[d][i] = outbox[d][i]
                   \/ Said(d, outbox'[d][i])
<1>0. outbox \in [Connections -> Seq(Messages)]
  BY DEF HistoryInv, TypeOK
<1>1. CASE outbox' = outbox
  BY <1>1
<1>2. ASSUME NEW c \in Connections, Join(c) PROVE Kept
  <2>1. outbox' = [outbox EXCEPT ![c] = Append(@, SnapshotMsg(version', content'))]
    BY <1>2 DEF Join
  <2>2. \/ i \in DOMAIN outbox[d] /\ outbox'[d][i] = outbox[d][i]
        \/ outbox'[d][i] = SnapshotMsg(version', content')
    BY <1>0, <2>1
  <2> QED BY <2>2 DEF Said, SnapshotMsg
<1>3. ASSUME NEW c \in Connections, NEW m \in Submissions(c), RefuseReadOnly(c, m) PROVE Kept
  BY <1>0, <1>3, SendsOne DEF RefuseReadOnly, ReadOnlyMsg, Said
<1>4. ASSUME NEW c \in Connections, NEW m \in Submissions(c), AcknowledgeAgain(c, m) PROVE Kept
  <2>1. PICK v \in VersionsOf(m.id) : Transmit(c, AckMsg(m.id, v, log[v].op))
    BY <1>4 DEF AcknowledgeAgain
  <2>2. \/ i \in DOMAIN outbox[d] /\ outbox'[d][i] = outbox[d][i]
        \/ d = c /\ outbox'[d][i] = AckMsg(m.id, v, log[v].op)
    BY <1>0, <2>1, SendsOne
  <2> QED BY <2>2 DEF Said
<1>5. ASSUME NEW c \in Connections, NEW m \in Submissions(c), LookUp(c, m) PROVE Kept
  BY <1>1, <1>5 DEF LookUp, socketVars
<1>6. ASSUME NEW c \in Connections, AcknowledgeNoOp(c) PROVE Kept
  <2>1. Transmit(c, AckMsg(request[c].id, version, request[c].op))
    BY <1>6 DEF AcknowledgeNoOp
  <2>2. \/ i \in DOMAIN outbox[d] /\ outbox'[d][i] = outbox[d][i]
        \/ d = c /\ outbox'[d][i] = AckMsg(request[c].id, version, request[c].op)
    BY <1>0, <2>1, SendsOne
  <2> QED BY <1>6, <2>2 DEF Said
<1>7. ASSUME NEW c \in Connections, Acknowledge(c) PROVE Kept
  <2>1. Transmit(c, AckMsg(request[c].id, target[c], request[c].op)) /\ pc[c] = "acking"
    BY <1>7 DEF Acknowledge
  <2>2. \/ i \in DOMAIN outbox[d] /\ outbox'[d][i] = outbox[d][i]
        \/ d = c /\ outbox'[d][i] = AckMsg(request[c].id, target[c], request[c].op)
    BY <1>0, <2>1, SendsOne
  <2> QED BY <2>1, <2>2 DEF Said
<1>8. ASSUME NEW c \in Connections, NEW k \in Clients, DeliverTo(c, k) PROVE Kept
  <2>1. /\ Transmit(roster[k], BroadcastMsg(request[c].id, target[c], request[c].op))
        /\ pc[c] \in {"acked", "broadcasting"} /\ roster[k] \in Connections
    BY <1>8 DEF DeliverTo, Broadcasting, RosterKeys, HistoryInv, TypeOK
  <2>2. \/ i \in DOMAIN outbox[d] /\ outbox'[d][i] = outbox[d][i]
        \/ outbox'[d][i] = BroadcastMsg(request[c].id, target[c], request[c].op)
    BY <1>0, <2>1, SendsOne
  <2>3. BroadcastMsg(request[c].id, target[c], request[c].op).kind = "broadcast_op"
    BY DEF BroadcastMsg
  <2> QED BY <2>1, <2>2, <2>3 DEF Said
<1>9. ASSUME NEW c \in Connections,
              \/ Leave(c) \/ Disconnect(c) \/ Transform(c) \/ Persist(c) \/ PersistFails(c)
              \/ Publish(c) \/ PublishFails(c) \/ SaveSnapshot(c) \/ SaveSnapshotFails(c)
              \/ FinishBroadcast(c) \/ AnnouncementFails(c)
       PROVE  Kept
  BY <1>1, <1>9 DEF Leave, Disconnect, Transform, Persist, PersistFails, Publish, PublishFails,
     SaveSnapshot, SaveSnapshotFails, FinishBroadcast, AnnouncementFails, socketVars
<1>10. CASE Restart \/ UNCHANGED vars \/ \E k \in Clients : MarkUnreachable(k) \/ RemoveMarked(k)
  BY <1>1, <1>10 DEF Restart, MarkUnreachable, RemoveMarked, vars, socketVars
<1> QED BY <1>2, <1>3, <1>4, <1>5, <1>6, <1>7, <1>8, <1>9, <1>10 DEF Next, Handle, Submit

\* A stored operation stays stored as it is.
StoredAs(msg) == msg.version \in VersionsOf(msg.id) /\ msg.op = log[msg.version].op

\* What was told as it is stored stays so: the history only grows.
LEMMA StoredStays ==
  ASSUME HistoryInv, [Next]_vars, NEW msg, StoredAs(msg)
  PROVE  /\ msg.version \in DOMAIN log' /\ log'[msg.version].id = msg.id
         /\ msg.op = log'[msg.version].op
BY HistoryGrows DEF StoredAs, VersionsOf

\* Every operation that is broadcast is stored.
BroadcastsStored ==
  \A c \in Connections : \A i \in DOMAIN outbox[c] :
    outbox[c][i].kind = "broadcast_op" => StoredAs(outbox[c][i])

\* What a handler announces is stored.
LEMMA AnnouncedIsStored ==
  ASSUME Announced, NEW c \in Connections, pc[c] \in Announcing
  PROVE  /\ StoredAs(BroadcastMsg(request[c].id, target[c], request[c].op))
         /\ StoredAs(AckMsg(request[c].id, target[c], request[c].op))
<1>1. /\ target[c] \in DOMAIN log
      /\ log[target[c]] = [id |-> request[c].id, op |-> request[c].op]
  BY DEF Announced
<1> QED BY <1>1 DEF StoredAs, VersionsOf, BroadcastMsg, AckMsg

\* Every step leaves broadcasts that are stored.
LEMMA StepBroadcasts ==
  ASSUME HistoryInv, Announced, BroadcastsStored, [Next]_vars
  PROVE  BroadcastsStored'
<1> SUFFICES ASSUME NEW d \in Connections, NEW i \in DOMAIN outbox'[d],
                    outbox'[d][i].kind = "broadcast_op"
             PROVE  /\ outbox'[d][i].version \in DOMAIN log'
                    /\ log'[outbox'[d][i].version].id = outbox'[d][i].id
                    /\ outbox'[d][i].op = log'[outbox'[d][i].version].op
  BY DEF BroadcastsStored, StoredAs, VersionsOf
<1>1. StoredAs(outbox'[d][i])
  <2>1. CASE i \in DOMAIN outbox[d] /\ outbox'[d][i] = outbox[d][i]
    BY <2>1 DEF BroadcastsStored
  <2>2. CASE Said(d, outbox'[d][i])
    <3>1. \A id, v, op : AckMsg(id, v, op).kind = "ack"
      BY DEF AckMsg
    <3>2. \E c \in Connections :
            /\ pc[c] \in {"acked", "broadcasting"}
            /\ outbox'[d][i] = BroadcastMsg(request[c].id, target[c], request[c].op)
      BY <2>2, <3>1 DEF Said
    <3> QED BY <3>2, AnnouncedIsStored DEF Announcing
  <2> QED BY <2>1, <2>2, NewMessages
<1> QED BY <1>1, StoredStays

\* An operation of which nothing is left will not be accepted: the transformation
\* over the history has made nothing of it, and nobody is about to write it.
Doomed(c, id) ==
  LET raw == submitted[id]
  IN  /\ VersionsOf(id) = {}
      /\ raw \in Requests
      /\ pc[c] # "gone" =>
           /\ raw.base < version
           /\ TransformOverHistory(raw.op, id, log, raw.base, dbVersion) = NoOperation
      /\ pc[c] = "persisting" => request[c].id # id

\* What a client was told of its operations while it had one connection.
AcksKept ==
  \A c \in Connections : ~Reconnected(c) =>
    /\ pc[c] = "absent" => outbox[c] = <<>>
    /\ pc[c] = "waiting" => VersionsOf(request[c].id) = {}
    /\ \A i \in DOMAIN outbox[c] : outbox[c][i].kind = "ack" =>
         /\ outbox[c][i].id \in Ids /\ outbox[c][i].id.client = ClientOf[c]
         /\ StoredAs(outbox[c][i]) \/ Doomed(c, outbox[c][i].id)

\* The room's version only grows as long as a connection lives.
LEMMA VersionGrowsAlive ==
  ASSUME HistoryInv, [Next]_vars, NEW d \in Connections,
         pc[d] \notin {"absent", "gone"}, pc'[d] # "gone"
  PROVE  version' \in Nat /\ version' >= version
<1>1. version \in Nat /\ version' \in Nat
  BY StepTyped DEF HistoryInv, TypeOK
<1>2. loaded
  BY DEF HistoryInv, RoomInHistory
<1>3. CASE UNCHANGED version
  BY <1>1, <1>3
<1>4. ASSUME NEW c \in Connections, Publish(c) PROVE version' >= version
  BY <1>1, <1>4 DEF Publish, HistoryInv, HolderReady
<1>5. ~Restart
  BY DEF Restart
<1>6. ASSUME NEW c \in Connections, Join(c) PROVE version' = version
  BY <1>2, <1>6 DEF Join
<1> QED BY <1>1, <1>3, <1>4, <1>5, <1>6 DEF Next, Handle, Submit, vars, roomVars, Leave,
       Disconnect, RefuseReadOnly, AcknowledgeAgain, LookUp, AcknowledgeNoOp, Transform, Persist,
       PersistFails, PublishFails, SaveSnapshot, SaveSnapshotFails,
       Acknowledge, DeliverTo, FinishBroadcast, AnnouncementFails, MarkUnreachable, RemoveMarked

\* Only the one connection of a client can accept an operation of that client.
LEMMA AcceptedByOwn ==
  ASSUME HistoryInv, OwnRequests, [Next]_vars, NEW c \in Connections, ~Reconnected(c),
         NEW id \in Ids, id.client = ClientOf[c], VersionsOf(id) = {},
         pc[c] = "persisting" => request[c].id # id
  PROVE  VersionsOf(id)' = {}
<1>1. ASSUME NEW d \in Connections, Persist(d) PROVE request[d].id # id
  <2>1. pc[d] = "persisting"
    BY <1>1 DEF Persist
  <2>2. CASE d = c
    BY <2>1, <2>2
  <2>3. CASE d # c
    <3>1. ClientOf[d] # ClientOf[c]
      BY <2>1, <2>3 DEF Reconnected
    <3>2. request[d].id.client = ClientOf[d]
      BY <2>1 DEF OwnRequests, Busy, Critical
    <3> QED BY <3>1, <3>2
  <2> QED BY <2>2, <2>3
<1>2. ASSUME NEW d \in Connections, Persist(d) PROVE VersionsOf(id)' = {}
  <2>1. log' = Extend(log, target[d], [id |-> request[d].id, op |-> request[d].op])
    BY <1>2 DEF Persist
  <2>2. request[d].id # id
    BY <1>1, <1>2
  <2> QED BY <2>1, <2>2 DEF VersionsOf, Extend
<1>3. CASE \A d \in Connections : ~Persist(d)
  BY <1>3, OnlyPersistWrites DEF VersionsOf
<1> QED BY <1>2, <1>3

\* Nothing stays nothing, whatever is accepted in between.
LEMMA NothingStaysNothing ==
  ASSUME HistoryInv, [Next]_vars, NEW id, NEW op, NEW base \in Nat, base <= dbVersion,
         TransformOverHistory(op, id, log, base, dbVersion) = NoOperation
  PROVE  TransformOverHistory(op, id, log', base, dbVersion') = NoOperation
<1>1. dbVersion \in Nat /\ DOMAIN log = 1..dbVersion
  BY DEF HistoryInv, TypeOK, LogReplays
<1>2. \A v \in (base + 1)..dbVersion : v \in DOMAIN log /\ v \in DOMAIN log' /\ log'[v] = log[v]
  BY <1>1, HistoryGrows
<1>3. dbVersion' = dbVersion \/ dbVersion' = dbVersion + 1
  BY OnlyPersistWrites, PersistIsNext DEF Persist
<1>4. /\ TransformOverHistory(op, id, log', base, dbVersion) = NoOperation
      /\ TransformOverHistory(op, id, log', base, dbVersion + 1) = NoOperation
  BY <1>1, <1>2, HistoryStaysNone
<1> QED BY <1>3, <1>4

\* What waits has no row: the lookup found none, and nobody but its client could
\* have written one since.
LEMMA StepFresh ==
  ASSUME HistoryInv, OwnRequests, AcksKept, [Next]_vars,
         NEW c \in Connections, ~Reconnected(c), pc'[c] = "waiting"
  PROVE  \A v \in DOMAIN log' : log'[v].id # request'[c].id
<1>1. CASE pc[c] = "waiting" /\ request'[c] = request[c]
  <2>1. request[c] \in Requests /\ request[c].id.client = ClientOf[c]
    BY <1>1 DEF HistoryInv, RequestsKept, OwnRequests, Busy
  <2>2. VersionsOf(request[c].id) = {}
    BY <1>1 DEF AcksKept
  <2>3. \A id \in Ids : id.client = ClientOf[c] /\ VersionsOf(id) = {} => VersionsOf(id)' = {}
    BY <1>1, AcceptedByOwn
  <2> QED BY <1>1, <2>1, <2>2, <2>3, RequestParts DEF VersionsOf
<1>2. ASSUME NEW m \in Submissions(c), LookUp(c, m)
      PROVE  \A v \in DOMAIN log' : log'[v].id # request'[c].id
  <2>1. request'[c] = m /\ VersionsOf(m.id) = {} /\ log' = log
    BY <1>2 DEF LookUp, dbVars, HistoryInv, TypeOK
  <2> QED BY <2>1 DEF VersionsOf
<1> QED BY <1>1, <1>2, WaitingSteps

\* A connection that left never comes back.
LEMMA GoneStays ==
  ASSUME TypeOK, [Next]_vars, NEW e \in Connections, pc[e] = "gone"
  PROVE  pc'[e] = "gone"
<1>0. pc \in [Connections -> PcValues]
  BY DEF TypeOK
<1> USE <1>0 DEF Goto, handlerVars
<1>1. ASSUME NEW c \in Connections, Join(c) \/ Leave(c) \/ Disconnect(c) PROVE pc'[e] = "gone"
  BY <1>1 DEF Join, Leave, Disconnect
<1>2. ASSUME NEW c \in Connections, Handle(c) PROVE pc'[e] = "gone"
  BY <1>2 DEF Handle, AcknowledgeNoOp, Transform, Persist, PersistFails, Publish, PublishFails,
       SaveSnapshot, SaveSnapshotFails, Acknowledge, DeliverTo, FinishBroadcast, Broadcasting,
       AnnouncementFails
<1>3. ASSUME NEW c \in Connections, NEW m \in Submissions(c), Submit(c, m) PROVE pc'[e] = "gone"
  BY <1>3 DEF Submit, RefuseReadOnly, AcknowledgeAgain, LookUp, Receive
<1>4. CASE Restart \/ UNCHANGED vars \/ \E k \in Clients : MarkUnreachable(k) \/ RemoveMarked(k)
  BY <1>4 DEF Restart, MarkUnreachable, RemoveMarked, vars
<1> QED BY <1>1, <1>2, <1>3, <1>4 DEF Next

\* Nothing changes the fate of an operation of which nothing was left.
LEMMA DoomedStays ==
  ASSUME HistoryInv, SubmissionInv, OwnRequests, [Next]_vars,
         NEW c \in Connections, ~Reconnected(c), pc[c] # "absent",
         NEW id \in Ids, id.client = ClientOf[c], Doomed(c, id)
  PROVE  Doomed(c, id)'
<1> DEFINE raw == submitted[id]
<1>1. VersionsOf(id) = {} /\ raw \in Requests /\ (pc[c] = "persisting" => request[c].id # id)
  BY DEF Doomed
<1>2. VersionsOf(id)' = {}
  BY <1>1, AcceptedByOwn
<1>3. submitted'[id] = raw
  BY <1>1, SubmittedStays
<1>4. ASSUME pc'[c] # "gone"
      PROVE  /\ pc[c] # "gone"
             /\ raw.base < version'
             /\ TransformOverHistory(raw.op, id, log', raw.base, dbVersion') = NoOperation
  <2>1. pc[c] # "gone"
    BY <1>4, GoneStays DEF HistoryInv
  <2>2. raw.base < version /\ TransformOverHistory(raw.op, id, log, raw.base, dbVersion) = NoOperation
    BY <2>1 DEF Doomed
  <2>3. raw.base \in Nat /\ version \in Nat /\ dbVersion \in Nat /\ version <= dbVersion
    BY <1>1, RequestParts DEF HistoryInv, TypeOK, RoomInHistory
  <2>4. version' \in Nat /\ version' >= version
    BY <1>4, <2>1, VersionGrowsAlive
  <2>5. TransformOverHistory(raw.op, id, log', raw.base, dbVersion') = NoOperation
    <3> HIDE DEF raw
    <3>1. raw.base <= dbVersion
      BY <2>2, <2>3
    <3> QED BY <2>2, <2>3, <3>1, NothingStaysNothing
  <2> QED BY <2>1, <2>2, <2>3, <2>4, <2>5
<1>5. ASSUME pc'[c] = "persisting" PROVE request'[c].id # id
  <2>1. CASE pc[c] = "persisting" /\ request'[c] = request[c]
    BY <1>1, <2>1
  <2>2. CASE Transform(c)
    <3>1. pc[c] = "waiting" /\ Transformed(request[c]) # NoOperation
      BY <2>2 DEF Transform
    <3>2. request[c] \in Requests /\ submitted[request[c].id] = request[c]
      BY <3>1 DEF HistoryInv, RequestsKept, Busy, SubmissionInv, WaitingKept
    <3>3. request'[c].id = request[c].id
      BY <2>2, <3>2 DEF Transform, Requests, HistoryInv, TypeOK
    <3>4. ASSUME request[c].id = id PROVE FALSE
      <4>1. request[c] = raw
        BY <3>2, <3>4
      <4>2. /\ raw.base < version
            /\ TransformOverHistory(raw.op, id, log, raw.base, dbVersion) = NoOperation
        BY <3>1 DEF Doomed
      <4> QED BY <3>1, <3>4, <4>1, <4>2 DEF Transformed
    <3> QED BY <3>3, <3>4
  <2> QED BY <1>5, <2>1, <2>2, PersistingSteps
<1> QED BY <1>1, <1>2, <1>3, <1>4, <1>5 DEF Doomed

\* No operation is confused with none.
LEMMA NoOperationIsNone == NoOperation \notin Operations
<1> SUFFICES ASSUME NoOperation \in Operations PROVE FALSE
  OBVIOUS
<1> QED BY DEF NoOperation, Operations

\* Nobody sends to a connection that is not there.
LEMMA AbsentHearsNothing ==
  ASSUME HistoryInv, RosterInv, [Next]_vars, NEW d \in Connections, pc[d] = "absent", ~Join(d)
  PROVE  outbox'[d] = outbox[d]
<1>0. outbox \in [Connections -> Seq(Messages)]
  BY DEF HistoryInv, TypeOK
<1>1. d \notin up
  BY DEF RosterInv
<1>2. ASSUME NEW c \in Connections, NEW msg, Transmit(c, msg)
      PROVE  outbox'[d] = outbox[d]
  BY <1>0, <1>1, <1>2 DEF Transmit
<1>3. CASE UNCHANGED outbox
  BY <1>3
<1>4. ASSUME NEW c \in Connections, Join(c) PROVE outbox'[d] = outbox[d]
  BY <1>0, <1>4 DEF Join
<1>5. ASSUME NEW c \in Connections, NEW m \in Submissions(c), Submit(c, m)
      PROVE  outbox'[d] = outbox[d]
  BY <1>2, <1>3, <1>5 DEF Submit, RefuseReadOnly, AcknowledgeAgain, LookUp, socketVars
<1>6. ASSUME NEW c \in Connections, NEW k \in Clients, DeliverTo(c, k)
      PROVE  outbox'[d] = outbox[d]
  <2>1. roster[k] \in Connections
    BY <1>6 DEF DeliverTo, RosterKeys, HistoryInv, TypeOK
  <2> QED BY <1>2, <1>6, <2>1 DEF DeliverTo
<1>7. ASSUME NEW c \in Connections, AcknowledgeNoOp(c) \/ Acknowledge(c)
      PROVE  outbox'[d] = outbox[d]
  BY <1>2, <1>7 DEF AcknowledgeNoOp, Acknowledge
<1> QED BY <1>3, <1>4, <1>5, <1>6, <1>7 DEF Next, Handle, vars, socketVars, Leave, Disconnect,
       Transform, Persist, PersistFails, Publish, PublishFails, SaveSnapshot, SaveSnapshotFails,
       FinishBroadcast, AnnouncementFails, Restart, MarkUnreachable, RemoveMarked

\* Nothing is left of an operation: it is acknowledged, and never accepted.
LEMMA NoOpIsDoomed ==
  ASSUME HistoryInv, SubmissionInv, NEW c \in Connections, AcknowledgeNoOp(c),
         VersionsOf(request[c].id) = {}, NEW id, id = request[c].id
  PROVE  Doomed(c, id)'
<1> DEFINE raw == submitted[id]
<1>1. /\ pc[c] = "waiting" /\ Transformed(request[c]) = NoOperation
      /\ pc' = [pc EXCEPT ![c] = "idle"]
      /\ UNCHANGED <<version, log, dbVersion, submitted>>
  BY DEF AcknowledgeNoOp, Goto, roomVars, dbVars, historyVars
<1>2. raw = request[c] /\ raw \in Requests
  BY <1>1 DEF SubmissionInv, WaitingKept, HistoryInv, RequestsKept, Busy
<1>3. raw.op # NoOperation
  BY <1>2, RequestParts, NoOperationIsNone
<1>4. /\ raw.base < version
      /\ TransformOverHistory(raw.op, id, log, raw.base, dbVersion) = NoOperation
  BY <1>1, <1>2, <1>3 DEF Transformed
<1>5. pc'[c] = "idle"
  BY <1>1 DEF HistoryInv, TypeOK
<1>6. (VersionsOf(id) = {})'
  BY <1>1 DEF VersionsOf
<1> QED BY <1>1, <1>2, <1>4, <1>5, <1>6 DEF Doomed

\* Every step leaves acknowledgements that are stored.
LEMMA StepAcks ==
  ASSUME HistoryInv, RosterInv, SubmissionInv, Announced, OwnRequests, AcksKept, [Next]_vars
  PROVE  AcksKept'
<1> DEFINE Absent(c) == pc[c] = "absent" => outbox[c] = <<>>
           Fresh(c)  == pc[c] = "waiting" => VersionsOf(request[c].id) = {}
           Told(c)   == \A i \in DOMAIN outbox[c] : outbox[c][i].kind = "ack" =>
                          /\ outbox[c][i].id \in Ids /\ outbox[c][i].id.client = ClientOf[c]
                          /\ StoredAs(outbox[c][i]) \/ Doomed(c, outbox[c][i].id)
<1> SUFFICES ASSUME NEW c \in Connections, ~Reconnected(c)'
             PROVE  Absent(c)' /\ Fresh(c)' /\ Told(c)'
  BY DEF AcksKept
<1>1. ~Reconnected(c)
  BY PresenceStays DEF Reconnected, HistoryInv
<1>2. ASSUME pc'[c] = "absent" PROVE outbox'[c] = <<>>
  <2>1. pc[c] = "absent" /\ ~Join(c)
    <3>1. pc[c] = "absent"
      BY <1>2, PresenceStays DEF HistoryInv
    <3>2. ~Join(c)
      BY <1>2 DEF Join, Goto, HistoryInv, TypeOK
    <3> QED BY <3>1, <3>2
  <2>2. outbox[c] = <<>>
    BY <1>1, <2>1 DEF AcksKept
  <2>3. outbox'[c] = outbox[c]
    BY <2>1, AbsentHearsNothing
  <2> QED BY <2>2, <2>3
<1>3. Fresh(c)'
  BY <1>1, StepFresh DEF VersionsOf
<1>4. ASSUME NEW i \in DOMAIN outbox'[c], outbox'[c][i].kind = "ack",
             i \in DOMAIN outbox[c], outbox'[c][i] = outbox[c][i]
      PROVE  /\ outbox'[c][i].id \in Ids /\ outbox'[c][i].id.client = ClientOf[c]
             /\ \/ /\ outbox'[c][i].version \in DOMAIN log'
                   /\ log'[outbox'[c][i].version].id = outbox'[c][i].id
                   /\ outbox'[c][i].op = log'[outbox'[c][i].version].op
                \/ \E id \in Ids : id = outbox'[c][i].id /\ Doomed(c, id)'
  <2> DEFINE msg == outbox[c][i]
  <2>1. /\ msg.id \in Ids /\ msg.id.client = ClientOf[c]
        /\ StoredAs(msg) \/ Doomed(c, msg.id)
    BY <1>1, <1>4 DEF AcksKept
  <2>2. pc[c] # "absent"
    BY <1>1, <1>4 DEF AcksKept
  <2>3. CASE StoredAs(msg)
    <3>1. /\ msg.version \in DOMAIN log' /\ log'[msg.version].id = msg.id
          /\ msg.op = log'[msg.version].op
      <4> HIDE DEF msg
      <4> QED BY <2>3, StoredStays
    <3> QED BY <1>4, <2>1, <3>1
  <2>4. CASE Doomed(c, msg.id)
    <3>1. \A id \in Ids : id.client = ClientOf[c] /\ Doomed(c, id) => Doomed(c, id)'
      BY <1>1, <2>2, DoomedStays
    <3> QED BY <1>4, <2>1, <2>4, <3>1
  <2> QED BY <2>1, <2>3, <2>4
<1>5. ASSUME NEW i \in DOMAIN outbox'[c], outbox'[c][i].kind = "ack", Said(c, outbox'[c][i])
      PROVE  /\ outbox'[c][i].id \in Ids /\ outbox'[c][i].id.client = ClientOf[c]
             /\ \/ /\ outbox'[c][i].version \in DOMAIN log'
                   /\ log'[outbox'[c][i].version].id = outbox'[c][i].id
                   /\ outbox'[c][i].op = log'[outbox'[c][i].version].op
                \/ \E id \in Ids : id = outbox'[c][i].id /\ Doomed(c, id)'
  <2> DEFINE msg == outbox'[c][i]
  <2>0. /\ \A id, v, op : AckMsg(id, v, op).kind = "ack" /\ AckMsg(id, v, op).id = id
        /\ \A id, v, op : BroadcastMsg(id, v, op).kind = "broadcast_op"
    BY DEF AckMsg, BroadcastMsg
  <2>1. CASE pc[c] = "acking" /\ msg = AckMsg(request[c].id, target[c], request[c].op)
    <3>1. StoredAs(msg)
      BY <2>1, AnnouncedIsStored DEF Announcing
    <3>2. request[c].id \in Ids /\ request[c].id.client = ClientOf[c]
      BY <2>1, RequestParts DEF HistoryInv, RequestsKept, OwnRequests, Busy, Announcing
    <3> QED BY <2>0, <2>1, <3>1, <3>2, StoredStays
  <2>2. ASSUME NEW m \in Submissions(c), NEW v \in VersionsOf(m.id),
               msg = AckMsg(m.id, v, log[v].op)
        PROVE  /\ msg.id \in Ids /\ msg.id.client = ClientOf[c] /\ StoredAs(msg)
    <3>1. m.id \in Ids /\ m.id.client = ClientOf[c]
      BY DEF Submissions
    <3>2. StoredAs(AckMsg(m.id, v, log[v].op))
      BY DEF StoredAs, AckMsg
    <3> QED BY <2>0, <2>2, <3>1, <3>2
  <2>3. CASE AcknowledgeNoOp(c) /\ msg = AckMsg(request[c].id, version, request[c].op)
    <3>1. pc[c] = "waiting"
      BY <2>3 DEF AcknowledgeNoOp
    <3>2. request[c].id \in Ids /\ request[c].id.client = ClientOf[c]
      BY <3>1, RequestParts DEF HistoryInv, RequestsKept, OwnRequests, Busy
    <3>3. VersionsOf(request[c].id) = {}
      BY <1>1, <3>1 DEF AcksKept
    <3>4. \A id : id = request[c].id => Doomed(c, id)'
      BY <2>3, <3>3, NoOpIsDoomed
    <3> QED BY <2>0, <2>3, <3>2, <3>4
  <2>4. StoredAs(msg) =>
          /\ msg.version \in DOMAIN log' /\ log'[msg.version].id = msg.id
          /\ msg.op = log'[msg.version].op
    BY StoredStays
  <2>5. \/ pc[c] = "acking" /\ msg = AckMsg(request[c].id, target[c], request[c].op)
        \/ \E m \in Submissions(c) : \E v \in VersionsOf(m.id) : msg = AckMsg(m.id, v, log[v].op)
        \/ AcknowledgeNoOp(c) /\ msg = AckMsg(request[c].id, version, request[c].op)
    BY <1>5, <2>0 DEF Said
  <2> HIDE DEF msg
  <2>6. CASE \E m \in Submissions(c) : \E v \in VersionsOf(m.id) : msg = AckMsg(m.id, v, log[v].op)
    <3>1. msg.id \in Ids /\ msg.id.client = ClientOf[c] /\ StoredAs(msg)
      BY <2>2, <2>6
    <3> QED BY <3>1, <2>4 DEF msg
  <2> QED BY <2>1, <2>3, <2>5, <2>6
<1>6. Told(c)'
  <2> SUFFICES ASSUME NEW i \in DOMAIN outbox'[c], outbox'[c][i].kind = "ack"
               PROVE  /\ outbox'[c][i].id \in Ids /\ outbox'[c][i].id.client = ClientOf[c]
                      /\ \/ /\ outbox'[c][i].version \in DOMAIN log'
                            /\ log'[outbox'[c][i].version].id = outbox'[c][i].id
                            /\ outbox'[c][i].op = log'[outbox'[c][i].version].op
                         \/ Doomed(c, outbox[c][i].id)'
    BY DEF StoredAs, VersionsOf
  <2>1. \A id : id = outbox'[c][i].id /\ Doomed(c, id)' => Doomed(c, outbox[c][i].id)'
    BY DEF Doomed, VersionsOf
  <2> QED BY <1>4, <1>5, <2>1, NewMessages
<1> QED BY <1>2, <1>3, <1>6

\* Every announcement is true: a broadcast names the version and the stored form
\* of its operation, and so does an acknowledgement of an operation that is
\* accepted, at any time, if its client has this one connection; one of which
\* nothing was left is never accepted (handle_operation, persist_operation).
THEOREM AnnouncementsTrue == Spec => []AnnouncedAsStored
<1>1. Init => Announced /\ OwnRequests /\ BroadcastsStored /\ AcksKept
  BY DEF Init, Announced, OwnRequests, BroadcastsStored, AcksKept, Announcing, Busy, Critical
<1>2. HistoryInv /\ RosterInv /\ SubmissionInv /\ Announced /\ OwnRequests /\ BroadcastsStored /\ AcksKept
        /\ [Next]_vars => (Announced /\ OwnRequests /\ BroadcastsStored /\ AcksKept)'
  BY StepAnnounced, StepOwnRequests, StepBroadcasts, StepAcks
<1>3. BroadcastsStored /\ AcksKept /\ AcceptedOnce => AnnouncedAsStored
  BY DEF BroadcastsStored, AcksKept, AcceptedOnce, AnnouncedAsStored, StoredAs, VersionsOf, Doomed
<1> QED BY <1>1, <1>2, <1>3, HistoryInvariant, RosterInvariant, SubmissionInvariant,
       NoDoubleAccept, PTL DEF Spec

-----------------------------------------------------------------------------
(* What everybody hears.                                                   *)

\* A connection is sent its snapshot first.
SnapshotFirst ==
  \A c \in Connections :
    IF pc[c] = "absent" THEN outbox[c] = <<>>
    ELSE 1 \in DOMAIN outbox[c] /\ outbox[c][1].kind = "snapshot"

\* The handler of d has connection c still to tell of the operation it announces.
Pending(c, d) ==
  \/ pc[d] \in {"snapshotting", "acking"}
  \/ pc[d] = "acked" /\ ClientOf[c] # ClientOf[d]
  \/ pc[d] = "broadcasting" /\ ClientOf[c] \notin walk[d].visited

\* Connection c has been told of version v, or will be, or need not be.
Covered(c, v) ==
  \/ v \in Heard(c) \cup dropped
  \/ log[v].id.client = ClientOf[c] /\ Reconnected(c)
  \/ \E d \in Connections : pc[d] \in Announcing /\ target[d] = v /\ Pending(c, d)

DeliveryInv ==
  \A c \in up : roster[ClientOf[c]] = c =>
    \A v \in (outbox[c][1].version + 1)..version : Covered(c, v)

\* Nothing that was sent is taken back, and a connection hears of nothing before
\* its snapshot.
LEMMA OutboxGrows ==
  ASSUME HistoryInv, [Next]_vars, NEW d \in Connections, NEW i \in DOMAIN outbox[d]
  PROVE  i \in DOMAIN outbox'[d] /\ outbox'[d][i] = outbox[d][i]
<1> DEFINE Kept == i \in DOMAIN outbox'[d] /\ outbox'[d][i] = outbox[d][i]
<1>0. outbox \in [Connections -> Seq(Messages)]
  BY DEF HistoryInv, TypeOK
<1>2. ASSUME NEW c \in Connections, NEW msg, Transmit(c, msg) PROVE Kept
  BY <1>0, <1>2 DEF Transmit
<1>3. CASE UNCHANGED outbox
  BY <1>3
<1>4. ASSUME NEW c \in Connections, Join(c) PROVE Kept
  BY <1>0, <1>4 DEF Join
<1>5. ASSUME NEW c \in Connections, NEW m \in Submissions(c), Submit(c, m) PROVE Kept
  BY <1>2, <1>3, <1>5 DEF Submit, RefuseReadOnly, AcknowledgeAgain, LookUp, socketVars
<1>6. ASSUME NEW c \in Connections, NEW k \in Clients, DeliverTo(c, k) PROVE Kept
  <2>1. roster[k] \in Connections
    BY <1>6 DEF DeliverTo, RosterKeys, HistoryInv, TypeOK
  <2> QED BY <1>2, <1>6, <2>1 DEF DeliverTo
<1>7. ASSUME NEW c \in Connections, AcknowledgeNoOp(c) \/ Acknowledge(c) PROVE Kept
  BY <1>2, <1>7 DEF AcknowledgeNoOp, Acknowledge
<1> QED BY <1>3, <1>4, <1>5, <1>6, <1>7 DEF Next, Handle, vars, socketVars, Leave, Disconnect,
       Transform, Persist, PersistFails, Publish, PublishFails, SaveSnapshot, SaveSnapshotFails,
       FinishBroadcast, AnnouncementFails, Restart, MarkUnreachable, RemoveMarked

\* A snapshot stays the first message of a connection.
LEMMA StepSnapshotFirst ==
  ASSUME HistoryInv, RosterInv, SnapshotFirst, [Next]_vars
  PROVE  SnapshotFirst'
<1> SUFFICES ASSUME NEW c \in Connections
             PROVE  IF pc'[c] = "absent" THEN outbox'[c] = <<>>
                    ELSE 1 \in DOMAIN outbox'[c] /\ outbox'[c][1].kind = "snapshot"
  BY DEF SnapshotFirst
<1>1. CASE pc[c] # "absent"
  BY <1>1, OutboxGrows, PresenceStays DEF SnapshotFirst, HistoryInv
<1>2. CASE pc[c] = "absent" /\ ~Join(c)
  BY <1>2, AbsentHearsNothing, PresenceStays DEF SnapshotFirst, HistoryInv
<1>3. CASE pc[c] = "absent" /\ Join(c)
  <2>1. /\ outbox' = [outbox EXCEPT ![c] = Append(@, SnapshotMsg(version', content'))]
        /\ pc'[c] = "idle" /\ outbox[c] = <<>>
    BY <1>3 DEF Join, Goto, SnapshotFirst, HistoryInv, TypeOK
  <2>2. outbox'[c] = <<SnapshotMsg(version', content')>>
    BY <2>1 DEF HistoryInv, TypeOK
  <2>3. SnapshotMsg(version', content').kind = "snapshot"
    BY DEF SnapshotMsg
  <2> QED BY <2>1, <2>2, <2>3
<1> QED BY <1>1, <1>2, <1>3

\* What a connection has been sent, it has heard.
LEMMA SentIsHeard ==
  ASSUME HistoryInv, NEW c \in Connections, c \in up, NEW msg, Transmit(c, msg),
         msg.kind \in {"ack", "broadcast_op"}
  PROVE  msg.version \in Heard(c)'
<1>1. outbox' = [outbox EXCEPT ![c] = Append(@, msg)] /\ outbox[c] \in Seq(Messages)
  BY DEF Transmit, HistoryInv, TypeOK
<1>2. Len(outbox[c]) + 1 \in DOMAIN outbox'[c] /\ outbox'[c][Len(outbox[c]) + 1] = msg
  BY <1>1 DEF HistoryInv, TypeOK
<1> QED BY <1>2 DEF Heard

\* What becomes of an announcement that connection c waits for: it waits on, the
\* handler died, it has heard, or it is a later connection of the same client.
LEMMA PendingSteps ==
  ASSUME HistoryInv, [Next]_vars, NEW c \in Connections, NEW d \in Connections,
         c \in up, c \in up', roster[ClientOf[c]] = c, pc[d] \in Announcing, Pending(c, d)
  PROVE  \/ pc'[d] \in Announcing /\ target'[d] = target[d] /\ Pending(c, d)'
         \/ target[d] \in dropped' \cup Heard(c)'
         \/ d # c /\ ClientOf[d] = ClientOf[c]
<1> DEFINE Goal == \/ pc'[d] \in Announcing /\ target'[d] = target[d] /\ Pending(c, d)'
                   \/ target[d] \in dropped' \cup Heard(c)'
                   \/ d # c /\ ClientOf[d] = ClientOf[c]
<1>0. /\ pc \in [Connections -> PcValues] /\ target \in [Connections -> Nat]
      /\ walk \in [Connections -> [visited : SUBSET Clients, size : Nat,
                                   unreachable : SUBSET Clients]]
      /\ ClientOf[c] \in RosterKeys
  BY ConnectionsAssumption DEF HistoryInv, TypeOK, RosterKeys
<1>1. ASSUME pc'[d] = pc[d], target'[d] = target[d], walk'[d] = walk[d] PROVE Goal
  BY <1>1 DEF Pending
<1>2. ASSUME NEW e \in Connections \ {d}, Handle(e) \/ Join(e) \/ Leave(e) \/ Disconnect(e)
      PROVE  Goal
  BY <1>0, <1>1, <1>2 DEF Handle, AcknowledgeNoOp, Transform, Persist, PersistFails, Publish,
       PublishFails, SaveSnapshot, SaveSnapshotFails, Acknowledge, DeliverTo, FinishBroadcast,
       AnnouncementFails, Join, Leave, Disconnect, Goto, handlerVars
<1>3. ASSUME NEW e \in Connections, NEW m \in Submissions(e), Submit(e, m) PROVE Goal
  BY <1>0, <1>1, <1>3 DEF Submit, RefuseReadOnly, AcknowledgeAgain, LookUp, Receive, Goto,
       handlerVars, Announcing
<1>4. ASSUME \/ Join(d) \/ Leave(d) \/ AcknowledgeNoOp(d) \/ Transform(d) \/ Persist(d)
             \/ PersistFails(d) \/ Publish(d) \/ PublishFails(d)
      PROVE  Goal
  BY <1>4 DEF Join, Leave, AcknowledgeNoOp, Transform, Persist, PersistFails, Publish,
       PublishFails, Announcing
<1>5. ASSUME Disconnect(d) PROVE Goal
  BY <1>1, <1>5 DEF Disconnect, handlerVars
<1>6. ASSUME SaveSnapshot(d) PROVE Goal
  BY <1>0, <1>6 DEF SaveSnapshot, Goto, Pending, Announcing
<1>7. ASSUME SaveSnapshotFails(d) \/ AnnouncementFails(d) PROVE Goal
  BY <1>7 DEF SaveSnapshotFails, AnnouncementFails
<1>8. ASSUME Acknowledge(d) PROVE Goal
  <2>1. /\ Transmit(d, AckMsg(request[d].id, target[d], request[d].op))
        /\ pc'[d] = "acked" /\ target' = target
    BY <1>0, <1>8 DEF Acknowledge, Goto
  <2>2. CASE d = c
    <3>1. /\ AckMsg(request[d].id, target[d], request[d].op).kind = "ack"
          /\ AckMsg(request[d].id, target[d], request[d].op).version = target[d]
      BY DEF AckMsg
    <3> QED BY <2>1, <2>2, <3>1, SentIsHeard
  <2>3. CASE ClientOf[d] # ClientOf[c]
    BY <2>1, <2>3 DEF Pending, Announcing
  <2> QED BY <2>2, <2>3
<1>9. ASSUME NEW k \in Clients, DeliverTo(d, k) PROVE Goal
  <2>1. /\ Transmit(roster[k], BroadcastMsg(request[d].id, target[d], request[d].op))
        /\ pc'[d] = "broadcasting" /\ target' = target
        /\ pc[d] \in {"acked", "broadcasting"}
    BY <1>0, <1>9 DEF DeliverTo, Broadcasting, Goto
  <2>2. CASE k = ClientOf[c]
    <3>1. /\ BroadcastMsg(request[d].id, target[d], request[d].op).kind = "broadcast_op"
          /\ BroadcastMsg(request[d].id, target[d], request[d].op).version = target[d]
      BY DEF BroadcastMsg
    <3> QED BY <2>1, <2>2, <3>1, SentIsHeard
  <2>3. CASE k # ClientOf[c]
    <3> DEFINE w == Walk(d)
    <3>1. ClientOf[c] \notin w.visited /\ DOMAIN w = {"visited", "size", "unreachable"}
      BY <1>0, <2>1 DEF Walk, Pending
    <3>2. \/ walk' = [walk EXCEPT ![d] = [w EXCEPT !.visited = @ \cup {k}]]
          \/ walk' = [walk EXCEPT ![d] = [[w EXCEPT !.visited = @ \cup {k}]
                                            EXCEPT !.unreachable = @ \cup {k}]]
      BY <1>9 DEF DeliverTo
    <3> HIDE DEF w
    <3>3. walk'[d].visited = w.visited \cup {k}
      <4>1. CASE walk' = [walk EXCEPT ![d] = [w EXCEPT !.visited = @ \cup {k}]]
        <5>1. walk'[d] = [w EXCEPT !.visited = @ \cup {k}]
          BY <1>0, <4>1
        <5> QED BY <3>1, <5>1
      <4>2. CASE walk' = [walk EXCEPT ![d] = [[w EXCEPT !.visited = @ \cup {k}]
                                                EXCEPT !.unreachable = @ \cup {k}]]
        <5>1. walk'[d] = [[w EXCEPT !.visited = @ \cup {k}] EXCEPT !.unreachable = @ \cup {k}]
          BY <1>0, <4>2
        <5> QED BY <3>1, <5>1
      <4> QED BY <3>2, <4>1, <4>2
    <3> QED BY <2>1, <2>3, <3>1, <3>3 DEF Pending, Announcing
  <2> QED BY <2>2, <2>3
<1>10. ASSUME FinishBroadcast(d) PROVE Goal
  BY <1>0, <1>10 DEF FinishBroadcast, Broadcasting, Walk, Pending
<1>11. CASE Restart
  BY <1>11 DEF Restart
<1>12. CASE UNCHANGED vars \/ \E k \in Clients : MarkUnreachable(k) \/ RemoveMarked(k)
  BY <1>1, <1>12 DEF MarkUnreachable, RemoveMarked, vars, handlerVars
<1> QED BY <1>2, <1>3, <1>4, <1>5, <1>6, <1>7, <1>8, <1>9, <1>10, <1>11, <1>12
        DEF Next, Handle

\* A version whose handler died stays dropped.
LEMMA DroppedStays ==
  ASSUME [Next]_vars
  PROVE  dropped \subseteq dropped'
BY DEF Next, Handle, Submit, vars, historyVars, Join, Leave, Disconnect,
       RefuseReadOnly, AcknowledgeAgain, LookUp, AcknowledgeNoOp, Transform, Persist,
       PersistFails, Publish, PublishFails, SaveSnapshot, SaveSnapshotFails,
       Acknowledge, DeliverTo, FinishBroadcast, AnnouncementFails, Restart,
       MarkUnreachable, RemoveMarked

\* A version that a connection was covered for, it stays covered for.
LEMMA CoveredStays ==
  ASSUME HistoryInv, OwnRequests, Announced, [Next]_vars, NEW c \in Connections,
         c \in up, c \in up', roster[ClientOf[c]] = c, NEW v \in DOMAIN log, Covered(c, v)
  PROVE  Covered(c, v)'
<1>1. Heard(c) \subseteq Heard(c)' /\ dropped \subseteq dropped'
  BY OutboxGrows, DroppedStays DEF Heard
<1>2. log'[v] = log[v]
  BY HistoryGrows
<1>3. Reconnected(c) => Reconnected(c)'
  BY PresenceStays DEF Reconnected, HistoryInv
<1>4. ASSUME NEW d \in Connections, pc[d] \in Announcing, target[d] = v, Pending(c, d)
      PROVE  Covered(c, v)'
  <2>1. CASE pc'[d] \in Announcing /\ target'[d] = target[d] /\ Pending(c, d)'
    BY <1>4, <2>1 DEF Covered
  <2>2. CASE target[d] \in dropped' \cup Heard(c)'
    BY <1>4, <2>2 DEF Covered
  <2>3. CASE d # c /\ ClientOf[d] = ClientOf[c]
    <3>1. log[v] = [id |-> request[d].id, op |-> request[d].op]
      BY <1>4 DEF Announced
    <3>3. log[v].id.client = ClientOf[c]
      BY <1>4, <2>3, <3>1 DEF OwnRequests, Busy
    <3>2. Reconnected(c)
      BY <1>4, <2>3 DEF Reconnected, Announcing
    <3> QED BY <1>2, <1>3, <3>2, <3>3 DEF Covered
  <2> QED BY <1>4, <2>1, <2>2, <2>3, PendingSteps
<1> QED BY <1>1, <1>2, <1>3, <1>4 DEF Covered

\* The room takes over one version at a time, which is announced next.
LEMMA VersionSteps ==
  ASSUME HistoryInv, [Next]_vars, NEW c \in Connections, pc[c] \notin {"absent", "gone"}
  PROVE  \/ version' = version
         \/ Restart
         \/ \E e \in Connections : /\ version' = version + 1 /\ target'[e] = version'
                                   /\ pc'[e] \in {"snapshotting", "acking"}
<1>1. loaded
  BY DEF HistoryInv, RoomInHistory
<1>2. ASSUME NEW e \in Connections, Join(e) PROVE version' = version
  BY <1>1, <1>2 DEF Join
<1>3. ASSUME NEW e \in Connections, Publish(e)
      PROVE  /\ version' = version + 1 /\ target'[e] = version'
             /\ pc'[e] \in {"snapshotting", "acking"}
  BY <1>3 DEF Publish, Goto, HistoryInv, HolderReady, TypeOK
<1> QED BY <1>2, <1>3 DEF Next, Handle, Submit, vars, roomVars, Leave, Disconnect,
       RefuseReadOnly, AcknowledgeAgain, LookUp, AcknowledgeNoOp, Transform, Persist,
       PersistFails, PublishFails, SaveSnapshot, SaveSnapshotFails,
       Acknowledge, DeliverTo, FinishBroadcast, AnnouncementFails, MarkUnreachable, RemoveMarked

\* Only joining opens or registers a connection.
LEMMA RegisteredBefore ==
  ASSUME HistoryInv, [Next]_vars, NEW c \in Connections, ~Join(c),
         c \in up', roster'[ClientOf[c]] = c
  PROVE  c \in up /\ roster[ClientOf[c]] = c
<1>0. /\ roster \in [Clients -> Connections \cup {NoConnection}] /\ c # NoConnection
      /\ ClientOf \in [Connections -> Clients]
  BY ConnectionsAssumption DEF HistoryInv, TypeOK
<1>1. ASSUME NEW e \in Connections, Join(e) PROVE c \in up /\ roster[ClientOf[c]] = c
  BY <1>0, <1>1 DEF Join
<1>2. ASSUME NEW e \in Connections, Leave(e) \/ Disconnect(e) \/ FinishBroadcast(e)
      PROVE  c \in up /\ roster[ClientOf[c]] = c
  BY <1>0, <1>2 DEF Leave, Disconnect, FinishBroadcast, WithoutKeys, roomVars, socketVars
<1>3. ASSUME NEW e \in Connections, Handle(e), ~FinishBroadcast(e)
      PROVE  c \in up /\ roster[ClientOf[c]] = c
  BY <1>3 DEF Handle, AcknowledgeNoOp, Transform, Persist, PersistFails, Publish, PublishFails,
       SaveSnapshot, SaveSnapshotFails, Acknowledge, DeliverTo, AnnouncementFails, roomVars,
       socketVars
<1>4. ASSUME NEW e \in Connections, NEW m \in Submissions(e), Submit(e, m)
      PROVE  c \in up /\ roster[ClientOf[c]] = c
  BY <1>4 DEF Submit, RefuseReadOnly, AcknowledgeAgain, LookUp, roomVars, socketVars
<1>5. ASSUME NEW k \in Clients, MarkUnreachable(k) \/ RemoveMarked(k)
      PROVE  c \in up /\ roster[ClientOf[c]] = c
  BY <1>0, <1>5 DEF MarkUnreachable, RemoveMarked, WithoutKeys, socketVars
<1>6. CASE Restart \/ UNCHANGED vars
  BY <1>6 DEF Restart, vars, roomVars, socketVars
<1> QED BY <1>1, <1>2, <1>3, <1>4, <1>5, <1>6 DEF Next

\* Every step leaves nobody registered without what was announced.
LEMMA StepDelivery ==
  ASSUME HistoryInv, RosterInv, SnapshotFirst, OwnRequests, Announced, DeliveryInv, [Next]_vars
  PROVE  DeliveryInv'
<1>0. version \in Nat /\ outbox \in [Connections -> Seq(Messages)] /\ up \subseteq Connections
      /\ up' \subseteq Connections
  BY StepTyped DEF HistoryInv, TypeOK
<1> SUFFICES ASSUME NEW c \in up', roster'[ClientOf[c]] = c,
                    NEW v \in (outbox'[c][1].version + 1)..version'
             PROVE  Covered(c, v)'
  BY DEF DeliveryInv
<1>1. CASE Join(c)
  <2>1. /\ outbox' = [outbox EXCEPT ![c] = Append(@, SnapshotMsg(version', content'))]
        /\ outbox[c] = <<>>
    BY <1>0, <1>1 DEF Join, SnapshotFirst
  <2>2. outbox'[c][1].version = version' /\ version' \in Nat
    BY <1>0, <2>1, StepTyped DEF SnapshotMsg, HistoryInv, TypeOK
  <2> QED BY <2>2
<1>2. CASE ~Join(c)
  <2>1. c \in up /\ roster[ClientOf[c]] = c
    BY <1>0, <1>2, RegisteredBefore
  <2>2. pc[c] \notin {"absent", "gone"} /\ c \in Connections
    BY <1>0, <2>1 DEF RosterInv
  <2>3. outbox'[c][1] = outbox[c][1]
    BY <2>2, OutboxGrows DEF SnapshotFirst
  <2>4. ~Restart
    BY DEF Restart
  <2>5. ASSUME v \in (outbox[c][1].version + 1)..version PROVE Covered(c, v)'
    <3>1. Covered(c, v)
      BY <2>1, <2>5 DEF DeliveryInv
    <3>2. outbox[c][1] \in Messages /\ outbox[c][1].kind = "snapshot"
      BY <1>0, <2>2 DEF SnapshotFirst
    <3>3. outbox[c][1].version \in Nat
      BY <3>2 DEF Messages, ReadOnlyMsg
    <3>4. v \in DOMAIN log
      BY <1>0, <2>5, <3>3 DEF HistoryInv, LogReplays, RoomInHistory, TypeOK
    <3> QED BY <2>1, <2>2, <3>1, <3>4, CoveredStays
  <2>6. ASSUME NEW e \in Connections, target'[e] = v, pc'[e] \in {"snapshotting", "acking"}
        PROVE  Covered(c, v)'
    BY <2>6 DEF Covered, Pending, Announcing
  <2> QED BY <1>0, <2>2, <2>3, <2>4, <2>5, <2>6, VersionSteps
<1> QED BY <1>1, <1>2

\* Nobody is passed over: when no accepted operation is being announced, a
\* connection that is registered and open has been told of every version since
\* its snapshot, unless the handler of a version died or the version is an
\* operation its own client sent over another connection (handle_operation,
\* broadcast).
THEOREM EverybodyHears == Spec => []DeliveryComplete
<1>1. Init => OwnRequests /\ Announced /\ SnapshotFirst /\ DeliveryInv
  BY DEF Init, OwnRequests, Announced, SnapshotFirst, DeliveryInv, Announcing, Busy, Critical
<1>2. HistoryInv /\ RosterInv /\ OwnRequests /\ Announced /\ SnapshotFirst /\ DeliveryInv
        /\ [Next]_vars => (OwnRequests /\ Announced /\ SnapshotFirst /\ DeliveryInv)'
  BY StepOwnRequests, StepAnnounced, StepSnapshotFirst, StepDelivery
<1>3. DeliveryInv => DeliveryComplete
  BY DEF DeliveryInv, DeliveryComplete, Covered
<1> QED BY <1>1, <1>2, <1>3, HistoryInvariant, RosterInvariant, PTL DEF Spec

-----------------------------------------------------------------------------
(* The implementation of the abstract document.                            *)

\* The initial state is one of the abstract document.
LEMMA InitImplements == Init => Document!Init
BY DEF Init, Document!Init, EmptyFunction, NoOperation, Document!NoOperation

\* Receiving a message formulates its operation, unless it is a repetition.
LEMMA ReceiveImplements ==
  ASSUME HistoryInv, NEW c \in Connections, NEW m \in Submissions(c), Receive(c, m),
         UNCHANGED <<dbContent, dbVersion, log>>
  PROVE  Document!Next \/ UNCHANGED Document!vars
<1>1. /\ m.id \in Ids /\ m.op \in RawOps /\ m.base \in 0..dbVersion
      /\ m = [id |-> m.id, base |-> m.base, op |-> m.op]
  BY SubmissionsType, RequestParts DEF HistoryInv, TypeOK, RoomInHistory, Requests
<1>2. CASE submitted[m.id] = m
  BY <1>1, <1>2 DEF Receive, HistoryInv, TypeOK, Document!vars
<1>3. CASE submitted[m.id] = NoRequest
  <2>1. Document!Formulate(m.id, m.base, m.op)
    BY <1>1, <1>3 DEF Receive, Document!Formulate
  <2> QED BY <1>1, <2>1 DEF Document!Next
<1> QED BY <1>2, <1>3 DEF Receive

\* Only receiving a message changes what is submitted.
LEMMA OnlyReceiveSubmits ==
  ASSUME [Next]_vars, \A c \in Connections : \A m \in Submissions(c) : ~Receive(c, m)
  PROVE  submitted' = submitted
BY DEF Next, Handle, Submit, vars, historyVars, Join, Leave, Disconnect, RefuseReadOnly,
       AcknowledgeAgain, LookUp, AcknowledgeNoOp, Transform, Persist, PersistFails, Publish,
       PublishFails, SaveSnapshot, SaveSnapshotFails, Acknowledge, DeliverTo, FinishBroadcast,
       AnnouncementFails, Restart, MarkUnreachable, RemoveMarked

\* The abstract document transforms and applies as the room does.
LEMMA SameApply ==
  ASSUME NEW text, NEW op
  PROVE  Document!ApplyOperation(text, op) = ApplyOperation(text, op)
BY DEF ApplyOperation, ClampIndex, Greater, Lesser,
       Document!ApplyOperation, Document!ClampIndex, Document!Greater, Document!Lesser

\* The abstract document transforms as the room does.
LEMMA SameTransform ==
  ASSUME NEW op, NEW id, NEW h, NEW base, NEW top
  PROVE  Document!TransformOverHistory(op, id, h, base, top)
           = TransformOverHistory(op, id, h, base, top)
BY DEF TransformOverHistory, TransformOverVersion,
       TransformOperation, TransformInsertInsert, TransformInsertDelete, TransformDeleteInsert,
       TransformDeleteDelete, TieKeyLess, Greater, Lesser, DeleteOp, NoOperation,
       Document!TransformOverHistory, Document!TransformOverVersion,
       Document!TransformOperation, Document!TransformInsertInsert,
       Document!TransformInsertDelete, Document!TransformDeleteInsert,
       Document!TransformDeleteDelete, Document!TieKeyLess, Document!Greater,
       Document!Lesser, Document!DeleteOp, Document!NoOperation

\* A commit is a step of the abstract document.
LEMMA PersistImplements ==
  ASSUME HistoryInv, SubmissionInv, NEW c \in Connections, Persist(c)
  PROVE  Document!Next
<1> DEFINE id == request[c].id
           raw == submitted[id]
           op == request[c].op
<1>1. /\ version = dbVersion /\ target[c] = dbVersion + 1 /\ content = dbContent
  BY PersistIsNext
<1>2. /\ raw \in Requests /\ raw.base <= version /\ raw.op \in RawOps
      /\ op = TransformOverHistory(raw.op, id, log, raw.base, dbVersion)
  BY <1>1 DEF Persist, SubmissionInv, PersistingKept
<1>3. id \in Ids /\ op \in Operations
  BY RequestParts DEF Persist, HistoryInv, RequestsKept, Busy, Critical
<1>4. op # Document!NoOperation
  BY <1>3 DEF Operations, Document!NoOperation
<1>5. id \notin Document!AcceptedIds
  BY DEF Persist, VersionsOf, Document!AcceptedIds
<1>7. /\ dbContent' = ApplyOperation(dbContent, op) /\ dbVersion' = dbVersion + 1
      /\ log' = [v \in DOMAIN log \cup {dbVersion + 1} |->
                   IF v = dbVersion + 1 THEN [id |-> id, op |-> op] ELSE log[v]]
  BY <1>1 DEF Persist, Extend
<1>8. op = Document!TransformOverHistory(raw.op, id, log, raw.base, dbVersion)
  BY <1>2, SameTransform
<1>9. dbContent' = Document!ApplyOperation(dbContent, op)
  BY <1>7, SameApply
<1> HIDE DEF id, raw, op
<1>10. raw # NoRequest
  BY <1>2, NoRequestIsNone
<1>11. submitted' = submitted /\ raw = submitted[id]
  BY DEF Persist, raw
<1>12. Document!Commit(id)
  BY <1>4, <1>5, <1>7, <1>8, <1>9, <1>10, <1>11 DEF Document!Commit
<1> QED BY <1>3, <1>12 DEF Document!Next

\* The room, with its lock, its handlers suspended at every await, failures,
\* retries and restarts, implements the sequential document.
THEOREM Implementation == Spec => ImplementsDocument
<1>1. HistoryInv /\ SubmissionInv /\ [Next]_vars => [Document!Next]_(Document!vars)
  <2> SUFFICES ASSUME HistoryInv, SubmissionInv, [Next]_vars
               PROVE  Document!Next \/ UNCHANGED Document!vars
    OBVIOUS
  <2>1. CASE \E c \in Connections : Persist(c)
    BY <2>1, PersistImplements
  <2>2. CASE /\ \A c \in Connections : ~Persist(c)
             /\ \E c \in Connections : \E m \in Submissions(c) : Receive(c, m)
    BY <2>2, OnlyPersistWrites, ReceiveImplements
  <2>3. CASE /\ \A c \in Connections : ~Persist(c)
             /\ \A c \in Connections : \A m \in Submissions(c) : ~Receive(c, m)
    BY <2>3, OnlyPersistWrites, OnlyReceiveSubmits DEF Document!vars
  <2> QED BY <2>1, <2>2, <2>3
<1> QED BY <1>1, InitImplements, HistoryInvariant, SubmissionInvariant, PTL
        DEF Spec, ImplementsDocument, Document!Spec
=============================================================================
