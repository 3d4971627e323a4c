-------------------------- MODULE EditorSessionProofs -----------------------
(***************************************************************************)
(* Proofs about the editors of a document and their server, for every set  *)
(* of editors, every scenario and any number of edits, closed sockets and  *)
(* messages under way: type correctness, one operation in flight, and the  *)
(* order in which an editor's operations are accepted.                     *)
(*                                                                         *)
(* None of these is inductive. That at most one operation is in flight     *)
(* rests on where the one in flight can be: on the socket, announced to    *)
(* others before its author, or answered, and nowhere unless the editor    *)
(* holds one. The order rests on the line in which the operations of an    *)
(* editor whose socket never closed stand: accepted, on their way, in      *)
(* flight, queued, still to be typed.                                      *)
(*                                                                         *)
(* A step is taken apart twice: lemmas on the handlers say which fields of *)
(* an editor they change, lemmas on the actions what becomes of the editor *)
(* and its messages. The invariants are about the latter.                  *)
(***************************************************************************)
EXTENDS EditorSession, TextOperationsProofs

MishapNames == {"behind", "order", "queue", "inside", "kept", "discarded", "rewound", "untold"}

Names  == [client : Editors, op : Nat]
Events == [event : Nat \X Names, op : Operations]

\* What an editor keeps of its own operations, and sends of them.
Queued(e) == [id : [client : {e}, op : Nat], op : Operations]
OpMsgs(e) == [kind : {"op"}, id : [client : {e}, op : Nat], base : Nat, op : Operations]

\* What an editor is sent.
Snapshots  == [kind : {"snapshot"}, version : Nat, text : Texts, canWrite : BOOLEAN]
Acks       == [kind : {"ack"}, version : Nat, id : Names]
Broadcasts == [kind : {"broadcast_op"}, version : Nat, id : Names, op : Operations]
Answers    == Snapshots \cup Acks \cup Broadcasts \cup {ReadOnlyMsg}

Metrics == [sent : Nat, acked : Nat, remote : Nat, pending : Nat]

EditorStates(e) ==
  [socket : {"none", "scheduled", "connecting", "open", "gone"},
   status : {"loading", "connecting", "connected", "disconnected", "error"},
   canWrite : BOOLEAN, version : Nat,
   queue : Seq(Queued(e)), inFlight : Seq(Queued(e)),
   content : Texts, fresh : BOOLEAN, slot : Seq(Events), latest : Texts, metrics : Metrics,
   upstream : Seq({JoinMsg} \cup OpMsgs(e)), inbox : Seq(Answers), mishaps : SUBSET MishapNames,
   metadata : {"loading", "loaded", "failed"}]

Fields == {"socket", "status", "canWrite", "version", "queue", "inFlight", "content", "fresh",
           "slot", "latest", "metrics", "upstream", "inbox", "mishaps", "metadata"}

\* s is r but for the fields F.
SameBut(r, s, F) == DOMAIN s = Fields /\ \A x \in Fields \ F : s[x] = r[x]

\* Counting the pending operations changes nothing but the metrics.
LEMMA RefreshFields ==
  ASSUME NEW e, NEW r \in EditorStates(e)
  PROVE  /\ RefreshPendingMetrics(r) \in EditorStates(e)
         /\ SameBut(r, RefreshPendingMetrics(r), {"metrics"})
<1>1. DOMAIN r = Fields
  BY DEF EditorStates, Fields
<1>2. r.metrics \in Metrics /\ Len(Pending(r)) \in Nat
  BY DEF EditorStates, Pending
<1>3. [r.metrics EXCEPT !.pending = Len(Pending(r))] \in Metrics
  BY <1>2 DEF Metrics
<1> DEFINE m == [r.metrics EXCEPT !.pending = Len(Pending(r))]
<1>4. RefreshPendingMetrics(r) = [r EXCEPT !.metrics = m]
  BY <1>1 DEF RefreshPendingMetrics, Fields
<1> HIDE DEF m
<1>5. [r EXCEPT !.metrics = m] \in EditorStates(e)
  BY <1>3 DEF EditorStates, m
<1>6. SameBut(r, [r EXCEPT !.metrics = m], {"metrics"})
  BY <1>1 DEF SameBut, Fields
<1> QED BY <1>4, <1>5, <1>6

\* Sending moves the head of the queue into flight and onto the socket, or does
\* nothing.
LEMMA SendNextFields ==
  ASSUME NEW e, NEW r \in EditorStates(e)
  PROVE  /\ SendNext(r) \in EditorStates(e)
         /\ SameBut(r, SendNext(r), {"queue", "inFlight", "upstream", "metrics"})
         /\ \/ SendNext(r) = r
            \/ /\ r.socket = "open" /\ r.inFlight = <<>> /\ r.queue # <<>>
               /\ SendNext(r).queue = Tail(r.queue)
               /\ SendNext(r).inFlight = <<Head(r.queue)>>
               /\ SendNext(r).upstream = Append(r.upstream, OpMsg(Head(r.queue), r.version))
<1>1. DOMAIN r = Fields
  BY DEF EditorStates, Fields
<1>2. CASE r.socket # "open" \/ r.inFlight # <<>> \/ r.queue = <<>>
  BY <1>1, <1>2 DEF SendNext, SameBut
<1>3. CASE ~(r.socket # "open" \/ r.inFlight # <<>> \/ r.queue = <<>>)
  <2> DEFINE q == Tail(r.queue)
             f == <<Head(r.queue)>>
             u == Append(r.upstream, OpMsg(Head(r.queue), r.version))
             s == [r EXCEPT !.queue = q, !.inFlight = f, !.upstream = u]
  <2>1. /\ r.queue \in Seq(Queued(e)) /\ r.queue # <<>> /\ r.version \in Nat
        /\ r.upstream \in Seq({JoinMsg} \cup OpMsgs(e))
    BY <1>3 DEF EditorStates
  <2>2. Head(r.queue) \in Queued(e) /\ q \in Seq(Queued(e))
    BY <2>1
  <2>3. OpMsg(Head(r.queue), r.version) \in OpMsgs(e)
    BY <2>1, <2>2 DEF OpMsg, OpMsgs, Queued
  <2>4. f \in Seq(Queued(e)) /\ u \in Seq({JoinMsg} \cup OpMsgs(e))
    BY <2>1, <2>2, <2>3
  <2>5. SendNext(r) = RefreshPendingMetrics(s)
    BY <1>3 DEF SendNext
  <2> HIDE DEF q, f, u
  <2>6. s \in EditorStates(e)
    BY <2>2, <2>4 DEF EditorStates
  <2>7. /\ SameBut(r, s, {"queue", "inFlight", "upstream"})
        /\ s.queue = q /\ s.inFlight = f /\ s.upstream = u
    BY <1>1 DEF SameBut, Fields
  <2> HIDE DEF s
  <2>8. SameBut(s, RefreshPendingMetrics(s), {"metrics"}) /\ RefreshPendingMetrics(s) \in EditorStates(e)
    BY <2>6, RefreshFields
  <2> QED BY <1>3, <2>5, <2>7, <2>8 DEF SameBut, Fields, q, f, u
<1> QED BY <1>2, <1>3

\* Edits are queued, and the first of the queue is sent.
LEMMA SendLocalFields ==
  ASSUME NEW e, NEW r \in EditorStates(e), NEW ops \in Seq(Queued(e))
  PROVE  \E mid \in EditorStates(e) :
           /\ SameBut(r, mid, {"queue", "metrics"})
           /\ mid.queue = r.queue \o ops
           /\ SendLocal(r, ops) = SendNext(mid)
<1> DEFINE q == r.queue \o ops
           s == [r EXCEPT !.queue = q]
           m == [s.metrics EXCEPT !.sent = @ + Len(ops)]
           t == [s EXCEPT !.metrics = m]
<1>1. DOMAIN r = Fields /\ r.queue \in Seq(Queued(e))
  BY DEF EditorStates, Fields
<1>2. q \in Seq(Queued(e))
  BY <1>1
<1>3. s = [r EXCEPT !.queue = @ \o ops]
  BY <1>1 DEF Fields
<1> HIDE DEF q
<1>4. s \in EditorStates(e) /\ SameBut(r, s, {"queue"}) /\ s.queue = q
  BY <1>1, <1>2 DEF EditorStates, SameBut, Fields
<1>5. t = RecordSentOperations(s, Len(ops))
  BY <1>4 DEF RecordSentOperations, SameBut, Fields
<1> HIDE DEF s
<1>6. s.metrics \in Metrics /\ Len(ops) \in Nat
  BY <1>4 DEF EditorStates
<1>7. m \in Metrics
  BY <1>6 DEF Metrics
<1> HIDE DEF m
<1>8. t \in EditorStates(e) /\ SameBut(s, t, {"metrics"})
  BY <1>4, <1>7 DEF EditorStates, SameBut, Fields
<1> HIDE DEF t
<1>9. /\ RefreshPendingMetrics(t) \in EditorStates(e)
      /\ SameBut(t, RefreshPendingMetrics(t), {"metrics"})
  BY <1>8, RefreshFields
<1>10. SendLocal(r, ops) = SendNext(RefreshPendingMetrics(t))
  BY <1>3, <1>5 DEF SendLocal, s
<1>11. SameBut(r, RefreshPendingMetrics(t), {"queue", "metrics"})
  BY <1>4, <1>8, <1>9 DEF SameBut
<1>12. RefreshPendingMetrics(t).queue = q
  BY <1>4, <1>8, <1>9 DEF SameBut, Fields
<1> QED BY <1>9, <1>10, <1>11, <1>12 DEF q

\* A snapshot replaces the version and empties the queue.
LEMMA HandleSnapshotFields ==
  ASSUME NEW e, NEW r \in EditorStates(e), NEW m \in Snapshots
  PROVE  /\ HandleSnapshot(r, m) \in EditorStates(e)
         /\ SameBut(r, HandleSnapshot(r, m),
                    {"version", "queue", "inFlight", "canWrite", "content", "latest", "fresh",
                     "status", "metrics"})
         /\ HandleSnapshot(r, m).version = m.version
         /\ HandleSnapshot(r, m).queue = <<>> /\ HandleSnapshot(r, m).inFlight = <<>>
         /\ HandleSnapshot(r, m).fresh
<1> DEFINE s == [r EXCEPT !.version = m.version, !.queue = <<>>, !.inFlight = <<>>,
              !.canWrite = m.canWrite, !.content = m.text, !.latest = m.text,
              !.fresh = TRUE, !.status = "connected"]
           t == [s EXCEPT !.metrics = EmptyMetrics]
<1>1. DOMAIN r = Fields
  BY DEF EditorStates, Fields
<1>2. m.version \in Nat /\ m.text \in Texts /\ m.canWrite \in BOOLEAN
  BY DEF Snapshots
<1>3. s \in EditorStates(e)
  <2> DEFINE none == <<>>
             s1 == [r EXCEPT !.version = m.version, !.queue = none, !.inFlight = none,
                             !.canWrite = m.canWrite]
             s2 == [s1 EXCEPT !.content = m.text, !.latest = m.text, !.fresh = TRUE,
                              !.status = "connected"]
  <2>1. s = s2 /\ none \in Seq(Queued(e)) /\ none \in Seq(Events)
    OBVIOUS
  <2> HIDE DEF none
  <2>2. s1 \in EditorStates(e)
    BY <1>2, <2>1 DEF EditorStates
  <2> HIDE DEF s1
  <2>3. s2 \in EditorStates(e)
    BY <1>2, <2>1, <2>2 DEF EditorStates
  <2> QED BY <2>1, <2>3
<1>4. /\ SameBut(r, s, {"version", "queue", "inFlight", "canWrite", "content", "latest", "fresh",
                        "status"})
      /\ s.version = m.version /\ s.queue = <<>> /\ s.inFlight = <<>> /\ s.fresh
  BY <1>1 DEF SameBut, Fields
<1>5. HandleSnapshot(r, m) = RefreshPendingMetrics(t)
  BY DEF HandleSnapshot, ResetMetrics
<1> HIDE DEF s
<1>6. t \in EditorStates(e) /\ SameBut(s, t, {"metrics"})
  BY <1>3, <1>4 DEF EditorStates, SameBut, Fields, EmptyMetrics, Metrics
<1> HIDE DEF t
<1>7. /\ RefreshPendingMetrics(t) \in EditorStates(e)
      /\ SameBut(t, RefreshPendingMetrics(t), {"metrics"})
  BY <1>6, RefreshFields
<1> QED BY <1>4, <1>5, <1>6, <1>7 DEF SameBut, Fields

\* So does the server's text after a resync, and it drops the slot.
LEMMA HandleResyncFields ==
  ASSUME NEW e, NEW r \in EditorStates(e), NEW m, m.version \in Nat, m.text \in Texts,
         m.canWrite \in BOOLEAN
  PROVE  /\ HandleResyncSnapshot(r, m) \in EditorStates(e)
         /\ SameBut(r, HandleResyncSnapshot(r, m),
                    {"version", "queue", "inFlight", "canWrite", "content", "latest", "fresh",
                     "slot", "metrics"})
         /\ HandleResyncSnapshot(r, m).version = m.version
         /\ HandleResyncSnapshot(r, m).queue = <<>> /\ HandleResyncSnapshot(r, m).inFlight = <<>>
         /\ HandleResyncSnapshot(r, m).fresh /\ HandleResyncSnapshot(r, m).slot = <<>>
<1> DEFINE s == [r EXCEPT !.version = m.version, !.queue = <<>>, !.inFlight = <<>>,
              !.canWrite = m.canWrite, !.content = m.text, !.latest = m.text,
              !.fresh = TRUE, !.slot = <<>>]
           t == [s EXCEPT !.metrics = EmptyMetrics]
<1>1. DOMAIN r = Fields
  BY DEF EditorStates, Fields
<1>3. s \in EditorStates(e)
  <2> DEFINE none == <<>>
             s1 == [r EXCEPT !.version = m.version, !.queue = none, !.inFlight = none,
                             !.canWrite = m.canWrite]
             s2 == [s1 EXCEPT !.content = m.text, !.latest = m.text, !.fresh = TRUE,
                              !.slot = none]
  <2>1. s = s2 /\ none \in Seq(Queued(e)) /\ none \in Seq(Events)
    OBVIOUS
  <2> HIDE DEF none
  <2>2. s1 \in EditorStates(e)
    BY <2>1 DEF EditorStates
  <2> HIDE DEF s1
  <2>3. s2 \in EditorStates(e)
    BY <2>1, <2>2 DEF EditorStates
  <2> QED BY <2>1, <2>3
<1>4. /\ SameBut(r, s, {"version", "queue", "inFlight", "canWrite", "content", "latest", "fresh",
                        "slot"})
      /\ s.version = m.version /\ s.queue = <<>> /\ s.inFlight = <<>> /\ s.fresh /\ s.slot = <<>>
  BY <1>1 DEF SameBut, Fields
<1>5. HandleResyncSnapshot(r, m) = RefreshPendingMetrics(t)
  BY DEF HandleResyncSnapshot, ResetMetrics
<1> HIDE DEF s
<1>6. t \in EditorStates(e) /\ SameBut(s, t, {"metrics"})
  BY <1>3, <1>4 DEF EditorStates, SameBut, Fields, EmptyMetrics, Metrics
<1> HIDE DEF t
<1>7. /\ RefreshPendingMetrics(t) \in EditorStates(e)
      /\ SameBut(t, RefreshPendingMetrics(t), {"metrics"})
  BY <1>6, RefreshFields
<1> QED BY <1>4, <1>5, <1>6, <1>7 DEF SameBut, Fields

\* An acknowledgement may end the flight, and the next operation is sent.
LEMMA HandleAckFields ==
  ASSUME NEW e, NEW r \in EditorStates(e), NEW m \in Acks
  PROVE  \E mid \in EditorStates(e) :
           /\ SameBut(r, mid, {"version", "inFlight", "metrics"})
           /\ mid.version = Greater(r.version, m.version)
           /\ mid.inFlight = r.inFlight \/ mid.inFlight = <<>>
           /\ HandleAck(r, m) = SendNext(mid)
<1> DEFINE v == Greater(r.version, m.version)
           known == [r EXCEPT !.version = v]
           n == [known.metrics EXCEPT !.acked = @ + 1]
           free == [[known EXCEPT !.metrics = n] EXCEPT !.inFlight = <<>>]
<1>1. DOMAIN r = Fields /\ r.version \in Nat /\ m.version \in Nat
  BY DEF EditorStates, Fields, Acks
<1>2. v \in Nat
  BY <1>1 DEF Greater
<1>3. known = [r EXCEPT !.version = Greater(@, m.version)]
  BY <1>1 DEF Fields
<1> HIDE DEF v
<1>4. known \in EditorStates(e) /\ SameBut(r, known, {"version"}) /\ known.version = v
  BY <1>1, <1>2 DEF EditorStates, SameBut, Fields
<1>5. HandleAck(r, m) = SendNext(IF r.inFlight # <<>> /\ Head(r.inFlight).id = m.id
               THEN RefreshPendingMetrics([RecordAcknowledgement(known) EXCEPT !.inFlight = <<>>])
               ELSE known)
  BY <1>3 DEF HandleAck
<1>6. RecordAcknowledgement(known) = [known EXCEPT !.metrics = n]
  BY <1>4 DEF RecordAcknowledgement, SameBut, Fields
<1> HIDE DEF known
<1>7. known.metrics \in Metrics
  BY <1>4 DEF EditorStates
<1>8. n \in Metrics
  BY <1>7 DEF Metrics
<1> HIDE DEF n
<1>9. /\ free \in EditorStates(e) /\ SameBut(known, free, {"metrics", "inFlight"})
      /\ free.inFlight = <<>>
  <2> DEFINE counted == [known EXCEPT !.metrics = n]
  <2>1. counted \in EditorStates(e) /\ SameBut(known, counted, {"metrics"})
    BY <1>4, <1>8 DEF EditorStates, SameBut, Fields
  <2> HIDE DEF counted
  <2> DEFINE none == <<>>
  <2>2. free = [counted EXCEPT !.inFlight = none] /\ none \in Seq(Queued(e))
    BY DEF counted
  <2> HIDE DEF none
  <2>3. /\ [counted EXCEPT !.inFlight = none] \in EditorStates(e)
        /\ SameBut(counted, [counted EXCEPT !.inFlight = none], {"inFlight"})
        /\ [counted EXCEPT !.inFlight = none].inFlight = none
    BY <2>1, <2>2 DEF EditorStates, SameBut, Fields
  <2> HIDE DEF free
  <2> QED BY <2>1, <2>2, <2>3 DEF SameBut, none
<1> HIDE DEF free
<1>10. /\ RefreshPendingMetrics(free) \in EditorStates(e)
       /\ SameBut(free, RefreshPendingMetrics(free), {"metrics"})
  BY <1>9, RefreshFields
<1>11. CASE r.inFlight # <<>> /\ Head(r.inFlight).id = m.id
  <2>1. HandleAck(r, m) = SendNext(RefreshPendingMetrics(free))
    BY <1>5, <1>6, <1>11 DEF free
  <2>2. /\ SameBut(r, RefreshPendingMetrics(free), {"version", "inFlight", "metrics"})
        /\ RefreshPendingMetrics(free).version = v
        /\ RefreshPendingMetrics(free).inFlight = <<>>
    BY <1>4, <1>9, <1>10 DEF SameBut, Fields
  <2> QED BY <1>10, <2>1, <2>2 DEF v
<1>12. CASE ~(r.inFlight # <<>> /\ Head(r.inFlight).id = m.id)
  <2>1. HandleAck(r, m) = SendNext(known)
    BY <1>5, <1>12
  <2>2. /\ SameBut(r, known, {"version", "inFlight", "metrics"}) /\ known.version = v
        /\ known.inFlight = r.inFlight
    BY <1>4 DEF SameBut, Fields
  <2> QED BY <1>4, <2>1, <2>2 DEF v
<1> QED BY <1>11, <1>12

\* A pending operation over a remote one is an operation of the same name.
LEMMA OverRemoteType ==
  ASSUME NEW e, NEW q \in Queued(e), NEW m \in Broadcasts
  PROVE  OverRemote(q, m) \in Queued(e) /\ OverRemote(q, m).id = q.id
<1> DEFINE op == TransformOperation(q.op, q.id, m.op, m.id)
<1>1. q.op \in Operations /\ m.op \in Operations /\ DOMAIN q = {"id", "op"}
  BY DEF Queued, Broadcasts
<1>2. op \in Operations \cup {NoOperation}
  BY <1>1, TransformType
<1>3. OverRemote(q, m) = IF op = NoOperation THEN q ELSE [q EXCEPT !.op = op]
  BY <1>1 DEF OverRemote
<1> HIDE DEF op
<1>4. CASE op = NoOperation
  BY <1>3, <1>4
<1>5. CASE op # NoOperation
  <2>1. [q EXCEPT !.op = op] \in Queued(e) /\ [q EXCEPT !.op = op].id = q.id
    BY <1>1, <1>2, <1>5 DEF Queued
  <2> QED BY <1>3, <1>5, <2>1
<1> QED BY <1>4, <1>5

\* Pending operations keep their identities over a remote one.
LEMMA OverRemoteSeq ==
  ASSUME NEW e, NEW qs \in Seq(Queued(e)), NEW m \in Broadcasts, NEW over,
         over = [i \in DOMAIN qs |-> OverRemote(qs[i], m)]
  PROVE  /\ over \in Seq(Queued(e))
         /\ Len(over) = Len(qs)
         /\ \A i \in DOMAIN qs : over[i].id = qs[i].id
<1>1. \A i \in 1..Len(qs) : qs[i] \in Queued(e)
  OBVIOUS
<1>2. \A i \in 1..Len(qs) : OverRemote(qs[i], m) \in Queued(e) /\ OverRemote(qs[i], m).id = qs[i].id
  BY <1>1, OverRemoteType
<1>3. DOMAIN qs = 1..Len(qs) /\ Len(qs) \in Nat
  OBVIOUS
<1>4. over = [i \in 1..Len(qs) |-> OverRemote(qs[i], m)]
  BY <1>3
<1>5. over \in [1..Len(qs) -> Queued(e)]
  BY <1>2, <1>4
<1>6. over \in Seq(Queued(e)) /\ Len(over) = Len(qs)
  BY <1>3, <1>5
<1> QED BY <1>2, <1>3, <1>4, <1>6

\* The remote operation, as the editor applies it, is an operation or nothing.
LEMMA OverPendingType ==
  ASSUME NEW e, NEW r \in EditorStates(e), NEW m \in Broadcasts
  PROVE  OverPending(m, Pending(r)) \in Operations \cup {NoOperation}
<1>1. Pending(r) \in Seq(Queued(e))
  BY DEF Pending, EditorStates
<1> DEFINE waiting == Pending(r)
<1>2. \A v \in DOMAIN waiting : waiting[v].op \in Operations
  <2> HIDE DEF waiting
  <2>1. SUFFICES ASSUME NEW v \in DOMAIN waiting PROVE waiting[v].op \in Operations
    OBVIOUS
  <2>2. waiting \in Seq(Queued(e))
    BY <1>1 DEF waiting
  <2>3. waiting[v] \in Queued(e)
    BY <2>1, <2>2
  <2> QED BY <2>3 DEF Queued
<1>3. Len(Pending(r)) \in Nat /\ 0 <= Len(Pending(r)) /\ m.op \in Operations
  BY <1>1 DEF Broadcasts
<1> QED BY <1>2, <1>3, HistoryType DEF OverPending

\* A remote operation is put into the slot, pending ones stay in their places.
LEMMA HandleRemoteFields ==
  ASSUME NEW e, NEW r \in EditorStates(e), NEW m \in Broadcasts, NEW s,
         s = HandleRemoteOperation(r, m)
  PROVE  /\ s \in EditorStates(e)
         /\ SameBut(r, s, {"version", "queue", "inFlight", "slot", "metrics"})
         /\ s.version = Greater(r.version, m.version)
         /\ Len(s.queue) = Len(r.queue) /\ Len(s.inFlight) = Len(r.inFlight)
         /\ \A i \in DOMAIN r.queue : s.queue[i].id = r.queue[i].id
         /\ s.slot = r.slot \/ Len(s.slot) = 1
<1> DEFINE op == OverPending(m, Pending(r))
           v == Greater(r.version, m.version)
           f == [i \in DOMAIN r.inFlight |-> OverRemote(r.inFlight[i], m)]
           q == [i \in DOMAIN r.queue |-> OverRemote(r.queue[i], m)]
           l == IF op = NoOperation THEN r.slot ELSE <<[event |-> <<m.version, m.id>>, op |-> op]>>
           t == [r EXCEPT !.version = v, !.inFlight = f, !.queue = q, !.slot = l]
           n == [t.metrics EXCEPT !.remote = @ + 1]
           u == [t EXCEPT !.metrics = n]
<1>1. DOMAIN r = Fields /\ r.version \in Nat /\ m.version \in Nat
  BY DEF EditorStates, Fields, Broadcasts
<1>2. v \in Nat
  BY <1>1 DEF Greater
<1>3. /\ f \in Seq(Queued(e)) /\ Len(f) = Len(r.inFlight)
      /\ q \in Seq(Queued(e)) /\ Len(q) = Len(r.queue)
      /\ \A i \in DOMAIN r.queue : q[i].id = r.queue[i].id
  <2>1. r.inFlight \in Seq(Queued(e)) /\ r.queue \in Seq(Queued(e))
    BY DEF EditorStates
  <2> QED BY <2>1, OverRemoteSeq
<1>4. l \in Seq(Events) /\ (l = r.slot \/ Len(l) = 1)
  <2>1. r.slot \in Seq(Events) /\ <<m.version, m.id>> \in Nat \X Names
    BY DEF EditorStates, Broadcasts
  <2>2. op \in Operations \cup {NoOperation}
    BY OverPendingType
  <2> HIDE DEF op
  <2>3. op # NoOperation => [event |-> <<m.version, m.id>>, op |-> op] \in Events
    BY <2>1, <2>2 DEF Events
  <2> QED BY <2>1, <2>3
<1>5. HandleRemoteOperation(r, m) = RefreshPendingMetrics(RecordRemoteOperation(t))
  BY <1>1 DEF HandleRemoteOperation, Fields
<1> HIDE DEF op, v, f, q, l
<1>6. /\ t \in EditorStates(e)
      /\ SameBut(r, t, {"version", "queue", "inFlight", "slot"})
      /\ t.version = v /\ t.queue = q /\ t.inFlight = f /\ t.slot = l
  BY <1>1, <1>2, <1>3, <1>4 DEF EditorStates, SameBut, Fields
<1>7. RecordRemoteOperation(t) = u
  BY <1>6 DEF RecordRemoteOperation, SameBut, Fields
<1> HIDE DEF t
<1>8. t.metrics \in Metrics
  BY <1>6 DEF EditorStates
<1>9. n \in Metrics
  BY <1>8 DEF Metrics
<1> HIDE DEF n
<1>10. u \in EditorStates(e) /\ SameBut(t, u, {"metrics"})
  BY <1>6, <1>9 DEF EditorStates, SameBut, Fields
<1> HIDE DEF u
<1>11. /\ RefreshPendingMetrics(u) \in EditorStates(e)
       /\ SameBut(u, RefreshPendingMetrics(u), {"metrics"})
  BY <1>10, RefreshFields
<1>12. s = RefreshPendingMetrics(u)
  BY <1>5, <1>7
<1>13. /\ SameBut(r, s, {"version", "queue", "inFlight", "slot", "metrics"})
       /\ s.version = v /\ s.queue = q /\ s.inFlight = f /\ s.slot = l
  BY <1>6, <1>10, <1>11, <1>12 DEF SameBut, Fields
<1> QED BY <1>3, <1>4, <1>11, <1>12, <1>13 DEF v

\* A refusal leaves all but the status alone.
LEMMA HandleErrorFields ==
  ASSUME NEW e, NEW r \in EditorStates(e)
  PROVE  HandleError(r) \in EditorStates(e) /\ SameBut(r, HandleError(r), {"status"})
<1>1. DOMAIN r = Fields
  BY DEF EditorStates, Fields
<1> QED BY <1>1 DEF HandleError, EditorStates, SameBut, Fields

-----------------------------------------------------------------------------
(* The invariants.                                                         *)

Entries == [id : Names, op : Operations]
Views   == [doc : Texts, editable : BOOLEAN, applied : {<<>>} \cup (Nat \X Names)]
Served  == [version : Nat, text : Texts, canWrite : BOOLEAN]

\* Only the first message of a socket may be the join.
JoinFirst(sent) == \A i \in DOMAIN sent : i # 1 => sent[i].kind = "op"

EditorTyped(e) == /\ editor[e] \in EditorStates(e)
                  /\ Len(editor[e].inFlight) <= 1 /\ Len(editor[e].slot) <= 1
                  /\ JoinFirst(editor[e].upstream)

ResyncTyped(e) == \/ resync[e] \in {<<>>, <<"asked">>, <<"done">>}
                  \/ \E s \in Served : resync[e] = <<"asked", s>>

Typed ==
  /\ scenario \in Scenarios
  /\ DOMAIN editor = Editors /\ \A e \in Editors : EditorTyped(e)
  /\ surface \in [Editors -> Views]
  /\ log \in Seq(Entries)
  /\ texts \in Seq(Texts) /\ Len(texts) = Version + 1
  /\ joined \subseteq Editors
  /\ access \in [Editors -> BOOLEAN] /\ role \in [Editors -> BOOLEAN]
  /\ announcing \in [Editors -> [version : Nat, told : SUBSET Editors]]
  /\ DOMAIN stragglers = Editors /\ \A e \in Editors : stragglers[e] \in Seq(OpMsgs(e))
  /\ typed \in [Editors -> Nat] /\ \A e \in Editors : typed[e] <= scenario.maxEdits
  /\ closes \in [Editors -> Nat] /\ \A e \in Editors : closes[e] <= scenario.maxCloses
  /\ DOMAIN resync = Editors /\ \A e \in Editors : ResyncTyped(e)

\* An editor knows, says and is told of no version after n.
Known(r, n) ==
  /\ r.version <= n
  /\ \A i \in DOMAIN r.upstream : r.upstream[i].kind = "op" => r.upstream[i].base <= n
  /\ \A i \in DOMAIN r.inbox : r.inbox[i].kind # "error" => r.inbox[i].version <= n

\* Nobody knows of a version that does not exist yet.
Bounded ==
  \A e \in Editors :
    /\ Known(editor[e], Version)
    /\ announcing[e].version <= Version
    /\ announcing[e] = NoAnnouncement \/ announcing[e].version > 0
    /\ \A i \in DOMAIN stragglers[e] : stragglers[e][i].base <= Version
    /\ \A s \in Served : resync[e] = <<"asked", s>> => s.version <= Version

-----------------------------------------------------------------------------
(* What the steps do to an editor.                                         *)

\* The step replaces the fields F of editor e, and nothing of the others.
Becomes(e, F) ==
  /\ DOMAIN editor' = Editors
  /\ \A x \in Editors \ {e} : editor'[x] = editor[x]
  /\ editor'[e] \in EditorStates(e)
  /\ SameBut(editor[e], editor'[e], F)

\* s is an editor that had the queue q, the operation f in flight and u on the
\* socket, and may have sent the first of the queue.
Sends(q, f, u, s) ==
  \/ s.queue = q /\ s.inFlight = f /\ s.upstream = u
  \/ /\ s.socket = "open" /\ f = <<>> /\ q # <<>>
     /\ s.queue = Tail(q) /\ s.inFlight = <<Head(q)>>
     /\ s.upstream = Append(u, OpMsg(Head(q), s.version))

\* An editor is replaced by one that differs in some fields.
LEMMA Replaced ==
  ASSUME DOMAIN editor = Editors, NEW e \in Editors, NEW s \in EditorStates(e), NEW F,
         editor' = [editor EXCEPT ![e] = s], SameBut(editor[e], s, F)
  PROVE  Becomes(e, F) /\ editor'[e] = s
  BY DEF Becomes

\* The steps before a socket opens.
LEMMA MountEffect ==
  ASSUME Typed, NEW e \in Editors, Mount(e) \/ LoadMetadata(e) \/ Connect(e)
  PROVE  /\ Becomes(e, {"socket", "status", "metadata"})
         /\ editor'[e].socket = "gone" <=> editor[e].socket = "gone"
<1>1. DOMAIN editor = Editors /\ editor[e] \in EditorStates(e)
  BY DEF Typed, EditorTyped
<1>2. DOMAIN editor[e] = Fields
  BY <1>1 DEF EditorStates, Fields
<1> DEFINE r == editor[e]
           a == [r EXCEPT !.socket = "scheduled", !.status = "connecting"]
           b == [r EXCEPT !.status = "error"]
           c == [r EXCEPT !.metadata = "loaded"]
           d == [r EXCEPT !.metadata = "failed", !.status = "error"]
           f == [r EXCEPT !.socket = "connecting", !.status = "connecting"]
           F == {"socket", "status", "metadata"}
<1>3. \E s \in {a, b, c, d, f} : /\ editor' = [editor EXCEPT ![e] = s]
                                 /\ s.socket = "gone" <=> editor[e].socket = "gone"
  <2>1. CASE Mount(e)
    BY <1>1, <1>2, <2>1 DEF Mount, Fields
  <2>2. CASE LoadMetadata(e)
    BY <1>1, <1>2, <2>2 DEF LoadMetadata, Fields
  <2>3. CASE Connect(e)
    BY <1>1, <1>2, <2>3 DEF Connect, Fields
  <2> QED BY <2>1, <2>2, <2>3
<1>4. /\ a \in EditorStates(e) /\ b \in EditorStates(e) /\ c \in EditorStates(e)
      /\ d \in EditorStates(e) /\ f \in EditorStates(e)
  BY <1>1 DEF EditorStates
<1>5. /\ SameBut(r, a, F) /\ SameBut(r, b, F) /\ SameBut(r, c, F) /\ SameBut(r, d, F)
      /\ SameBut(r, f, F)
  BY <1>2 DEF SameBut, Fields
<1> HIDE DEF a, b, c, d, f
<1> QED BY <1>1, <1>3, <1>4, <1>5, Replaced

\* The socket opens, and the join is sent.
LEMMA OpenedEffect ==
  ASSUME Typed, NEW e \in Editors, Opened(e)
  PROVE  /\ Becomes(e, {"socket", "upstream"})
         /\ editor[e].socket = "connecting" /\ editor'[e].socket = "open"
         /\ editor'[e].upstream = <<JoinMsg>>
<1>1. DOMAIN editor = Editors /\ editor[e] \in EditorStates(e)
  BY DEF Typed, EditorTyped
<1>2. DOMAIN editor[e] = Fields
  BY <1>1 DEF EditorStates, Fields
<1> DEFINE u == <<JoinMsg>>
           s == [editor[e] EXCEPT !.socket = "open", !.upstream = u]
<1>3. editor' = [editor EXCEPT ![e] = s] /\ editor[e].socket = "connecting"
  BY <1>1, <1>2 DEF Opened, Fields
<1>4. u \in Seq({JoinMsg} \cup OpMsgs(e))
  OBVIOUS
<1> HIDE DEF u
<1>5. s \in EditorStates(e)
  BY <1>1, <1>4 DEF EditorStates
<1>6. SameBut(editor[e], s, {"socket", "upstream"}) /\ s.socket = "open" /\ s.upstream = u
  BY <1>2 DEF SameBut, Fields
<1> HIDE DEF s
<1> QED BY <1>1, <1>3, <1>5, <1>6, Replaced DEF u

\* The operations among the messages of a socket.
Sent(sent) == IF sent # <<>> /\ Head(sent).kind = "join" THEN Tail(sent) ELSE sent

\* What of a socket's messages the server may still receive are operations.
LEMMA SentType ==
  ASSUME NEW e, NEW up \in Seq({JoinMsg} \cup OpMsgs(e)), JoinFirst(up)
  PROVE  Sent(up) \in Seq(OpMsgs(e))
<1>1. \A i \in DOMAIN up : up[i].kind = "op" => up[i] \in OpMsgs(e)
  BY DEF JoinMsg
<1>2. \A i \in DOMAIN up : up[i].kind \in {"op", "join"}
  BY DEF JoinMsg, OpMsgs
<1>3. CASE up # <<>> /\ Head(up).kind = "join"
  <2>1. Sent(up) = Tail(up)
    BY <1>3 DEF Sent
  <2>2. Tail(up) \in Seq({JoinMsg} \cup OpMsgs(e)) /\ Len(Tail(up)) = Len(up) - 1
    BY <1>3
  <2>3. \A i \in 1..Len(Tail(up)) : Tail(up)[i] = up[i + 1] /\ i + 1 \in DOMAIN up /\ i + 1 # 1
    BY <1>3, <2>2
  <2>4. \A i \in 1..Len(Tail(up)) : Tail(up)[i] \in OpMsgs(e)
    BY <1>1, <2>3 DEF JoinFirst
  <2> DEFINE t == Tail(up)
  <2>5. t \in [1..Len(t) -> OpMsgs(e)] /\ Len(t) \in Nat
    <3> HIDE DEF t
    <3>1. t \in Seq({JoinMsg} \cup OpMsgs(e)) /\ \A i \in 1..Len(t) : t[i] \in OpMsgs(e)
      BY <2>2, <2>4 DEF t
    <3> QED BY <3>1
  <2> HIDE DEF t
  <2>6. t \in Seq(OpMsgs(e))
    BY <2>5
  <2> QED BY <2>1, <2>6 DEF t
<1>4. CASE up = <<>>
  <2> DEFINE none == <<>>
  <2>1. none \in Seq(OpMsgs(e)) /\ Sent(up) = none
    BY <1>4 DEF Sent
  <2> QED BY <2>1
<1>5. CASE up # <<>> /\ Head(up).kind # "join"
  <2>1. Sent(up) = up
    BY <1>5 DEF Sent
  <2>2. \A i \in 1..Len(up) : up[i] \in OpMsgs(e)
    BY <1>1, <1>2, <1>5 DEF JoinFirst
  <2>3. up \in [1..Len(up) -> OpMsgs(e)] /\ Len(up) \in Nat
    BY <2>2
  <2> QED BY <2>1, <2>3
<1> QED BY <1>3, <1>4, <1>5

\* The initial state of an editor has its type.
LEMMA InitialType ==
  ASSUME NEW e
  PROVE  InitialEditor \in EditorStates(e)
<1> DEFINE none == <<>>
           q == <<>>
           u == <<>>
           l == <<>>
           i == <<>>
           m == IF "metadata" \in Disturbances THEN "loading" ELSE "loaded"
<1>1. InitialEditor = [socket |-> "none", status |-> "loading", canWrite |-> FALSE, version |-> 0,
                       queue |-> q, inFlight |-> q, content |-> none, fresh |-> TRUE,
                       slot |-> l, latest |-> none, metrics |-> EmptyMetrics,
                       upstream |-> u, inbox |-> i, mishaps |-> {}, metadata |-> m]
  BY DEF InitialEditor
<1>2. none \in Texts /\ q \in Seq(Queued(e)) /\ u \in Seq({JoinMsg} \cup OpMsgs(e))
      /\ l \in Seq(Events) /\ i \in Seq(Answers)
  BY DEF Texts
<1>3. EmptyMetrics \in Metrics /\ m \in {"loading", "loaded", "failed"}
  BY DEF EmptyMetrics, Metrics
<1> HIDE DEF none, q, u, l, i, m
<1> QED BY <1>1, <1>2, <1>3 DEF EditorStates

\* The user leaves the page.
LEMMA LeaveEffect ==
  ASSUME Typed, NEW e \in Editors, Leave(e)
  PROVE  /\ Becomes(e, Fields)
         /\ editor[e].socket # "gone" /\ editor'[e].socket = "gone"
         /\ editor'[e].version = 0 /\ editor'[e].queue = <<>> /\ editor'[e].inFlight = <<>>
         /\ editor'[e].upstream = <<>> /\ editor'[e].inbox = <<>> /\ editor'[e].slot = <<>>
         /\ editor'[e].mishaps = {} /\ ~editor'[e].fresh /\ editor'[e].latest = <<>>
         /\ surface' = [surface EXCEPT ![e] = InitialSurface]
<1>1. DOMAIN editor = Editors /\ editor[e] \in EditorStates(e)
  BY DEF Typed, EditorTyped
<1> DEFINE s == [InitialEditor EXCEPT !.socket = "gone", !.fresh = FALSE, !.metadata = "loaded"]
<1>2. editor' = [editor EXCEPT ![e] = s] /\ editor[e].socket # "gone"
  BY <1>1 DEF Leave
<1>3. InitialEditor \in EditorStates(e)
  BY InitialType
<1>4. s \in EditorStates(e)
  BY <1>3 DEF EditorStates
<1>5. SameBut(editor[e], s, Fields)
  BY <1>4 DEF SameBut, EditorStates, Fields
<1>6. /\ s.socket = "gone" /\ s.version = 0 /\ s.queue = <<>> /\ s.inFlight = <<>>
      /\ s.upstream = <<>> /\ s.inbox = <<>> /\ s.slot = <<>> /\ s.mishaps = {} /\ ~s.fresh
      /\ s.latest = <<>>
  BY DEF InitialEditor
<1> HIDE DEF s
<1>7. Becomes(e, Fields) /\ editor'[e] = s
  BY <1>1, <1>2, <1>4, <1>5, Replaced
<1> QED BY <1>2, <1>6, <1>7 DEF Leave

\* The socket closes.
LEMMA ClosedEffect ==
  ASSUME Typed, NEW e \in Editors, Closed(e)
  PROVE  /\ Becomes(e, {"socket", "status", "upstream", "inbox"})
         /\ editor[e].socket # "gone"
         /\ editor'[e].upstream = <<>> /\ editor'[e].inbox = <<>>
<1>1. DOMAIN editor = Editors /\ editor[e] \in EditorStates(e)
  BY DEF Typed, EditorTyped
<1>2. DOMAIN editor[e] = Fields
  BY <1>1 DEF EditorStates, Fields
<1> DEFINE u == <<>>
           i == <<>>
           s == [editor[e] EXCEPT !.upstream = u, !.inbox = i, !.socket = "scheduled",
                                  !.status = "disconnected"]
<1>3. editor' = [editor EXCEPT ![e] = s] /\ editor[e].socket # "gone"
  BY <1>1, <1>2 DEF Closed, ScheduleReconnect, Fields
<1>4. u \in Seq({JoinMsg} \cup OpMsgs(e)) /\ i \in Seq(Answers)
  OBVIOUS
<1> HIDE DEF u, i
<1>5. s \in EditorStates(e)
  BY <1>1, <1>4 DEF EditorStates
<1>6. /\ SameBut(editor[e], s, {"socket", "status", "upstream", "inbox"})
      /\ s.upstream = u /\ s.inbox = i
  BY <1>2 DEF SameBut, Fields
<1> HIDE DEF s
<1> QED BY <1>1, <1>3, <1>5, <1>6, Replaced DEF u, i

\* A rendering carries the state over to the view.
LEMMA RenderEffect ==
  ASSUME Typed, NEW e \in Editors, Render(e)
  PROVE  /\ Becomes(e, {"fresh", "slot", "latest"})
         /\ editor'[e].slot = editor[e].slot \/ editor'[e].slot = <<>>
         /\ surface' \in [Editors -> Views]
         /\ \A x \in Editors \ {e} : surface'[x] = surface[x]
         /\ (editor[e].fresh \/ editor[e].latest = surface[e].doc)
              => editor'[e].latest = surface'[e].doc
<1>1. DOMAIN editor = Editors /\ editor[e] \in EditorStates(e)
  BY DEF Typed, EditorTyped
<1>2. DOMAIN editor[e] = Fields
  BY <1>1 DEF EditorStates, Fields
<1> DEFINE content == IF editor[e].fresh THEN editor[e].content ELSE surface[e].doc
           doc == IF Unapplied(e) THEN ApplyOperation(content, Head(editor[e].slot).op)
                  ELSE content
           l == IF Unapplied(e) THEN <<>> ELSE editor[e].slot
           t == IF editor[e].fresh \/ Unapplied(e) THEN doc ELSE editor[e].latest
           a == IF Unapplied(e) THEN Head(editor[e].slot).event ELSE surface[e].applied
           s == [editor[e] EXCEPT !.fresh = FALSE, !.slot = l, !.latest = t]
           v == [surface[e] EXCEPT !.editable = editor[e].canWrite, !.doc = doc, !.applied = a]
<1>3. surface[e] \in Views /\ surface \in [Editors -> Views]
  BY DEF Typed
<1>4. editor' = [editor EXCEPT ![e] = s]
  BY <1>1, <1>2 DEF Render, Fields
<1>5. surface' = [surface EXCEPT ![e] = v]
  BY <1>3 DEF Render, Views
<1>6. Unapplied(e) => Head(editor[e].slot) \in Events
  BY <1>1 DEF Unapplied, EditorStates
<1>7. content \in Texts
  BY <1>1, <1>3 DEF EditorStates, Views
<1>8. doc \in Texts
  <2>1. Unapplied(e) => Head(editor[e].slot).op \in Operations
    BY <1>6 DEF Events
  <2> HIDE DEF content
  <2> QED BY <1>7, <2>1, ApplyType
<1>9. l \in Seq(Events) /\ (l = editor[e].slot \/ l = <<>>)
  <2> DEFINE none == <<>>
  <2>1. none \in Seq(Events) /\ editor[e].slot \in Seq(Events)
    BY <1>1 DEF EditorStates
  <2> QED BY <2>1
<1>10. a \in {<<>>} \cup (Nat \X Names)
  <2>1. surface[e].applied \in {<<>>} \cup (Nat \X Names)
    BY <1>3 DEF Views
  <2>2. Unapplied(e) => Head(editor[e].slot).event \in Nat \X Names
    BY <1>6 DEF Events
  <2> QED BY <2>1, <2>2
<1>11. t \in Texts
  BY <1>1, <1>8 DEF EditorStates
<1>12. editor[e].fresh \/ editor[e].latest = surface[e].doc => t = doc
  OBVIOUS
<1>13. editor[e].canWrite \in BOOLEAN
  BY <1>1 DEF EditorStates
<1> HIDE DEF content, doc, l, t, a
<1>14. s \in EditorStates(e) /\ SameBut(editor[e], s, {"fresh", "slot", "latest"})
       /\ s.slot = l /\ s.latest = t
  BY <1>1, <1>2, <1>9, <1>11 DEF EditorStates, SameBut, Fields
<1>15. v \in Views /\ v.doc = doc
  BY <1>3, <1>8, <1>10, <1>13 DEF Views
<1> HIDE DEF s, v
<1>16. surface' \in [Editors -> Views] /\ surface'[e] = v
       /\ \A x \in Editors \ {e} : surface'[x] = surface[x]
  BY <1>3, <1>5, <1>15
<1>17. Becomes(e, {"fresh", "slot", "latest"}) /\ editor'[e] = s
  BY <1>1, <1>4, <1>14, Replaced
<1> QED BY <1>9, <1>12, <1>14, <1>15, <1>16, <1>17

\* A transaction of one or two edits makes a text of a text.
LEMMA AfterTransactionType ==
  ASSUME NEW e, NEW doc \in Texts, NEW ops \in Seq(Queued(e)), Len(ops) \in {1, 2}
  PROVE  AfterTransaction(doc, ops) \in Texts
<1> DEFINE Solves(f) == f = [i \in 0..Len(ops) |->
                               IF i = 0 THEN doc ELSE ApplyOperation(f[i - 1], ops[i].op)]
           after == CHOOSE f : Solves(f)
           one == ApplyOperation(doc, ops[1].op)
           two == ApplyOperation(one, ops[2].op)
           g == [i \in 0..Len(ops) |-> IF i = 0 THEN doc ELSE IF i = 1 THEN one ELSE two]
<1>1. Solves(g)
  <2>1. \A i \in 0..Len(ops) : g[i] = IF i = 0 THEN doc ELSE ApplyOperation(g[i - 1], ops[i].op)
    <3>1. 0..Len(ops) \subseteq {0, 1, 2} /\ 0 \in 0..Len(ops) /\ 1 \in 0..Len(ops)
      <4> DEFINE k == Len(ops)
      <4>1. k = 1 \/ k = 2
        OBVIOUS
      <4> HIDE DEF k
      <4>2. 0..k \subseteq {0, 1, 2} /\ 0 \in 0..k /\ 1 \in 0..k
        BY <4>1
      <4> QED BY <4>2 DEF k
    <3>2. g[0] = doc /\ g[1] = one
      BY <3>1
    <3>3. 2 \in 0..Len(ops) => g[2] = two
      OBVIOUS
    <3> HIDE DEF g
    <3>4. SUFFICES ASSUME NEW i \in 0..Len(ops)
                   PROVE  g[i] = IF i = 0 THEN doc ELSE ApplyOperation(g[i - 1], ops[i].op)
      OBVIOUS
    <3>5. CASE i = 0
      BY <3>2, <3>5
    <3>6. CASE i = 1
      BY <3>2, <3>6
    <3>7. CASE i = 2
      BY <3>2, <3>3, <3>7
    <3> QED BY <3>1, <3>5, <3>6, <3>7
  <2>2. g = [i \in 0..Len(ops) |-> g[i]]
    OBVIOUS
  <2> HIDE DEF g
  <2> QED BY <2>1, <2>2
<1> HIDE DEF g
<1>2. Solves(after)
  <2>1. \E f : Solves(f)
    BY <1>1
  <2> HIDE DEF Solves
  <2> QED BY <2>1
<1>3. AfterTransaction(doc, ops) = after[Len(ops)]
  BY DEF AfterTransaction
<1> HIDE DEF after
<1>4. after[0] = doc
  BY <1>2
<1>5. 1 \in 0..Len(ops) /\ Len(ops) \in 0..Len(ops)
  OBVIOUS
<1>6. after[1] = ApplyOperation(after[0], ops[1].op)
  BY <1>2, <1>5
<1>7. Len(ops) = 2 => after[2] = ApplyOperation(after[1], ops[2].op)
  BY <1>2, <1>5
<1>8. \A i \in 1..Len(ops) : ops[i].op \in Operations
  <2>1. \A i \in 1..Len(ops) : ops[i] \in Queued(e)
    OBVIOUS
  <2> QED BY <2>1 DEF Queued
<1>9. after[1] \in Texts
  BY <1>4, <1>6, <1>8, ApplyType
<1>10. Len(ops) = 2 => after[2] \in Texts
  <2>1. Len(ops) = 2 => ops[2].op \in Operations
    BY <1>8
  <2> QED BY <1>7, <1>9, <2>1, ApplyType
<1> QED BY <1>3, <1>9, <1>10

\* The edits of a transaction are operations of their editor, with new names.
LEMMA TransactionType ==
  ASSUME Typed, NEW e \in Editors, NEW doc \in Texts, typed[e] < scenario.maxEdits,
         NEW ops \in Transactions(e, doc)
  PROVE  /\ ops \in Seq(Queued(e)) /\ Len(ops) \in {1, 2}
         /\ \A i \in DOMAIN ops : ops[i].id.op = 2 * typed[e] + 1 + i
<1> DEFINE n == typed[e] + 1
           first == [id |-> Identity(e, 2 * n), op |-> NoOperation]
           next == [id |-> Identity(e, 2 * n + 1), op |-> NoOperation]
           ins(p) == InsertOp(p, <<Char(e, n)>>)
           Is(q, k, op) == q = [id |-> [client |-> e, op |-> k], op |-> op]
<1>1. n \in Nat /\ Char(e, n) \in Chars /\ typed[e] \in Nat
  <2>1. scenario \in Scenarios /\ typed[e] \in Nat /\ e \in Editors
    BY DEF Typed
  <2>2. scenario.maxEdits \in Nat
    BY <2>1, EditorsAssumption
  <2>3. n \in 1..scenario.maxEdits
    BY <2>1, <2>2
  <2> QED BY <2>1, <2>3, CharsAssumption
<1>2. \A p \in Nat : ins(p) \in Operations /\ DeleteOp(p, 1) \in Operations
  BY <1>1 DEF InsertOp, DeleteOp, Operations, Texts
<1>3. doc # <<>> => DeleteOp(0, Len(doc)) \in Operations
  BY DEF DeleteOp, Operations, Texts
<1>4. Len(doc) \in Nat
  BY DEF Texts
<1>5. \/ \E op \in Operations : ops = <<[first EXCEPT !.op = op]>>
      \/ \E a, b \in Operations : ops = <<[first EXCEPT !.op = a], [next EXCEPT !.op = b]>>
  <2>1. \A p \in 0..Len(doc) : p \in Nat
    BY <1>4
  <2>2. \A p \in 0..(Len(doc) - 1) : p \in Nat
    BY <1>4
  <2> HIDE DEF first, next
  <2>3. \/ \E p \in 0..Len(doc) : ops = <<[first EXCEPT !.op = ins(p)]>>
        \/ \E p \in 0..(Len(doc) - 1) : ops = <<[first EXCEPT !.op = DeleteOp(p, 1)]>>
        \/ doc # <<>> /\ ops = <<[first EXCEPT !.op = DeleteOp(0, Len(doc))]>>
        \/ \E p \in 0..(Len(doc) - 1) :
             ops = <<[first EXCEPT !.op = DeleteOp(p, 1)], [next EXCEPT !.op = ins(p)]>>
    BY Zenon DEF Transactions, first, next
  <2> HIDE DEF ins
  <2> QED BY <1>2, <1>3, <2>1, <2>2, <2>3
<1>6. \A op \in Operations : /\ [first EXCEPT !.op = op] \in Queued(e)
                             /\ [first EXCEPT !.op = op].id.op = 2 * n
                             /\ [next EXCEPT !.op = op] \in Queued(e)
                             /\ [next EXCEPT !.op = op].id.op = 2 * n + 1
  BY <1>1 DEF Queued, Identity
<1> HIDE DEF first, next
<1>7. CASE \E op \in Operations : ops = <<[first EXCEPT !.op = op]>>
  <2>1. PICK op \in Operations : ops = <<[first EXCEPT !.op = op]>>
    BY <1>7
  <2> DEFINE q == [first EXCEPT !.op = op]
  <2>2. q \in Queued(e) /\ q.id.op = 2 * n /\ ops = <<q>>
    BY <1>6, <2>1
  <2> HIDE DEF q
  <2>3. Len(ops) = 1 /\ ops \in Seq(Queued(e)) /\ DOMAIN ops = {1} /\ ops[1] = q
    BY <2>2
  <2> QED BY <1>1, <2>2, <2>3
<1>8. CASE \E a, b \in Operations : ops = <<[first EXCEPT !.op = a], [next EXCEPT !.op = b]>>
  <2>1. PICK a \in Operations, b \in Operations :
          ops = <<[first EXCEPT !.op = a], [next EXCEPT !.op = b]>>
    BY <1>8
  <2> DEFINE q == [first EXCEPT !.op = a]
             s == [next EXCEPT !.op = b]
  <2>2. /\ q \in Queued(e) /\ q.id.op = 2 * n /\ s \in Queued(e) /\ s.id.op = 2 * n + 1
        /\ ops = <<q, s>>
    BY <1>6, <2>1
  <2> HIDE DEF q, s
  <2>3. /\ Len(ops) = 2 /\ ops \in Seq(Queued(e)) /\ DOMAIN ops = {1, 2}
        /\ ops[1] = q /\ ops[2] = s
    BY <2>2
  <2> QED BY <1>1, <2>2, <2>3
<1> QED BY <1>5, <1>7, <1>8

\* The user types.
LEMMA TypeEffect ==
  ASSUME Typed, NEW e \in Editors, Type(e)
  PROVE  /\ Becomes(e, {"queue", "inFlight", "upstream", "metrics", "latest", "mishaps"})
         /\ \E q : /\ \/ q = editor[e].queue
                      \/ \E ops \in Seq(Queued(e)) :
                           /\ q = editor[e].queue \o ops /\ Len(ops) \in {1, 2}
                           /\ \A i \in DOMAIN ops : ops[i].id.op = 2 * typed[e] + 1 + i
                   /\ Sends(q, editor[e].inFlight, editor[e].upstream, editor'[e])
         /\ editor'[e].mishaps \in {editor[e].mishaps, editor[e].mishaps \cup {"behind"}}
         /\ surface' \in [Editors -> Views]
         /\ \A x \in Editors \ {e} : surface'[x] = surface[x]
         /\ editor'[e].latest = surface'[e].doc
<1>1. DOMAIN editor = Editors /\ editor[e] \in EditorStates(e)
  BY DEF Typed, EditorTyped
<1>2. surface[e] \in Views /\ surface \in [Editors -> Views]
  BY DEF Typed
<1>3. PICK ops \in Transactions(e, surface[e].doc) :
        LET doc == AfterTransaction(surface[e].doc, ops)
        IN  /\ surface' = [surface EXCEPT ![e].doc = doc]
            /\ editor' = [editor EXCEPT ![e] =
                 [(IF editor[e].canWrite THEN SendLocal(editor[e], ops) ELSE editor[e])
                    EXCEPT !.latest = doc,
                           !.mishaps = IF RenderingDue(e) THEN @ \cup {"behind"} ELSE @]]
  BY DEF Type
<1> DEFINE r == editor[e]
           doc == AfterTransaction(surface[e].doc, ops)
           h == IF r.canWrite THEN SendLocal(r, ops) ELSE r
           m == IF RenderingDue(e) THEN h.mishaps \cup {"behind"} ELSE h.mishaps
           s == [h EXCEPT !.latest = doc, !.mishaps = m]
           v == [surface[e] EXCEPT !.doc = doc]
<1>4. surface[e].doc \in Texts /\ typed[e] < scenario.maxEdits
  BY <1>2 DEF Views, Type
<1>5. /\ ops \in Seq(Queued(e)) /\ Len(ops) \in {1, 2}
      /\ \A i \in DOMAIN ops : ops[i].id.op = 2 * typed[e] + 1 + i
  BY <1>4, TransactionType
<1>6. doc \in Texts
  BY <1>4, <1>5, AfterTransactionType
<1>7. /\ h \in EditorStates(e)
      /\ SameBut(r, h, {"queue", "inFlight", "upstream", "metrics"})
      /\ \E q : /\ q = r.queue \/ q = r.queue \o ops
                /\ Sends(q, r.inFlight, r.upstream, h)
  <2>1. CASE r.canWrite
    <3>1. PICK mid \in EditorStates(e) : /\ SameBut(r, mid, {"queue", "metrics"})
                                         /\ mid.queue = r.queue \o ops
                                         /\ SendLocal(r, ops) = SendNext(mid)
      BY <1>1, <1>5, SendLocalFields
    <3>2. h = SendNext(mid)
      BY <2>1, <3>1
    <3> HIDE DEF h
    <3>3. /\ h \in EditorStates(e)
          /\ SameBut(mid, h, {"queue", "inFlight", "upstream", "metrics"})
          /\ \/ h = mid
             \/ /\ mid.socket = "open" /\ mid.inFlight = <<>> /\ mid.queue # <<>>
                /\ h.queue = Tail(mid.queue)
                /\ h.inFlight = <<Head(mid.queue)>>
                /\ h.upstream = Append(mid.upstream, OpMsg(Head(mid.queue), mid.version))
      BY <3>2, SendNextFields
    <3>4. SameBut(r, h, {"queue", "inFlight", "upstream", "metrics"})
      BY <3>1, <3>3 DEF SameBut, Fields
    <3>5. mid.inFlight = r.inFlight /\ mid.upstream = r.upstream /\ mid.version = h.version
          /\ mid.socket = h.socket
      BY <3>1, <3>3 DEF SameBut, Fields
    <3>6. Sends(mid.queue, r.inFlight, r.upstream, h)
      BY <3>3, <3>5 DEF Sends
    <3> QED BY <3>1, <3>3, <3>4, <3>6
  <2>2. CASE ~r.canWrite
    <3>1. h = r /\ DOMAIN r = Fields
      BY <1>1, <2>2 DEF EditorStates, Fields
    <3> QED BY <1>1, <3>1 DEF SameBut, Sends
  <2> QED BY <2>1, <2>2
<1>8. editor' = [editor EXCEPT ![e] = s]
  <2>1. DOMAIN h = Fields
    BY <1>7 DEF SameBut
  <2>2. s = [h EXCEPT !.latest = doc,
                      !.mishaps = IF RenderingDue(e) THEN @ \cup {"behind"} ELSE @]
    <3> HIDE DEF h, doc
    <3> QED BY <2>1 DEF Fields
  <2> QED BY <1>3, <2>2
<1>9. surface' = [surface EXCEPT ![e] = v]
  BY <1>2, <1>3 DEF Views
<1> HIDE DEF doc, h
<1>10. v \in Views /\ v.doc = doc
  BY <1>2, <1>6 DEF Views
<1>11. h.mishaps = r.mishaps /\ h.mishaps \subseteq MishapNames
  BY <1>7 DEF SameBut, Fields, EditorStates
<1>12. m \in SUBSET MishapNames /\ m \in {r.mishaps, r.mishaps \cup {"behind"}}
  BY <1>11 DEF MishapNames
<1> HIDE DEF m
<1>13. s \in EditorStates(e) /\ SameBut(h, s, {"latest", "mishaps"})
       /\ s.latest = doc /\ s.mishaps = m
  <2>1. DOMAIN h = Fields
    BY <1>7 DEF SameBut
  <2> QED BY <1>6, <1>7, <1>12, <2>1 DEF EditorStates, SameBut, Fields
<1> HIDE DEF s
<1>14. SameBut(r, s, {"queue", "inFlight", "upstream", "metrics", "latest", "mishaps"})
  BY <1>7, <1>13 DEF SameBut, Fields
<1>15. s.queue = h.queue /\ s.inFlight = h.inFlight /\ s.upstream = h.upstream
       /\ s.socket = h.socket /\ s.version = h.version
  BY <1>13 DEF SameBut, Fields
<1>16. /\ Becomes(e, {"queue", "inFlight", "upstream", "metrics", "latest", "mishaps"})
       /\ editor'[e] = s
  BY <1>1, <1>8, <1>13, <1>14, Replaced
<1>17. \E q : /\ q = r.queue \/ q = r.queue \o ops
              /\ Sends(q, r.inFlight, r.upstream, s)
  BY <1>7, <1>15 DEF Sends
<1> HIDE DEF v
<1>18. surface' \in [Editors -> Views] /\ surface'[e] = v
       /\ \A x \in Editors \ {e} : surface'[x] = surface[x]
  BY <1>2, <1>9, <1>10
<1> QED BY <1>5, <1>10, <1>12, <1>13, <1>16, <1>17, <1>18

\* What a message may be a mishap of.
LEMMA MishapsFacts ==
  ASSUME NEW e, NEW m
  PROVE  /\ Mishaps(e, m) \subseteq MishapNames \ {"rewound", "untold"}
         /\ m.kind = "snapshot" /\ Pending(editor[e]) # <<>> => "discarded" \in Mishaps(e, m)
         /\ m.kind # "snapshot" => "discarded" \notin Mishaps(e, m)
  BY DEF Mishaps, MishapNames

\* The kind of a message tells what it has.
LEMMA AnswerKinds ==
  ASSUME NEW m \in Answers
  PROVE  /\ m.kind \in {"snapshot", "ack", "broadcast_op", "error"}
         /\ m.kind = "snapshot" => m \in Snapshots
         /\ m.kind = "ack" => m \in Acks
         /\ m.kind = "broadcast_op" => m \in Broadcasts
         /\ m.kind # "error" => m.version \in Nat
  BY DEF Answers, Snapshots, Acks, Broadcasts, ReadOnlyMsg

\* The next message is handled.
LEMMA DeliverEffect ==
  ASSUME Typed, NEW e \in Editors, Deliver(e), NEW m, m = Head(editor[e].inbox)
  PROVE  /\ Becomes(e, Fields \ {"socket", "metadata"})
         /\ editor[e].inbox # <<>> /\ m \in Answers
         /\ editor'[e].inbox = Tail(editor[e].inbox)
         /\ editor'[e].mishaps = editor[e].mishaps \cup Mishaps(e, m)
         /\ m.kind = "snapshot" =>
              /\ editor'[e].version = m.version /\ editor'[e].queue = <<>>
              /\ editor'[e].inFlight = <<>> /\ editor'[e].fresh
              /\ editor'[e].upstream = editor[e].upstream /\ editor'[e].slot = editor[e].slot
         /\ m.kind # "snapshot" =>
              editor'[e].fresh = editor[e].fresh /\ editor'[e].latest = editor[e].latest
         /\ m.kind = "ack" =>
              /\ editor'[e].version = Greater(editor[e].version, m.version)
              /\ editor'[e].slot = editor[e].slot
              /\ \E f \in {editor[e].inFlight, <<>>} :
                   Sends(editor[e].queue, f, editor[e].upstream, editor'[e])
         /\ m.kind = "broadcast_op" =>
              /\ editor'[e].version = Greater(editor[e].version, m.version)
              /\ Len(editor'[e].queue) = Len(editor[e].queue)
              /\ Len(editor'[e].inFlight) = Len(editor[e].inFlight)
              /\ \A i \in DOMAIN editor[e].queue : editor'[e].queue[i].id = editor[e].queue[i].id
              /\ editor'[e].upstream = editor[e].upstream
              /\ editor'[e].slot = editor[e].slot \/ Len(editor'[e].slot) = 1
         /\ m.kind = "error" => SameBut(editor[e], editor'[e], {"status", "inbox", "mishaps"})
<1>1. DOMAIN editor = Editors /\ editor[e] \in EditorStates(e)
  BY DEF Typed, EditorTyped
<1> DEFINE r == editor[e]
           h == Handle(r, m)
           i == Tail(r.inbox)
           b == h.mishaps \cup Mishaps(e, m)
           s == [h EXCEPT !.inbox = i, !.mishaps = b]
           H == Fields \ {"socket", "metadata", "inbox", "mishaps"}
<1>2. r.inbox # <<>> /\ r.inbox \in Seq(Answers)
  BY <1>1 DEF Deliver, EditorStates
<1>3. m \in Answers /\ i \in Seq(Answers)
  BY <1>2
<1>4. /\ h \in EditorStates(e) /\ SameBut(r, h, H)
      /\ m.kind = "snapshot" => /\ h.version = m.version /\ h.queue = <<>> /\ h.inFlight = <<>>
                                /\ h.fresh /\ h.upstream = r.upstream /\ h.slot = r.slot
      /\ m.kind # "snapshot" => h.fresh = r.fresh /\ h.latest = r.latest
      /\ m.kind = "ack" => /\ h.version = Greater(r.version, m.version) /\ h.slot = r.slot
                           /\ \E f \in {r.inFlight, <<>>} : Sends(r.queue, f, r.upstream, h)
      /\ m.kind = "broadcast_op" =>
           /\ h.version = Greater(r.version, m.version)
           /\ Len(h.queue) = Len(r.queue) /\ Len(h.inFlight) = Len(r.inFlight)
           /\ \A j \in DOMAIN r.queue : h.queue[j].id = r.queue[j].id
           /\ h.upstream = r.upstream /\ (h.slot = r.slot \/ Len(h.slot) = 1)
      /\ m.kind = "error" => SameBut(r, h, {"status"})
  <2>1. CASE m.kind = "snapshot"
    <3>1. h = HandleSnapshot(r, m) /\ m \in Snapshots
      BY <1>3, <2>1, AnswerKinds DEF Handle
    <3> HIDE DEF h
    <3>2. /\ h \in EditorStates(e)
          /\ SameBut(r, h, {"version", "queue", "inFlight", "canWrite", "content", "latest",
                            "fresh", "status", "metrics"})
          /\ h.version = m.version /\ h.queue = <<>> /\ h.inFlight = <<>> /\ h.fresh
      BY <1>1, <3>1, HandleSnapshotFields
    <3> QED BY <2>1, <3>2 DEF SameBut, Fields
  <2>2. CASE m.kind = "ack"
    <3>1. h = HandleAck(r, m) /\ m \in Acks
      BY <1>3, <2>2, AnswerKinds DEF Handle
    <3>2. PICK mid \in EditorStates(e) : /\ SameBut(r, mid, {"version", "inFlight", "metrics"})
                                         /\ mid.version = Greater(r.version, m.version)
                                         /\ mid.inFlight = r.inFlight \/ mid.inFlight = <<>>
                                         /\ HandleAck(r, m) = SendNext(mid)
      BY <1>1, <3>1, HandleAckFields
    <3> HIDE DEF h
    <3>3. /\ h \in EditorStates(e)
          /\ SameBut(mid, h, {"queue", "inFlight", "upstream", "metrics"})
          /\ \/ h = mid
             \/ /\ mid.socket = "open" /\ mid.inFlight = <<>> /\ mid.queue # <<>>
                /\ h.queue = Tail(mid.queue)
                /\ h.inFlight = <<Head(mid.queue)>>
                /\ h.upstream = Append(mid.upstream, OpMsg(Head(mid.queue), mid.version))
      BY <3>1, <3>2, SendNextFields
    <3>4. SameBut(r, h, H)
      BY <3>2, <3>3 DEF SameBut, Fields
    <3>5. mid.queue = r.queue /\ mid.upstream = r.upstream /\ mid.version = h.version
          /\ mid.socket = h.socket /\ h.slot = r.slot /\ h.fresh = r.fresh /\ h.latest = r.latest
      BY <3>2, <3>3 DEF SameBut, Fields
    <3>6. Sends(r.queue, mid.inFlight, r.upstream, h)
      BY <3>3, <3>5 DEF Sends
    <3> QED BY <2>2, <3>2, <3>3, <3>4, <3>5, <3>6
  <2>3. CASE m.kind = "broadcast_op"
    <3>1. h = HandleRemoteOperation(r, m) /\ m \in Broadcasts
      BY <1>3, <2>3, AnswerKinds DEF Handle
    <3> HIDE DEF h
    <3>2. /\ h \in EditorStates(e)
          /\ SameBut(r, h, {"version", "queue", "inFlight", "slot", "metrics"})
          /\ h.version = Greater(r.version, m.version)
          /\ Len(h.queue) = Len(r.queue) /\ Len(h.inFlight) = Len(r.inFlight)
          /\ \A j \in DOMAIN r.queue : h.queue[j].id = r.queue[j].id
          /\ h.slot = r.slot \/ Len(h.slot) = 1
      BY <1>1, <3>1, HandleRemoteFields
    <3>3. SameBut(r, h, H) /\ h.upstream = r.upstream /\ h.fresh = r.fresh /\ h.latest = r.latest
      BY <3>2 DEF SameBut, Fields
    <3> QED BY <2>3, <3>2, <3>3
  <2>4. CASE m.kind = "error"
    <3>1. h = HandleError(r)
      BY <2>4 DEF Handle
    <3> HIDE DEF h
    <3>2. h \in EditorStates(e) /\ SameBut(r, h, {"status"})
      BY <1>1, <3>1, HandleErrorFields
    <3>3. SameBut(r, h, H) /\ h.fresh = r.fresh /\ h.latest = r.latest
      BY <3>2 DEF SameBut, Fields
    <3> QED BY <2>4, <3>2, <3>3
  <2> QED BY <1>3, <2>1, <2>2, <2>3, <2>4, AnswerKinds
<1>5. DOMAIN h = Fields /\ h.inbox = r.inbox /\ h.mishaps = r.mishaps
  <2> HIDE DEF h
  <2> QED BY <1>4 DEF SameBut, Fields
<1>6. editor' = [editor EXCEPT ![e] = s]
  <2>1. s = [h EXCEPT !.inbox = Tail(@), !.mishaps = @ \cup Mishaps(e, m)]
    <3> HIDE DEF h
    <3> QED BY <1>5 DEF Fields
  <2> QED BY <2>1 DEF Deliver
<1> HIDE DEF h, i
<1>7. b \in SUBSET MishapNames
  BY <1>4, MishapsFacts DEF EditorStates
<1> HIDE DEF b
<1>8. s \in EditorStates(e) /\ SameBut(h, s, {"inbox", "mishaps"}) /\ s.inbox = i /\ s.mishaps = b
  BY <1>3, <1>4, <1>5, <1>7 DEF EditorStates, SameBut, Fields
<1> HIDE DEF s
<1>9. SameBut(r, s, Fields \ {"socket", "metadata"})
  BY <1>4, <1>8 DEF SameBut, Fields
<1>10. Becomes(e, Fields \ {"socket", "metadata"}) /\ editor'[e] = s
  BY <1>1, <1>6, <1>8, <1>9, Replaced
<1>11. /\ s.socket = h.socket /\ s.version = h.version /\ s.queue = h.queue
       /\ s.inFlight = h.inFlight /\ s.fresh = h.fresh /\ s.latest = h.latest
       /\ s.upstream = h.upstream /\ s.slot = h.slot
  BY <1>8 DEF SameBut, Fields
<1>12. m.kind = "error" => SameBut(r, s, {"status", "inbox", "mishaps"})
  BY <1>4, <1>8 DEF SameBut, Fields
<1>13. \A f : Sends(r.queue, f, r.upstream, h) => Sends(r.queue, f, r.upstream, s)
  BY <1>11 DEF Sends
<1> QED BY <1>2, <1>3, <1>4, <1>5, <1>8, <1>10, <1>11, <1>12, <1>13 DEF i, b

\* The server's text replaces the editor's.
LEMMA ResyncEffect ==
  ASSUME Typed, NEW e \in Editors, Resync(e)
  PROVE  \E s \in Served :
           /\ resync[e] = <<"asked", s>>
           /\ Becomes(e, Fields \ {"socket", "status", "metadata", "upstream", "inbox"})
           /\ editor[e].socket # "gone"
           /\ editor'[e].version = s.version /\ editor'[e].queue = <<>>
           /\ editor'[e].inFlight = <<>> /\ editor'[e].fresh /\ editor'[e].slot = <<>>
           /\ editor[e].mishaps \subseteq editor'[e].mishaps
           /\ Pending(editor[e]) # <<>> => "discarded" \in editor'[e].mishaps
           /\ s.version < editor[e].version => "rewound" \in editor'[e].mishaps
<1>1. DOMAIN editor = Editors /\ editor[e] \in EditorStates(e)
  BY DEF Typed, EditorTyped
<1>2. PICK s \in Served : resync[e] = <<"asked", s>>
  <2>1. Len(resync[e]) = 2 /\ ResyncTyped(e)
    BY DEF Typed, Resync
  <2> QED BY <2>1 DEF ResyncTyped
<1>3. resync[e][2] = s /\ s.version \in Nat /\ s.text \in Texts /\ s.canWrite \in BOOLEAN
  BY <1>2 DEF Served
<1> DEFINE r == editor[e]
           h == HandleResyncSnapshot(r, s)
           b == h.mishaps \cup ResyncMishaps(r, s)
           t == [h EXCEPT !.mishaps = b]
<1>4. editor' = [editor EXCEPT ![e] = t]
  <2>1. t = [HandleResyncSnapshot(r, s) EXCEPT !.mishaps = @ \cup ResyncMishaps(r, s)]
    <3>1. DOMAIN HandleResyncSnapshot(r, s) = Fields
      BY <1>1, <1>3, HandleResyncFields DEF SameBut
    <3> QED BY <3>1 DEF Fields
  <2>2. editor' = [editor EXCEPT ![e] =
                     [HandleResyncSnapshot(editor[e], resync[e][2])
                        EXCEPT !.mishaps = @ \cup ResyncMishaps(editor[e], resync[e][2])]]
    BY <1>1 DEF Resync
  <2> HIDE DEF h, b, t
  <2>3. t = [HandleResyncSnapshot(editor[e], resync[e][2])
               EXCEPT !.mishaps = @ \cup ResyncMishaps(editor[e], resync[e][2])]
    BY <1>3, <2>1
  <2> QED BY <2>2, <2>3
<1> HIDE DEF h
<1>5. /\ h \in EditorStates(e)
      /\ SameBut(r, h, {"version", "queue", "inFlight", "canWrite", "content", "latest", "fresh",
                        "slot", "metrics"})
      /\ h.version = s.version /\ h.queue = <<>> /\ h.inFlight = <<>> /\ h.fresh /\ h.slot = <<>>
  BY <1>1, <1>3, HandleResyncFields DEF h
<1>6. DOMAIN h = Fields /\ h.mishaps = r.mishaps /\ h.mishaps \subseteq MishapNames
  BY <1>5 DEF SameBut, Fields, EditorStates
<1>7. /\ b \in SUBSET MishapNames /\ r.mishaps \subseteq b
      /\ Pending(r) # <<>> => "discarded" \in b
      /\ s.version < r.version => "rewound" \in b
  BY <1>6 DEF ResyncMishaps, MishapNames
<1> HIDE DEF b
<1>8. t \in EditorStates(e) /\ SameBut(h, t, {"mishaps"}) /\ t.mishaps = b
  BY <1>5, <1>6, <1>7 DEF EditorStates, SameBut, Fields
<1> HIDE DEF t
<1>9. SameBut(r, t, Fields \ {"socket", "status", "metadata", "upstream", "inbox"})
  BY <1>5, <1>8 DEF SameBut, Fields
<1>10. /\ t.version = h.version /\ t.queue = h.queue /\ t.inFlight = h.inFlight
       /\ t.fresh = h.fresh /\ t.slot = h.slot
  BY <1>8 DEF SameBut, Fields
<1>11. /\ Becomes(e, Fields \ {"socket", "status", "metadata", "upstream", "inbox"})
       /\ editor'[e] = t
  BY <1>1, <1>4, <1>8, <1>9, Replaced
<1> QED BY <1>2, <1>5, <1>7, <1>8, <1>10, <1>11 DEF Resync

\* The server takes the first message of a socket.
LEMMA ReceivedEffect ==
  ASSUME Typed, NEW e \in Editors, editor[e].upstream # <<>>, editor' = Received(editor, e)
  PROVE  /\ Becomes(e, {"upstream"})
         /\ editor'[e].upstream = Tail(editor[e].upstream)
<1>1. DOMAIN editor = Editors /\ editor[e] \in EditorStates(e)
  BY DEF Typed, EditorTyped
<1>2. DOMAIN editor[e] = Fields
  BY <1>1 DEF EditorStates, Fields
<1> DEFINE u == Tail(editor[e].upstream)
           s == [editor[e] EXCEPT !.upstream = u]
<1>3. editor' = [editor EXCEPT ![e] = s]
  BY <1>1, <1>2 DEF Received, Fields
<1>4. u \in Seq({JoinMsg} \cup OpMsgs(e))
  BY <1>1 DEF EditorStates
<1> HIDE DEF u
<1>5. s \in EditorStates(e) /\ SameBut(editor[e], s, {"upstream"}) /\ s.upstream = u
  BY <1>1, <1>2, <1>4 DEF EditorStates, SameBut, Fields
<1> HIDE DEF s
<1> QED BY <1>1, <1>3, <1>5, Replaced DEF u

\* The server sends a message.
LEMMA SendEffect ==
  ASSUME Typed, NEW e \in Editors, NEW m \in Answers, editor' = Send(editor, e, m)
  PROVE  /\ Becomes(e, {"inbox"})
         /\ editor'[e].inbox = Append(editor[e].inbox, m)
<1>1. DOMAIN editor = Editors /\ editor[e] \in EditorStates(e)
  BY DEF Typed, EditorTyped
<1>2. DOMAIN editor[e] = Fields
  BY <1>1 DEF EditorStates, Fields
<1> DEFINE i == Append(editor[e].inbox, m)
           s == [editor[e] EXCEPT !.inbox = i]
<1>3. editor' = [editor EXCEPT ![e] = s]
  BY <1>1, <1>2 DEF Send, Fields
<1>4. i \in Seq(Answers)
  BY <1>1 DEF EditorStates
<1> HIDE DEF i
<1>5. s \in EditorStates(e) /\ SameBut(editor[e], s, {"inbox"}) /\ s.inbox = i
  BY <1>1, <1>2, <1>4 DEF EditorStates, SameBut, Fields
<1> HIDE DEF s
<1> QED BY <1>1, <1>3, <1>5, Replaced DEF i

\* The server takes a message and answers it.
LEMMA AnswerEffect ==
  ASSUME Typed, NEW e \in Editors, editor[e].upstream # <<>>, NEW m \in Answers,
         editor' = Send(Received(editor, e), e, m)
  PROVE  /\ Becomes(e, {"upstream", "inbox"})
         /\ editor'[e].upstream = Tail(editor[e].upstream)
         /\ editor'[e].inbox = Append(editor[e].inbox, m)
<1>1. DOMAIN editor = Editors /\ editor[e] \in EditorStates(e)
  BY DEF Typed, EditorTyped
<1>2. DOMAIN editor[e] = Fields
  BY <1>1 DEF EditorStates, Fields
<1> DEFINE u == Tail(editor[e].upstream)
           i == Append(editor[e].inbox, m)
           s == [editor[e] EXCEPT !.upstream = u, !.inbox = i]
<1>3. editor' = [editor EXCEPT ![e] = s]
  BY <1>1, <1>2 DEF Send, Received, Fields
<1>4. i \in Seq(Answers) /\ u \in Seq({JoinMsg} \cup OpMsgs(e))
  BY <1>1 DEF EditorStates
<1> HIDE DEF u, i
<1>5. /\ s \in EditorStates(e) /\ SameBut(editor[e], s, {"upstream", "inbox"})
      /\ s.upstream = u /\ s.inbox = i
  BY <1>1, <1>2, <1>4 DEF EditorStates, SameBut, Fields
<1> HIDE DEF s
<1> QED BY <1>1, <1>3, <1>5, Replaced DEF u, i

\* A straggler changes nothing of its editor but the mishaps.
LEMMA UntoldEffect ==
  ASSUME Typed, NEW e \in Editors, AcceptStraggler(e)
  PROVE  /\ Becomes(e, {"mishaps"})
         /\ editor'[e].mishaps = IF e \in joined THEN editor[e].mishaps \cup {"untold"}
                                 ELSE editor[e].mishaps
<1>1. DOMAIN editor = Editors /\ editor[e] \in EditorStates(e)
  BY DEF Typed, EditorTyped
<1>2. DOMAIN editor[e] = Fields /\ editor[e].mishaps \subseteq MishapNames
  BY <1>1 DEF EditorStates, Fields
<1> DEFINE b == IF e \in joined THEN editor[e].mishaps \cup {"untold"} ELSE editor[e].mishaps
           s == [editor[e] EXCEPT !.mishaps = b]
<1>3. editor' = [editor EXCEPT ![e] = s]
  BY <1>1, <1>2 DEF AcceptStraggler, Fields
<1>4. b \in SUBSET MishapNames
  BY <1>2 DEF MishapNames
<1> HIDE DEF b
<1>5. s \in EditorStates(e) /\ SameBut(editor[e], s, {"mishaps"}) /\ s.mishaps = b
  BY <1>1, <1>2, <1>4 DEF EditorStates, SameBut, Fields
<1> HIDE DEF s
<1> QED BY <1>1, <1>3, <1>5, Replaced DEF b

-----------------------------------------------------------------------------
(* Every step keeps the types.                                             *)

\* The request for the server's text fails.
LoseResync(e) ==
  /\ resync[e] = <<"asked">>
  /\ resync' = [resync EXCEPT ![e] = <<"done">>]
  /\ UNCHANGED <<clientVars, serverVars, typed, closes>>

EditorStep(e) == \/ Render(e) \/ Browser(e) \/ Server(e) \/ User(e) \/ World(e) \/ LoseResync(e)

\* The steps of the editors and their server, in whatever order.
SessionNext ==
  /\ \/ UNCHANGED vars
     \/ Announce
     \/ \E e \in Editors : EditorStep(e)
  /\ UNCHANGED scenario

\* What the types say about one editor.
LEMMA EditorFacts ==
  ASSUME Typed, NEW e \in Editors
  PROVE  /\ DOMAIN editor = Editors /\ editor[e] \in EditorStates(e) /\ DOMAIN editor[e] = Fields
         /\ editor[e].version \in Nat
         /\ editor[e].queue \in Seq(Queued(e)) /\ editor[e].inFlight \in Seq(Queued(e))
         /\ editor[e].upstream \in Seq({JoinMsg} \cup OpMsgs(e)) /\ JoinFirst(editor[e].upstream)
         /\ editor[e].inbox \in Seq(Answers) /\ editor[e].slot \in Seq(Events)
         /\ Len(editor[e].inFlight) <= 1 /\ Len(editor[e].slot) <= 1
         /\ Version \in Nat
<1>1. editor[e] \in EditorStates(e) /\ EditorTyped(e) /\ DOMAIN editor = Editors /\ log \in Seq(Entries)
  BY DEF Typed, EditorTyped
<1>2. DOMAIN editor[e] = Fields
  BY <1>1 DEF EditorStates, Fields
<1>3. /\ editor[e].version \in Nat
      /\ editor[e].queue \in Seq(Queued(e)) /\ editor[e].inFlight \in Seq(Queued(e))
      /\ editor[e].upstream \in Seq({JoinMsg} \cup OpMsgs(e))
      /\ editor[e].inbox \in Seq(Answers) /\ editor[e].slot \in Seq(Events)
  BY <1>1 DEF EditorStates
<1> QED BY <1>1, <1>2, <1>3 DEF EditorTyped, Version

\* One editor is replaced by one of its type.
LEMMA BecomesTyped ==
  ASSUME Typed, NEW e \in Editors, NEW F, Becomes(e, F),
         Len(editor'[e].inFlight) <= 1, Len(editor'[e].slot) <= 1,
         JoinFirst(editor'[e].upstream)
  PROVE  DOMAIN editor' = Editors /\ \A x \in Editors : EditorTyped(x)'
<1>1. \A x \in Editors : EditorTyped(x)
  BY DEF Typed
<1>2. SUFFICES ASSUME NEW x \in Editors PROVE EditorTyped(x)'
  BY DEF Becomes
<1>3. CASE x = e
  BY <1>3 DEF Becomes, EditorTyped
<1>4. CASE x # e
  BY <1>1, <1>4 DEF Becomes, EditorTyped
<1> QED BY <1>3, <1>4

\* A join stays the first message of a socket.
LEMMA JoinFirstKept ==
  ASSUME NEW S, NEW up \in Seq(S), JoinFirst(up)
  PROVE  /\ \A m : m.kind = "op" => JoinFirst(Append(up, m))
         /\ up # <<>> => JoinFirst(Tail(up))
<1>1. ASSUME NEW m, m.kind = "op" PROVE JoinFirst(Append(up, m))
  <2>1. \A i \in DOMAIN Append(up, m) : Append(up, m)[i] = IF i = Len(up) + 1 THEN m ELSE up[i]
    OBVIOUS
  <2>2. \A i \in DOMAIN Append(up, m) : i = Len(up) + 1 \/ i \in DOMAIN up
    OBVIOUS
  <2> QED BY <1>1, <2>1, <2>2 DEF JoinFirst
<1>2. ASSUME up # <<>> PROVE JoinFirst(Tail(up))
  <2>1. \A i \in DOMAIN Tail(up) : Tail(up)[i] = up[i + 1] /\ i + 1 \in DOMAIN up /\ i + 1 # 1
    BY <1>2
  <2> QED BY <2>1 DEF JoinFirst
<1> QED BY <1>1, <1>2

\* Sending keeps the join first, and one operation in flight.
LEMMA SendsKept ==
  ASSUME NEW e, NEW q, NEW f, NEW u \in Seq({JoinMsg} \cup OpMsgs(e)), JoinFirst(u),
         Len(f) <= 1, NEW s, Sends(q, f, u, s)
  PROVE  JoinFirst(s.upstream) /\ Len(s.inFlight) <= 1
<1>1. CASE s.queue = q /\ s.inFlight = f /\ s.upstream = u
  BY <1>1
<1>2. CASE /\ s.inFlight = <<Head(q)>>
           /\ s.upstream = Append(u, OpMsg(Head(q), s.version))
  <2>1. OpMsg(Head(q), s.version).kind = "op"
    BY DEF OpMsg
  <2>2. JoinFirst(s.upstream)
    BY <1>2, <2>1, JoinFirstKept
  <2>3. Len(s.inFlight) = 1
    BY <1>2
  <2> QED BY <2>2, <2>3
<1> QED BY <1>1, <1>2 DEF Sends

\* What the server sends is of the right kind.
LEMMA HeadIsOperation ==
  ASSUME Typed, NEW e \in Editors, Receive(e, "op")
  PROVE  Head(editor[e].upstream) \in OpMsgs(e) /\ editor[e].upstream # <<>>
<1>1. editor[e].upstream \in Seq({JoinMsg} \cup OpMsgs(e)) /\ editor[e].upstream # <<>>
  BY EditorFacts DEF Receive
<1>2. Head(editor[e].upstream) \in {JoinMsg} \cup OpMsgs(e)
  BY <1>1
<1> QED BY <1>1, <1>2 DEF Receive, JoinMsg

\* What the server says has the types of messages.
LEMMA ServerMessages ==
  ASSUME Typed, Bounded, NEW e \in Editors
  PROVE  /\ SnapshotMsg(Version, Text, role[e]) \in Snapshots
         /\ ReadOnlyMsg \in Answers
         /\ Receive(e, "op") => AckMsg(Head(editor[e].upstream).id, Version) \in Acks
         /\ announcing[e] # NoAnnouncement =>
              /\ announcing[e].version \in 1..Version
              /\ AckMsg(log[announcing[e].version].id, announcing[e].version) \in Acks
              /\ BroadcastMsg(log[announcing[e].version].id, announcing[e].version,
                              log[announcing[e].version].op) \in Broadcasts
<1>1. Version \in Nat /\ Text \in Texts /\ role[e] \in BOOLEAN
  BY DEF Typed, Version, Text
<1>2. SnapshotMsg(Version, Text, role[e]) \in Snapshots
  BY <1>1 DEF Snapshots, SnapshotMsg
<1>3. ReadOnlyMsg \in Answers
  BY DEF Answers
<1>4. Receive(e, "op") => AckMsg(Head(editor[e].upstream).id, Version) \in Acks
  <2>1. Receive(e, "op") => Head(editor[e].upstream).id \in Names
    BY HeadIsOperation DEF OpMsgs, Names
  <2> QED BY <1>1, <2>1 DEF Acks, AckMsg
<1>5. ASSUME announcing[e] # NoAnnouncement
      PROVE  /\ announcing[e].version \in 1..Version
             /\ AckMsg(log[announcing[e].version].id, announcing[e].version) \in Acks
             /\ BroadcastMsg(log[announcing[e].version].id, announcing[e].version,
                             log[announcing[e].version].op) \in Broadcasts
  <2> DEFINE v == announcing[e].version
  <2>1. v \in 1..Version
    BY <1>1, <1>5 DEF Typed, Bounded
  <2>2. log[v] \in Entries
    BY <2>1 DEF Typed, Version
  <2>3. log[v].id \in Names /\ log[v].op \in Operations /\ v \in Nat
    BY <1>1, <2>1, <2>2 DEF Entries
  <2> HIDE DEF v
  <2>4. AckMsg(log[v].id, v) \in Acks /\ BroadcastMsg(log[v].id, v, log[v].op) \in Broadcasts
    BY <2>3 DEF AckMsg, BroadcastMsg, Acks, Broadcasts
  <2> QED BY <2>1, <2>4 DEF v
<1> QED BY <1>2, <1>3, <1>4, <1>5

\* What the server makes of an operation is one, or nothing.
LEMMA TransformedType ==
  ASSUME Typed, NEW e \in Editors, NEW m \in OpMsgs(e), m.base <= Version
  PROVE  Transformed(m) \in Operations \cup {NoOperation}
<1>1. Version \in Nat /\ m.base \in Nat /\ m.op \in Operations
  BY DEF Typed, Version, OpMsgs
<1>2. \A v \in DOMAIN log : log[v].op \in Operations
  <2>1. log \in Seq(Entries)
    BY DEF Typed
  <2>2. \A v \in DOMAIN log : log[v] \in Entries
    BY <2>1
  <2> QED BY <2>2 DEF Entries
<1> QED BY <1>1, <1>2, HistoryType DEF Transformed

\* Every step leaves the editors their types.
LEMMA EditorsStayTyped ==
  ASSUME Typed, Bounded, SessionNext
  PROVE  DOMAIN editor' = Editors /\ \A x \in Editors : EditorTyped(x)'
<1>1. CASE UNCHANGED editor
  BY <1>1 DEF Typed, EditorTyped
<1>2. ASSUME NEW a \in Editors, NEW e \in Editors, Tell(a, e)
      PROVE  DOMAIN editor' = Editors /\ \A x \in Editors : EditorTyped(x)'
  <2> DEFINE n == announcing[a].version
             m == IF e = a THEN AckMsg(log[n].id, n) ELSE BroadcastMsg(log[n].id, n, log[n].op)
  <2>1. m \in Answers /\ editor' = Send(editor, e, m)
    BY <1>2, ServerMessages DEF Tell, Answers
  <2> HIDE DEF m
  <2>2. Becomes(e, {"inbox"})
    BY <2>1, SendEffect
  <2> QED BY <2>2, EditorFacts, BecomesTyped DEF Becomes, SameBut, Fields
<1>3. ASSUME NEW e \in Editors, EditorStep(e), ~UNCHANGED editor
      PROVE  DOMAIN editor' = Editors /\ \A x \in Editors : EditorTyped(x)'
  <2>1. CASE Mount(e) \/ LoadMetadata(e) \/ Connect(e)
    BY <2>1, MountEffect, EditorFacts, BecomesTyped, ZenonT(30) DEF Becomes, SameBut, Fields
  <2>2. CASE Opened(e)
    <3>1. JoinFirst(editor'[e].upstream)
      BY <2>2, OpenedEffect DEF JoinFirst
    <3> QED BY <2>2, <3>1, OpenedEffect, EditorFacts, BecomesTyped, ZenonT(30)
       DEF Becomes, SameBut, Fields
  <2>3. CASE Deliver(e)
    <3> DEFINE m == Head(editor[e].inbox)
    <3>1. /\ Becomes(e, Fields \ {"socket", "metadata"}) /\ m \in Answers
          /\ m.kind = "snapshot" =>
               /\ editor'[e].inFlight = <<>>
               /\ editor'[e].upstream = editor[e].upstream /\ editor'[e].slot = editor[e].slot
          /\ m.kind = "ack" =>
               /\ editor'[e].slot = editor[e].slot
               /\ \E f \in {editor[e].inFlight, <<>>} :
                    Sends(editor[e].queue, f, editor[e].upstream, editor'[e])
          /\ m.kind = "broadcast_op" =>
               /\ Len(editor'[e].inFlight) = Len(editor[e].inFlight)
               /\ editor'[e].upstream = editor[e].upstream
               /\ editor'[e].slot = editor[e].slot \/ Len(editor'[e].slot) = 1
          /\ m.kind = "error" => SameBut(editor[e], editor'[e], {"status", "inbox", "mishaps"})
      BY <2>3, DeliverEffect
    <3> HIDE DEF m
    <3>2. CASE m.kind = "snapshot"
      <4>1. Len(editor'[e].inFlight) = 0
        BY <3>1, <3>2
      <4>2. Len(editor'[e].slot) <= 1 /\ JoinFirst(editor'[e].upstream)
        BY <3>1, <3>2, EditorFacts
      <4> QED BY <3>1, <4>1, <4>2, BecomesTyped
    <3>3. CASE m.kind = "ack"
      <4>1. PICK f \in {editor[e].inFlight, <<>>} :
              Sends(editor[e].queue, f, editor[e].upstream, editor'[e])
        BY <3>1, <3>3
      <4>2. Len(<<>>) = 0
        OBVIOUS
      <4>3. Len(f) <= 1
        <5>1. CASE f = <<>>
          BY <4>2, <5>1
        <5>2. CASE f = editor[e].inFlight
          BY <5>2, EditorFacts
        <5> QED BY <5>1, <5>2
      <4>4. JoinFirst(editor'[e].upstream) /\ Len(editor'[e].inFlight) <= 1
        BY <4>1, <4>3, EditorFacts, SendsKept
      <4> QED BY <3>1, <3>3, <4>4, EditorFacts, BecomesTyped
    <3>4. CASE m.kind = "broadcast_op"
      <4>1. Len(editor'[e].inFlight) <= 1 /\ JoinFirst(editor'[e].upstream)
        BY <3>1, <3>4, EditorFacts
      <4>2. Len(editor'[e].slot) <= 1
        <5>1. CASE editor'[e].slot = editor[e].slot
          BY <5>1, EditorFacts
        <5>2. CASE Len(editor'[e].slot) = 1
          BY <5>2
        <5> QED BY <3>1, <3>4, <5>1, <5>2
      <4> QED BY <3>1, <4>1, <4>2, BecomesTyped
    <3>5. CASE m.kind = "error"
      BY <3>1, <3>5, EditorFacts, BecomesTyped DEF SameBut, Fields
    <3> QED BY <3>1, <3>2, <3>3, <3>4, <3>5, AnswerKinds
  <2>4. CASE Resync(e)
    <3>1. /\ Becomes(e, Fields \ {"socket", "status", "metadata", "upstream", "inbox"})
          /\ editor'[e].inFlight = <<>> /\ editor'[e].slot = <<>>
      BY <2>4, ResyncEffect
    <3>2. Len(editor'[e].inFlight) = 0 /\ Len(editor'[e].slot) = 0
      BY <3>1
    <3>3. JoinFirst(editor'[e].upstream)
      BY <3>1, EditorFacts DEF Becomes, SameBut, Fields
    <3> QED BY <3>1, <3>2, <3>3, BecomesTyped
  <2>5. CASE Type(e)
    <3>1. JoinFirst(editor'[e].upstream) /\ Len(editor'[e].inFlight) <= 1
      BY <2>5, TypeEffect, EditorFacts, SendsKept
    <3>2. Becomes(e, {"queue", "inFlight", "upstream", "metrics", "latest", "mishaps"})
      BY <2>5, TypeEffect
    <3>3. Len(editor'[e].slot) <= 1
      BY <3>2, EditorFacts DEF Becomes, SameBut, Fields
    <3> QED BY <3>1, <3>2, <3>3, BecomesTyped
  <2>6. CASE Closed(e)
    <3>1. JoinFirst(editor'[e].upstream)
      BY <2>6, ClosedEffect DEF JoinFirst
    <3> QED BY <2>6, <3>1, ClosedEffect, EditorFacts, BecomesTyped DEF Becomes, SameBut, Fields
  <2>7. CASE Leave(e)
    <3>1. JoinFirst(editor'[e].upstream) /\ Len(editor'[e].inFlight) <= 1
          /\ Len(editor'[e].slot) <= 1
      BY <2>7, LeaveEffect DEF JoinFirst
    <3> QED BY <2>7, <3>1, LeaveEffect, BecomesTyped
  <2>8. CASE Render(e)
    <3>1. /\ Becomes(e, {"fresh", "slot", "latest"})
          /\ editor'[e].slot = editor[e].slot \/ editor'[e].slot = <<>>
      BY <2>8, RenderEffect
    <3>2. Len(<<>>) = 0
      OBVIOUS
    <3>3. Len(editor'[e].slot) <= 1
      <4>1. CASE editor'[e].slot = editor[e].slot
        BY <4>1, EditorFacts
      <4>2. CASE editor'[e].slot = <<>>
        BY <3>2, <4>2
      <4> QED BY <3>1, <4>1, <4>2
    <3>4. Len(editor'[e].inFlight) <= 1 /\ JoinFirst(editor'[e].upstream)
      BY <3>1, EditorFacts DEF Becomes, SameBut, Fields
    <3> QED BY <3>1, <3>3, <3>4, BecomesTyped
  <2>9. CASE ServeJoin(e) \/ Refuse(e) \/ AcknowledgeNoOp(e)
    <3>1. \E m \in Answers : editor' = Send(Received(editor, e), e, m)
      BY <2>9, ServerMessages DEF Answers, ServeJoin, Refuse, AcknowledgeNoOp
    <3>2. editor[e].upstream # <<>>
      BY <2>9 DEF ServeJoin, Refuse, AcknowledgeNoOp, Receive
    <3>3. Becomes(e, {"upstream", "inbox"}) /\ editor'[e].upstream = Tail(editor[e].upstream)
      BY <3>1, <3>2, AnswerEffect
    <3>4. JoinFirst(editor'[e].upstream)
      BY <3>2, <3>3, EditorFacts, JoinFirstKept
    <3> QED BY <3>3, <3>4, EditorFacts, BecomesTyped DEF Becomes, SameBut, Fields
  <2>10. CASE Accept(e)
    <3>1. Becomes(e, {"upstream"}) /\ editor'[e].upstream = Tail(editor[e].upstream)
          /\ editor[e].upstream # <<>>
      BY <2>10, ReceivedEffect DEF Accept, Receive
    <3>2. JoinFirst(editor'[e].upstream)
      BY <3>1, EditorFacts, JoinFirstKept
    <3> QED BY <3>1, <3>2, EditorFacts, BecomesTyped DEF Becomes, SameBut, Fields
  <2>11. CASE AcceptStraggler(e)
    BY <2>11, UntoldEffect, EditorFacts, BecomesTyped, ZenonT(30) DEF Becomes, SameBut, Fields
  <2>12. CASE AskResync(e) \/ AnswerResync(e) \/ Grant(e) \/ LoseResync(e)
    BY <1>3, <2>12 DEF AskResync, AnswerResync, Grant, LoseResync, clientVars
  <2> QED BY <1>3, <2>1, <2>2, <2>3, <2>4, <2>5, <2>6, <2>7, <2>8, <2>9, <2>10, <2>11, <2>12
          DEF EditorStep, Browser, Server, User, World
<1>4. ASSUME NEW a \in Editors, EndAnnouncement(a) PROVE UNCHANGED editor
  BY <1>4 DEF EndAnnouncement, clientVars
<1>5. UNCHANGED vars => UNCHANGED editor
  BY DEF vars, clientVars
<1> QED BY <1>1, <1>2, <1>3, <1>4, <1>5 DEF SessionNext, Announce

\* What the types say about the server.
LEMMA LogFacts ==
  ASSUME Typed
  PROVE  /\ Version \in Nat /\ Len(texts) = Version + 1 /\ Text \in Texts
         /\ log \in Seq(Entries) /\ texts \in Seq(Texts)
         /\ \A v \in 1..Version : log[v].id \in Names /\ log[v].op \in Operations
         /\ \A v \in 0..Version : texts[v + 1] \in Texts
         /\ announcing \in [Editors -> [version : Nat, told : SUBSET Editors]]
         /\ joined \subseteq Editors
<1>1. log \in Seq(Entries) /\ texts \in Seq(Texts) /\ Len(texts) = Version + 1 /\ Version \in Nat
  BY DEF Typed, Version
<1>2. \A v \in 1..Version : log[v] \in Entries
  BY <1>1 DEF Version
<1>3. \A v \in 0..Version : texts[v + 1] \in Texts
  BY <1>1
<1>4. Text \in Texts
  BY <1>1, <1>3 DEF Text
<1> QED BY <1>1, <1>2, <1>3, <1>4 DEF Typed, Entries

\* An operation and its text are appended.
LEMMA AppendEffect ==
  ASSUME Typed, NEW e \in Editors, NEW m \in OpMsgs(e), m.base <= Version,
         NEW told \in SUBSET Editors, Append2Log(e, m, told)
  PROVE  /\ log' \in Seq(Entries) /\ Len(log') = Version + 1
         /\ log'[Version + 1].id = m.id
         /\ \A v \in 1..Version : log'[v] = log[v]
         /\ texts' \in Seq(Texts) /\ Len(texts') = Version + 2
         /\ \A v \in 0..Version : texts'[v + 1] = texts[v + 1]
         /\ announcing' \in [Editors -> [version : Nat, told : SUBSET Editors]]
         /\ \A x \in Editors \ {e} : announcing'[x] = announcing[x]
         /\ announcing'[e] = [version |-> Version + 1, told |-> told]
<1> DEFINE op == Transformed(m)
           t == ApplyOperation(Text, op)
           entry == [id |-> m.id, op |-> op]
<1>1. op # NoOperation /\ log' = Append(log, entry) /\ texts' = Append(texts, t)
      /\ announcing' = [announcing EXCEPT ![e] = [version |-> Version + 1, told |-> told]]
  BY DEF Append2Log
<1>2. op \in Operations
  BY <1>1, TransformedType
<1> HIDE DEF op
<1>3. t \in Texts
  BY <1>2, LogFacts, ApplyType
<1> HIDE DEF t
<1>4. entry \in Entries /\ entry.id = m.id
  BY <1>2 DEF Entries, OpMsgs, Names
<1> HIDE DEF entry
<1>5. /\ log' \in Seq(Entries) /\ Len(log') = Version + 1 /\ log'[Version + 1] = entry
      /\ \A v \in 1..Version : log'[v] = log[v]
  BY <1>1, <1>4, LogFacts DEF Version
<1>6. /\ texts' \in Seq(Texts) /\ Len(texts') = Version + 2
      /\ \A v \in 0..Version : texts'[v + 1] = texts[v + 1]
  BY <1>1, <1>3, LogFacts
<1>7. [version |-> Version + 1, told |-> told] \in [version : Nat, told : SUBSET Editors]
  BY LogFacts
<1>8. /\ announcing' \in [Editors -> [version : Nat, told : SUBSET Editors]]
      /\ \A x \in Editors \ {e} : announcing'[x] = announcing[x]
      /\ announcing'[e] = [version |-> Version + 1, told |-> told]
  BY <1>1, <1>7, LogFacts
<1> QED BY <1>4, <1>5, <1>6, <1>8

\* What is on its way to the server is what the socket holds.
LEMMA SentFacts ==
  ASSUME Typed, NEW e \in Editors
  PROVE  /\ SentOps(e) = Sent(editor[e].upstream)
         /\ SentOps(e) \in Seq(OpMsgs(e))
         /\ \A i \in DOMAIN SentOps(e) :
              \E j \in DOMAIN editor[e].upstream :
                editor[e].upstream[j] = SentOps(e)[i] /\ editor[e].upstream[j].kind = "op"
<1> DEFINE up == editor[e].upstream
<1>1. up \in Seq({JoinMsg} \cup OpMsgs(e)) /\ JoinFirst(up)
  BY EditorFacts
<1>2. SentOps(e) = Sent(up)
  BY DEF SentOps, Sent
<1> HIDE DEF up
<1>3. Sent(up) \in Seq(OpMsgs(e))
  BY <1>1, SentType
<1>4. \A i \in DOMAIN Sent(up) : Sent(up)[i] \in OpMsgs(e)
  BY <1>3
<1>5. \A i \in DOMAIN Sent(up) : Sent(up)[i].kind = "op"
  BY <1>4 DEF OpMsgs
<1>6. \A i \in DOMAIN Sent(up) : \E j \in DOMAIN up : up[j] = Sent(up)[i]
  <2>1. CASE Sent(up) = up
    BY <2>1
  <2>2. CASE up # <<>> /\ Sent(up) = Tail(up)
    <3>1. \A i \in DOMAIN Tail(up) : i + 1 \in DOMAIN up /\ up[i + 1] = Tail(up)[i]
      BY <1>1, <2>2
    <3> QED BY <2>2, <3>1
  <2> QED BY <2>1, <2>2 DEF Sent
<1>7. \A i \in DOMAIN Sent(up) : \E j \in DOMAIN up : up[j] = Sent(up)[i] /\ up[j].kind = "op"
  BY <1>5, <1>6
<1> QED BY <1>2, <1>3, <1>7 DEF up

\* A part of what was sent, from the first message on.
LEMMA PartFacts ==
  ASSUME NEW S, NEW s \in Seq(S), NEW n \in 0..Len(s)
  PROVE  /\ SubSeq(s, 1, n) \in Seq(S) /\ Len(SubSeq(s, 1, n)) = n
         /\ \A i \in DOMAIN SubSeq(s, 1, n) : i \in DOMAIN s /\ SubSeq(s, 1, n)[i] = s[i]
  OBVIOUS

\* A closed socket.
LEMMA AbandonEffect ==
  ASSUME Typed, NEW e \in Editors, Closed(e) \/ Leave(e)
  PROVE  /\ joined' = joined \ {e}
         /\ announcing' \in [Editors -> [version : Nat, told : SUBSET Editors]]
         /\ \A x \in Editors \ {e} : announcing'[x] = announcing[x]
         /\ announcing'[e] = announcing[e]
              \/ /\ announcing[e] # NoAnnouncement /\ announcing'[e].version = announcing[e].version
                 /\ announcing'[e] # NoAnnouncement
         /\ announcing'[e] = NoAnnouncement \/ e \in announcing'[e].told
         /\ announcing'[e].told \subseteq announcing[e].told \cup {e}
         /\ \E ops \in Seq(OpMsgs(e)) :
              /\ stragglers' = [stragglers EXCEPT ![e] = @ \o ops]
              /\ \A i \in DOMAIN ops : i \in DOMAIN SentOps(e) /\ ops[i] = SentOps(e)[i]
              /\ Leave(e) => ops = SentOps(e)
<1>1. PICK ops \in Seq(OpMsgs(e)) :
        /\ Abandon(e, ops)
        /\ \A i \in DOMAIN ops : i \in DOMAIN SentOps(e) /\ ops[i] = SentOps(e)[i]
        /\ Leave(e) => ops = SentOps(e)
  <2>1. CASE Leave(e)
    BY <2>1, SentFacts DEF Leave
  <2>2. CASE Closed(e)
    <3>1. ~Leave(e)
      <4>1. closes \in [Editors -> Nat]
        BY DEF Typed
      <4> QED BY <2>2, <4>1 DEF Closed, Leave, userVars
    <3>2. PICK n \in 0..Len(SentOps(e)) : Abandon(e, SubSeq(SentOps(e), 1, n))
      BY <2>2 DEF Closed
    <3> QED BY <3>1, <3>2, SentFacts, PartFacts
  <2> QED BY <2>1, <2>2
<1> DEFINE told == announcing[e].told \cup {e}
           a == [announcing[e] EXCEPT !.told = told]
<1>2. /\ announcing \in [Editors -> [version : Nat, told : SUBSET Editors]]
      /\ announcing[e] \in [version : Nat, told : SUBSET Editors]
  BY LogFacts
<1>3. /\ joined' = joined \ {e}
      /\ stragglers' = [stragglers EXCEPT ![e] = @ \o ops]
      /\ announcing' = IF announcing[e] = NoAnnouncement THEN announcing
                       ELSE [announcing EXCEPT ![e] = a]
  <2>1. CASE announcing[e] = NoAnnouncement
    <3>1. [announcing EXCEPT ![e].told = announcing[e].told] = announcing
      BY <1>2
    <3> QED BY <1>1, <2>1, <3>1 DEF Abandon
  <2>2. CASE announcing[e] # NoAnnouncement
    BY <1>1, <1>2, <2>2 DEF Abandon
  <2> QED BY <2>1, <2>2
<1>4. told \in SUBSET Editors /\ e \in told
  BY <1>2
<1>7. told \subseteq announcing[e].told \cup {e}
  OBVIOUS
<1> HIDE DEF told
<1>5. /\ a \in [version : Nat, told : SUBSET Editors] /\ a.version = announcing[e].version
      /\ a.told = told
  BY <1>2, <1>4
<1>6. a # NoAnnouncement
  BY <1>4, <1>5 DEF NoAnnouncement
<1> HIDE DEF a
<1> QED BY <1>1, <1>2, <1>3, <1>4, <1>5, <1>6, <1>7

\* The operation that is accepted is the first of its socket.
LEMMA AcceptEffect ==
  ASSUME Typed, Bounded, NEW e \in Editors, Accept(e)
  PROVE  /\ Head(editor[e].upstream) \in OpMsgs(e)
         /\ Head(editor[e].upstream).base <= Version
         /\ Append2Log(e, Head(editor[e].upstream), {})
<1>1. /\ Head(editor[e].upstream) \in OpMsgs(e) /\ editor[e].upstream # <<>>
  BY HeadIsOperation DEF Accept
<1>2. 1 \in DOMAIN editor[e].upstream /\ editor[e].upstream[1] = Head(editor[e].upstream)
  <2> DEFINE up == editor[e].upstream
  <2>1. up \in Seq({JoinMsg} \cup OpMsgs(e)) /\ up # <<>>
    BY <1>1, EditorFacts
  <2> HIDE DEF up
  <2>2. 1 \in DOMAIN up /\ up[1] = Head(up)
    BY <2>1
  <2> QED BY <2>2 DEF up
<1>3. Head(editor[e].upstream).kind = "op"
  BY DEF Accept, Receive
<1>4. Head(editor[e].upstream).base <= Version
  BY <1>2, <1>3 DEF Bounded, Known
<1> QED BY <1>1, <1>4 DEF Accept

\* A straggler is accepted, or nothing is left of it.
LEMMA StragglerEffect ==
  ASSUME Typed, Bounded, NEW e \in Editors, AcceptStraggler(e)
  PROVE  /\ stragglers[e] \in Seq(OpMsgs(e)) /\ stragglers[e] # <<>>
         /\ Head(stragglers[e]) \in OpMsgs(e)
         /\ Head(stragglers[e]).base <= Version
         /\ \/ Append2Log(e, Head(stragglers[e]), {e})
            \/ UNCHANGED <<log, texts, announcing>>
<1>1. stragglers[e] \in Seq(OpMsgs(e)) /\ stragglers[e] # <<>>
  BY DEF Typed, AcceptStraggler
<1>2. 1 \in DOMAIN stragglers[e] /\ stragglers[e][1] = Head(stragglers[e])
      /\ Head(stragglers[e]) \in OpMsgs(e)
  BY <1>1
<1>3. Head(stragglers[e]).base <= Version
  BY <1>2 DEF Bounded
<1> QED BY <1>1, <1>2, <1>3 DEF AcceptStraggler

\* The log only grows.
LEMMA LogGrows ==
  ASSUME Typed, Bounded, SessionNext
  PROVE  /\ log' \in Seq(Entries) /\ texts' \in Seq(Texts)
         /\ Len(log') \in Nat /\ Len(texts') = Len(log') + 1
         /\ Version <= Len(log') /\ Len(log') <= Version + 1
         /\ \A v \in 1..Version : log'[v] = log[v]
         /\ \A v \in 0..Version : texts'[v + 1] = texts[v + 1]
         /\ Len(log') = Version => log' = log /\ texts' = texts
<1>1. CASE UNCHANGED <<log, texts>>
  BY <1>1, LogFacts DEF Version
<1> DEFINE Longer == /\ Len(log') = Version + 1 /\ log' \in Seq(Entries) /\ texts' \in Seq(Texts)
                     /\ Len(texts') = Version + 2
                     /\ \A v \in 1..Version : log'[v] = log[v]
                     /\ \A v \in 0..Version : texts'[v + 1] = texts[v + 1]
<1>2. ASSUME NEW e \in Editors, Accept(e) PROVE Longer
  <2>1. {} \in SUBSET Editors
    OBVIOUS
  <2> QED BY <1>2, <2>1, AcceptEffect, AppendEffect
<1>3. ASSUME NEW e \in Editors, AcceptStraggler(e), ~UNCHANGED <<log, texts>> PROVE Longer
  <2>1. Append2Log(e, Head(stragglers[e]), {e}) /\ {e} \in SUBSET Editors
    BY <1>3, StragglerEffect
  <2> QED BY <1>3, <2>1, StragglerEffect, AppendEffect
<1>4. ASSUME NEW e \in Editors, EditorStep(e), ~Accept(e), ~AcceptStraggler(e)
      PROVE  UNCHANGED <<log, texts>>
  BY <1>4 DEF EditorStep, Browser, Server, User, World, Render, LoseResync, Mount, LoadMetadata,
     Connect, Opened, Deliver, Resync, ServeJoin, Refuse, AcknowledgeNoOp, AnswerResync, Type,
     AskResync, Closed, Leave, Grant, serverVars
<1>5. Announce => UNCHANGED <<log, texts>>
  BY DEF Announce, EndAnnouncement, Tell
<1>6. UNCHANGED vars => UNCHANGED <<log, texts>>
  BY DEF vars, serverVars
<1>7. UNCHANGED <<log, texts>> \/ Longer
  <2> HIDE DEF Longer
  <2> QED BY <1>2, <1>3, <1>4, <1>5, <1>6 DEF SessionNext
<1> QED BY <1>1, <1>7, LogFacts

\* Every step leaves the server its types.
LEMMA ServerStaysTyped ==
  ASSUME Typed, Bounded, SessionNext
  PROVE  /\ surface' \in [Editors -> Views]
         /\ joined' \subseteq Editors
         /\ access' \in [Editors -> BOOLEAN] /\ role' \in [Editors -> BOOLEAN]
         /\ announcing' \in [Editors -> [version : Nat, told : SUBSET Editors]]
         /\ DOMAIN stragglers' = Editors
         /\ \A x \in Editors : stragglers'[x] \in Seq(OpMsgs(x))
<1>1. /\ surface \in [Editors -> Views]
      /\ joined \subseteq Editors
      /\ access \in [Editors -> BOOLEAN] /\ role \in [Editors -> BOOLEAN]
      /\ announcing \in [Editors -> [version : Nat, told : SUBSET Editors]]
      /\ DOMAIN stragglers = Editors
      /\ \A x \in Editors : stragglers[x] \in Seq(OpMsgs(x))
  BY DEF Typed
<1>2. CASE UNCHANGED <<surface, joined, access, role, announcing, stragglers>>
  BY <1>1, <1>2
<1>3. ASSUME NEW e \in Editors, Render(e) \/ Type(e)
      PROVE  surface' \in [Editors -> Views] /\ UNCHANGED serverVars
  BY <1>3, RenderEffect, TypeEffect DEF Render, Type
<1>4. ASSUME NEW e \in Editors, Closed(e) \/ Leave(e)
      PROVE  /\ surface' \in [Editors -> Views]
             /\ joined' \subseteq Editors
             /\ announcing' \in [Editors -> [version : Nat, told : SUBSET Editors]]
             /\ DOMAIN stragglers' = Editors
             /\ \A x \in Editors : stragglers'[x] \in Seq(OpMsgs(x))
             /\ UNCHANGED <<access, role>>
  <2>1. PICK ops \in Seq(OpMsgs(e)) : stragglers' = [stragglers EXCEPT ![e] = @ \o ops]
    BY <1>4, AbandonEffect
  <2>2. stragglers[e] \o ops \in Seq(OpMsgs(e))
    BY <1>1, <2>1
  <2>3. DOMAIN stragglers' = Editors /\ \A x \in Editors : stragglers'[x] \in Seq(OpMsgs(x))
    BY <1>1, <2>1, <2>2
  <2>4. InitialSurface \in Views
    <3> DEFINE none == <<>>
    <3>1. none \in Texts /\ InitialSurface = [doc |-> none, editable |-> FALSE, applied |-> <<>>]
      BY DEF Texts, InitialSurface
    <3> HIDE DEF none
    <3> QED BY <3>1 DEF Views
  <2>5. surface' \in [Editors -> Views] /\ UNCHANGED <<access, role>>
    BY <1>1, <1>4, <2>4 DEF Closed, Leave
  <2> QED BY <1>1, <1>4, <2>3, <2>5, AbandonEffect
<1>5. ASSUME NEW e \in Editors, ServeJoin(e)
      PROVE  /\ joined' \subseteq Editors /\ access' \in [Editors -> BOOLEAN]
             /\ UNCHANGED <<surface, role, announcing, stragglers>>
  BY <1>1, <1>5 DEF ServeJoin
<1>6. ASSUME NEW e \in Editors, Accept(e)
      PROVE  /\ announcing' \in [Editors -> [version : Nat, told : SUBSET Editors]]
             /\ UNCHANGED <<surface, joined, access, role, stragglers>>
  <2>1. {} \in SUBSET Editors
    OBVIOUS
  <2> QED BY <1>6, <2>1, AcceptEffect, AppendEffect DEF Accept
<1>7. ASSUME NEW e \in Editors, AcceptStraggler(e)
      PROVE  /\ announcing' \in [Editors -> [version : Nat, told : SUBSET Editors]]
             /\ DOMAIN stragglers' = Editors
             /\ \A x \in Editors : stragglers'[x] \in Seq(OpMsgs(x))
             /\ UNCHANGED <<surface, joined, access, role>>
  <2>1. announcing' \in [Editors -> [version : Nat, told : SUBSET Editors]]
    <3>1. CASE Append2Log(e, Head(stragglers[e]), {e})
      <4>1. {e} \in SUBSET Editors
        OBVIOUS
      <4> QED BY <1>7, <3>1, <4>1, StragglerEffect, AppendEffect
    <3>2. CASE UNCHANGED announcing
      BY <1>1, <3>2
    <3> QED BY <1>7, <3>1, <3>2, StragglerEffect
  <2>2. Tail(stragglers[e]) \in Seq(OpMsgs(e)) /\ stragglers' = [stragglers EXCEPT ![e] = Tail(@)]
    <3> DEFINE t == stragglers[e]
    <3>1. t \in Seq(OpMsgs(e)) /\ t # <<>>
      BY <1>7, StragglerEffect
    <3> HIDE DEF t
    <3>2. Tail(t) \in Seq(OpMsgs(e))
      BY <3>1
    <3> QED BY <1>7, <3>2 DEF AcceptStraggler, t
  <2>3. DOMAIN stragglers' = Editors /\ \A x \in Editors : stragglers'[x] \in Seq(OpMsgs(x))
    BY <1>1, <2>2
  <2> QED BY <1>7, <2>1, <2>3 DEF AcceptStraggler
<1>8. ASSUME NEW e \in Editors, Grant(e)
      PROVE  /\ role' \in [Editors -> BOOLEAN]
             /\ UNCHANGED <<surface, joined, access, announcing, stragglers>>
  BY <1>1, <1>8 DEF Grant, clientVars
<1>9. ASSUME NEW a \in Editors, EndAnnouncement(a) \/ \E e \in Editors : Tell(a, e)
      PROVE  /\ announcing' \in [Editors -> [version : Nat, told : SUBSET Editors]]
             /\ UNCHANGED <<surface, joined, access, role, stragglers>>
  <2>1. CASE EndAnnouncement(a)
    <3>1. NoAnnouncement \in [version : Nat, told : SUBSET Editors]
      BY DEF NoAnnouncement
    <3> QED BY <1>1, <2>1, <3>1 DEF EndAnnouncement, clientVars
  <2>2. ASSUME NEW e \in Editors, Tell(a, e)
        PROVE  /\ announcing' \in [Editors -> [version : Nat, told : SUBSET Editors]]
               /\ UNCHANGED <<surface, joined, access, role, stragglers>>
    <3> DEFINE told == announcing[a].told \cup {e}
               n == [announcing[a] EXCEPT !.told = told]
    <3>1. announcing[a] \in [version : Nat, told : SUBSET Editors]
      BY <1>1
    <3>2. announcing' = [announcing EXCEPT ![a] = n]
          /\ UNCHANGED <<surface, joined, access, role, stragglers>>
      BY <1>1, <2>2 DEF Tell
    <3>3. told \in SUBSET Editors
      BY <3>1
    <3> HIDE DEF told
    <3>4. n \in [version : Nat, told : SUBSET Editors]
      BY <3>1, <3>3
    <3> HIDE DEF n
    <3> QED BY <1>1, <3>2, <3>4
  <2> QED BY <1>9, <2>1, <2>2
<1>10. ASSUME NEW e \in Editors,
              \/ Mount(e) \/ LoadMetadata(e) \/ Connect(e) \/ Opened(e) \/ Deliver(e) \/ Resync(e)
              \/ Refuse(e) \/ AcknowledgeNoOp(e) \/ AnswerResync(e) \/ AskResync(e) \/ LoseResync(e)
       PROVE  UNCHANGED <<surface, joined, access, role, announcing, stragglers>>
  BY <1>10 DEF Mount, LoadMetadata, Connect, Opened, Deliver, Resync, Refuse, AcknowledgeNoOp,
     AnswerResync, AskResync, LoseResync, serverVars, clientVars
<1>11. UNCHANGED vars => UNCHANGED <<surface, joined, access, role, announcing, stragglers>>
  BY DEF vars, serverVars, clientVars
<1>12. ASSUME NEW e \in Editors, EditorStep(e)
       PROVE  /\ surface' \in [Editors -> Views]
              /\ joined' \subseteq Editors
              /\ access' \in [Editors -> BOOLEAN] /\ role' \in [Editors -> BOOLEAN]
              /\ announcing' \in [Editors -> [version : Nat, told : SUBSET Editors]]
              /\ DOMAIN stragglers' = Editors
              /\ \A x \in Editors : stragglers'[x] \in Seq(OpMsgs(x))
  <2>1. CASE Render(e) \/ Type(e)
    BY <1>1, <1>3, <2>1 DEF serverVars
  <2>2. CASE Closed(e) \/ Leave(e)
    BY <1>1, <1>4, <2>2
  <2>3. CASE ServeJoin(e) \/ Accept(e) \/ AcceptStraggler(e) \/ Grant(e)
    BY <1>1, <1>5, <1>6, <1>7, <1>8, <2>3
  <2> QED BY <1>2, <1>10, <1>12, <2>1, <2>2, <2>3 DEF EditorStep, Browser, Server, User, World
<1> QED BY <1>1, <1>2, <1>9, <1>11, <1>12 DEF SessionNext, Announce

\* A pair is a sequence of one with one appended.
LEMMA AppendToOne ==
  ASSUME NEW a, NEW b
  PROVE  Append(<<a>>, b) = <<a, b>>
<1> DEFINE S == {a, b}
           one == <<a>>
           two == Append(one, b)
<1>1. Len(one) = 1 /\ one[1] = a
  OBVIOUS
<1>2. one \in Seq(S) /\ a \in S /\ b \in S
  OBVIOUS
<1> HIDE DEF S, one
<1>3. two \in Seq(S) /\ Len(two) = 2 /\ two[1] = a /\ two[2] = b
  <2>1. two \in Seq(S) /\ Len(two) = Len(one) + 1
    BY <1>2
  <2>2. \A i \in 1..Len(one) : two[i] = one[i]
    BY <1>2
  <2>3. two[Len(one) + 1] = b
    BY <1>2
  <2> HIDE DEF two
  <2> QED BY <1>1, <2>1, <2>2, <2>3
<1> HIDE DEF two
<1>4. two = <<a, b>>
  BY <1>3
<1> QED BY <1>4 DEF two, one

\* A request for the server's text is made, answered with it, or ended.
LEMMA ResyncUpdates ==
  ASSUME Typed, SessionNext
  PROVE  /\ DOMAIN resync' = Editors
         /\ \A x \in Editors :
              \/ resync'[x] = resync[x]
              \/ resync'[x] \in {<<"asked">>, <<"done">>}
              \/ resync'[x] = <<"asked", [version |-> Version, text |-> Text, canWrite |-> role[x]]>>
<1>1. DOMAIN resync = Editors
  BY DEF Typed
<1>2. ASSUME NEW e \in Editors, EditorStep(e)
      PROVE  \/ UNCHANGED resync
             \/ \E b \in {<<"asked">>, <<"done">>} : resync' = [resync EXCEPT ![e] = b]
             \/ AnswerResync(e)
  BY <1>2 DEF EditorStep, Browser, Server, User, World, Render, LoseResync, Mount, LoadMetadata,
     Connect, Opened, Deliver, Resync, ServeJoin, Refuse, AcknowledgeNoOp, Type,
     AskResync, Closed, Leave, Grant, Accept, AcceptStraggler, userVars
<1>3. CASE UNCHANGED resync
  BY <1>1, <1>3
<1>4. ASSUME NEW e \in Editors, \E b \in {<<"asked">>, <<"done">>} : resync' = [resync EXCEPT ![e] = b]
      PROVE  /\ DOMAIN resync' = Editors
             /\ \A x \in Editors : \/ resync'[x] = resync[x]
                                  \/ resync'[x] \in {<<"asked">>, <<"done">>}
  BY <1>1, <1>4
<1>5. ASSUME NEW e \in Editors, AnswerResync(e)
      PROVE  /\ DOMAIN resync' = Editors
             /\ \A x \in Editors \ {e} : resync'[x] = resync[x]
             /\ resync'[e] = <<"asked", [version |-> Version, text |-> Text, canWrite |-> role[e]]>>
  <2> DEFINE s == [version |-> Version, text |-> Text, canWrite |-> role[e]]
  <2>1. resync' = [resync EXCEPT ![e] = Append(<<"asked">>, s)]
    BY <1>5 DEF AnswerResync
  <2> HIDE DEF s
  <2>2. Append(<<"asked">>, s) = <<"asked", s>>
    BY AppendToOne
  <2>3. resync' = [resync EXCEPT ![e] = <<"asked", s>>]
    BY <2>1, <2>2
  <2> QED BY <1>1, <2>3 DEF s
<1>6. UNCHANGED vars \/ Announce => UNCHANGED resync
  BY DEF vars, userVars, Announce, EndAnnouncement, Tell
<1>7. UNCHANGED resync \/ \E e \in Editors : EditorStep(e)
  BY <1>6 DEF SessionNext
<1>8. ASSUME NEW e \in Editors, EditorStep(e)
      PROVE  /\ DOMAIN resync' = Editors
             /\ \A x \in Editors :
                  \/ resync'[x] = resync[x]
                  \/ resync'[x] \in {<<"asked">>, <<"done">>}
                  \/ resync'[x] = <<"asked", [version |-> Version, text |-> Text, canWrite |-> role[x]]>>
  <2>1. CASE AnswerResync(e)
    BY <1>5, <2>1
  <2>2. CASE \E b \in {<<"asked">>, <<"done">>} : resync' = [resync EXCEPT ![e] = b]
    BY <1>4, <2>2
  <2> QED BY <1>2, <1>3, <1>8, <2>1, <2>2
<1> QED BY <1>3, <1>7, <1>8

\* Every step leaves what the users did its types.
LEMMA UserStaysTyped ==
  ASSUME Typed, Bounded, SessionNext
  PROVE  /\ scenario' = scenario
         /\ typed' \in [Editors -> Nat] /\ \A x \in Editors : typed'[x] <= scenario.maxEdits
         /\ closes' \in [Editors -> Nat] /\ \A x \in Editors : closes'[x] <= scenario.maxCloses
         /\ DOMAIN resync' = Editors /\ \A x \in Editors : ResyncTyped(x)'
<1>1. /\ typed \in [Editors -> Nat] /\ \A x \in Editors : typed[x] <= scenario.maxEdits
      /\ closes \in [Editors -> Nat] /\ \A x \in Editors : closes[x] <= scenario.maxCloses
      /\ DOMAIN resync = Editors /\ \A x \in Editors : ResyncTyped(x)
      /\ scenario.maxEdits \in Nat /\ scenario.maxCloses \in Nat
  BY EditorsAssumption DEF Typed
<1>2. scenario' = scenario
  BY DEF SessionNext
<1>3. ASSUME NEW e \in Editors, EditorStep(e)
      PROVE  \/ UNCHANGED typed
             \/ typed[e] < scenario.maxEdits /\ typed' = [typed EXCEPT ![e] = @ + 1]
  BY <1>3 DEF EditorStep, Browser, Server, User, World, Render, LoseResync, Mount, LoadMetadata,
     Connect, Opened, Deliver, Resync, ServeJoin, Refuse, AcknowledgeNoOp, AnswerResync, Type,
     AskResync, Closed, Leave, Grant, Accept, AcceptStraggler, userVars
<1>4. ASSUME NEW e \in Editors, EditorStep(e)
      PROVE  \/ UNCHANGED closes
             \/ closes[e] < scenario.maxCloses /\ closes' = [closes EXCEPT ![e] = @ + 1]
  BY <1>4 DEF EditorStep, Browser, Server, User, World, Render, LoseResync, Mount, LoadMetadata,
     Connect, Opened, Deliver, Resync, ServeJoin, Refuse, AcknowledgeNoOp, AnswerResync, Type,
     AskResync, Closed, Leave, Grant, Accept, AcceptStraggler, userVars
<1>5. DOMAIN resync' = Editors /\ \A x \in Editors : ResyncTyped(x)'
  <2>1. \A x \in Editors : [version |-> Version, text |-> Text, canWrite |-> role[x]] \in Served
    BY LogFacts DEF Served, Typed
  <2> QED BY <1>1, <2>1, ResyncUpdates DEF ResyncTyped
<1>6. Announce => UNCHANGED userVars
  BY DEF Announce, EndAnnouncement, Tell
<1>7. UNCHANGED vars => UNCHANGED userVars
  BY DEF vars
<1>8. CASE UNCHANGED userVars
  BY <1>1, <1>2, <1>5, <1>8 DEF userVars
<1>9. ASSUME NEW e \in Editors, EditorStep(e)
      PROVE  /\ typed' \in [Editors -> Nat] /\ \A x \in Editors : typed'[x] <= scenario.maxEdits
             /\ closes' \in [Editors -> Nat] /\ \A x \in Editors : closes'[x] <= scenario.maxCloses
  <2>1. typed' \in [Editors -> Nat] /\ \A x \in Editors : typed'[x] <= scenario.maxEdits
    BY <1>1, <1>3, <1>9
  <2>2. closes' \in [Editors -> Nat] /\ \A x \in Editors : closes'[x] <= scenario.maxCloses
    BY <1>1, <1>4, <1>9
  <2> QED BY <2>1, <2>2
<1> QED BY <1>2, <1>5, <1>6, <1>7, <1>8, <1>9 DEF SessionNext

\* Every step preserves the types.
LEMMA TypedKept ==
  ASSUME Typed, Bounded, SessionNext
  PROVE  Typed'
<1>1. scenario' \in Scenarios /\ scenario' = scenario
  BY UserStaysTyped DEF Typed
<1>2. log' \in Seq(Entries) /\ texts' \in Seq(Texts) /\ Len(texts') = Len(log') + 1
  BY LogGrows
<1> QED BY <1>1, <1>2, EditorsStayTyped, ServerStaysTyped, UserStaysTyped DEF Typed, Version

-----------------------------------------------------------------------------
(* Every step keeps the bounds on versions.                                *)

\* What is sent names a version the editor knows.
LEMMA SendsKnown ==
  ASSUME NEW e, NEW q, NEW f, NEW u \in Seq({JoinMsg} \cup OpMsgs(e)), NEW s, NEW n,
         \A i \in DOMAIN u : u[i].kind = "op" => u[i].base <= n,
         s.version <= n, Sends(q, f, u, s)
  PROVE  \A i \in DOMAIN s.upstream : s.upstream[i].kind = "op" => s.upstream[i].base <= n
<1>1. CASE s.upstream = u
  BY <1>1
<1>2. CASE s.upstream = Append(u, OpMsg(Head(q), s.version))
  <2> DEFINE m == OpMsg(Head(q), s.version)
  <2>1. m.base = s.version
    BY DEF OpMsg
  <2> HIDE DEF m
  <2>2. \A i \in DOMAIN Append(u, m) : Append(u, m)[i] = IF i = Len(u) + 1 THEN m ELSE u[i]
    OBVIOUS
  <2>3. \A i \in DOMAIN Append(u, m) : i = Len(u) + 1 \/ i \in DOMAIN u
    OBVIOUS
  <2>4. \A i \in DOMAIN Append(u, m) : Append(u, m)[i].kind = "op" => Append(u, m)[i].base <= n
    BY <2>1, <2>2, <2>3
  <2> QED BY <1>2, <2>4 DEF m
<1> QED BY <1>1, <1>2 DEF Sends

\* The elements of a tail.
LEMMA TailKnown ==
  ASSUME NEW S, NEW s \in Seq(S), s # <<>>, NEW i \in DOMAIN Tail(s)
  PROVE  i + 1 \in DOMAIN s /\ Tail(s)[i] = s[i + 1]
  OBVIOUS

\* The elements after an append.
LEMMA AppendKnown ==
  ASSUME NEW S, NEW s \in Seq(S), NEW m, NEW i \in DOMAIN Append(s, m)
  PROVE  \/ i \in DOMAIN s /\ Append(s, m)[i] = s[i]
         \/ i = Len(s) + 1 /\ Append(s, m)[i] = m
  OBVIOUS

\* The head is the first element.
LEMMA HeadKnown ==
  ASSUME NEW S, NEW s \in Seq(S), s # <<>>
  PROVE  1 \in DOMAIN s /\ Head(s) = s[1] /\ Head(s) \in S
  OBVIOUS

\* The server answers a message: with a snapshot, an acknowledgement or a refusal.
LEMMA ReplyEffect ==
  ASSUME Typed, Bounded, NEW e \in Editors, ServeJoin(e) \/ Refuse(e) \/ AcknowledgeNoOp(e)
  PROVE  /\ Becomes(e, {"upstream", "inbox"})
         /\ editor[e].upstream # <<>>
         /\ editor'[e].upstream = Tail(editor[e].upstream)
         /\ \E m \in Answers :
              /\ editor'[e].inbox = Append(editor[e].inbox, m)
              /\ m.kind = "error" \/ m.version = Version
              /\ IF ServeJoin(e) THEN m.kind = "snapshot"
                 ELSE m.kind \in {"error", "ack"} /\ Head(editor[e].upstream).kind = "op"
<1> DEFINE Reply(m) == /\ m \in Answers
                       /\ editor' = Send(Received(editor, e), e, m)
                       /\ m.kind = "error" \/ m.version = Version
                       /\ IF ServeJoin(e) THEN m.kind = "snapshot"
                          ELSE m.kind \in {"error", "ack"} /\ Head(editor[e].upstream).kind = "op"
<1>1. ASSUME ServeJoin(e) PROVE \E m : Reply(m)
  <2> DEFINE m == SnapshotMsg(Version, Text, role[e])
  <2>1. m.kind = "snapshot" /\ m.version = Version
    BY DEF SnapshotMsg
  <2>2. m \in Answers /\ editor' = Send(Received(editor, e), e, m)
    BY <1>1, ServerMessages DEF Answers, ServeJoin
  <2> HIDE DEF m
  <2>3. Reply(m)
    BY <1>1, <2>1, <2>2
  <2> QED BY <2>3
<1>2. ASSUME Refuse(e) /\ ~ServeJoin(e) PROVE \E m : Reply(m)
  <2>1. ReadOnlyMsg.kind = "error"
    BY DEF ReadOnlyMsg
  <2>2. ReadOnlyMsg \in Answers /\ editor' = Send(Received(editor, e), e, ReadOnlyMsg)
        /\ Head(editor[e].upstream).kind = "op"
    BY <1>2, ServerMessages DEF Answers, Refuse, Receive
  <2>3. Reply(ReadOnlyMsg)
    BY <1>2, <2>1, <2>2
  <2> QED BY <2>3
<1>3. ASSUME AcknowledgeNoOp(e) /\ ~ServeJoin(e) PROVE \E m : Reply(m)
  <2> DEFINE m == AckMsg(Head(editor[e].upstream).id, Version)
  <2>1. m.kind = "ack" /\ m.version = Version
    BY DEF AckMsg
  <2>2. m \in Answers /\ editor' = Send(Received(editor, e), e, m)
        /\ Head(editor[e].upstream).kind = "op"
    BY <1>3, ServerMessages DEF Answers, AcknowledgeNoOp, Receive
  <2> HIDE DEF m
  <2>3. Reply(m)
    BY <1>3, <2>1, <2>2
  <2> QED BY <2>3
<1>4. PICK m : Reply(m)
  BY <1>1, <1>2, <1>3
<1>5. editor[e].upstream # <<>>
  BY DEF ServeJoin, Refuse, AcknowledgeNoOp, Receive
<1> QED BY <1>4, <1>5, AnswerEffect

\* The server tells an editor of what it accepted.
LEMMA TellEffect ==
  ASSUME Typed, Bounded, NEW a \in Editors, NEW e \in Editors, Tell(a, e)
  PROVE  /\ Becomes(e, {"inbox"})
         /\ announcing[a].version \in 1..Version
         /\ \E m \in Answers : /\ editor'[e].inbox = Append(editor[e].inbox, m)
                               /\ m.kind = IF e = a THEN "ack" ELSE "broadcast_op"
                               /\ m.version = announcing[a].version
<1> DEFINE n == announcing[a].version
           m == IF e = a THEN AckMsg(log[n].id, n) ELSE BroadcastMsg(log[n].id, n, log[n].op)
<1>1. m \in Answers /\ editor' = Send(editor, e, m) /\ n \in 1..Version
  BY ServerMessages DEF Tell, Answers
<1>2. m.version = n /\ m.kind = IF e = a THEN "ack" ELSE "broadcast_op"
  BY DEF AckMsg, BroadcastMsg
<1> HIDE DEF m
<1> QED BY <1>1, <1>2, SendEffect

\* Nothing an editor knows or is told of is newer than the server's version.
LEMMA EditorsKnow ==
  ASSUME Typed, Bounded, SessionNext
  PROVE  \A x \in Editors : Known(editor'[x], Version)
<1>1. \A x \in Editors : Known(editor[x], Version)
  BY DEF Bounded
<1>2. SUFFICES ASSUME NEW e \in Editors, NEW F, Becomes(e, F),
                      \/ \E a \in Editors : Tell(a, e)
                      \/ EditorStep(e)
               PROVE  Known(editor'[e], Version)
  <2>1. ASSUME NEW e \in Editors, EditorStep(e)
        PROVE  UNCHANGED editor \/ \E F : Becomes(e, F)
    <3>1. CASE ServeJoin(e) \/ Refuse(e) \/ AcknowledgeNoOp(e)
      <4>1. Becomes(e, {"upstream", "inbox"})
        BY <3>1, ReplyEffect
      <4> QED BY <4>1
    <3>2. CASE Accept(e)
      BY <3>2, ReceivedEffect DEF Accept, Receive
    <3>3. CASE AskResync(e) \/ AnswerResync(e) \/ Grant(e) \/ LoseResync(e)
      BY <3>3 DEF AskResync, AnswerResync, Grant, LoseResync, clientVars
    <3>4. CASE Deliver(e)
      <4>1. Becomes(e, Fields \ {"socket", "metadata"})
        BY <3>4, DeliverEffect
      <4> QED BY <4>1
    <3>5. CASE Resync(e)
      BY <3>5, ResyncEffect
    <3>6. CASE Type(e)
      <4>1. Becomes(e, {"queue", "inFlight", "upstream", "metrics", "latest", "mishaps"})
        BY <3>6, TypeEffect
      <4> QED BY <4>1
    <3>7. CASE Mount(e) \/ LoadMetadata(e) \/ Connect(e) \/ Opened(e) \/ AcceptStraggler(e)
      BY <3>7, MountEffect, OpenedEffect, UntoldEffect
    <3>8. CASE Closed(e) \/ Leave(e)
      BY <3>8, ClosedEffect, LeaveEffect
    <3>9. CASE Render(e)
      <4>1. Becomes(e, {"fresh", "slot", "latest"})
        BY <3>9, RenderEffect
      <4> QED BY <4>1
    <3> QED BY <2>1, <3>1, <3>2, <3>3, <3>4, <3>5, <3>6, <3>7, <3>8, <3>9
            DEF EditorStep, Browser, Server, User, World
  <2>2. ASSUME NEW a \in Editors, NEW e \in Editors, Tell(a, e)
        PROVE  Becomes(e, {"inbox"})
    BY <2>2, TellEffect
  <2>3. \/ UNCHANGED editor
        \/ \E e \in Editors : /\ \E F : Becomes(e, F)
                              /\ EditorStep(e) \/ \E a \in Editors : Tell(a, e)
    BY <2>1, <2>2 DEF SessionNext, Announce, EndAnnouncement, clientVars, vars
  <2>4. CASE UNCHANGED editor
    BY <1>1, <2>4
  <2>5. ASSUME NEW e \in Editors, NEW F, Becomes(e, F),
               EditorStep(e) \/ \E a \in Editors : Tell(a, e)
        PROVE  \A x \in Editors : Known(editor'[x], Version)
    BY <1>1, <1>2, <2>5 DEF Becomes
  <2> QED BY <2>3, <2>4, <2>5
<1> DEFINE r == editor[e]
           s == editor'[e]
<1>3. /\ r.version <= Version /\ r.version \in Nat /\ Version \in Nat
      /\ r.upstream \in Seq({JoinMsg} \cup OpMsgs(e)) /\ r.inbox \in Seq(Answers)
      /\ \A i \in DOMAIN r.upstream : r.upstream[i].kind = "op" => r.upstream[i].base <= Version
      /\ \A i \in DOMAIN r.inbox : r.inbox[i].kind # "error" => r.inbox[i].version <= Version
  BY <1>1, EditorFacts DEF Known
<1>4. SUFFICES /\ s.version <= Version
               /\ \A i \in DOMAIN s.upstream : s.upstream[i].kind = "op" => s.upstream[i].base <= Version
               /\ \A i \in DOMAIN s.inbox : s.inbox[i].kind # "error" => s.inbox[i].version <= Version
  BY DEF Known
<1>5. CASE UNCHANGED editor
  BY <1>3, <1>5
<1>6. CASE Mount(e) \/ LoadMetadata(e) \/ Connect(e) \/ Render(e) \/ AcceptStraggler(e)
  <2>1. s.version = r.version /\ s.upstream = r.upstream /\ s.inbox = r.inbox
    <3>1. CASE Render(e)
      <4>1. Becomes(e, {"fresh", "slot", "latest"})
        BY <3>1, RenderEffect
      <4> QED BY <4>1 DEF Becomes, SameBut, Fields
    <3>2. CASE Mount(e) \/ LoadMetadata(e) \/ Connect(e)
      BY <3>2, MountEffect DEF Becomes, SameBut, Fields
    <3>3. CASE AcceptStraggler(e)
      BY <3>3, UntoldEffect DEF Becomes, SameBut, Fields
    <3> QED BY <1>6, <3>1, <3>2, <3>3
  <2> QED BY <1>3, <2>1
<1>7. CASE Opened(e)
  <2>1. s.version = r.version /\ s.upstream = <<JoinMsg>> /\ s.inbox = r.inbox
    BY <1>7, OpenedEffect DEF Becomes, SameBut, Fields
  <2>2. \A i \in DOMAIN s.upstream : s.upstream[i].kind # "op"
    BY <2>1 DEF JoinMsg
  <2> QED BY <1>3, <2>1, <2>2
<1>8. CASE Closed(e) \/ Leave(e)
  <2>1. s.upstream = <<>> /\ s.inbox = <<>>
    BY <1>8, ClosedEffect, LeaveEffect
  <2>2. s.version = r.version \/ s.version = 0
    BY <1>8, ClosedEffect, LeaveEffect DEF Becomes, SameBut, Fields
  <2> QED BY <1>3, <2>1, <2>2
<1>9. CASE Type(e)
  <2>1. /\ Becomes(e, {"queue", "inFlight", "upstream", "metrics", "latest", "mishaps"})
        /\ \E q : Sends(q, r.inFlight, r.upstream, s)
    BY <1>9, TypeEffect
  <2>2. s.version = r.version /\ s.inbox = r.inbox
    BY <2>1 DEF Becomes, SameBut, Fields
  <2> HIDE DEF r, s
  <2> QED BY <1>3, <2>1, <2>2, SendsKnown
<1>10. CASE Resync(e)
  <2>1. PICK t \in Served :
          /\ resync[e] = <<"asked", t>> /\ s.version = t.version
          /\ Becomes(e, Fields \ {"socket", "status", "metadata", "upstream", "inbox"})
    BY <1>10, ResyncEffect
  <2>2. s.upstream = r.upstream /\ s.inbox = r.inbox
    BY <2>1 DEF Becomes, SameBut, Fields
  <2>3. t.version <= Version
    BY <2>1 DEF Bounded
  <2> QED BY <1>3, <2>1, <2>2, <2>3
<1>11. CASE Deliver(e)
  <2> DEFINE m == Head(r.inbox)
  <2>1. /\ r.inbox # <<>> /\ m \in Answers /\ s.inbox = Tail(r.inbox)
        /\ m.kind = "snapshot" => s.version = m.version /\ s.upstream = r.upstream
        /\ m.kind = "ack" => /\ s.version = Greater(r.version, m.version)
                             /\ \E f \in {r.inFlight, <<>>} : Sends(r.queue, f, r.upstream, s)
        /\ m.kind = "broadcast_op" => /\ s.version = Greater(r.version, m.version)
                                      /\ s.upstream = r.upstream
        /\ m.kind = "error" => SameBut(r, s, {"status", "inbox", "mishaps"})
    BY <1>11, DeliverEffect
  <2>2. m.kind # "error" => m.version <= Version /\ m.version \in Nat
    BY <1>3, <2>1, HeadKnown, AnswerKinds
  <2>3. \A i \in DOMAIN s.inbox : s.inbox[i].kind # "error" => s.inbox[i].version <= Version
    BY <1>3, <2>1, TailKnown
  <2>4. m.kind = "error" => s.version = r.version /\ s.upstream = r.upstream
    BY <2>1 DEF SameBut, Fields
  <2> HIDE DEF m
  <2>5. s.version <= Version
    BY <1>3, <2>1, <2>2, <2>4, AnswerKinds DEF Greater
  <2> HIDE DEF r, s
  <2>6. \A i \in DOMAIN s.upstream : s.upstream[i].kind = "op" => s.upstream[i].base <= Version
    <3>1. CASE s.upstream = r.upstream
      BY <1>3, <3>1
    <3>2. CASE \E f \in {r.inFlight, <<>>} : Sends(r.queue, f, r.upstream, s)
      BY <1>3, <2>5, <3>2, SendsKnown
    <3> QED BY <2>1, <2>4, <3>1, <3>2, AnswerKinds
  <2> QED BY <2>3, <2>5, <2>6
<1>12. CASE ServeJoin(e) \/ Refuse(e) \/ AcknowledgeNoOp(e)
  <2>2. PICK m \in Answers : /\ s.inbox = Append(r.inbox, m)
                             /\ m.kind = "error" \/ m.version = Version
    BY <1>12, ReplyEffect
  <2>4. /\ Becomes(e, {"upstream", "inbox"})
        /\ s.upstream = Tail(r.upstream) /\ r.upstream # <<>>
    BY <1>12, ReplyEffect
  <2>5. s.version = r.version
    BY <2>4 DEF Becomes, SameBut, Fields
  <2> HIDE DEF r, s
  <2>6. \A i \in DOMAIN s.inbox : s.inbox[i].kind # "error" => s.inbox[i].version <= Version
    BY <1>3, <2>2, AppendKnown
  <2>7. \A i \in DOMAIN s.upstream : s.upstream[i].kind = "op" => s.upstream[i].base <= Version
    BY <1>3, <2>4, TailKnown
  <2> QED BY <1>3, <2>5, <2>6, <2>7
<1>13. CASE Accept(e)
  <2>1. /\ Becomes(e, {"upstream"}) /\ s.upstream = Tail(r.upstream) /\ r.upstream # <<>>
    BY <1>13, ReceivedEffect DEF Accept, Receive
  <2>2. s.version = r.version /\ s.inbox = r.inbox
    BY <2>1 DEF Becomes, SameBut, Fields
  <2> HIDE DEF r, s
  <2>3. \A i \in DOMAIN s.upstream : s.upstream[i].kind = "op" => s.upstream[i].base <= Version
    BY <1>3, <2>1, TailKnown
  <2> QED BY <1>3, <2>2, <2>3
<1>14. CASE AskResync(e) \/ AnswerResync(e) \/ Grant(e) \/ LoseResync(e)
  <2>1. UNCHANGED editor
    BY <1>14 DEF AskResync, AnswerResync, Grant, LoseResync, clientVars
  <2> QED BY <1>5, <2>1
<1>15. ASSUME NEW a \in Editors, Tell(a, e)
       PROVE  /\ s.version <= Version
              /\ \A i \in DOMAIN s.upstream : s.upstream[i].kind = "op" => s.upstream[i].base <= Version
              /\ \A i \in DOMAIN s.inbox : s.inbox[i].kind # "error" => s.inbox[i].version <= Version
  <2>1. PICK m \in Answers : s.inbox = Append(r.inbox, m) /\ m.version = announcing[a].version
    BY <1>15, TellEffect
  <2>2. announcing[a].version <= Version
    BY <1>15, TellEffect, LogFacts
  <2>3. Becomes(e, {"inbox"})
    BY <1>15, TellEffect
  <2>4. s.version = r.version /\ s.upstream = r.upstream
    BY <2>3 DEF Becomes, SameBut, Fields
  <2> HIDE DEF r, s
  <2>5. \A i \in DOMAIN s.inbox : s.inbox[i].kind # "error" => s.inbox[i].version <= Version
    BY <1>3, <2>1, <2>2, AppendKnown
  <2> QED BY <1>3, <2>4, <2>5
<1> QED BY <1>2, <1>5, <1>6, <1>7, <1>8, <1>9, <1>10, <1>11, <1>12, <1>13, <1>14, <1>15
        DEF EditorStep, Browser, Server, User, World

\* Nothing is announced before it is accepted.
LEMMA AnnouncementsBounded ==
  ASSUME Typed, Bounded, SessionNext
  PROVE  \A x \in Editors : /\ announcing'[x].version <= Len(log')
                            /\ announcing'[x] = NoAnnouncement \/ announcing'[x].version > 0
<1> DEFINE Good(x) == /\ announcing'[x].version <= Len(log')
                      /\ announcing'[x] = NoAnnouncement \/ announcing'[x].version > 0
<1>1. \A x \in Editors : /\ announcing[x].version \in Nat /\ announcing[x].version <= Version
                         /\ announcing[x] = NoAnnouncement \/ announcing[x].version > 0
  BY LogFacts DEF Bounded
<1>2. Version \in Nat /\ Len(log') \in Nat /\ Version <= Len(log')
  BY LogFacts, LogGrows
<1>3. \A x \in Editors : announcing'[x] = announcing[x] => Good(x)
  BY <1>1, <1>2
<1>4. NoAnnouncement.version = 0
  BY DEF NoAnnouncement
<1>5. ASSUME NEW e \in Editors, NEW m \in OpMsgs(e), m.base <= Version, NEW told \in SUBSET Editors,
             Append2Log(e, m, told)
      PROVE  \A x \in Editors : Good(x)
  <2>1. /\ \A x \in Editors \ {e} : announcing'[x] = announcing[x]
        /\ announcing'[e] = [version |-> Version + 1, told |-> told] /\ Len(log') = Version + 1
    BY <1>5, AppendEffect
  <2>2. Good(e)
    BY <1>2, <2>1
  <2> QED BY <1>3, <2>1, <2>2
<1>6. ASSUME NEW e \in Editors, EditorStep(e) PROVE \A x \in Editors : Good(x)
  <2>1. CASE Accept(e)
    <3>1. {} \in SUBSET Editors
      OBVIOUS
    <3> QED BY <1>5, <2>1, <3>1, AcceptEffect
  <2>2. CASE AcceptStraggler(e)
    <3>1. {e} \in SUBSET Editors
      OBVIOUS
    <3>2. CASE UNCHANGED <<log, texts, announcing>>
      BY <1>3, <3>2
    <3> QED BY <1>5, <2>2, <3>1, <3>2, StragglerEffect
  <2>3. CASE Closed(e) \/ Leave(e)
    <3>1. /\ \A x \in Editors \ {e} : announcing'[x] = announcing[x]
          /\ announcing'[e] = announcing[e]
               \/ /\ announcing[e] # NoAnnouncement /\ announcing'[e].version = announcing[e].version
      BY <2>3, AbandonEffect
    <3>2. Good(e)
      BY <1>1, <1>2, <1>3, <3>1
    <3> QED BY <1>3, <3>1, <3>2
  <2>4. CASE ~Accept(e) /\ ~AcceptStraggler(e) /\ ~Closed(e) /\ ~Leave(e)
    <3>1. UNCHANGED announcing
      BY <1>6, <2>4 DEF EditorStep, Browser, Server, User, World, Render, LoseResync, Mount,
         LoadMetadata, Connect, Opened, Deliver, Resync, ServeJoin, Refuse, AcknowledgeNoOp,
         AnswerResync, Type, AskResync, Grant, serverVars
    <3> QED BY <1>3, <3>1
  <2> QED BY <2>1, <2>2, <2>3, <2>4
<1>7. ASSUME NEW a \in Editors, EndAnnouncement(a) PROVE \A x \in Editors : Good(x)
  BY <1>2, <1>3, <1>4, <1>7, LogFacts DEF EndAnnouncement
<1>8. ASSUME NEW a \in Editors, NEW e \in Editors, Tell(a, e) PROVE \A x \in Editors : Good(x)
  <2>1. announcing' = [announcing EXCEPT ![a].told = @ \cup {e}] /\ announcing[a] # NoAnnouncement
    BY <1>8 DEF Tell
  <2>2. announcing'[a].version = announcing[a].version
        /\ \A x \in Editors \ {a} : announcing'[x] = announcing[x]
    BY <2>1, LogFacts
  <2>3. Good(a)
    BY <1>1, <1>2, <2>1, <2>2
  <2> QED BY <1>3, <2>2, <2>3
<1>9. UNCHANGED vars => \A x \in Editors : Good(x)
  BY <1>3 DEF vars, serverVars
<1> HIDE DEF Good
<1>10. \A x \in Editors : Good(x)
  BY <1>6, <1>7, <1>8, <1>9 DEF SessionNext, Announce
<1> QED BY <1>10 DEF Good

\* Stragglers are based on versions that exist.
LEMMA StragglersBounded ==
  ASSUME Typed, Bounded, SessionNext
  PROVE  \A x \in Editors : \A i \in DOMAIN stragglers'[x] : stragglers'[x][i].base <= Len(log')
<1>1. Version \in Nat /\ Len(log') \in Nat /\ Version <= Len(log')
  BY LogFacts, LogGrows
<1>2. \A x \in Editors : /\ stragglers[x] \in Seq(OpMsgs(x))
                         /\ \A i \in DOMAIN stragglers[x] :
                              stragglers[x][i].base <= Version /\ stragglers[x][i].base \in Nat
  <2>1. \A x \in Editors : stragglers[x] \in Seq(OpMsgs(x))
    BY DEF Typed
  <2>2. \A x \in Editors : \A i \in DOMAIN stragglers[x] : stragglers[x][i] \in OpMsgs(x)
    BY <2>1
  <2> QED BY <2>1, <2>2 DEF Bounded, OpMsgs
<1>3. \A x \in Editors : stragglers'[x] = stragglers[x]
        => \A i \in DOMAIN stragglers'[x] : stragglers'[x][i].base <= Len(log')
  BY <1>1, <1>2
<1>4. ASSUME NEW e \in Editors, Closed(e) \/ Leave(e)
      PROVE  /\ \A x \in Editors \ {e} : stragglers'[x] = stragglers[x]
             /\ \A i \in DOMAIN stragglers'[e] : stragglers'[e][i].base <= Len(log')
  <2>1. PICK ops \in Seq(OpMsgs(e)) :
          /\ stragglers' = [stragglers EXCEPT ![e] = @ \o ops]
          /\ \A i \in DOMAIN ops : i \in DOMAIN SentOps(e) /\ ops[i] = SentOps(e)[i]
    BY <1>4, AbandonEffect
  <2>2. \A i \in DOMAIN ops : ops[i].base <= Version /\ ops[i].base \in Nat
    <3>1. \A i \in DOMAIN ops : \E j \in DOMAIN editor[e].upstream :
            editor[e].upstream[j] = ops[i] /\ editor[e].upstream[j].kind = "op"
      BY <2>1, SentFacts
    <3>2. \A i \in DOMAIN ops : ops[i] \in OpMsgs(e)
      BY <2>1
    <3> QED BY <3>1, <3>2 DEF Bounded, Known, OpMsgs
  <2>3. stragglers'[e] = stragglers[e] \o ops
        /\ \A x \in Editors \ {e} : stragglers'[x] = stragglers[x]
    BY <2>1 DEF Typed
  <2> DEFINE s == stragglers[e]
  <2>4. s \in Seq(OpMsgs(e)) /\ \A i \in DOMAIN s : s[i].base <= Version /\ s[i].base \in Nat
    BY <1>2
  <2> HIDE DEF s
  <2>5. \A i \in DOMAIN (s \o ops) : \/ i \in DOMAIN s /\ (s \o ops)[i] = s[i]
                                     \/ i - Len(s) \in DOMAIN ops /\ (s \o ops)[i] = ops[i - Len(s)]
    BY <2>1, <2>4
  <2>6. \A i \in DOMAIN (s \o ops) : (s \o ops)[i].base <= Version /\ (s \o ops)[i].base \in Nat
    BY <2>2, <2>4, <2>5
  <2>7. \A i \in DOMAIN (s \o ops) : (s \o ops)[i].base <= Len(log')
    BY <1>1, <2>6
  <2> QED BY <2>3, <2>7 DEF s
<1>5. ASSUME NEW e \in Editors, AcceptStraggler(e)
      PROVE  /\ \A x \in Editors \ {e} : stragglers'[x] = stragglers[x]
             /\ \A i \in DOMAIN stragglers'[e] : stragglers'[e][i].base <= Len(log')
  <2> DEFINE s == stragglers[e]
  <2>1. s \in Seq(OpMsgs(e)) /\ s # <<>>
        /\ \A i \in DOMAIN s : s[i].base <= Version /\ s[i].base \in Nat
    BY <1>2, <1>5 DEF AcceptStraggler
  <2>2. stragglers'[e] = Tail(s) /\ \A x \in Editors \ {e} : stragglers'[x] = stragglers[x]
    BY <1>5 DEF AcceptStraggler, Typed
  <2> HIDE DEF s
  <2>3. \A i \in DOMAIN Tail(s) : Tail(s)[i].base <= Version /\ Tail(s)[i].base \in Nat
    BY <2>1, TailKnown
  <2> QED BY <1>1, <2>2, <2>3
<1>6. ASSUME NEW e \in Editors, EditorStep(e), ~AcceptStraggler(e), ~Closed(e), ~Leave(e)
      PROVE  UNCHANGED stragglers
  BY <1>6 DEF EditorStep, Browser, Server, User, World, Render, LoseResync, Mount,
     LoadMetadata, Connect, Opened, Deliver, Resync, ServeJoin, Refuse, AcknowledgeNoOp,
     AnswerResync, Type, AskResync, Grant, Accept, serverVars
<1>7. Announce => UNCHANGED stragglers
  BY DEF Announce, EndAnnouncement, Tell
<1>8. UNCHANGED vars => UNCHANGED stragglers
  BY DEF vars, serverVars
<1>9. CASE UNCHANGED stragglers
  BY <1>3, <1>9
<1> QED BY <1>3, <1>4, <1>5, <1>6, <1>7, <1>8, <1>9 DEF SessionNext

\* Every step leaves everybody with versions that exist.
LEMMA BoundedKept ==
  ASSUME Typed, Bounded, SessionNext
  PROVE  Bounded'
<1>1. Version \in Nat /\ Len(log') \in Nat /\ Version <= Len(log') /\ Version' = Len(log')
  BY LogFacts, LogGrows DEF Version
<1>2. \A x \in Editors : Known(editor'[x], Len(log'))
  <2>1. SUFFICES ASSUME NEW x \in Editors PROVE Known(editor'[x], Len(log'))
    OBVIOUS
  <2>2. Known(editor'[x], Version) /\ editor'[x] \in EditorStates(x)
    BY EditorsKnow, EditorsStayTyped DEF EditorTyped
  <2> DEFINE s == editor'[x]
  <2>3. /\ s.version \in Nat
        /\ s.upstream \in Seq({JoinMsg} \cup OpMsgs(x)) /\ s.inbox \in Seq(Answers)
    BY <2>2 DEF EditorStates
  <2>4. Known(s, Version)
    BY <2>2
  <2> HIDE DEF s
  <2>5. \A i \in DOMAIN s.upstream : s.upstream[i].kind = "op" => s.upstream[i].base \in Nat
    <3>1. \A i \in DOMAIN s.upstream : s.upstream[i] \in {JoinMsg} \cup OpMsgs(x)
      BY <2>3
    <3> QED BY <3>1 DEF JoinMsg, OpMsgs
  <2>6. \A i \in DOMAIN s.inbox : s.inbox[i].kind # "error" => s.inbox[i].version \in Nat
    <3>1. \A i \in DOMAIN s.inbox : s.inbox[i] \in Answers
      BY <2>3
    <3> QED BY <3>1, AnswerKinds
  <2>7. Known(s, Len(log'))
    BY <1>1, <2>3, <2>4, <2>5, <2>6 DEF Known
  <2> QED BY <2>7 DEF s
<1>3. \A x \in Editors : \A s \in Served : resync'[x] = <<"asked", s>> => s.version <= Len(log')
  <2>1. \A x \in Editors : \A s \in Served :
          resync[x] = <<"asked", s>> => s.version <= Len(log')
    BY <1>1 DEF Bounded, Served
  <2>2. CASE UNCHANGED resync
    BY <2>1, <2>2
  <2>3. ASSUME NEW e \in Editors, EditorStep(e), ~AnswerResync(e)
        PROVE  \/ UNCHANGED resync
               \/ \E b \in {<<"asked">>, <<"done">>} : resync' = [resync EXCEPT ![e] = b]
    BY <2>3 DEF EditorStep, Browser, Server, User, World, Render, LoseResync, Mount, LoadMetadata,
       Connect, Opened, Deliver, Resync, ServeJoin, Refuse, AcknowledgeNoOp, Type,
       AskResync, Closed, Leave, Grant, Accept, AcceptStraggler, userVars
  <2>4. ASSUME NEW e \in Editors, NEW b \in {<<"asked">>, <<"done">>},
               resync' = [resync EXCEPT ![e] = b]
        PROVE  \A x \in Editors : \A s \in Served :
                 resync'[x] = <<"asked", s>> => s.version <= Len(log')
    <3>1. DOMAIN resync = Editors /\ \A s : b # <<"asked", s>>
      <4>1. Len(b) = 1
        BY <2>4
      <4>2. \A s : Len(<<"asked", s>>) = 2
        OBVIOUS
      <4>3. \A s : b # <<"asked", s>>
        BY <4>1, <4>2
      <4> QED BY <4>3 DEF Typed
    <3> QED BY <2>1, <2>4, <3>1
  <2>5. ASSUME NEW e \in Editors, AnswerResync(e)
        PROVE  \A x \in Editors : \A s \in Served :
                 resync'[x] = <<"asked", s>> => s.version <= Len(log')
    <3> DEFINE t == [version |-> Version, text |-> Text, canWrite |-> role[e]]
               b == <<"asked", t>>
    <3>1. resync' = [resync EXCEPT ![e] = b] /\ DOMAIN resync = Editors
      BY <2>5, AppendToOne DEF AnswerResync, Typed
    <3>2. \A s : b = <<"asked", s>> => s = t
      OBVIOUS
    <3>3. t.version = Version
      OBVIOUS
    <3> HIDE DEF t, b
    <3>4. \A s : b = <<"asked", s>> => s.version = Version
      BY <3>2, <3>3
    <3> QED BY <1>1, <2>1, <3>1, <3>4
  <2>6. Announce \/ UNCHANGED vars => UNCHANGED resync
    BY DEF Announce, EndAnnouncement, Tell, vars, userVars
  <2> QED BY <2>2, <2>3, <2>4, <2>5, <2>6 DEF SessionNext
<1> QED BY <1>1, <1>2, <1>3, AnnouncementsBounded, StragglersBounded DEF Bounded

\* Editors as they start.
LEMMA SessionStarts ==
  ASSUME Init
  PROVE  Typed /\ Bounded
<1>1. \A e \in Editors : editor[e] = InitialEditor
  BY DEF Init
<1>2. /\ InitialEditor.inFlight = <<>> /\ InitialEditor.slot = <<>> /\ InitialEditor.upstream = <<>>
      /\ InitialEditor.inbox = <<>> /\ InitialEditor.version = 0
  BY DEF InitialEditor
<1>3. Len(<<>>) = 0 /\ \A i : i \notin DOMAIN <<>>
  OBVIOUS
<1>4. \A e \in Editors : EditorTyped(e)
  BY <1>1, <1>2, <1>3, InitialType DEF EditorTyped, JoinFirst
<1>5. scenario \in Scenarios /\ scenario.text \in Texts
      /\ scenario.maxEdits \in Nat /\ scenario.maxCloses \in Nat
  BY EditorsAssumption DEF Init
<1>6. surface \in [Editors -> Views]
  <2> DEFINE none == <<>>
  <2>1. none \in Texts /\ InitialSurface = [doc |-> none, editable |-> FALSE, applied |-> <<>>]
    BY DEF Texts, InitialSurface
  <2> HIDE DEF none
  <2>2. InitialSurface \in Views
    BY <2>1 DEF Views
  <2> QED BY <2>2 DEF Init
<1>7. log \in Seq(Entries) /\ Len(log) = 0 /\ texts \in Seq(Texts) /\ Len(texts) = 1
  BY <1>5 DEF Init
<1>8. \A e \in Editors : stragglers[e] \in Seq(OpMsgs(e)) /\ \A i : i \notin DOMAIN stragglers[e]
  BY DEF Init
<1>9. \A e \in Editors : resync[e] = <<>>
  BY DEF Init
<1>10. \A e \in Editors : announcing[e] = NoAnnouncement /\ NoAnnouncement.version = 0
  BY DEF Init, NoAnnouncement
<1>11. announcing \in [Editors -> [version : Nat, told : SUBSET Editors]]
  BY DEF Init, NoAnnouncement
<1>12. Version = 0
  BY <1>7 DEF Version
<1>13. DOMAIN editor = Editors /\ DOMAIN stragglers = Editors /\ DOMAIN resync = Editors
       /\ joined \subseteq Editors /\ access \in [Editors -> BOOLEAN]
       /\ role \in [Editors -> BOOLEAN]
       /\ typed \in [Editors -> Nat] /\ closes \in [Editors -> Nat]
       /\ \A e \in Editors : typed[e] = 0 /\ closes[e] = 0
  BY DEF Init
<1>14. Typed
  BY <1>4, <1>5, <1>6, <1>7, <1>8, <1>9, <1>11, <1>12, <1>13 DEF Typed, ResyncTyped
<1>15. Bounded
  <2>1. \A e \in Editors : Known(editor[e], 0)
    BY <1>1, <1>2, <1>3 DEF Known
  <2>2. \A e \in Editors : \A s \in Served : resync[e] # <<"asked", s>>
    BY <1>9
  <2> QED BY <1>8, <1>10, <1>12, <2>1, <2>2 DEF Bounded
<1> QED BY <1>14, <1>15

-----------------------------------------------------------------------------
(* One operation in flight.                                                *)

Asked(up)   == {i \in DOMAIN up : up[i].kind = "op"}
Replies(in) == {i \in DOMAIN in : in[i].kind \in {"ack", "error"}}

\* The editor's operation was accepted, and it was not told yet.
Untold(e) == announcing[e] # NoAnnouncement /\ e \notin announcing[e].told

\* At most one operation is asked, accepted or answered; none is.
Lone(up, in, untold) ==
  /\ \A i, j \in Asked(up) : i = j
  /\ \A i, j \in Replies(in) : i = j
  /\ Asked(up) # {} => ~untold /\ Replies(in) = {}
  /\ untold => Replies(in) = {}

Idle(up, in, untold) == Asked(up) = {} /\ Replies(in) = {} /\ ~untold

\* An editor that has nothing in flight has no answer to expect, unless it
\* forgot an operation.
Flight(r, untold) ==
  "discarded" \notin r.mishaps =>
    /\ Lone(r.upstream, r.inbox, untold)
    /\ r.inFlight = <<>> => Idle(r.upstream, r.inbox, untold)

FlightInv == \A e \in Editors : Flight(editor[e], Untold(e))

\* The server takes a message from a socket.
LEMMA LoneTailUp ==
  ASSUME NEW S, NEW up \in Seq(S), up # <<>>, NEW in, NEW u
  PROVE  /\ Lone(up, in, u) => Lone(Tail(up), in, u)
         /\ Idle(up, in, u) => Idle(Tail(up), in, u)
         /\ Lone(up, in, u) /\ Head(up).kind = "op" => Idle(Tail(up), in, u)
<1>1. \A i \in Asked(Tail(up)) : i + 1 \in Asked(up) /\ i \in Nat /\ i # 0
  BY TailKnown DEF Asked
<1>2. Head(up).kind = "op" => 1 \in Asked(up)
  BY HeadKnown DEF Asked
<1>3. Lone(up, in, u) => Lone(Tail(up), in, u)
  BY <1>1 DEF Lone
<1>4. Idle(up, in, u) => Idle(Tail(up), in, u)
  BY <1>1 DEF Idle
<1>5. ASSUME Lone(up, in, u), Head(up).kind = "op" PROVE Idle(Tail(up), in, u)
  <2>1. \A i \in Asked(Tail(up)) : i + 1 = 1
    BY <1>1, <1>2, <1>5 DEF Lone
  <2>2. Asked(Tail(up)) = {}
    BY <1>1, <2>1
  <2> QED BY <1>2, <1>5, <2>2 DEF Lone, Idle
<1> QED BY <1>3, <1>4, <1>5

\* The editor handles a message.
LEMMA LoneTailIn ==
  ASSUME NEW S, NEW in \in Seq(S), in # <<>>, NEW up, NEW u
  PROVE  /\ Lone(up, in, u) => Lone(up, Tail(in), u)
         /\ Idle(up, in, u) => Idle(up, Tail(in), u)
         /\ Lone(up, in, u) /\ Head(in).kind \in {"ack", "error"} => Idle(up, Tail(in), u)
<1>1. \A i \in Replies(Tail(in)) : i + 1 \in Replies(in) /\ i \in Nat /\ i # 0
  BY TailKnown DEF Replies
<1>2. Head(in).kind \in {"ack", "error"} => 1 \in Replies(in)
  BY HeadKnown DEF Replies
<1>3. Lone(up, in, u) => Lone(up, Tail(in), u)
  BY <1>1 DEF Lone
<1>4. Idle(up, in, u) => Idle(up, Tail(in), u)
  BY <1>1 DEF Idle
<1>5. ASSUME Lone(up, in, u), Head(in).kind \in {"ack", "error"} PROVE Idle(up, Tail(in), u)
  <2>1. \A i \in Replies(Tail(in)) : i + 1 = 1
    BY <1>1, <1>2, <1>5 DEF Lone
  <2>2. Replies(Tail(in)) = {}
    BY <1>1, <2>1
  <2> QED BY <1>2, <1>5, <2>2 DEF Lone, Idle
<1> QED BY <1>3, <1>4, <1>5

\* A message is sent to the editor.
LEMMA LoneAppendIn ==
  ASSUME NEW S, NEW in \in Seq(S), NEW m, NEW up, NEW u
  PROVE  /\ m.kind \notin {"ack", "error"} /\ Lone(up, in, u) => Lone(up, Append(in, m), u)
         /\ m.kind \notin {"ack", "error"} /\ Idle(up, in, u) => Idle(up, Append(in, m), u)
         /\ Idle(up, in, u) => Lone(up, Append(in, m), u)
<1>0. \A s, i : i \in DOMAIN s /\ s[i].kind \in {"ack", "error"} => i \in Replies(s)
  BY DEF Replies
<1>1. \A i \in Replies(Append(in, m)) :
        i \in Replies(in) \/ (i = Len(in) + 1 /\ m.kind \in {"ack", "error"})
  <2> SUFFICES ASSUME NEW i \in Replies(Append(in, m))
               PROVE  i \in Replies(in) \/ (i = Len(in) + 1 /\ m.kind \in {"ack", "error"})
    OBVIOUS
  <2>1. i \in DOMAIN Append(in, m) /\ Append(in, m)[i].kind \in {"ack", "error"}
    BY DEF Replies
  <2>2. \/ i \in DOMAIN in /\ Append(in, m)[i] = in[i]
        \/ i = Len(in) + 1 /\ Append(in, m)[i] = m
    BY <2>1, AppendKnown
  <2>3. CASE i \in DOMAIN in /\ Append(in, m)[i] = in[i]
    <3>1. in[i].kind \in {"ack", "error"}
      BY <2>1, <2>3
    <3> QED BY <1>0, <2>3, <3>1
  <2>4. CASE i = Len(in) + 1 /\ Append(in, m)[i] = m
    BY <2>1, <2>4
  <2> QED BY <2>2, <2>3, <2>4
<1>2. m.kind \notin {"ack", "error"} /\ Lone(up, in, u) => Lone(up, Append(in, m), u)
  BY <1>1 DEF Lone
<1>3. m.kind \notin {"ack", "error"} /\ Idle(up, in, u) => Idle(up, Append(in, m), u)
  BY <1>1 DEF Idle
<1>4. Idle(up, in, u) => Lone(up, Append(in, m), u)
  BY <1>1 DEF Idle, Lone
<1> QED BY <1>2, <1>3, <1>4

\* An operation is sent by an editor that has none under way.
LEMMA LoneAppendUp ==
  ASSUME NEW S, NEW up \in Seq(S), NEW m, NEW in, NEW u, Idle(up, in, u)
  PROVE  Lone(Append(up, m), in, u)
<1>1. \A i \in Asked(Append(up, m)) : i \in Asked(up) \/ i = Len(up) + 1
  BY AppendKnown DEF Asked
<1> QED BY <1>1 DEF Idle, Lone

\* None under way is at most one.
LEMMA IdleIsLone ==
  ASSUME NEW up, NEW in, NEW u, Idle(up, in, u)
  PROVE  Lone(up, in, u)
  BY DEF Idle, Lone

\* Nothing is under way on a new socket.
LEMMA EmptyIsIdle ==
  /\ Asked(<<>>) = {} /\ Replies(<<>>) = {} /\ Asked(<<JoinMsg>>) = {}
<1>1. \A i : i \notin DOMAIN <<>>
  OBVIOUS
<1>2. \A i \in DOMAIN <<JoinMsg>> : <<JoinMsg>>[i].kind # "op"
  BY DEF JoinMsg
<1> QED BY <1>1, <1>2 DEF Asked, Replies

\* Nobody but an author whose operation is accepted becomes one who is not told.
LEMMA UntoldKept ==
  ASSUME Typed, Bounded, NEW e \in Editors,
         EditorStep(e) \/ (\E a \in Editors : Tell(a, e)) \/ EndAnnouncement(e)
  PROVE  \A x \in Editors : Untold(x)' => Untold(x) \/ (x = e /\ Accept(e))
<1>1. DOMAIN announcing = Editors
  BY LogFacts
<1>2. CASE Accept(e)
  <2>1. {} \in SUBSET Editors
    OBVIOUS
  <2>2. \A x \in Editors \ {e} : announcing'[x] = announcing[x]
    BY <1>2, <2>1, AcceptEffect, AppendEffect
  <2> QED BY <1>2, <2>2 DEF Untold
<1>3. CASE AcceptStraggler(e)
  <2>1. CASE UNCHANGED <<log, texts, announcing>>
    BY <2>1 DEF Untold
  <2>2. CASE Append2Log(e, Head(stragglers[e]), {e})
    <3>1. {e} \in SUBSET Editors
      OBVIOUS
    <3>2. /\ \A x \in Editors \ {e} : announcing'[x] = announcing[x]
          /\ announcing'[e] = [version |-> Version + 1, told |-> {e}]
      BY <1>3, <2>2, <3>1, StragglerEffect, AppendEffect
    <3> QED BY <3>2 DEF Untold
  <2> QED BY <1>3, <2>1, <2>2, StragglerEffect
<1>4. CASE Closed(e) \/ Leave(e)
  <2>1. /\ \A x \in Editors \ {e} : announcing'[x] = announcing[x]
        /\ announcing'[e] = NoAnnouncement \/ e \in announcing'[e].told
    BY <1>4, AbandonEffect
  <2> QED BY <2>1 DEF Untold
<1>5. CASE EditorStep(e) /\ ~Accept(e) /\ ~AcceptStraggler(e) /\ ~Closed(e) /\ ~Leave(e)
  <2>1. UNCHANGED announcing
    BY <1>5 DEF EditorStep, Browser, Server, User, World, Render, LoseResync, Mount,
       LoadMetadata, Connect, Opened, Deliver, Resync, ServeJoin, Refuse, AcknowledgeNoOp,
       AnswerResync, Type, AskResync, Grant, serverVars
  <2> QED BY <2>1 DEF Untold
<1>6. ASSUME NEW a \in Editors, Tell(a, e)
      PROVE  \A x \in Editors : Untold(x)' => Untold(x)
  <2>1. announcing' = [announcing EXCEPT ![a].told = @ \cup {e}] /\ announcing[a] # NoAnnouncement
    BY <1>6 DEF Tell
  <2>2. announcing'[a].told = announcing[a].told \cup {e}
        /\ \A x \in Editors \ {a} : announcing'[x] = announcing[x]
    BY <2>1, LogFacts
  <2> QED BY <2>1, <2>2 DEF Untold
<1>7. CASE EndAnnouncement(e)
  BY <1>1, <1>7 DEF EndAnnouncement, Untold
<1> QED BY <1>2, <1>3, <1>4, <1>5, <1>6, <1>7

\* What is in flight does not change, and the editor may have forgotten more.
LEMMA FlightWeaker ==
  ASSUME NEW r, NEW s, NEW u, NEW v, Flight(r, u), v => u,
         s.upstream = r.upstream, s.inbox = r.inbox, s.inFlight = r.inFlight,
         r.mishaps \subseteq s.mishaps
  PROVE  Flight(s, v)
  BY DEF Flight, Lone, Idle

\* The first message is an operation: the editor waits for its answer.
LEMMA AskedIsInFlight ==
  ASSUME NEW S, NEW up \in Seq(S), up # <<>>, Head(up).kind = "op", NEW in, NEW u
  PROVE  ~Idle(up, in, u)
<1>1. 1 \in Asked(up)
  BY HeadKnown DEF Asked
<1> QED BY <1>1 DEF Idle

\* An editor with nothing in flight may send its next operation.
LEMMA SendsFlight ==
  ASSUME NEW e, NEW q, NEW f, NEW up \in Seq({JoinMsg} \cup OpMsgs(e)), NEW s, NEW in, NEW u,
         Sends(q, f, up, s), s.inbox = in,
         Lone(up, in, u), f = <<>> => Idle(up, in, u)
  PROVE  Flight(s, u)
<1>1. CASE s.queue = q /\ s.inFlight = f /\ s.upstream = up
  BY <1>1 DEF Flight, Lone, Idle
<1>2. CASE /\ f = <<>> /\ s.inFlight = <<Head(q)>>
           /\ s.upstream = Append(up, OpMsg(Head(q), s.version))
  <2>1. Lone(Append(up, OpMsg(Head(q), s.version)), in, u)
    BY <1>2, LoneAppendUp
  <2>2. s.inFlight # <<>>
    <3>1. Len(<<Head(q)>>) = 1 /\ Len(<<>>) = 0
      OBVIOUS
    <3> QED BY <1>2, <3>1
  <2> QED BY <1>2, <2>1, <2>2 DEF Flight, Lone
<1> QED BY <1>1, <1>2 DEF Sends

\* A message that is handled.
LEMMA FlightDelivered ==
  ASSUME Typed, NEW e \in Editors, Deliver(e), NEW u, Flight(editor[e], u)
  PROVE  Flight(editor'[e], u)
<1> DEFINE in == editor[e].inbox
           up == editor[e].upstream
           m  == Head(in)
<1>1. /\ in \in Seq(Answers) /\ in # <<>> /\ m \in Answers
      /\ up \in Seq({JoinMsg} \cup OpMsgs(e))
      /\ editor[e].inFlight \in Seq(Queued(e)) /\ editor[e].queue \in Seq(Queued(e))
      /\ editor'[e].inFlight \in Seq(Queued(e))
  <2>1. editor'[e] \in EditorStates(e)
    BY DeliverEffect DEF Becomes
  <2> QED BY <2>1, EditorFacts, DeliverEffect DEF EditorStates
<1>2. /\ editor'[e].inbox = Tail(in)
      /\ editor[e].mishaps \subseteq editor'[e].mishaps
      /\ m.kind = "snapshot" /\ Pending(editor[e]) # <<>> => "discarded" \in editor'[e].mishaps
  BY DeliverEffect, MishapsFacts
<1>3. CASE m.kind = "snapshot"
  <2>1. editor'[e].upstream = up /\ editor'[e].inFlight = <<>>
    BY <1>3, DeliverEffect
  <2>2. Pending(editor[e]) = <<>> => editor[e].inFlight = <<>>
    BY <1>1 DEF Pending
  <2> HIDE DEF in, up, m
  <2>3. Idle(up, in, u) => Idle(up, Tail(in), u)
    BY <1>1, LoneTailIn
  <2>4. Idle(up, Tail(in), u) => Lone(up, Tail(in), u)
    BY IdleIsLone
  <2>5. "discarded" \in editor'[e].mishaps \/ Idle(up, Tail(in), u)
    BY <1>2, <1>3, <2>2, <2>3 DEF Flight, in, up
  <2> QED BY <1>2, <2>1, <2>4, <2>5 DEF Flight
<1>4. CASE m.kind = "ack"
  <2>1. PICK f \in {editor[e].inFlight, <<>>} : Sends(editor[e].queue, f, up, editor'[e])
    BY <1>4, DeliverEffect
  <2> DEFINE q == editor[e].queue
  <2> HIDE DEF in, up, m, q
  <2>2. Lone(up, in, u) => Idle(up, Tail(in), u)
    BY <1>1, <1>4, LoneTailIn DEF m
  <2>3. Idle(up, Tail(in), u) => Lone(up, Tail(in), u)
    BY IdleIsLone
  <2>4. ASSUME Lone(up, in, u) PROVE Flight(editor'[e], u)
    <3>1. Lone(up, Tail(in), u) /\ (f = <<>> => Idle(up, Tail(in), u))
      BY <2>2, <2>3, <2>4
    <3>2. Sends(q, f, up, editor'[e])
      BY <2>1 DEF q
    <3>3. editor'[e].inbox = Tail(in) /\ up \in Seq({JoinMsg} \cup OpMsgs(e))
      BY <1>1, <1>2
    <3> DEFINE rest == Tail(in)
               s == editor'[e]
    <3>4. /\ Lone(up, rest, u) /\ (f = <<>> => Idle(up, rest, u)) /\ Sends(q, f, up, s)
          /\ s.inbox = rest
      BY <3>1, <3>2, <3>3
    <3> HIDE DEF rest, s
    <3>5. Flight(s, u)
      BY <3>3, <3>4, SendsFlight
    <3> QED BY <3>5 DEF s
  <2>5. Lone(up, in, u) \/ "discarded" \in editor[e].mishaps
    BY DEF Flight, in, up
  <2> QED BY <1>2, <2>4, <2>5 DEF Flight
<1>5. CASE m.kind \in {"broadcast_op", "error"}
  <2>1. /\ editor'[e].upstream = up
        /\ Len(editor'[e].inFlight) = Len(editor[e].inFlight)
    BY <1>5, DeliverEffect DEF SameBut, Fields
  <2>2. editor'[e].inFlight = <<>> => editor[e].inFlight = <<>>
    BY <1>1, <2>1
  <2> HIDE DEF in, up, m
  <2>3. /\ Lone(up, in, u) => Lone(up, Tail(in), u)
        /\ Idle(up, in, u) => Idle(up, Tail(in), u)
    BY <1>1, LoneTailIn
  <2> QED BY <1>2, <2>1, <2>2, <2>3 DEF Flight, in, up
<1> QED BY <1>1, <1>3, <1>4, <1>5, AnswerKinds

\* The server reads a message, and may answer it.
LEMMA FlightReplied ==
  ASSUME Typed, Bounded, NEW e \in Editors, ServeJoin(e) \/ Refuse(e) \/ AcknowledgeNoOp(e),
         NEW u, Flight(editor[e], u)
  PROVE  Flight(editor'[e], u)
<1> DEFINE in == editor[e].inbox
           up == editor[e].upstream
           s  == editor'[e]
<1>1. PICK m \in Answers :
        /\ s.inbox = Append(in, m)
        /\ IF ServeJoin(e) THEN m.kind = "snapshot"
           ELSE m.kind \in {"error", "ack"} /\ Head(up).kind = "op"
  BY ReplyEffect
<1>2. /\ up \in Seq({JoinMsg} \cup OpMsgs(e)) /\ up # <<>> /\ in \in Seq(Answers)
      /\ s.upstream = Tail(up) /\ s.inFlight = editor[e].inFlight /\ s.mishaps = editor[e].mishaps
  BY ReplyEffect, EditorFacts DEF Becomes, SameBut, Fields
<1>3. "discarded" \notin s.mishaps =>
        Lone(up, in, u) /\ (s.inFlight = <<>> => Idle(up, in, u))
  BY <1>2 DEF Flight
<1> HIDE DEF in, up, s
<1>4. CASE m.kind = "snapshot"
  <2>1. Lone(up, in, u) => Lone(Tail(up), Append(in, m), u)
    BY <1>2, <1>4, LoneTailUp, LoneAppendIn
  <2>2. Idle(up, in, u) => Idle(Tail(up), Append(in, m), u)
    BY <1>2, <1>4, LoneTailUp, LoneAppendIn
  <2> QED BY <1>1, <1>2, <1>3, <2>1, <2>2 DEF Flight, s
<1>5. CASE Head(up).kind = "op"
  <2>1. Lone(up, in, u) => Idle(Tail(up), in, u)
    BY <1>2, <1>5, LoneTailUp
  <2>2. Lone(up, in, u) => Lone(Tail(up), Append(in, m), u)
    BY <1>2, <2>1, LoneAppendIn
  <2>3. ~Idle(up, in, u)
    BY <1>2, <1>5, AskedIsInFlight
  <2> QED BY <1>1, <1>2, <1>3, <2>2, <2>3 DEF Flight, s
<1> QED BY <1>1, <1>4, <1>5

\* The server accepts an operation, of which its author is to be told.
LEMMA FlightAccepted ==
  ASSUME Typed, Bounded, NEW e \in Editors, Accept(e), NEW u, NEW v, Flight(editor[e], u)
  PROVE  Flight(editor'[e], v)
<1> DEFINE in == editor[e].inbox
           up == editor[e].upstream
           s  == editor'[e]
<1>1. up # <<>> /\ Head(up).kind = "op" /\ s.upstream = Tail(up) /\ Becomes(e, {"upstream"})
  BY ReceivedEffect DEF Accept, Receive
<1>2. /\ up \in Seq({JoinMsg} \cup OpMsgs(e)) /\ s.inbox = in
      /\ s.inFlight = editor[e].inFlight /\ s.mishaps = editor[e].mishaps
  BY <1>1, EditorFacts DEF Becomes, SameBut, Fields
<1>3. "discarded" \notin s.mishaps =>
        Lone(up, in, u) /\ (s.inFlight = <<>> => Idle(up, in, u))
  BY <1>2 DEF Flight
<1> HIDE DEF in, up, s
<1>4. Lone(up, in, u) => Idle(Tail(up), in, u)
  BY <1>1, <1>2, LoneTailUp
<1>5. Idle(Tail(up), in, u) => Lone(Tail(up), in, v)
  BY DEF Idle, Lone
<1>6. ~Idle(up, in, u)
  BY <1>1, <1>2, AskedIsInFlight
<1> QED BY <1>1, <1>2, <1>3, <1>4, <1>5, <1>6 DEF Flight, s

\* The author is told, and the others are.
LEMMA FlightTold ==
  ASSUME Typed, Bounded, NEW a \in Editors, NEW e \in Editors, Tell(a, e),
         Flight(editor[e], Untold(e))
  PROVE  Flight(editor'[e], Untold(e)')
<1> DEFINE in == editor[e].inbox
           up == editor[e].upstream
           s  == editor'[e]
           u  == Untold(e)
           v  == Untold(e)'
<1>1. PICK m \in Answers : /\ s.inbox = Append(in, m)
                            /\ m.kind = IF e = a THEN "ack" ELSE "broadcast_op"
  BY TellEffect
<1>2. /\ in \in Seq(Answers)
      /\ s.upstream = up /\ s.inFlight = editor[e].inFlight /\ s.mishaps = editor[e].mishaps
  BY TellEffect, EditorFacts DEF Becomes, SameBut, Fields
<1>3. "discarded" \notin s.mishaps =>
        Lone(up, in, u) /\ (s.inFlight = <<>> => Idle(up, in, u))
  BY <1>2 DEF Flight
<1>4. /\ announcing' = [announcing EXCEPT ![a].told = @ \cup {e}]
      /\ announcing[a] # NoAnnouncement /\ e \notin announcing[a].told
  BY DEF Tell
<1>5. /\ announcing'[a].told = announcing[a].told \cup {e}
      /\ \A x \in Editors \ {a} : announcing'[x] = announcing[x]
  BY <1>4, LogFacts
<1>6. CASE e = a
  <2>1. u /\ ~v
    BY <1>4, <1>5, <1>6 DEF Untold
  <2> HIDE DEF in, up, s, u, v
  <2>2. ~Idle(up, in, u) /\ (Lone(up, in, u) => Idle(up, in, v))
    BY <2>1 DEF Idle, Lone
  <2>3. Idle(up, in, v) => Lone(up, Append(in, m), v)
    BY <1>2, LoneAppendIn
  <2> QED BY <1>1, <1>2, <1>3, <2>2, <2>3 DEF Flight, s, v
<1>7. CASE e # a
  <2>1. v <=> u
    BY <1>5, <1>7 DEF Untold
  <2>2. m.kind = "broadcast_op"
    BY <1>1, <1>7
  <2> HIDE DEF in, up, s, u, v
  <2>3. /\ Lone(up, in, u) => Lone(up, in, v)
        /\ Idle(up, in, u) => Idle(up, in, v)
    BY <2>1 DEF Idle, Lone
  <2>4. /\ Lone(up, in, v) => Lone(up, Append(in, m), v)
        /\ Idle(up, in, v) => Idle(up, Append(in, m), v)
    BY <1>2, <2>2, LoneAppendIn
  <2> QED BY <1>1, <1>2, <1>3, <2>3, <2>4 DEF Flight, s, v
<1> QED BY <1>6, <1>7

\* The other steps of an editor.
LEMMA FlightMoved ==
  ASSUME Typed, Bounded, NEW e \in Editors, EditorStep(e),
         ~Deliver(e), ~ServeJoin(e), ~Refuse(e), ~AcknowledgeNoOp(e), ~Accept(e),
         NEW u, Flight(editor[e], u)
  PROVE  \/ Flight(editor'[e], u)
         \/ (Closed(e) \/ Leave(e)) /\ editor'[e].upstream = <<>> /\ editor'[e].inbox = <<>>
<1>1. CASE Mount(e) \/ LoadMetadata(e) \/ Connect(e)
  BY <1>1, MountEffect, FlightWeaker DEF Becomes, SameBut, Fields
<1>2. CASE Opened(e)
  <2>1. /\ editor'[e].upstream = <<JoinMsg>> /\ editor'[e].inbox = editor[e].inbox
        /\ editor'[e].inFlight = editor[e].inFlight /\ editor'[e].mishaps = editor[e].mishaps
    BY <1>2, OpenedEffect DEF Becomes, SameBut, Fields
  <2> QED BY <2>1, EmptyIsIdle DEF Flight, Lone, Idle
<1>3. CASE Render(e)
  BY <1>3, RenderEffect, FlightWeaker DEF Becomes, SameBut, Fields
<1>4. CASE Resync(e)
  <2>1. /\ editor'[e].upstream = editor[e].upstream /\ editor'[e].inbox = editor[e].inbox
        /\ editor[e].mishaps \subseteq editor'[e].mishaps
        /\ Pending(editor[e]) # <<>> => "discarded" \in editor'[e].mishaps
    BY <1>4, ResyncEffect DEF Becomes, SameBut, Fields
  <2>2. /\ editor[e].inFlight \in Seq(Queued(e)) /\ editor[e].queue \in Seq(Queued(e))
    BY EditorFacts
  <2>3. Pending(editor[e]) = <<>> => editor[e].inFlight = <<>>
    BY <2>2 DEF Pending
  <2>4. Idle(editor[e].upstream, editor[e].inbox, u) => Lone(editor[e].upstream, editor[e].inbox, u)
    BY IdleIsLone
  <2> QED BY <2>1, <2>3, <2>4 DEF Flight
<1>5. CASE AcceptStraggler(e)
  <2>1. /\ Becomes(e, {"mishaps"}) /\ editor[e].mishaps \subseteq editor'[e].mishaps
    BY <1>5, UntoldEffect
  <2> QED BY <2>1, FlightWeaker DEF Becomes, SameBut, Fields
<1>6. CASE Type(e)
  <2> DEFINE r == editor[e]
             s == editor'[e]
             up == r.upstream
             in == r.inbox
             f  == r.inFlight
  <2>1. PICK q : Sends(q, f, up, s)
    BY <1>6, TypeEffect
  <2>2. /\ s.inbox = in /\ r.mishaps \subseteq s.mishaps
        /\ up \in Seq({JoinMsg} \cup OpMsgs(e))
    BY <1>6, TypeEffect, EditorFacts DEF Becomes, SameBut, Fields
  <2>3. "discarded" \notin r.mishaps => Lone(up, in, u) /\ (f = <<>> => Idle(up, in, u))
    BY DEF Flight
  <2> HIDE DEF r, s, up, in, f
  <2>4. "discarded" \notin r.mishaps => Flight(s, u)
    BY <2>1, <2>2, <2>3, SendsFlight
  <2>5. "discarded" \in r.mishaps => Flight(s, u)
    BY <2>2 DEF Flight
  <2> QED BY <2>4, <2>5 DEF s
<1>7. CASE Closed(e) \/ Leave(e)
  BY <1>7, ClosedEffect, LeaveEffect
<1>8. CASE AnswerResync(e) \/ AskResync(e) \/ Grant(e) \/ LoseResync(e)
  BY <1>8 DEF AnswerResync, AskResync, Grant, LoseResync, clientVars
<1> QED BY <1>1, <1>2, <1>3, <1>4, <1>5, <1>6, <1>7, <1>8
        DEF EditorStep, Browser, Server, User, World

\* Every step of one editor leaves the others as they are.
LEMMA OthersStay ==
  ASSUME Typed, Bounded, NEW e \in Editors,
         EditorStep(e) \/ (\E a \in Editors : Tell(a, e)) \/ EndAnnouncement(e)
  PROVE  \A x \in Editors \ {e} : editor'[x] = editor[x]
<1>1. CASE EditorStep(e) /\ ~UNCHANGED editor
  <2>1. CASE Mount(e) \/ LoadMetadata(e) \/ Connect(e)
    BY <2>1, MountEffect DEF Becomes
  <2>2. CASE Opened(e) \/ Deliver(e) \/ Render(e) \/ Type(e) \/ Closed(e) \/ Leave(e)
    BY <2>2, OpenedEffect, DeliverEffect, RenderEffect, TypeEffect, ClosedEffect, LeaveEffect
       DEF Becomes
  <2>3. CASE Resync(e) \/ AcceptStraggler(e)
    BY <2>3, ResyncEffect, UntoldEffect DEF Becomes
  <2>4. CASE ServeJoin(e) \/ Refuse(e) \/ AcknowledgeNoOp(e)
    BY <2>4, ReplyEffect DEF Becomes
  <2>5. CASE Accept(e)
    BY <2>5, ReceivedEffect DEF Accept, Receive, Becomes
  <2> QED BY <1>1, <2>1, <2>2, <2>3, <2>4, <2>5
          DEF EditorStep, Browser, Server, User, World, AnswerResync, AskResync, Grant,
              LoseResync, clientVars
<1>2. CASE \E a \in Editors : Tell(a, e)
  BY <1>2, TellEffect DEF Becomes
<1>3. CASE EndAnnouncement(e)
  BY <1>3 DEF EndAnnouncement, clientVars
<1> QED BY <1>1, <1>2, <1>3

\* Every step leaves each editor at most one operation under way.
LEMMA FlightKept ==
  ASSUME Typed, Bounded, FlightInv, SessionNext
  PROVE  FlightInv'
<1>1. CASE UNCHANGED vars
  BY <1>1 DEF FlightInv, Untold, vars, clientVars, serverVars
<1>2. ASSUME NEW e \in Editors,
             EditorStep(e) \/ (\E a \in Editors : Tell(a, e)) \/ EndAnnouncement(e)
      PROVE  FlightInv'
  <2>1. Flight(editor[e], Untold(e))
    BY DEF FlightInv
  <2>2. \A x \in Editors : Untold(x)' => Untold(x) \/ (x = e /\ Accept(e))
    BY <1>2, UntoldKept
  <2>3. ASSUME NEW x \in Editors \ {e} PROVE Flight(editor'[x], Untold(x)')
    <3>1. editor'[x] = editor[x]
      BY <1>2, OthersStay
    <3>2. Untold(x)' => Untold(x)
      BY <2>2
    <3>3. Flight(editor[x], Untold(x))
      BY DEF FlightInv
    <3> DEFINE r == editor[x]
               u == Untold(x)
               v == Untold(x)'
    <3> HIDE DEF r, u, v
    <3>4. Flight(r, u) /\ (v => u) => Flight(r, v)
      BY DEF Flight, Lone, Idle
    <3> QED BY <3>1, <3>2, <3>3, <3>4 DEF r, u, v
  <2>4. Flight(editor'[e], Untold(e)')
    <3> DEFINE u == Untold(e)
               v == Untold(e)'
               s == editor'[e]
    <3>1. CASE \E a \in Editors : Tell(a, e)
      BY <2>1, <3>1, FlightTold
    <3>2. CASE EndAnnouncement(e)
      <4>1. editor' = editor /\ ~v
        BY <3>2, LogFacts DEF EndAnnouncement, clientVars, Untold
      <4>2. Flight(s, u)
        BY <2>1, <4>1
      <4> HIDE DEF u, v, s
      <4>3. Flight(s, v)
        BY <4>1, <4>2 DEF Flight, Lone, Idle
      <4> QED BY <4>3 DEF s, v
    <3>3. CASE Accept(e)
      BY <2>1, <3>3, FlightAccepted
    <3>4. CASE EditorStep(e) /\ ~Accept(e)
      <4>1. v => u
        BY <2>2, <3>4
      <4>2. CASE Flight(s, u)
        <5> HIDE DEF u, v, s
        <5>1. Flight(s, v)
          BY <4>1, <4>2 DEF Flight, Lone, Idle
        <5> QED BY <5>1 DEF s, v
      <4>3. CASE (Closed(e) \/ Leave(e)) /\ s.upstream = <<>> /\ s.inbox = <<>>
        <5>1. ~v
          BY <4>3, AbandonEffect DEF Untold
        <5> HIDE DEF u, v, s
        <5>2. Idle(s.upstream, s.inbox, v)
          BY <4>3, <5>1, EmptyIsIdle DEF Idle
        <5>3. Flight(s, v)
          BY <5>2, IdleIsLone DEF Flight
        <5> QED BY <5>3 DEF s, v
      <4> HIDE DEF u, v, s
      <4>4. CASE Deliver(e)
        BY <2>1, <4>2, <4>4, FlightDelivered DEF u, s
      <4>5. CASE ServeJoin(e) \/ Refuse(e) \/ AcknowledgeNoOp(e)
        BY <2>1, <4>2, <4>5, FlightReplied DEF u, s
      <4>6. CASE ~Deliver(e) /\ ~ServeJoin(e) /\ ~Refuse(e) /\ ~AcknowledgeNoOp(e)
        BY <2>1, <3>4, <4>2, <4>3, <4>6, FlightMoved DEF u, s
      <4> QED BY <4>4, <4>5, <4>6
    <3> QED BY <1>2, <3>1, <3>2, <3>3, <3>4
  <2>5. \A x \in Editors : Flight(editor'[x], Untold(x)')
    BY <2>3, <2>4
  <2> QED BY <2>5 DEF FlightInv
<1>3. UNCHANGED vars \/ \E e \in Editors :
        EditorStep(e) \/ (\E a \in Editors : Tell(a, e)) \/ EndAnnouncement(e)
  BY DEF SessionNext, Announce
<1> QED BY <1>1, <1>2, <1>3

\* Nothing is under way initially.
LEMMA FlightStarts ==
  ASSUME Init
  PROVE  FlightInv
<1> SUFFICES ASSUME NEW e \in Editors PROVE Flight(editor[e], Untold(e))
  BY DEF FlightInv
<1>1. editor[e].upstream = <<>> /\ editor[e].inbox = <<>>
  BY DEF Init, InitialEditor
<1>2. ~Untold(e)
  BY DEF Init, Untold
<1>3. Idle(editor[e].upstream, editor[e].inbox, Untold(e))
  BY <1>1, <1>2, EmptyIsIdle DEF Idle
<1> QED BY <1>3, IdleIsLone DEF Flight

\* What is asked, accepted and answered of an editor is one operation.
LEMMA FlightMeans ==
  ASSUME FlightInv
  PROVE  OneOperationInFlight
<1> SUFFICES ASSUME NEW e \in Editors, "discarded" \notin editor[e].mishaps
             PROVE  \A x, y \in Unanswered(e) : x = y
  BY DEF OneOperationInFlight
<1> DEFINE up == editor[e].upstream
           in == editor[e].inbox
           n  == announcing[e].version
           A  == {<<"sent", i>> : i \in Asked(up)}
           B  == {<<"accepted", i>> : i \in {v \in {n} : Untold(e)}}
           C  == {<<"answered", i>> : i \in Replies(in)}
<1>1. Lone(up, in, Untold(e))
  BY DEF FlightInv, Flight
<1>2. Unanswered(e) = A \cup B \cup C
  BY DEF Unanswered, Asked, Replies, Untold
<1> HIDE DEF up, in, n
<1>3. ASSUME Asked(up) # {} PROVE \A x, y \in A \cup B \cup C : x = y
  <2>1. B = {} /\ C = {}
    BY <1>1, <1>3 DEF Lone
  <2>2. \A i, j \in Asked(up) : i = j
    BY <1>1 DEF Lone
  <2> QED BY <2>1, <2>2
<1>4. ASSUME Asked(up) = {}, Untold(e) PROVE \A x, y \in A \cup B \cup C : x = y
  <2>1. A = {} /\ C = {}
    BY <1>1, <1>4 DEF Lone
  <2> QED BY <2>1
<1>5. ASSUME Asked(up) = {}, ~Untold(e) PROVE \A x, y \in A \cup B \cup C : x = y
  <2>1. A = {} /\ B = {}
    BY <1>5
  <2>2. \A i, j \in Replies(in) : i = j
    BY <1>1 DEF Lone
  <2> QED BY <2>1, <2>2
<1> HIDE DEF A, B, C
<1>6. \A x, y \in A \cup B \cup C : x = y
  BY <1>3, <1>4, <1>5
<1> QED BY <1>2, <1>6

-----------------------------------------------------------------------------
(* The order of an editor's operations.                                    *)

\* Of a sequence of operations, those at the places I.
Ascending(s, I)   == \A i, j \in I : i < j => s[i].id.op < s[j].id.op
Below(s, I, t, J) == \A i \in I, j \in J : s[i].id.op < t[j].id.op
UpTo(s, I, n)     == \A i \in I : s[i].id.op \in 0..n

Logged(l, e) == {v \in DOMAIN l : l[v].id.client = e}

\* The operations of editor e stand in the order they were typed, from those
\* accepted to those that wait, and none has a number above n.
Line(e, l, st, up, q, n) ==
  /\ UpTo(l, Logged(l, e), n) /\ UpTo(st, DOMAIN st, n)
  /\ UpTo(up, Asked(up), n) /\ UpTo(q, DOMAIN q, n)
  /\ Ascending(l, Logged(l, e)) /\ Ascending(st, DOMAIN st)
  /\ Ascending(up, Asked(up)) /\ Ascending(q, DOMAIN q)
  /\ Below(l, Logged(l, e), st, DOMAIN st)
  /\ Below(l, Logged(l, e), up, Asked(up))
  /\ Below(l, Logged(l, e), q, DOMAIN q)
  /\ Below(st, DOMAIN st, q, DOMAIN q)
  /\ Below(up, Asked(up), q, DOMAIN q)

\* So they do as long as the socket did not close; what was on the socket is a
\* straggler once the user left.
OrderInv ==
  \A e \in Editors : closes[e] = 0 =>
    /\ Line(e, log, stragglers[e], editor[e].upstream, editor[e].queue, 2 * typed[e] + 1)
    /\ IF editor[e].socket = "gone" THEN editor[e].upstream = <<>> ELSE stragglers[e] = <<>>

\* The first operation of the queue is sent.
LEMMA LineSends ==
  ASSUME NEW e, NEW l, NEW st, NEW S, NEW up \in Seq(S), NEW Q, NEW q \in Seq(Q), NEW n,
         Line(e, l, st, up, q, n), q # <<>>, NEW m, m.kind = "op", m.id = Head(q).id
  PROVE  Line(e, l, st, Append(up, m), Tail(q), n)
<1> DEFINE up2 == Append(up, m)
           q2  == Tail(q)
<1>1. \A i \in Asked(up2) : \/ i \in Asked(up) /\ up2[i] = up[i]
                            \/ i = Len(up) + 1 /\ up2[i] = m
  <2>1. \A i \in DOMAIN up2 : \/ i \in DOMAIN up /\ up2[i] = up[i]
                              \/ i = Len(up) + 1 /\ up2[i] = m
    BY AppendKnown
  <2> HIDE DEF up2, q2
  <2>2. ASSUME NEW i \in DOMAIN up2, up2[i].kind = "op"
        PROVE  \/ i \in Asked(up) /\ up2[i] = up[i]
               \/ i = Len(up) + 1 /\ up2[i] = m
    <3>1. CASE i \in DOMAIN up /\ up2[i] = up[i]
      <4>1. i \in DOMAIN up /\ up[i].kind = "op"
        BY <2>2, <3>1
      <4>2. i \in Asked(up)
        BY <4>1 DEF Asked
      <4> QED BY <3>1, <4>2
    <3>2. CASE i = Len(up) + 1 /\ up2[i] = m
      BY <3>2
    <3> QED BY <2>1, <2>2, <3>1, <3>2
  <2>3. \A i \in Asked(up2) : i \in DOMAIN up2 /\ up2[i].kind = "op"
    BY DEF Asked
  <2> QED BY <2>2, <2>3
<1>2. \A i \in DOMAIN q2 : i + 1 \in DOMAIN q /\ q2[i] = q[i + 1] /\ i \in Nat /\ i # 0
  BY TailKnown
<1>3. 1 \in DOMAIN q /\ q[1].id = m.id
  BY HeadKnown
<1>4. Len(up) \in Nat /\ \A i \in Asked(up) : i \in 1..Len(up)
  BY DEF Asked
<1> HIDE DEF up2, q2
<1>5. /\ UpTo(up2, Asked(up2), n) /\ UpTo(q2, DOMAIN q2, n)
  BY <1>1, <1>2, <1>3 DEF Line, UpTo
<1>6. Ascending(up2, Asked(up2))
  BY <1>1, <1>3, <1>4 DEF Line, Ascending, Below
<1>7. Ascending(q2, DOMAIN q2)
  BY <1>2 DEF Line, Ascending
<1>8. Below(l, Logged(l, e), up2, Asked(up2)) /\ Below(l, Logged(l, e), q2, DOMAIN q2)
  BY <1>1, <1>2, <1>3 DEF Line, Below
<1>9. Below(st, DOMAIN st, q2, DOMAIN q2)
  BY <1>2 DEF Line, Below
<1>10. Below(up2, Asked(up2), q2, DOMAIN q2)
  <2> SUFFICES ASSUME NEW i \in Asked(up2), NEW j \in DOMAIN q2
               PROVE  up2[i].id.op < q2[j].id.op
    BY DEF Below
  <2>1. j + 1 \in DOMAIN q /\ q2[j] = q[j + 1] /\ 1 < j + 1
    BY <1>2
  <2>2. q[1].id.op < q[j + 1].id.op
    BY <1>3, <2>1 DEF Line, Ascending
  <2> QED BY <1>1, <1>3, <2>1, <2>2 DEF Line, Below
<1> QED BY <1>5, <1>6, <1>7, <1>8, <1>9, <1>10 DEF Line, up2, q2

\* A message of the socket is read, and dropped.
LEMMA LineReads ==
  ASSUME NEW e, NEW l, NEW st, NEW S, NEW up \in Seq(S), NEW q, NEW n,
         Line(e, l, st, up, q, n), up # <<>>
  PROVE  Line(e, l, st, Tail(up), q, n)
<1> DEFINE up2 == Tail(up)
<1>1. \A i \in Asked(up2) : i + 1 \in Asked(up) /\ up2[i] = up[i + 1] /\ i \in Nat
  <2>1. \A i \in DOMAIN up2 : i + 1 \in DOMAIN up /\ up2[i] = up[i + 1] /\ i \in Nat
    BY TailKnown
  <2> HIDE DEF up2
  <2> QED BY <2>1 DEF Asked
<1> HIDE DEF up2
<1>2. UpTo(up2, Asked(up2), n) /\ Ascending(up2, Asked(up2))
  BY <1>1 DEF Line, UpTo, Ascending
<1>3. Below(l, Logged(l, e), up2, Asked(up2)) /\ Below(up2, Asked(up2), q, DOMAIN q)
  BY <1>1 DEF Line, Below
<1> QED BY <1>2, <1>3 DEF Line, up2

\* A straggler is read, and dropped.
LEMMA LineStraggles ==
  ASSUME NEW e, NEW l, NEW S, NEW st \in Seq(S), NEW up, NEW q, NEW n,
         Line(e, l, st, up, q, n), st # <<>>
  PROVE  Line(e, l, Tail(st), up, q, n)
<1> DEFINE st2 == Tail(st)
<1>1. \A i \in DOMAIN st2 : i + 1 \in DOMAIN st /\ st2[i] = st[i + 1] /\ i \in Nat
  BY TailKnown
<1> HIDE DEF st2
<1>2. UpTo(st2, DOMAIN st2, n) /\ Ascending(st2, DOMAIN st2)
  BY <1>1 DEF Line, UpTo, Ascending
<1>3. Below(l, Logged(l, e), st2, DOMAIN st2) /\ Below(st2, DOMAIN st2, q, DOMAIN q)
  BY <1>1 DEF Line, Below
<1> QED BY <1>2, <1>3 DEF Line, st2

\* The queue is forgotten, or its operations are transformed.
LEMMA LineForgets ==
  ASSUME NEW e, NEW l, NEW st, NEW up, NEW q, NEW n, Line(e, l, st, up, q, n),
         NEW q2, DOMAIN q2 \subseteq DOMAIN q, \A i \in DOMAIN q2 : q2[i].id = q[i].id
  PROVE  Line(e, l, st, up, q2, n)
<1>1. UpTo(q2, DOMAIN q2, n) /\ Ascending(q2, DOMAIN q2)
  BY DEF Line, UpTo, Ascending
<1>2. Below(l, Logged(l, e), q2, DOMAIN q2) /\ Below(st, DOMAIN st, q2, DOMAIN q2)
      /\ Below(up, Asked(up), q2, DOMAIN q2)
  BY DEF Line, Below
<1> QED BY <1>1, <1>2 DEF Line

\* The log gets one more entry.
Follows(l2, l, id) ==
  /\ DOMAIN l2 = 1..(Len(l) + 1) /\ l2[Len(l) + 1].id = id
  /\ \A v \in DOMAIN l : l2[v] = l[v]

\* What a step adds to the accepted operations of an editor.
LEMMA LoggedFollows ==
  ASSUME NEW e, NEW S, NEW l \in Seq(S), NEW l2, NEW id, Follows(l2, l, id)
  PROVE  /\ Len(l) \in Nat /\ \A v \in Logged(l, e) : v \in 1..Len(l)
         /\ \A v \in Logged(l2, e) :
              \/ v \in Logged(l, e) /\ l2[v] = l[v]
              \/ v = Len(l) + 1 /\ l2[v].id = id /\ id.client = e
<1>1. Len(l) \in Nat /\ DOMAIN l = 1..Len(l)
  OBVIOUS
<1>2. \A v \in DOMAIN l2 : v \in DOMAIN l \/ v = Len(l) + 1
  BY <1>1 DEF Follows
<1> QED BY <1>1, <1>2 DEF Follows, Logged

\* An operation of another editor is accepted.
LEMMA LineUndisturbed ==
  ASSUME NEW e, NEW S, NEW l \in Seq(S), NEW st, NEW up, NEW q, NEW n,
         Line(e, l, st, up, q, n), NEW l2, NEW id, Follows(l2, l, id), id.client # e
  PROVE  Line(e, l2, st, up, q, n)
<1>1. \A v \in Logged(l2, e) : v \in Logged(l, e) /\ l2[v] = l[v]
  BY LoggedFollows
<1>2. UpTo(l2, Logged(l2, e), n) /\ Ascending(l2, Logged(l2, e))
  BY <1>1 DEF Line, UpTo, Ascending
<1>3. /\ Below(l2, Logged(l2, e), st, DOMAIN st) /\ Below(l2, Logged(l2, e), up, Asked(up))
      /\ Below(l2, Logged(l2, e), q, DOMAIN q)
  BY <1>1 DEF Line, Below
<1> QED BY <1>2, <1>3 DEF Line

\* The first operation of the socket is accepted.
LEMMA LineAccepts ==
  ASSUME NEW e, NEW S, NEW l \in Seq(S), NEW st, NEW T, NEW up \in Seq(T), NEW q, NEW n,
         Line(e, l, st, up, q, n), up # <<>>, Head(up).kind = "op", st = <<>>,
         NEW l2, Follows(l2, l, Head(up).id)
  PROVE  Line(e, l2, st, Tail(up), q, n)
<1> DEFINE up2 == Tail(up)
<1>1. \A i \in Asked(up2) : i + 1 \in Asked(up) /\ up2[i] = up[i + 1] /\ i \in Nat /\ i # 0
  <2>1. \A i \in DOMAIN up2 : i + 1 \in DOMAIN up /\ up2[i] = up[i + 1] /\ i \in Nat /\ i # 0
    BY TailKnown
  <2> HIDE DEF up2
  <2> QED BY <2>1 DEF Asked
<1>2. 1 \in Asked(up) /\ Head(up) = up[1]
  BY HeadKnown DEF Asked
<1>3. /\ Len(l) \in Nat /\ \A v \in Logged(l, e) : v \in 1..Len(l)
      /\ \A v \in Logged(l2, e) : \/ v \in Logged(l, e) /\ l2[v] = l[v]
                                  \/ v = Len(l) + 1 /\ l2[v].id = up[1].id
  BY <1>2, LoggedFollows
<1>4. \A i : i \notin DOMAIN st
  OBVIOUS
<1> HIDE DEF up2
<1>5. Line(e, l, st, up2, q, n)
  BY LineReads DEF up2
<1>6. UpTo(l2, Logged(l2, e), n)
  BY <1>2, <1>3 DEF Line, UpTo
<1>7. Ascending(l2, Logged(l2, e))
  BY <1>2, <1>3 DEF Line, Ascending, Below
<1>8. Below(l2, Logged(l2, e), st, DOMAIN st)
  BY <1>4 DEF Below
<1>9. Below(l2, Logged(l2, e), up2, Asked(up2))
  <2> SUFFICES ASSUME NEW v \in Logged(l2, e), NEW i \in Asked(up2)
               PROVE  l2[v].id.op < up2[i].id.op
    BY DEF Below
  <2>1. i + 1 \in Asked(up) /\ up2[i] = up[i + 1] /\ 1 < i + 1
    BY <1>1
  <2>2. up[1].id.op < up[i + 1].id.op
    BY <1>2, <2>1 DEF Line, Ascending
  <2> QED BY <1>3, <2>1, <2>2 DEF Line, Below
<1>10. Below(l2, Logged(l2, e), q, DOMAIN q)
  BY <1>2, <1>3 DEF Line, Below
<1> QED BY <1>5, <1>6, <1>7, <1>8, <1>9, <1>10 DEF Line, up2

\* The first straggler is accepted.
LEMMA LineAcceptsLate ==
  ASSUME NEW e, NEW S, NEW l \in Seq(S), NEW T, NEW st \in Seq(T), NEW up, NEW q, NEW n,
         Line(e, l, st, up, q, n), st # <<>>, up = <<>>,
         NEW l2, Follows(l2, l, Head(st).id)
  PROVE  Line(e, l2, Tail(st), up, q, n)
<1> DEFINE st2 == Tail(st)
<1>1. \A i \in DOMAIN st2 : i + 1 \in DOMAIN st /\ st2[i] = st[i + 1] /\ i \in Nat /\ i # 0
  BY TailKnown
<1>2. 1 \in DOMAIN st /\ Head(st) = st[1]
  BY HeadKnown
<1>3. /\ Len(l) \in Nat /\ \A v \in Logged(l, e) : v \in 1..Len(l)
      /\ \A v \in Logged(l2, e) : \/ v \in Logged(l, e) /\ l2[v] = l[v]
                                  \/ v = Len(l) + 1 /\ l2[v].id = st[1].id
  BY <1>2, LoggedFollows
<1>4. Asked(up) = {}
  BY EmptyIsIdle
<1> HIDE DEF st2
<1>5. Line(e, l, st2, up, q, n)
  BY LineStraggles DEF st2
<1>6. UpTo(l2, Logged(l2, e), n)
  BY <1>2, <1>3 DEF Line, UpTo
<1>7. Ascending(l2, Logged(l2, e))
  BY <1>2, <1>3 DEF Line, Ascending, Below
<1>8. Below(l2, Logged(l2, e), st2, DOMAIN st2)
  <2> SUFFICES ASSUME NEW v \in Logged(l2, e), NEW i \in DOMAIN st2
               PROVE  l2[v].id.op < st2[i].id.op
    BY DEF Below
  <2>1. i + 1 \in DOMAIN st /\ st2[i] = st[i + 1] /\ 1 < i + 1
    BY <1>1
  <2>2. st[1].id.op < st[i + 1].id.op
    BY <1>2, <2>1 DEF Line, Ascending
  <2> QED BY <1>3, <2>1, <2>2 DEF Line, Below
<1>9. Below(l2, Logged(l2, e), up, Asked(up))
  BY <1>4 DEF Below
<1>10. Below(l2, Logged(l2, e), q, DOMAIN q)
  BY <1>2, <1>3 DEF Line, Below
<1> QED BY <1>5, <1>6, <1>7, <1>8, <1>9, <1>10 DEF Line, st2

\* An editor may send the first operation of its queue.
LEMMA LineMaySend ==
  ASSUME NEW e, NEW l, NEW st, NEW S, NEW up \in Seq(S), NEW Q, NEW q \in Seq(Q), NEW n,
         Line(e, l, st, up, q, n), NEW f, NEW s, Sends(q, f, up, s)
  PROVE  Line(e, l, st, s.upstream, s.queue, n)
<1>1. CASE s.queue = q /\ s.upstream = up
  BY <1>1
<1>2. CASE /\ q # <<>> /\ s.queue = Tail(q)
           /\ s.upstream = Append(up, OpMsg(Head(q), s.version))
  <2> DEFINE m == OpMsg(Head(q), s.version)
  <2>1. m.kind = "op" /\ m.id = Head(q).id
    BY DEF OpMsg
  <2> HIDE DEF m
  <2>2. Line(e, l, st, Append(up, m), Tail(q), n)
    BY <1>2, <2>1, LineSends
  <2> QED BY <1>2, <2>2 DEF m
<1> QED BY <1>1, <1>2 DEF Sends

\* The user types.
LEMMA LineTypes ==
  ASSUME NEW e, NEW l, NEW st, NEW up, NEW Q, NEW q \in Seq(Q), NEW n \in Nat,
         Line(e, l, st, up, q, n), NEW ops \in Seq(Q), Len(ops) \in {1, 2},
         \A i \in DOMAIN ops : ops[i].id.op = n + i
  PROVE  Line(e, l, st, up, q \o ops, n + 2)
<1> DEFINE q2 == q \o ops
<1>1. Len(q) \in Nat /\ DOMAIN q = 1..Len(q) /\ DOMAIN ops = 1..Len(ops)
  OBVIOUS
<1>2. ASSUME NEW i \in DOMAIN q2
      PROVE  \/ i \in DOMAIN q /\ q2[i] = q[i]
             \/ /\ i - Len(q) \in DOMAIN ops /\ q2[i] = ops[i - Len(q)]
                /\ i \in Nat /\ Len(q) < i
  <2>1. DOMAIN q2 = 1..(Len(q) + Len(ops)) /\ Len(ops) \in Nat
    OBVIOUS
  <2>2. q2[i] = IF i <= Len(q) THEN q[i] ELSE ops[i - Len(q)]
    BY <1>2, <2>1
  <2> QED BY <1>1, <1>2, <2>1, <2>2
<1> HIDE DEF q2
<1>3. \A i \in DOMAIN q2 :
        \/ i \in DOMAIN q /\ q2[i] = q[i]
        \/ /\ i \in Nat /\ Len(q) < i /\ i - Len(q) \in 1..2
           /\ q2[i].id.op = n + (i - Len(q))
  BY <1>1, <1>2
<1>4. /\ UpTo(l, Logged(l, e), n + 2) /\ UpTo(st, DOMAIN st, n + 2) /\ UpTo(up, Asked(up), n + 2)
  BY DEF Line, UpTo
<1>5. UpTo(q2, DOMAIN q2, n + 2)
  BY <1>3 DEF Line, UpTo
<1>6. Ascending(q2, DOMAIN q2)
  BY <1>1, <1>3 DEF Line, UpTo, Ascending
<1>7. Below(l, Logged(l, e), q2, DOMAIN q2)
  BY <1>3 DEF Line, UpTo, Below
<1>8. Below(st, DOMAIN st, q2, DOMAIN q2)
  BY <1>3 DEF Line, UpTo, Below
<1>9. Below(up, Asked(up), q2, DOMAIN q2)
  BY <1>3 DEF Line, UpTo, Below
<1> QED BY <1>4, <1>5, <1>6, <1>7, <1>8, <1>9 DEF Line, q2

\* The user leaves the page: what is on the socket straggles, what waits is lost.
LEMMA LineLeaves ==
  ASSUME NEW e, NEW l, NEW st, NEW up \in Seq({JoinMsg} \cup OpMsgs(e)), JoinFirst(up),
         NEW q, NEW n, Line(e, l, st, up, q, n)
  PROVE  Line(e, l, Sent(up), <<>>, <<>>, n)
<1> DEFINE s == Sent(up)
<1>1. \A i \in DOMAIN up : up[i] \in {JoinMsg} \cup OpMsgs(e)
  OBVIOUS
<1>2. \A i \in DOMAIN up : up[i].kind \in {"join", "op"}
  BY <1>1 DEF JoinMsg, OpMsgs
<1>3. \E k \in {0, 1} : \A i \in DOMAIN s : i + k \in Asked(up) /\ s[i] = up[i + k] /\ i \in Nat
  <2>1. CASE up # <<>> /\ Head(up).kind = "join"
    <3>1. \A i \in DOMAIN Tail(up) :
             i + 1 \in DOMAIN up /\ Tail(up)[i] = up[i + 1] /\ i \in Nat /\ i # 0
      BY <2>1, TailKnown
    <3>2. s = Tail(up)
      BY <2>1 DEF Sent
    <3> HIDE DEF s
    <3>3. \A i \in DOMAIN s : i + 1 \in Asked(up) /\ s[i] = up[i + 1] /\ i \in Nat
      BY <3>1, <3>2 DEF JoinFirst, Asked
    <3> QED BY <3>3
  <2>2. CASE ~(up # <<>> /\ Head(up).kind = "join")
    <3>1. s = up
      BY <2>2 DEF Sent
    <3>2. \A i \in DOMAIN up : i \in Nat /\ up # <<>> /\ Head(up) = up[1]
      OBVIOUS
    <3>3. \A i \in DOMAIN up : i \in Asked(up) /\ i + 0 = i /\ i \in Nat
      BY <1>2, <2>2, <3>2 DEF JoinFirst, Asked
    <3> HIDE DEF s
    <3> QED BY <3>1, <3>3
  <2> QED BY <2>1, <2>2
<1>4. \A i : i \notin DOMAIN <<>>
  OBVIOUS
<1>5. Asked(<<>>) = {}
  BY EmptyIsIdle
<1> HIDE DEF s
<1>6. PICK k \in {0, 1} : \A i \in DOMAIN s : i + k \in Asked(up) /\ s[i] = up[i + k] /\ i \in Nat
  BY <1>3
<1>7. UpTo(s, DOMAIN s, n) /\ Ascending(s, DOMAIN s)
  BY <1>6 DEF Line, UpTo, Ascending
<1>8. Below(l, Logged(l, e), s, DOMAIN s)
  BY <1>6 DEF Line, Below
<1> DEFINE none == <<>>
<1>9. DOMAIN none = {} /\ Asked(none) = {}
  BY <1>4, <1>5
<1> HIDE DEF none
<1>10. Line(e, l, s, none, none, n)
  BY <1>7, <1>8, <1>9 DEF Line, UpTo, Ascending, Below
<1> QED BY <1>10 DEF s, none

\* Nothing is accepted initially.
LEMMA OrderStarts ==
  ASSUME Init
  PROVE  OrderInv
<1> SUFFICES ASSUME NEW e \in Editors
             PROVE  /\ Line(e, log, stragglers[e], editor[e].upstream, editor[e].queue,
                            2 * typed[e] + 1)
                    /\ IF editor[e].socket = "gone" THEN editor[e].upstream = <<>>
                       ELSE stragglers[e] = <<>>
  BY DEF OrderInv
<1>1. /\ editor[e].upstream = <<>> /\ editor[e].queue = <<>> /\ editor[e].socket = "none"
      /\ log = <<>> /\ stragglers[e] = <<>>
  BY DEF Init, InitialEditor
<1> DEFINE none == <<>>
<1>2. DOMAIN none = {} /\ Asked(none) = {}
  <2>1. \A i : i \notin DOMAIN <<>>
    OBVIOUS
  <2> QED BY <2>1, EmptyIsIdle
<1> HIDE DEF none
<1>3. Logged(none, e) = {}
  BY <1>2 DEF Logged
<1>4. Line(e, none, none, none, none, 2 * typed[e] + 1)
  BY <1>2, <1>3 DEF Line, UpTo, Ascending, Below
<1> QED BY <1>1, <1>4 DEF none

\* The log follows the one before, by one operation of one editor at most.
LEMMA LogFollows ==
  ASSUME Typed, Bounded, NEW e \in Editors, EditorStep(e)
  PROVE  \/ log' = log /\ ~Accept(e)
         \/ /\ Accept(e) /\ Head(editor[e].upstream).id.client = e
            /\ Follows(log', log, Head(editor[e].upstream).id)
         \/ /\ AcceptStraggler(e) /\ Head(stragglers[e]).id.client = e
            /\ Follows(log', log, Head(stragglers[e]).id)
<1>1. ASSUME NEW m \in OpMsgs(e), m.base <= Version, NEW told \in SUBSET Editors,
             Append2Log(e, m, told)
      PROVE  m.id.client = e /\ Follows(log', log, m.id)
  <2>1. /\ log' \in Seq(Entries) /\ Len(log') = Version + 1
        /\ log'[Version + 1].id = m.id
        /\ \A v \in 1..Version : log'[v] = log[v]
    BY <1>1, AppendEffect
  <2>2. DOMAIN log' = 1..(Len(log) + 1) /\ DOMAIN log = 1..Len(log)
    BY <2>1, LogFacts DEF Version
  <2> QED BY <2>1, <2>2 DEF Follows, Version, OpMsgs
<1>2. CASE Accept(e)
  <2>1. {} \in SUBSET Editors
    OBVIOUS
  <2> QED BY <1>1, <1>2, <2>1, AcceptEffect
<1>3. CASE AcceptStraggler(e)
  <2>1. {e} \in SUBSET Editors
    OBVIOUS
  <2>2. CASE Append2Log(e, Head(stragglers[e]), {e})
    BY <1>1, <1>3, <2>1, <2>2, StragglerEffect
  <2>3. CASE UNCHANGED <<log, texts, announcing>>
    BY <1>2, <2>3
  <2> QED BY <1>3, <2>2, <2>3, StragglerEffect
<1>4. CASE ~Accept(e) /\ ~AcceptStraggler(e)
  BY <1>4 DEF EditorStep, Browser, Server, User, World, Render, LoseResync, Mount,
     LoadMetadata, Connect, Opened, Deliver, Resync, ServeJoin, Refuse, AcknowledgeNoOp,
     AnswerResync, Type, AskResync, Closed, Leave, Grant, serverVars
<1> QED BY <1>2, <1>3, <1>4

\* The step of an editor whose socket is open yet keeps its line.
LEMMA OwnLineKept ==
  ASSUME Typed, Bounded, NEW e \in Editors, EditorStep(e), closes[e] = 0, closes'[e] = 0,
         NEW n, n = 2 * typed[e] + 1,
         Line(e, log, stragglers[e], editor[e].upstream, editor[e].queue, n),
         IF editor[e].socket = "gone" THEN editor[e].upstream = <<>> ELSE stragglers[e] = <<>>
  PROVE  /\ Line(e, log', stragglers'[e], editor'[e].upstream, editor'[e].queue,
                 2 * typed'[e] + 1)
         /\ IF editor'[e].socket = "gone" THEN editor'[e].upstream = <<>>
            ELSE stragglers'[e] = <<>>
<1> DEFINE st == stragglers[e]
           up == editor[e].upstream
           q  == editor[e].queue
           s  == editor'[e]
           Goal == /\ Line(e, log', stragglers'[e], s.upstream, s.queue, 2 * typed'[e] + 1)
                   /\ IF s.socket = "gone" THEN s.upstream = <<>> ELSE stragglers'[e] = <<>>
<1>1. /\ log \in Seq(Entries) /\ st \in Seq(OpMsgs(e))
      /\ up \in Seq({JoinMsg} \cup OpMsgs(e)) /\ JoinFirst(up) /\ q \in Seq(Queued(e))
      /\ n \in Nat
  BY EditorFacts, LogFacts DEF Typed
<1>2. /\ Line(e, log, st, up, q, n)
      /\ IF editor[e].socket = "gone" THEN up = <<>> ELSE st = <<>>
  OBVIOUS
<1>3. \/ /\ log' = log /\ ~Accept(e)
      \/ /\ Accept(e) /\ Follows(log', log, Head(up).id)
      \/ /\ AcceptStraggler(e) /\ Follows(log', log, Head(st).id)
  BY LogFollows
<1>4. DOMAIN stragglers = Editors
  BY DEF Typed
<1>5. CASE Mount(e) \/ LoadMetadata(e) \/ Connect(e)
  <2>1. UNCHANGED <<log, typed, stragglers>>
    BY <1>5 DEF Mount, LoadMetadata, Connect, serverVars, userVars
  <2>2. s.upstream = up /\ s.queue = q /\ (s.socket = "gone" <=> editor[e].socket = "gone")
    BY <1>5, MountEffect DEF Becomes, SameBut, Fields
  <2> QED BY <1>2, <2>1, <2>2
<1>6. CASE Opened(e)
  <2>1. UNCHANGED <<log, typed, stragglers>>
    BY <1>6 DEF Opened, serverVars, userVars
  <2>2. /\ s.upstream = <<JoinMsg>> /\ s.queue = q
        /\ s.socket = "open" /\ editor[e].socket = "connecting"
    BY <1>6, OpenedEffect DEF Becomes, SameBut, Fields
  <2>3. Asked(s.upstream) = {}
    BY <2>2, EmptyIsIdle
  <2>4. Line(e, log, st, s.upstream, q, n)
    BY <1>2, <2>3 DEF Line, UpTo, Ascending, Below
  <2> QED BY <1>2, <2>1, <2>2, <2>4
<1>7. CASE Render(e) \/ AnswerResync(e) \/ AskResync(e) \/ Grant(e) \/ LoseResync(e)
  <2>1. UNCHANGED <<log, typed, stragglers>>
    BY <1>7 DEF Render, AnswerResync, AskResync, Grant, LoseResync, serverVars, userVars
  <2>2. s.upstream = up /\ s.queue = q /\ s.socket = editor[e].socket
    <3>1. CASE Render(e)
      BY <3>1, RenderEffect DEF Becomes, SameBut, Fields
    <3>2. CASE ~Render(e)
      BY <1>7, <3>2 DEF AnswerResync, AskResync, Grant, LoseResync, clientVars
    <3> QED BY <3>1, <3>2
  <2> QED BY <1>2, <2>1, <2>2
<1>8. CASE Deliver(e)
  <2>1. UNCHANGED <<log, typed, stragglers>>
    BY <1>8 DEF Deliver, serverVars, userVars
  <2> DEFINE m == Head(editor[e].inbox)
  <2>2. m \in Answers /\ s.socket = editor[e].socket
    BY <1>8, DeliverEffect DEF Becomes, SameBut, Fields
  <2>3. CASE m.kind = "ack"
    <3>1. PICK f : Sends(q, f, up, s)
      BY <1>8, <2>3, DeliverEffect
    <3>2. s.socket = "gone" => s.upstream = up
      BY <3>1 DEF Sends
    <3> HIDE DEF st, up, q, s
    <3>3. Line(e, log, st, s.upstream, s.queue, n)
      BY <1>1, <1>2, <3>1, LineMaySend
    <3> QED BY <1>2, <2>1, <2>2, <3>2, <3>3 DEF st, s
  <2>4. CASE m.kind \in {"snapshot", "broadcast_op", "error"}
    <3>1. /\ s.upstream = up
          /\ s.queue = <<>> \/ /\ Len(s.queue) = Len(q)
                               /\ \A i \in DOMAIN q : s.queue[i].id = q[i].id
      <4>1. CASE m.kind = "snapshot"
        BY <1>8, <4>1, DeliverEffect
      <4>2. CASE m.kind = "broadcast_op"
        BY <1>8, <4>2, DeliverEffect
      <4>3. CASE m.kind = "error"
        BY <1>8, <4>3, DeliverEffect DEF SameBut, Fields
      <4> QED BY <2>4, <4>1, <4>2, <4>3
    <3>2. s.queue \in Seq(Queued(e))
      BY <1>8, DeliverEffect DEF Becomes, EditorStates
    <3> DEFINE p == s.queue
    <3>3. DOMAIN p \subseteq DOMAIN q /\ \A i \in DOMAIN p : p[i].id = q[i].id
      <4>1. DOMAIN <<>> = {}
        OBVIOUS
      <4> HIDE DEF p
      <4>2. CASE p = <<>>
        BY <4>1, <4>2
      <4>3. CASE Len(p) = Len(q) /\ \A i \in DOMAIN q : p[i].id = q[i].id
        BY <1>1, <3>2, <4>3 DEF p
      <4> QED BY <3>1, <4>2, <4>3 DEF p
    <3> HIDE DEF st, up, q, p
    <3>4. Line(e, log, st, up, p, n)
      BY <1>2, <3>3, LineForgets
    <3> QED BY <1>2, <2>1, <2>2, <3>1, <3>4 DEF st, up, p
  <2> QED BY <2>2, <2>3, <2>4, AnswerKinds
<1>9. CASE Resync(e)
  <2>1. UNCHANGED <<log, typed, stragglers>>
    BY <1>9 DEF Resync, serverVars
  <2>2. s.upstream = up /\ s.queue = <<>> /\ s.socket = editor[e].socket
    BY <1>9, ResyncEffect DEF Becomes, SameBut, Fields
  <2>3. DOMAIN s.queue = {}
    BY <2>2
  <2> HIDE DEF st, up, q
  <2>4. Line(e, log, st, up, s.queue, n)
    BY <1>2, <2>3, LineForgets
  <2> QED BY <1>2, <2>1, <2>2, <2>4 DEF st, up
<1>10. CASE ServeJoin(e) \/ Refuse(e) \/ AcknowledgeNoOp(e)
  <2>1. UNCHANGED <<log, typed, stragglers>>
    BY <1>10 DEF ServeJoin, Refuse, AcknowledgeNoOp, serverVars, userVars
  <2>2. up # <<>> /\ s.upstream = Tail(up) /\ s.queue = q /\ s.socket = editor[e].socket
    BY <1>10, ReplyEffect DEF Becomes, SameBut, Fields
  <2> HIDE DEF st, up, q
  <2>3. Line(e, log, st, Tail(up), q, n)
    BY <1>1, <1>2, <2>2, LineReads
  <2> QED BY <1>2, <2>1, <2>2, <2>3 DEF st
<1>11. CASE Accept(e)
  <2>1. UNCHANGED <<typed, stragglers>>
    BY <1>11 DEF Accept, userVars
  <2>2. /\ up # <<>> /\ Head(up).kind = "op" /\ s.upstream = Tail(up) /\ s.queue = q
        /\ s.socket = editor[e].socket
    BY <1>11, ReceivedEffect DEF Accept, Receive, Becomes, SameBut, Fields
  <2>3. st = <<>>
    BY <1>2, <2>2
  <2>4. Follows(log', log, Head(up).id)
    BY <1>3, <1>11, <2>3 DEF AcceptStraggler
  <2> HIDE DEF st, up, q
  <2>5. Line(e, log', st, Tail(up), q, n)
    BY <1>1, <1>2, <2>2, <2>4, LineAccepts
  <2> QED BY <1>2, <2>1, <2>2, <2>5 DEF st
<1>12. CASE AcceptStraggler(e)
  <2>1. /\ UNCHANGED typed /\ stragglers' = [stragglers EXCEPT ![e] = Tail(@)]
    BY <1>12 DEF AcceptStraggler, userVars
  <2>2. stragglers'[e] = Tail(st) /\ st # <<>>
    BY <1>4, <1>12, <2>1 DEF AcceptStraggler
  <2>3. s.upstream = up /\ s.queue = q /\ s.socket = editor[e].socket
    BY <1>12, UntoldEffect DEF Becomes, SameBut, Fields
  <2>4. editor[e].socket = "gone" /\ up = <<>>
    BY <1>2, <2>2
  <2>5. log' = log \/ Follows(log', log, Head(st).id)
    BY <1>3, <1>12, <2>4 DEF Accept, Receive
  <2> HIDE DEF st, up, q
  <2>6. Line(e, log', Tail(st), up, q, n)
    BY <1>1, <1>2, <2>2, <2>4, <2>5, LineStraggles, LineAcceptsLate
  <2> QED BY <2>1, <2>2, <2>3, <2>4, <2>6
<1>13. CASE Type(e)
  <2>1. UNCHANGED <<log, stragglers>> /\ typed'[e] = typed[e] + 1 /\ typed[e] \in Nat
    BY <1>13 DEF Type, serverVars, Typed
  <2>2. PICK p : /\ \/ p = q
                    \/ \E ops \in Seq(Queued(e)) :
                         /\ p = q \o ops /\ Len(ops) \in {1, 2}
                         /\ \A i \in DOMAIN ops : ops[i].id.op = 2 * typed[e] + 1 + i
                 /\ Sends(p, editor[e].inFlight, up, s)
    BY <1>13, TypeEffect
  <2>3. s.socket = editor[e].socket
    BY <1>13, TypeEffect DEF Becomes, SameBut, Fields
  <2>4. s.socket = "gone" => s.upstream = up
    BY <2>2 DEF Sends
  <2>5. p \in Seq(Queued(e))
    <3>1. \A ops \in Seq(Queued(e)) : q \o ops \in Seq(Queued(e))
      BY <1>1
    <3> QED BY <1>1, <2>2, <3>1
  <2>6. 2 * typed'[e] + 1 = n + 2
    BY <2>1
  <2> HIDE DEF st, up, q, s
  <2>7. Line(e, log, st, up, p, n + 2)
    <3>1. CASE p = q
      BY <1>1, <1>2, <3>1 DEF Line, UpTo
    <3>2. ASSUME NEW ops \in Seq(Queued(e)), p = q \o ops, Len(ops) \in {1, 2},
                 \A i \in DOMAIN ops : ops[i].id.op = 2 * typed[e] + 1 + i
          PROVE  Line(e, log, st, up, p, n + 2)
      <4>1. \A i \in DOMAIN ops : ops[i].id.op = n + i
        BY <3>2
      <4>2. Line(e, log, st, up, q \o ops, n + 2)
        BY <1>1, <1>2, <3>2, <4>1, LineTypes
      <4> QED BY <3>2, <4>2
    <3> QED BY <2>2, <3>1, <3>2
  <2> DEFINE f == editor[e].inFlight
             k == n + 2
  <2>8. Sends(p, f, up, s)
    BY <2>2
  <2> HIDE DEF f, k
  <2>9. Line(e, log, st, s.upstream, s.queue, k)
    BY <1>1, <2>5, <2>7, <2>8, LineMaySend DEF k
  <2> QED BY <1>2, <2>1, <2>3, <2>4, <2>6, <2>9 DEF st, s, k
<1>14. CASE Leave(e)
  <2>1. UNCHANGED <<log, typed>>
    BY <1>14 DEF Leave, userVars
  <2>2. /\ s.upstream = <<>> /\ s.queue = <<>> /\ s.socket = "gone"
        /\ editor[e].socket # "gone"
    BY <1>14, LeaveEffect
  <2>3. stragglers'[e] = st \o Sent(up)
    BY <1>4, <1>14, AbandonEffect, SentFacts
  <2>4. Sent(up) \in Seq(OpMsgs(e))
    BY <1>1, SentType
  <2>5. stragglers'[e] = Sent(up)
    <3>1. \A ops \in Seq(OpMsgs(e)) : <<>> \o ops = ops
      OBVIOUS
    <3>2. st = <<>>
      BY <1>2, <2>2
    <3> HIDE DEF st, up
    <3> QED BY <2>3, <2>4, <3>1, <3>2
  <2> HIDE DEF st, up, q
  <2>6. Line(e, log, Sent(up), <<>>, <<>>, n)
    BY <1>1, <1>2, LineLeaves
  <2> QED BY <2>1, <2>2, <2>5, <2>6
<1>15. CASE Closed(e)
  <2>1. closes'[e] = closes[e] + 1
    BY <1>15 DEF Closed, Typed
  <2> QED BY <2>1
<1>16. Goal
  BY <1>5, <1>6, <1>7, <1>8, <1>9, <1>10, <1>11, <1>12, <1>13, <1>14, <1>15
     DEF EditorStep, Browser, Server, User, World
<1> QED BY <1>16

\* Another editor's step may add to the log, but none of this editor's operations.
LEMMA LineUntouched ==
  ASSUME Typed, Bounded, OrderInv, NEW e \in Editors,
         EditorStep(e) \/ (\E a \in Editors : Tell(a, e)) \/ EndAnnouncement(e),
         NEW x \in Editors \ {e}, closes'[x] = 0
  PROVE  /\ Line(x, log', stragglers'[x], editor'[x].upstream, editor'[x].queue,
                 2 * typed'[x] + 1)
         /\ IF editor'[x].socket = "gone" THEN editor'[x].upstream = <<>>
            ELSE stragglers'[x] = <<>>
<1>1. editor'[x] = editor[x]
  BY OthersStay
<1>2. /\ DOMAIN stragglers = Editors /\ DOMAIN typed = Editors /\ DOMAIN closes = Editors
      /\ log \in Seq(Entries)
  BY DEF Typed
<1>3. stragglers'[x] = stragglers[x] /\ typed'[x] = typed[x] /\ closes'[x] = closes[x]
  <2>1. CASE EditorStep(e)
    <3>1. CASE Type(e)
      BY <1>2, <3>1 DEF Type, serverVars
    <3>2. CASE Closed(e) \/ Leave(e)
      <4>1. stragglers'[x] = stragglers[x]
        BY <1>2, <3>2, AbandonEffect
      <4> QED BY <1>2, <3>2, <4>1 DEF Closed, Leave, userVars
    <3>3. CASE AcceptStraggler(e)
      BY <1>2, <3>3 DEF AcceptStraggler, userVars
    <3>4. CASE ~Type(e) /\ ~Closed(e) /\ ~Leave(e) /\ ~AcceptStraggler(e)
      BY <2>1, <3>4 DEF EditorStep, Browser, Server, User, World, Render, LoseResync, Mount,
         LoadMetadata, Connect, Opened, Deliver, Resync, ServeJoin, Refuse, AcknowledgeNoOp,
         Accept, AnswerResync, AskResync, Grant, serverVars, userVars
    <3> QED BY <3>1, <3>2, <3>3, <3>4
  <2>2. CASE (\E a \in Editors : Tell(a, e)) \/ EndAnnouncement(e)
    BY <2>2 DEF Tell, EndAnnouncement, userVars
  <2> QED BY <2>1, <2>2
<1>4. log' = log \/ \E id : Follows(log', log, id) /\ id.client # x
  <2>1. CASE EditorStep(e)
    BY <2>1, LogFollows
  <2>2. CASE (\E a \in Editors : Tell(a, e)) \/ EndAnnouncement(e)
    BY <2>2 DEF Tell, EndAnnouncement
  <2> QED BY <2>1, <2>2
<1> DEFINE st == stragglers[x]
           up == editor[x].upstream
           q  == editor[x].queue
           n  == 2 * typed[x] + 1
<1>5. /\ Line(x, log, st, up, q, n)
      /\ IF editor[x].socket = "gone" THEN up = <<>> ELSE st = <<>>
  BY <1>3 DEF OrderInv
<1> HIDE DEF st, up, q, n
<1>6. Line(x, log', st, up, q, n)
  BY <1>2, <1>4, <1>5, LineUndisturbed
<1> QED BY <1>1, <1>3, <1>5, <1>6 DEF st, up, q, n

\* Every step preserves the order.
LEMMA OrderKept ==
  ASSUME Typed, Bounded, OrderInv, SessionNext
  PROVE  OrderInv'
<1>1. CASE UNCHANGED vars
  BY <1>1 DEF OrderInv, vars, clientVars, serverVars, userVars, Line, UpTo, Ascending, Below,
     Logged, Asked
<1>2. ASSUME NEW e \in Editors,
             EditorStep(e) \/ (\E a \in Editors : Tell(a, e)) \/ EndAnnouncement(e)
      PROVE  OrderInv'
  <2> SUFFICES ASSUME NEW x \in Editors, closes'[x] = 0
               PROVE  /\ Line(x, log', stragglers'[x], editor'[x].upstream, editor'[x].queue,
                              2 * typed'[x] + 1)
                      /\ IF editor'[x].socket = "gone" THEN editor'[x].upstream = <<>>
                         ELSE stragglers'[x] = <<>>
    BY DEF OrderInv, Line, UpTo, Ascending, Below, Logged, Asked
  <2>1. CASE x # e
    BY <1>2, <2>1, LineUntouched
  <2>2. CASE x = e /\ EditorStep(e)
    <3>1. closes[e] = 0
      <4>1. closes \in [Editors -> Nat]
        BY DEF Typed
      <4>2. CASE Closed(e)
        BY <2>2, <4>1, <4>2 DEF Closed
      <4>3. CASE ~Closed(e)
        BY <2>2, <4>3 DEF EditorStep, Browser, Server, User, World, Render, LoseResync, Mount,
           LoadMetadata, Connect, Opened, Deliver, Resync, ServeJoin, Refuse, AcknowledgeNoOp,
           Accept, AcceptStraggler, AnswerResync, Type, AskResync, Leave, Grant, serverVars,
           userVars
      <4> QED BY <4>2, <4>3
    <3>2. /\ Line(e, log, stragglers[e], editor[e].upstream, editor[e].queue, 2 * typed[e] + 1)
          /\ IF editor[e].socket = "gone" THEN editor[e].upstream = <<>>
             ELSE stragglers[e] = <<>>
      BY <3>1 DEF OrderInv
    <3> QED BY <2>2, <3>1, <3>2, OwnLineKept
  <2>3. CASE x = e /\ ~EditorStep(e)
    <3>1. UNCHANGED <<log, stragglers, typed, closes>>
      BY <1>2, <2>3 DEF Tell, EndAnnouncement, userVars
    <3>2. /\ editor'[e].upstream = editor[e].upstream /\ editor'[e].queue = editor[e].queue
          /\ editor'[e].socket = editor[e].socket
      <4>1. CASE \E a \in Editors : Tell(a, e)
        BY <4>1, TellEffect DEF Becomes, SameBut, Fields
      <4>2. CASE EndAnnouncement(e)
        BY <4>2 DEF EndAnnouncement, clientVars
      <4> QED BY <1>2, <2>3, <4>1, <4>2
    <3> QED BY <2>3, <3>1, <3>2 DEF OrderInv
  <2> QED BY <2>1, <2>2, <2>3
<1>3. UNCHANGED vars \/ \E e \in Editors :
        EditorStep(e) \/ (\E a \in Editors : Tell(a, e)) \/ EndAnnouncement(e)
  BY DEF SessionNext, Announce
<1> QED BY <1>1, <1>2, <1>3

\* The accepted operations are the beginning of the line.
LEMMA OrderMeans ==
  ASSUME Typed, OrderInv
  PROVE  AcceptedInTypedOrder
<1> SUFFICES ASSUME NEW v \in DOMAIN log, NEW w \in DOMAIN log, v < w,
                    log[v].id.client = log[w].id.client, closes[log[v].id.client] = 0
             PROVE  log[v].id.op < log[w].id.op
  BY DEF AcceptedInTypedOrder
<1> DEFINE e == log[v].id.client
<1>1. e \in Editors
  BY LogFacts DEF Version, Names
<1>2. v \in Logged(log, e) /\ w \in Logged(log, e)
  BY DEF Logged
<1>3. Ascending(log, Logged(log, e))
  BY <1>1 DEF OrderInv, Line
<1> QED BY <1>2, <1>3 DEF Ascending

-----------------------------------------------------------------------------
(* What holds in every reachable state.                                    *)

SessionInv == Typed /\ Bounded /\ FlightInv /\ OrderInv

\* The invariant holds initially.
LEMMA SessionInvStarts ==
  ASSUME Init PROVE SessionInv
  BY SessionStarts, FlightStarts, OrderStarts DEF SessionInv

\* Every step preserves the invariant.
LEMMA SessionInvKept ==
  ASSUME SessionInv, SessionNext PROVE SessionInv'
  BY TypedKept, BoundedKept, FlightKept, OrderKept DEF SessionInv

\* A step of the specification is one of the steps above: the scenario only
\* restricts who takes them, and when.
LEMMA NextIsSessionNext ==
  ASSUME Typed, [Next]_<<vars, scenario>>
  PROVE  SessionNext
<1>1. scenario.open \subseteq Editors
  BY EditorsAssumption DEF Typed
<1>2. CASE Next
  BY <1>1, <1>2 DEF Next, SessionNext, EditorStep
<1>3. CASE UNCHANGED <<vars, scenario>>
  BY <1>3 DEF SessionNext
<1> QED BY <1>2, <1>3

\* The invariant implies type correctness.
LEMMA TypedMeans ==
  ASSUME Typed, Bounded
  PROVE  TypeOK
<1>1. ASSUME NEW e \in Editors
      PROVE  LET r == editor[e]
                 queued == [id : [client : {e}, op : Nat], op : Operations]
             IN  /\ r.socket \in {"none", "scheduled", "connecting", "open", "gone"}
                 /\ r.status \in {"loading", "connecting", "connected", "disconnected", "error"}
                 /\ r.canWrite \in BOOLEAN /\ r.fresh \in BOOLEAN /\ r.version \in 0..Version
                 /\ r.queue \in Seq(queued) /\ r.inFlight \in Seq(queued) /\ Len(r.inFlight) <= 1
                 /\ r.content \in Texts /\ r.latest \in Texts /\ Len(r.slot) <= 1
                 /\ surface[e].doc \in Texts /\ surface[e].editable \in BOOLEAN
  <2> DEFINE r == editor[e]
  <2>1. r \in EditorStates(e) /\ Len(r.inFlight) <= 1 /\ Len(r.slot) <= 1 /\ r.version <= Version
    BY DEF Typed, EditorTyped, Bounded, Known
  <2>2. Version \in Nat
    BY LogFacts
  <2>3. surface[e].doc \in Texts /\ surface[e].editable \in BOOLEAN
    BY DEF Typed, Views
  <2> HIDE DEF r
  <2>4. /\ r.socket \in {"none", "scheduled", "connecting", "open", "gone"}
        /\ r.status \in {"loading", "connecting", "connected", "disconnected", "error"}
        /\ r.canWrite \in BOOLEAN /\ r.fresh \in BOOLEAN /\ r.version \in Nat
    BY <2>1 DEF EditorStates
  <2>5. /\ r.queue \in Seq(Queued(e)) /\ r.inFlight \in Seq(Queued(e))
        /\ r.content \in Texts /\ r.latest \in Texts
    BY <2>1 DEF EditorStates
  <2> QED BY <2>1, <2>2, <2>3, <2>4, <2>5 DEF r, Queued
<1>2. typed \in [Editors -> 0..scenario.maxEdits] /\ closes \in [Editors -> 0..scenario.maxCloses]
  <2>1. scenario.maxEdits \in Nat /\ scenario.maxCloses \in Nat
    BY EditorsAssumption DEF Typed
  <2>2. typed \in [Editors -> Nat] /\ closes \in [Editors -> Nat]
        /\ \A e \in Editors : typed[e] <= scenario.maxEdits /\ closes[e] <= scenario.maxCloses
    BY DEF Typed
  <2>3. \A e \in Editors : typed[e] \in 0..scenario.maxEdits /\ closes[e] \in 0..scenario.maxCloses
    BY <2>1, <2>2
  <2> QED BY <2>2, <2>3
<1>3. /\ Len(texts) = Version + 1 /\ joined \subseteq Editors
      /\ access \in [Editors -> BOOLEAN] /\ role \in [Editors -> BOOLEAN]
  BY DEF Typed
<1> QED BY <1>1, <1>2, <1>3 DEF TypeOK

\* Every reachable state of the editors and their server satisfies the invariant
\* above: types, known versions, one operation under way, and the order of an
\* editor's operations (usePlainTextCollaboration.ts).
THEOREM SessionInvariant == Spec => []SessionInv
<1>1. Init => SessionInv
  BY SessionInvStarts
<1>2. SessionInv /\ [Next]_<<vars, scenario>> => SessionInv'
  BY NextIsSessionNext, SessionInvKept DEF SessionInv
<1> QED BY <1>1, <1>2, PTL DEF Spec

\* The editors' state and the server's keep their types, nobody knows of a
\* version the server does not have, and at most one operation is in flight
\* (usePlainTextCollaboration.ts, for every set of editors and every scenario).
THEOREM EditorsTypeCorrect == Spec => []TypeOK
<1>1. SessionInv => TypeOK
  BY TypedMeans DEF SessionInv
<1> QED BY <1>1, SessionInvariant, PTL

\* An editor has at most one operation on the way to the server, accepted there or
\* answered, as long as no snapshot made it forget one (sendNextQueuedOperation).
THEOREM OneAtATime == Spec => []OneOperationInFlight
<1>1. SessionInv => OneOperationInFlight
  BY FlightMeans DEF SessionInv
<1> QED BY <1>1, SessionInvariant, PTL

\* The server accepts the operations of an editor whose socket never closed in
\* the order they were typed, each once.
THEOREM TypedOrderKept == Spec => []AcceptedInTypedOrder
<1>1. SessionInv => AcceptedInTypedOrder
  BY OrderMeans DEF SessionInv
<1> QED BY <1>1, SessionInvariant, PTL
====
