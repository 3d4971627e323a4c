--------------------------- MODULE WorkspaceProofs ---------------------------
(***************************************************************************)
(* The tree stays sound, whatever users and requests there are, as long as *)
(* no request commits what it checked before another commit.               *)
(*                                                                         *)
(* Sound itself is not inductive: a commit relies on what was checked in a *)
(* step before. The invariant TreeInv adds that what a request has checked *)
(* still holds, unless the request is outdated.                            *)
(*                                                                         *)
(* The pages use the server as anybody does, and keep that. What they show *)
(* in their dialogs rests on CoreInv, which adds whose a request is and    *)
(* which page waits for it, on MindedInv, which dialog it belongs to, and  *)
(* on ShareInv, what the share dialog has loaded or waits for.             *)
(*                                                                         *)
(* What their lists show rests on Born and Fresh, what a request has read  *)
(* of the server is still so unless it was overtaken, and on UpToDateInv:  *)
(* the rows of a page that waits for no listing are the server's listing,  *)
(* but for the item of one mutation that is carried out and not answered.  *)
(***************************************************************************)
EXTENDS WorkspaceView, TLAPS

-----------------------------------------------------------------------------
(* Types.                                                                  *)

Kinds   == {"folder", "document"}
Places  == Items \cup {Root}
Sharees == [user : Users, permission : {"read", "write"}]

\* The fields of a request an operation uses have their types.
IsQuery(q) ==
  /\ q.op \in Mutations \cup Readings /\ q.user \in Users /\ q.to \in Places /\ q.item \in Places
  /\ q.op \in {"create", "rename"} => q.name \in Names
  /\ q.kind \in Kinds /\ q.with \in Users /\ q.permission \in {"read", "write"}
  /\ q.op \notin {"create", "list"} => q.item \in Items
  /\ {"op", "user", "to", "item", "name", "kind", "with", "permission"} \subseteq DOMAIN q

\* Items as they are loaded, and as they are shown.
IsLoaded(o) == /\ DOMAIN o = {"item", "kind", "name", "owner", "parent", "collaborators"}
               /\ o.item \in Items /\ o.kind \in Kinds /\ o.parent \in Places
               /\ o.collaborators \subseteq Sharees

IsRow(x) == /\ DOMAIN x = {"item", "kind", "name", "parent", "permission", "sharing", "canWrite",
                           "canManage", "collaborators"}
            /\ x.item \in Items /\ x.kind \in Kinds /\ x.parent \in Places
            /\ x.collaborators \subseteq Sharees

OnceEach(rows)  == \A r, x \in rows : r.item = x.item => r = x
AreRows(rows)   == (\A x \in rows : IsRow(x)) /\ OnceEach(rows)
AreTargets(ts)  == \A t \in ts : t.id \in Places
OneLoaded(S, i) == \E o \in S : S = {o} /\ IsLoaded(o) /\ o.item = i
OneRow(S, i)    == \E x \in S : S = {x} /\ IsRow(x) /\ x.item = i

\* The operations that load an item for their answer.
Loading == {"rename", "move", "share", "update", "remove"}

IsAnswer(q, result) ==
  /\ q.op = "list" => AreRows(result)
  /\ q.op = "targets" => AreTargets(result)
  /\ q.op = "collaborators" => result \subseteq Sharees
  /\ q.op \in Loading \cup {"create"} => OneRow(result, q.item)

\* A request under way, with what its stage has.
IsUnderWay(r) ==
  /\ r.stage \in Stages \ {"none"} /\ IsQuery(r.q)
  /\ r.stage \in {"checked", "committed"} => r.q.op \in Mutations
  /\ r.stage = "checked" /\ r.q.op \in Loading => OneLoaded(r.shown, r.q.item)
  /\ r.stage = "committed" /\ r.q.op \in Loading \cup {"create"} => OneLoaded(r.shown, r.q.item)
  /\ r.stage = "answered" => r.ok \in BOOLEAN /\ (r.ok => IsAnswer(r.q, r.result))

IsRequest(r) == r = NoRequest \/ IsUnderWay(r)

\* The tables and the requests have their types.
TypeInv ==
  /\ items \in [Items -> ItemRecords]
  /\ shares \in [Items -> [Users -> {"none", "read", "write"}]]
  /\ requests = [s \in Slots |-> requests[s]]
  /\ \A s \in Slots : IsRequest(requests[s])
  /\ outdated \subseteq Under("checked") /\ overlapped \in BOOLEAN

-----------------------------------------------------------------------------
(* The invariant of the tree.                                              *)

\* An item may be put into p.
IsPlace(w, p) == p = Root \/ (p \in Live(w) /\ w[p].kind = "folder")

\* No other item there has the name.
IsFree(w, n, o, p, except) ==
  \A j \in Live(w) \ except :
    ~(w[j].name = n /\ w[j].parent = p /\ (p = Root => w[j].owner = o))

\* What the check of a request leaves for its commit to rely on.
Relied(w, r) ==
  /\ r.q.op = "create" => IsPlace(w, r.q.to) /\ IsFree(w, r.q.name, r.q.user, r.q.to, {})
  /\ r.q.op = "rename" =>
       /\ r.q.item \in Live(w)
       /\ IsFree(w, r.q.name, w[r.q.item].owner, w[r.q.item].parent, {r.q.item})
  /\ r.q.op = "delete" => r.found = CollectDescendantIds(w, r.q.item)
  /\ r.q.op = "move" =>
       /\ r.q.item \in Live(w) /\ IsPlace(w, r.q.to)
       /\ w[r.q.item].kind = "folder" => ~IsDescendantOf(w, r.q.to, r.q.item)
       /\ IsFree(w, w[r.q.item].name, w[r.q.item].owner, r.q.to, {r.q.item})

CheckedInv == \A s \in Under("checked") \ outdated : Relied(items, requests[s])

TreeInv == TypeInv /\ CheckedInv /\ TreeIsSound

-----------------------------------------------------------------------------
(* What each change makes of a sound tree.                                 *)

\* A name that is free can be given to an item.
LEMMA RenameKeepsSound ==
  ASSUME NEW w \in [Items -> ItemRecords], Sound(w), NEW i \in Live(w), NEW n \in Names,
         IsFree(w, n, w[i].owner, w[i].parent, {i}),
         NEW v, v = [w EXCEPT ![i].name = n]
  PROVE  Sound(v) /\ v \in [Items -> ItemRecords]
<1>1. i \in Items /\ v \in [Items -> ItemRecords]
  BY DEF Live, ItemRecords
<1>2. \A x \in Items : /\ v[x].status = w[x].status /\ v[x].kind = w[x].kind
                       /\ v[x].owner = w[x].owner /\ v[x].parent = w[x].parent
                       /\ x # i => v[x].name = w[x].name
  BY <1>1 DEF ItemRecords
<1>3. v[i].name = n
  BY <1>1 DEF ItemRecords
<1>4. Live(v) = Live(w)
  BY <1>2 DEF Live
<1>5. Acyclic(v)
  BY <1>2, <1>4 DEF Sound, Acyclic, Live
<1>6. NoOrphans(v)
  BY <1>2, <1>4 DEF Sound, NoOrphans, Live
<1>7. UniqueNames(v)
  BY <1>2, <1>3, <1>4 DEF Sound, UniqueNames, Homonyms, IsFree, Live
<1> QED
  BY <1>1, <1>5, <1>6, <1>7 DEF Sound

\* A new item, in a folder or at the root, with a free name.
LEMMA CreateKeepsSound ==
  ASSUME NEW w \in [Items -> ItemRecords], Sound(w), NEW i \in Items, w[i].status = "none",
         NEW r \in ItemRecords, r.status = "live", IsPlace(w, r.parent),
         IsFree(w, r.name, r.owner, r.parent, {}),
         NEW v, v = [w EXCEPT ![i] = r]
  PROVE  Sound(v) /\ v \in [Items -> ItemRecords]
<1>1. v \in [Items -> ItemRecords] /\ v[i] = r
  OBVIOUS
<1>2. \A x \in Items \ {i} : v[x] = w[x]
  OBVIOUS
<1>3. i \notin Live(w) /\ Live(v) = Live(w) \cup {i}
  BY <1>1, <1>2 DEF Live
<1>4. Acyclic(v)
  <2> SUFFICES ASSUME NEW S \in SUBSET Live(v), S # {}, \A x \in S : v[x].parent \in S
               PROVE  FALSE
    BY DEF Acyclic
  <2> DEFINE T == S \ {i}
  <2>1. Root \notin S
    BY WorkspaceAssumption DEF Live
  <2>2. T \in SUBSET Live(w)
    BY <1>3
  <2>3. \A x \in T : w[x].parent \in T
    <3> TAKE x \in T
    <3>1. x \in Live(w) /\ w[x].parent \in S
      BY <1>2, <2>2 DEF Live
    <3> QED
      BY <3>1, <2>1, <1>3 DEF Sound, NoOrphans
  <2>4. T # {}
    <3>1. CASE i \in S
      BY <3>1, <1>1, <1>3, <2>1 DEF IsPlace
    <3>2. CASE i \notin S
      BY <3>2
    <3> QED
      BY <3>1, <3>2
  <2> QED
    BY <2>2, <2>3, <2>4 DEF Sound, Acyclic
<1>5. NoOrphans(v)
  <2> SUFFICES ASSUME NEW x \in Live(v), v[x].parent # Root
               PROVE  v[x].parent \in Live(v) /\ v[v[x].parent].kind = "folder"
    BY DEF NoOrphans
  <2>1. v[x].parent \in Live(w) /\ w[v[x].parent].kind = "folder"
    BY <1>1, <1>2, <1>3 DEF Sound, NoOrphans, IsPlace, Live
  <2> QED
    BY <2>1, <1>2, <1>3 DEF Live
<1>6. UniqueNames(v)
  BY <1>1, <1>2, <1>3 DEF Sound, UniqueNames, Homonyms, IsFree, Live
<1> QED
  BY <1>1, <1>4, <1>5, <1>6 DEF Sound

\* An item goes with everything below it.
LEMMA DeleteKeepsSound ==
  ASSUME NEW w \in [Items -> ItemRecords], Sound(w), NEW i \in Items,
         NEW v, v = [x \in Items |-> IF x = i \/ x \in CollectDescendantIds(w, i)
                                     THEN [w[x] EXCEPT !.status = "deleted"] ELSE w[x]]
  PROVE  Sound(v) /\ v \in [Items -> ItemRecords]
<1> DEFINE Gone == {i} \cup CollectDescendantIds(w, i)
<1>1. v \in [Items -> ItemRecords]
  BY DEF ItemRecords
<1>2. \A x \in Items \ Gone : v[x] = w[x]
  OBVIOUS
<1>3. \A x \in Items \cap Gone : v[x].status = "deleted"
  BY DEF ItemRecords
<1> HIDE DEF Gone
<1>4. Live(v) = Live(w) \ Gone
  BY <1>2, <1>3 DEF Live
<1>5. Acyclic(v)
  BY <1>2, <1>4 DEF Sound, Acyclic, Live
<1>6. NoOrphans(v)
  <2> SUFFICES ASSUME NEW x \in Live(v), v[x].parent # Root
               PROVE  v[x].parent \in Live(v) /\ v[v[x].parent].kind = "folder"
    BY DEF NoOrphans
  <2> DEFINE y == w[x].parent
  <2>1. x \in Live(w) /\ x \notin Gone /\ v[x].parent = y
    BY <1>2, <1>4 DEF Live
  <2>2. y \in Live(w) /\ w[y].kind = "folder"
    BY <2>1 DEF Sound, NoOrphans
  <2>3. y \notin Gone
    BY <2>1 DEF Gone, CollectDescendantIds
  <2> QED
    BY <2>1, <2>2, <2>3, <1>2, <1>4 DEF Live
<1>7. UniqueNames(v)
  BY <1>2, <1>4 DEF Sound, UniqueNames, Homonyms, Live
<1> QED
  BY <1>1, <1>5, <1>6, <1>7 DEF Sound

\* An item moves to a place that is not below it.
LEMMA MoveKeepsSound ==
  ASSUME NEW w \in [Items -> ItemRecords], Sound(w), NEW i \in Live(w), NEW p \in Items \cup {Root},
         IsPlace(w, p), w[i].kind = "folder" => ~IsDescendantOf(w, p, i),
         IsFree(w, w[i].name, w[i].owner, p, {i}),
         NEW v, v = [w EXCEPT ![i].parent = p]
  PROVE  Sound(v) /\ v \in [Items -> ItemRecords]
<1>1. i \in Items /\ v \in [Items -> ItemRecords]
  BY DEF Live, ItemRecords
<1>2. \A x \in Items : /\ v[x].status = w[x].status /\ v[x].kind = w[x].kind
                       /\ v[x].owner = w[x].owner /\ v[x].name = w[x].name
                       /\ x # i => v[x].parent = w[x].parent
  BY <1>1 DEF ItemRecords
<1>3. v[i].parent = p
  BY <1>1 DEF ItemRecords
<1>4. Live(v) = Live(w)
  BY <1>2 DEF Live
<1>5. Acyclic(v)
  <2> SUFFICES ASSUME NEW S \in SUBSET Live(v), S # {}, \A x \in S : v[x].parent \in S
               PROVE  FALSE
    BY DEF Acyclic
  <2>1. Root \notin S /\ S \in SUBSET Live(w) /\ S \subseteq Items
    BY <1>4, WorkspaceAssumption DEF Live
  <2>2. CASE i \notin S
    BY <2>1, <2>2, <1>2 DEF Sound, Acyclic
  <2>3. CASE i \in S /\ w[i].kind = "folder"
    <3>1. p \in S /\ p # Root
      BY <2>1, <2>3, <1>3
    <3>2. PICK U \in SUBSET Items :
            /\ p \in U /\ i \notin U
            /\ \A y \in U \cap Live(w) : w[y].parent # Root => w[y].parent \in U
      BY <2>3, <3>1 DEF IsDescendantOf, Reaches
    <3> DEFINE T == S \cap U
    <3>3. \A x \in T : w[x].parent \in T
      BY <2>1, <3>2, <1>2
    <3>4. T # {} /\ T \in SUBSET Live(w)
      BY <2>1, <3>1, <3>2
    <3> QED
      BY <3>3, <3>4 DEF Sound, Acyclic
  <2>4. CASE i \in S /\ w[i].kind # "folder"
    <3> DEFINE T == S \ {i}
    <3>1. p \in T
      BY <2>1, <2>4, <1>3 DEF IsPlace
    <3>2. \A x \in T : w[x].parent \in T
      BY <2>1, <2>4, <1>2 DEF Sound, NoOrphans
    <3> QED
      BY <2>1, <3>1, <3>2 DEF Sound, Acyclic
  <2> QED
    BY <2>2, <2>3, <2>4
<1>6. NoOrphans(v)
  BY <1>2, <1>3, <1>4 DEF Sound, NoOrphans, IsPlace, Live
<1>7. UniqueNames(v)
  BY <1>2, <1>3, <1>4 DEF Sound, UniqueNames, Homonyms, IsFree, Live
<1> QED
  BY <1>1, <1>5, <1>6, <1>7 DEF Sound

-----------------------------------------------------------------------------
(* What is read is typed.                                                  *)

\* Requests of any kind.
LEMMA RequestsAreQueries ==
  ASSUME NEW q \in Requests, q.op \in {"create", "list"} \/ q.item \in Items
  PROVE  IsQuery(q)
BY DEF Requests, IsQuery, Kinds, Places

\* An item that is loaded.
LEMMA LoadedType ==
  ASSUME TypeInv, NEW i \in Items
  PROVE  IsLoaded(Loaded(i)) /\ Loaded(i).item = i /\ Collaborators(i) \subseteq Sharees
<1>1. Collaborators(i) \subseteq Sharees
  BY DEF Collaborators, Sharees
<1> QED
  BY <1>1 DEF TypeInv, ItemRecords, Loaded, IsLoaded, Kinds, Places

\* What is shown of it.
LEMMA ResponseType ==
  ASSUME NEW u, NEW o, IsLoaded(o)
  PROVE  /\ IsRow(ToResponse(u, o))
         /\ ToResponse(u, o).item = o.item /\ ToResponse(u, o).parent = o.parent
         /\ ToResponse(u, o).collaborators = o.collaborators
BY DEF ToResponse, IsLoaded, IsRow

\* A listing.
LEMMA ListingType ==
  ASSUME TypeInv, NEW u, NEW folder
  PROVE  AreRows(ListItems(u, folder))
<1>1. \A i \in Items : IsRow(ToResponse(u, Loaded(i))) /\ ToResponse(u, Loaded(i)).item = i
  BY LoadedType, ResponseType
<1>2. \A x \in ListItems(u, folder) : \E i \in Items : x = ToResponse(u, Loaded(i))
  BY DEF ListItems, Live
<1> QED
  BY <1>1, <1>2, Zenon DEF AreRows, OnceEach

\* The targets of a move.
LEMMA TargetsType ==
  ASSUME NEW u, NEW i
  PROVE  AreTargets(ListMoveTargets(u, i))
BY DEF AreTargets, ListMoveTargets, Live, Places

-----------------------------------------------------------------------------
(* Steps of the server, and of its clients.                                *)

\* Requests are sent, and their answers are taken.
Client(s) ==
  \E r : /\ Becomes(s, r)
         /\ r = NoRequest \/ (r.stage = "sent" /\ IsUnderWay(r))
         /\ requests[s].stage # "checked"
         /\ UNCHANGED <<tables, outdated, overlapped>>

ServerStep(s) == Serve(s) \/ Lose(s) \/ Client(s)

\* A step that changes the state of one request only.
LEMMA OneRequest ==
  ASSUME TypeInv, NEW s \in Slots, NEW r, Becomes(s, r)
  PROVE  /\ requests' = [t \in Slots |-> requests'[t]]
         /\ requests'[s] = r
         /\ \A t \in Slots \ {s} : requests'[t] = requests[t]
<1>1. requests' = [t \in Slots |-> IF t = s THEN r ELSE requests[t]]
  BY DEF TypeInv, Becomes
<1>2. requests'[s] = r /\ \A t \in Slots \ {s} : requests'[t] = requests[t]
  BY <1>1
<1>3. requests' = [t \in Slots |-> requests'[t]]
  BY <1>1
<1> QED
  BY <1>2, <1>3

\* No table changes: only the request that is checked has to be looked at.
LEMMA QuietStep ==
  ASSUME TreeInv, NEW s \in Slots, NEW r, Becomes(s, r), IsRequest(r),
         UNCHANGED <<tables, overlapped>>,
         outdated' = outdated \ {s} \/ (outdated' = outdated /\ s \notin outdated),
         r.stage = "checked" => Relied(items, r)
  PROVE  TreeInv'
<1>1. /\ requests' = [t \in Slots |-> requests'[t]]
      /\ requests'[s] = r
      /\ \A t \in Slots \ {s} : requests'[t] = requests[t]
  BY OneRequest DEF TreeInv
<1>2. items' = items /\ shares' = shares /\ overlapped' = overlapped
  BY DEF tables
<1>3. outdated' = outdated \ {s}
  OBVIOUS
<1>4. outdated' \subseteq Under("checked")'
  <2> SUFFICES ASSUME NEW t \in outdated' PROVE t \in Slots /\ requests'[t].stage = "checked"
    BY DEF Under
  <2> QED BY <1>1, <1>3 DEF TreeInv, TypeInv, Under
<1>5. \A t \in Slots : IsRequest(requests'[t])
  BY <1>1 DEF TreeInv, TypeInv
<1>6. TypeInv'
  BY <1>1, <1>2, <1>4, <1>5 DEF TreeInv, TypeInv
<1>7. CheckedInv'
  <2> SUFFICES ASSUME NEW t \in Slots, requests'[t].stage = "checked", t \notin outdated'
               PROVE  Relied(items', requests'[t])
    BY DEF CheckedInv, Under
  <2>1. CASE t = s
    BY <2>1, <1>1, <1>2
  <2>2. CASE t # s
    BY <2>2, <1>1, <1>2, <1>3 DEF TreeInv, CheckedInv, Under
  <2> QED
    BY <2>1, <2>2
<1>8. TreeIsSound'
  BY <1>2 DEF TreeInv, TreeIsSound
<1> QED
  BY <1>6, <1>7, <1>8 DEF TreeInv

\* After a commit every other request that is checked is outdated.
LEMMA CommitStep ==
  ASSUME TreeInv, NEW s \in Slots, NEW q, NEW shown, Commits(s, q, shown),
         IsQuery(q), q.op \in Mutations,
         q.op \in Loading \cup {"create"} => OneLoaded(shown, q.item),
         items' \in [Items -> ItemRecords],
         shares' \in [Items -> [Users -> {"none", "read", "write"}]],
         Sound(items) /\ s \notin outdated => Sound(items')
  PROVE  TreeInv'
<1> DEFINE r == [stage |-> "committed", q |-> q, shown |-> shown]
<1>1. r.stage = "committed" /\ r.q = q /\ r.shown = shown /\ Becomes(s, r)
  BY DEF Commits
<1> HIDE DEF r
<1>2. IsRequest(r)
  BY <1>1 DEF IsRequest, IsUnderWay, Stages
<1>3. /\ requests' = [t \in Slots |-> requests'[t]]
      /\ requests'[s] = r
      /\ \A t \in Slots \ {s} : requests'[t] = requests[t]
  BY <1>1, OneRequest DEF TreeInv
<1>4. outdated' = (outdated \cup Under("checked")) \ {s}
  BY DEF Commits
<1>5. outdated' \subseteq Under("checked")'
  <2> SUFFICES ASSUME NEW t \in outdated' PROVE t \in Slots /\ requests'[t].stage = "checked"
    BY DEF Under
  <2> QED BY <1>3, <1>4 DEF TreeInv, TypeInv, Under
<1>6. \A t \in Slots : IsRequest(requests'[t])
  BY <1>2, <1>3 DEF TreeInv, TypeInv
<1>7. overlapped' \in BOOLEAN
  BY DEF Commits
<1>8. TypeInv'
  BY <1>3, <1>5, <1>6, <1>7 DEF TypeInv
<1>9. CheckedInv'
  BY <1>1, <1>3, <1>4 DEF CheckedInv, Under
<1>10. TreeIsSound'
  BY DEF TreeInv, TreeIsSound, Commits
<1> QED
  BY <1>8, <1>9, <1>10 DEF TreeInv

\* What a check admits is what the commit relies on.
LEMMA AdmittedIsRelied ==
  ASSUME NEW q, IsQuery(q), q.op \in Mutations, Admitted(q),
         NEW r, r.q = q, q.op = "delete" => r.found = CollectDescendantIds(items, q.item)
  PROVE  Relied(items, r)
<1>1. CASE q.op = "create"
  BY <1>1 DEF Admitted, Relied, CreateAdmitted, WritableParent, NameAvailable, IsPlace, IsFree,
              CanWrite, Accessible
<1>2. CASE q.op = "rename"
  BY <1>2 DEF Admitted, Relied, RenameAdmitted, NameAvailable, IsFree, CanWrite, Accessible
<1>3. CASE q.op = "delete"
  BY <1>3 DEF Relied
<1>4. CASE q.op = "move"
  BY <1>4 DEF Admitted, Relied, MoveAdmitted, WritableParent, NameAvailable, IsPlace, IsFree,
              CanWrite, Accessible
<1>5. CASE q.op \notin {"create", "rename", "delete", "move"}
  BY <1>5 DEF Relied
<1> QED
  BY <1>1, <1>2, <1>3, <1>4, <1>5

\* The record of a request that was checked.
Kept(q) == [stage |-> "checked", q |-> q,
            found |-> IF q.op = "delete" THEN CollectDescendantIds(items, q.item) ELSE {},
            shown |-> IF q.op \in {"create", "delete"} THEN {} ELSE {Loaded(q.item)}]

\* A request that is checked.
LEMMA CheckStep ==
  ASSUME TreeInv, NEW s \in Slots, Check(s)
  PROVE  TreeInv'
<1> DEFINE q == requests[s].q
<1>1. IsQuery(q) /\ q.op \in Mutations
  BY DEF TreeInv, TypeInv, IsRequest, IsUnderWay, Check, Under, NoRequest
<1>2. /\ IF Admitted(q) THEN Becomes(s, Kept(q)) ELSE Becomes(s, Refused(q))
      /\ outdated' = outdated \ {s} /\ UNCHANGED <<tables, overlapped>>
  BY DEF Check, Kept
<1> HIDE DEF q
<1>3. CASE Admitted(q)
  <2>1. /\ Kept(q).stage = "checked" /\ Kept(q).q = q
        /\ q.op = "delete" => Kept(q).found = CollectDescendantIds(items, q.item)
        /\ q.op \in Loading => Kept(q).shown = {Loaded(q.item)}
    BY DEF Kept, Loading
  <2>2. q.op \in Loading => OneLoaded(Kept(q).shown, q.item)
    BY <1>1, <2>1, LoadedType DEF OneLoaded, TreeInv, Loading, IsQuery
  <2>3. IsRequest(Kept(q))
    BY <1>1, <2>1, <2>2 DEF IsRequest, IsUnderWay, Stages
  <2>4. Relied(items, Kept(q))
    BY <2>1, <1>1, <1>3, AdmittedIsRelied
  <2> QED
    BY <2>3, <2>4, <1>2, <1>3, QuietStep
<1>4. CASE ~Admitted(q)
  <2>1. IsRequest(Refused(q)) /\ Refused(q).stage = "answered" /\ Becomes(s, Refused(q))
    BY <1>1, <1>2, <1>4 DEF IsRequest, IsUnderWay, Stages, Refused
  <2> QED
    BY <2>1, <1>2, QuietStep
<1> QED
  BY <1>3, <1>4

\* The answer to a reading request.
LEMMA ReadAnswers ==
  ASSUME TypeInv, NEW s \in Slots, Read(s)
  PROVE  \E ok \in BOOLEAN : \E result :
           LET q == requests[s].q IN
           /\ IsQuery(q) /\ q.op \in Readings /\ IsAnswer(q, result)
           /\ q.op = "list" => result = ListItems(q.user, q.to)
           /\ q.op = "collaborators" => result = Collaborators(q.item)
           /\ Becomes(s, IF ok THEN [stage |-> "answered", q |-> q, ok |-> TRUE, result |-> result]
                         ELSE Refused(q))
<1> DEFINE q == requests[s].q
           Answered(ok, result) ==
             Becomes(s, IF ok THEN [stage |-> "answered", q |-> q, ok |-> TRUE, result |-> result]
                        ELSE Refused(q))
<1>1. IsQuery(q)
  BY DEF TypeInv, IsRequest, IsUnderWay, Read, Under, NoRequest
<1>2. CASE q.op = "list"
  <2>1. \E ok \in BOOLEAN : Answered(ok, ListItems(q.user, q.to))
    BY <1>2 DEF Read
  <2>2. IsAnswer(q, ListItems(q.user, q.to)) /\ q.op \in Readings /\ q.op # "collaborators"
    BY <1>2, ListingType DEF IsAnswer, Readings, Loading
  <2> QED BY <2>1, <2>2, <1>1
<1>3. CASE q.op = "targets"
  <2>1. \E ok \in BOOLEAN : Answered(ok, ListMoveTargets(q.user, q.item))
    BY <1>3 DEF Read
  <2>2. IsAnswer(q, ListMoveTargets(q.user, q.item)) /\ q.op \in Readings
    BY <1>3, TargetsType DEF IsAnswer, Readings, Loading
  <2> QED BY <2>1, <2>2, <1>1, <1>3
<1>4. CASE q.op = "collaborators"
  <2>1. \E ok \in BOOLEAN : Answered(ok, Collaborators(q.item))
    BY <1>4 DEF Read
  <2>2. IsAnswer(q, Collaborators(q.item)) /\ q.op \in Readings
    BY <1>1, <1>4, LoadedType DEF IsAnswer, Readings, Loading, IsQuery
  <2> QED BY <2>1, <2>2, <1>1, <1>4
<1> QED BY <1>2, <1>3, <1>4 DEF Read

\* The steps of a request that neither check nor commit.
LEMMA OtherSteps ==
  ASSUME TreeInv, NEW s \in Slots,
         Read(s) \/ Conflicts(s) \/ Answer(s) \/ Lose(s) \/ Client(s)
  PROVE  TreeInv'
<1> DEFINE q == requests[s].q
<1>1. requests[s].stage # "none" => IsUnderWay(requests[s])
  BY DEF TreeInv, TypeInv, IsRequest, NoRequest
<1>2. ASSUME NEW r, Becomes(s, r), IsRequest(r), r.stage # "checked", UNCHANGED <<tables, overlapped>>,
             outdated' = outdated \ {s} \/ (outdated' = outdated /\ s \notin outdated)
      PROVE  TreeInv'
  BY <1>2, QuietStep
<1>3. IsUnderWay(requests[s]) => IsRequest(Refused(q)) /\ Refused(q).stage # "checked"
  BY DEF IsRequest, IsUnderWay, Refused, Stages
<1>4. requests[s].stage # "checked" => s \notin outdated
  BY DEF TreeInv, TypeInv, Under
<1>5. CASE Read(s)
  <2>1. PICK ok, result :
          /\ IsQuery(q) /\ q.op \in Readings /\ IsAnswer(q, result)
          /\ Becomes(s, IF ok THEN [stage |-> "answered", q |-> q, ok |-> TRUE, result |-> result]
                        ELSE Refused(q))
    BY <1>5, ReadAnswers DEF TreeInv
  <2> DEFINE a == [stage |-> "answered", q |-> q, ok |-> TRUE, result |-> result]
  <2>2. IsRequest(a) /\ a.stage # "checked"
    BY <2>1 DEF IsRequest, IsUnderWay, Stages
  <2>3. requests[s].stage = "sent" /\ UNCHANGED <<tables, outdated, overlapped>>
    BY <1>5 DEF Read, Under
  <2>4. Becomes(s, a) \/ Becomes(s, Refused(q))
    BY <2>1
  <2> HIDE DEF a, q
  <2> QED BY <1>1, <1>2, <1>3, <1>4, <2>2, <2>3, <2>4
<1>6. CASE Conflicts(s)
  <2>1. Becomes(s, Refused(q)) /\ requests[s].stage = "checked" /\ UNCHANGED <<tables, overlapped>>
        /\ outdated' = outdated \ {s}
    BY <1>6 DEF Conflicts, Pending, Under
  <2> HIDE DEF q
  <2> QED BY <1>1, <1>2, <1>3, <2>1
<1>7. CASE Lose(s)
  <2>1. Becomes(s, Refused(q)) /\ requests[s].stage \in {"sent", "committed"}
        /\ UNCHANGED <<tables, outdated, overlapped>>
    BY <1>7 DEF Lose, Under
  <2> HIDE DEF q
  <2> QED BY <1>1, <1>2, <1>3, <1>4, <2>1
<1>8. CASE Answer(s)
  <2> DEFINE shown == requests[s].shown
             a == [stage |-> "answered", q |-> q, ok |-> TRUE,
                   result |-> {ToResponse(q.user, o) : o \in shown}]
  <2>1. requests[s].stage = "committed" /\ UNCHANGED <<tables, outdated, overlapped>>
        /\ (Becomes(s, a) \/ Becomes(s, Refused(q)))
    BY <1>8 DEF Answer, Under
  <2>2. q.op \in Loading \cup {"create"} => OneRow({ToResponse(q.user, o) : o \in shown}, q.item)
    <3> SUFFICES ASSUME q.op \in Loading \cup {"create"}
                 PROVE  OneRow({ToResponse(q.user, o) : o \in shown}, q.item)
      OBVIOUS
    <3>1. PICK o \in shown : shown = {o} /\ IsLoaded(o) /\ o.item = q.item
      BY <1>1, <2>1 DEF IsUnderWay, OneLoaded
    <3>2. {ToResponse(q.user, x) : x \in shown} = {ToResponse(q.user, o)}
      BY <3>1
    <3> QED BY <3>1, <3>2, ResponseType DEF OneRow
  <2>3. IsAnswer(q, {ToResponse(q.user, o) : o \in shown})
    BY <1>1, <2>1, <2>2 DEF IsUnderWay, IsAnswer, Mutations
  <2>4. IsRequest(a) /\ a.stage # "checked"
    BY <1>1, <2>1, <2>3 DEF IsRequest, IsUnderWay, Stages
  <2> HIDE DEF a, q
  <2> QED BY <1>1, <1>2, <1>3, <1>4, <2>1, <2>4
<1>9. CASE Client(s)
  <2>1. PICK r : /\ Becomes(s, r)
                 /\ r = NoRequest \/ (r.stage = "sent" /\ IsUnderWay(r))
                 /\ requests[s].stage # "checked"
                 /\ UNCHANGED <<tables, outdated, overlapped>>
    BY <1>9 DEF Client
  <2>2. IsRequest(r) /\ r.stage # "checked"
    BY <2>1 DEF IsRequest, NoRequest
  <2> QED BY <1>2, <1>4, <2>1, <2>2
<1> QED
  BY <1>5, <1>6, <1>7, <1>8, <1>9

\* The changes.
LEMMA CommitSteps ==
  ASSUME TreeInv, NEW s \in Slots, Commit(s)
  PROVE  TreeInv'
<1> DEFINE q == requests[s].q
<1> USE DEF Pending, Under
<1>1. s \in Under("checked")
  BY DEF Commit, CreateItem, RenameItem, DeleteItem, MoveItem, ShareItem, UpdateCollaborator,
         RemoveCollaborator
<1>2. /\ IsQuery(q) /\ q.op \in Mutations
      /\ q.op \in Loading => OneLoaded(requests[s].shown, q.item)
  BY <1>1 DEF TreeInv, TypeInv, IsRequest, IsUnderWay, NoRequest
<1>3. s \notin outdated => Relied(items, requests[s])
  BY <1>1 DEF TreeInv, CheckedInv
<1>4. items \in [Items -> ItemRecords] /\ shares \in [Items -> [Users -> {"none", "read", "write"}]]
  BY DEF TreeInv, TypeInv
<1>5. CASE CreateItem(s)
  <2> DEFINE record == [status |-> "live", kind |-> q.kind, name |-> q.name,
                        owner |-> q.user, parent |-> q.to]
             loaded(i) == [item |-> i, kind |-> q.kind, name |-> q.name, owner |-> q.user,
                           parent |-> q.to, collaborators |-> {}]
  <2>1. PICK i \in Items :
          /\ items[i].status = "none"
          /\ items' = [items EXCEPT ![i] = record]
          /\ Commits(s, [q EXCEPT !.item = i], {loaded(i)})
    BY <1>5 DEF CreateItem
  <2>0. q.op = "create" /\ shares' = shares
    BY <1>5 DEF CreateItem
  <2>2. record \in ItemRecords
    BY <1>2, <2>0 DEF IsQuery, Kinds, Places, ItemRecords
  <2>3. items' \in [Items -> ItemRecords]
    BY <1>4, <2>1, <2>2
  <2>4. IsQuery([q EXCEPT !.item = i]) /\ [q EXCEPT !.item = i].item = i
        /\ [q EXCEPT !.item = i].op = "create"
    BY <1>2, <2>0 DEF IsQuery, Places
  <2>5. OneLoaded({loaded(i)}, i)
    BY <1>2 DEF OneLoaded, IsLoaded, IsQuery
  <2>6. ASSUME Sound(items), s \notin outdated PROVE Sound(items')
    <3>1. IsPlace(items, record.parent) /\ IsFree(items, record.name, record.owner, record.parent, {})
      BY <1>3, <2>0, <2>6 DEF Relied
    <3>2. record.status = "live"
      OBVIOUS
    <3> HIDE DEF record
    <3> QED
      BY <3>1, <3>2, <1>4, <2>1, <2>2, <2>6, CreateKeepsSound
  <2> HIDE DEF loaded, record, q
  <2> QED
    BY <1>4, <2>0, <2>1, <2>3, <2>4, <2>5, <2>6, CommitStep DEF Mutations
<1>6. CASE RenameItem(s)
  <2> DEFINE F(o) == [o EXCEPT !.name = q.name]
  <2>1. q.op = "rename" /\ q.item \in Items /\ q.name \in Names
    BY <1>2, <1>6 DEF RenameItem, IsQuery
  <2>2. /\ items' = [items EXCEPT ![q.item].name = q.name] /\ shares' = shares
        /\ Commits(s, q, {F(o) : o \in requests[s].shown})
    BY <1>6 DEF RenameItem
  <2>3. items' \in [Items -> ItemRecords]
    BY <1>4, <2>1, <2>2, ZenonT(30) DEF ItemRecords
  <2>4. ASSUME Sound(items), s \notin outdated PROVE Sound(items')
    <3>1. q.item \in Live(items)
          /\ IsFree(items, q.name, items[q.item].owner, items[q.item].parent, {q.item})
      BY <1>3, <2>1, <2>4 DEF Relied
    <3> QED
      BY <3>1, <1>4, <2>1, <2>2, <2>4, RenameKeepsSound
  <2>5. OneLoaded({F(o) : o \in requests[s].shown}, q.item)
    <3>1. PICK o \in requests[s].shown : requests[s].shown = {o} /\ IsLoaded(o) /\ o.item = q.item
      BY <1>2, <2>1 DEF OneLoaded, Loading
    <3>2. {F(x) : x \in requests[s].shown} = {F(o)}
      BY <3>1
    <3>3. IsLoaded(F(o)) /\ F(o).item = q.item
      BY <3>1 DEF IsLoaded
    <3> QED BY <3>2, <3>3 DEF OneLoaded
  <2> HIDE DEF q, F
  <2> QED
    BY <1>2, <1>4, <2>2, <2>3, <2>4, <2>5, CommitStep
<1>7. CASE DeleteItem(s)
  <2>1. q.item \in Items /\ q.op = "delete"
    BY <1>2, <1>7 DEF DeleteItem, IsQuery
  <2>2. /\ items' = [i \in Items |-> IF i = q.item \/ i \in requests[s].found
                                     THEN [items[i] EXCEPT !.status = "deleted"] ELSE items[i]]
        /\ Commits(s, q, {}) /\ shares' = shares
    BY <1>7 DEF DeleteItem
  <2>3. items' \in [Items -> ItemRecords]
    BY <1>4, <2>2 DEF ItemRecords
  <2>4. ASSUME Sound(items), s \notin outdated PROVE Sound(items')
    <3>1. requests[s].found = CollectDescendantIds(items, q.item)
      BY <1>3, <2>1, <2>4 DEF Relied
    <3>2. items' = [x \in Items |-> IF x = q.item \/ x \in CollectDescendantIds(items, q.item)
                                    THEN [items[x] EXCEPT !.status = "deleted"] ELSE items[x]]
      BY <3>1, <2>2
    <3> HIDE DEF q
    <3> QED
      BY <3>2, <1>4, <2>1, <2>4, DeleteKeepsSound
  <2>5. q.op \notin Loading \cup {"create"}
    BY <2>1 DEF Loading
  <2> HIDE DEF q
  <2> QED
    BY <1>2, <1>4, <2>2, <2>3, <2>4, <2>5, CommitStep
<1>8. CASE MoveItem(s)
  <2> DEFINE F(o) == [o EXCEPT !.parent = q.to]
  <2>1. q.op = "move" /\ q.item \in Items /\ q.to \in Places
    BY <1>2, <1>8 DEF MoveItem, IsQuery
  <2>2. /\ items' = [items EXCEPT ![q.item].parent = q.to] /\ shares' = shares
        /\ Commits(s, q, {F(o) : o \in requests[s].shown})
    BY <1>8 DEF MoveItem
  <2>3. items' \in [Items -> ItemRecords]
    BY <1>4, <2>1, <2>2, ZenonT(30) DEF ItemRecords, Places
  <2>4. ASSUME Sound(items), s \notin outdated PROVE Sound(items')
    <3>1. /\ q.item \in Live(items) /\ IsPlace(items, q.to)
          /\ items[q.item].kind = "folder" => ~IsDescendantOf(items, q.to, q.item)
          /\ IsFree(items, items[q.item].name, items[q.item].owner, q.to, {q.item})
      BY <1>3, <2>1, <2>4 DEF Relied
    <3> QED
      BY <3>1, <1>4, <2>1, <2>2, <2>4, MoveKeepsSound DEF Places
  <2>5. OneLoaded({F(o) : o \in requests[s].shown}, q.item)
    <3>1. PICK o \in requests[s].shown : requests[s].shown = {o} /\ IsLoaded(o) /\ o.item = q.item
      BY <1>2, <2>1 DEF OneLoaded, Loading
    <3>2. {F(x) : x \in requests[s].shown} = {F(o)}
      BY <3>1
    <3>3. IsLoaded(F(o)) /\ F(o).item = q.item
      BY <2>1, <3>1 DEF IsLoaded
    <3> QED BY <3>2, <3>3 DEF OneLoaded
  <2> HIDE DEF q, F
  <2> QED
    BY <1>2, <1>4, <2>2, <2>3, <2>4, <2>5, CommitStep
<1>9. CASE ShareItem(s) \/ RemoveCollaborator(s)
  <2>1. /\ items' = items /\ Commits(s, q, requests[s].shown) /\ q.op \in {"share", "remove"}
        /\ \E p \in {"none", "read", "write"} : shares' = [shares EXCEPT ![q.item][q.with] = p]
    BY <1>2, <1>9, Zenon DEF ShareItem, RemoveCollaborator, IsQuery
  <2>2. shares' \in [Items -> [Users -> {"none", "read", "write"}]]
    BY <1>2, <1>4, <2>1 DEF IsQuery
  <2>3. OneLoaded(requests[s].shown, q.item)
    BY <1>2, <2>1 DEF Loading
  <2> HIDE DEF q
  <2> QED
    BY <1>2, <1>4, <2>1, <2>2, <2>3, CommitStep
<1>10. CASE UpdateCollaborator(s)
  <2> DEFINE Changed(c) == IF c.user = q.with THEN [c EXCEPT !.permission = q.permission] ELSE c
             F(o) == [o EXCEPT !.collaborators = {Changed(c) : c \in @}]
  <2>1. /\ items' = items /\ q.op = "update"
        /\ shares' = [shares EXCEPT ![q.item][q.with] = q.permission]
        /\ Commits(s, q, {F(o) : o \in requests[s].shown})
    BY <1>10 DEF UpdateCollaborator
  <2>2. shares' \in [Items -> [Users -> {"none", "read", "write"}]]
    BY <1>2, <1>4, <2>1 DEF IsQuery
  <2>3. OneLoaded({F(o) : o \in requests[s].shown}, q.item)
    <3>1. PICK o \in requests[s].shown : requests[s].shown = {o} /\ IsLoaded(o) /\ o.item = q.item
      BY <1>2, <2>1 DEF OneLoaded, Loading
    <3>2. {F(x) : x \in requests[s].shown} = {F(o)}
      BY <3>1
    <3>3. \A c \in Sharees : Changed(c) \in Sharees
      BY <1>2 DEF Sharees, IsQuery
    <3>4. {Changed(c) : c \in o.collaborators} \subseteq Sharees
      BY <3>1, <3>3 DEF IsLoaded
    <3>5. IsLoaded(F(o)) /\ F(o).item = q.item
      BY <3>1, <3>4 DEF IsLoaded
    <3> QED BY <3>2, <3>5 DEF OneLoaded
  <2> HIDE DEF q, F
  <2> QED
    BY <1>2, <1>4, <2>1, <2>2, <2>3, CommitStep
<1> QED
  BY <1>5, <1>6, <1>7, <1>8, <1>9, <1>10 DEF Commit

\* A step of the server keeps the invariant.
LEMMA TreeKept ==
  ASSUME TreeInv, NEW s \in Slots, ServerStep(s)
  PROVE  TreeInv'
BY CheckStep, CommitSteps, OtherSteps DEF ServerStep, Serve

\* It holds initially.
LEMMA TreeStarts ==
  ASSUME ServerInit
  PROVE  TreeInv
<1>1. PICK t \in InitialTrees : items = t.items /\ shares = t.shares
  BY DEF ServerInit
<1>2. items \in [Items -> ItemRecords] /\ shares \in [Items -> [Users -> {"none", "read", "write"}]]
      /\ Sound(items)
  BY <1>1, WorkspaceAssumption DEF Trees
<1>3. \A s \in Slots : requests[s] = NoRequest
  BY DEF ServerInit
<1>4. TypeInv
  BY <1>2, <1>3 DEF ServerInit, TypeInv, IsRequest
<1>5. CheckedInv
  BY <1>3 DEF CheckedInv, Under, NoRequest
<1> QED
  BY <1>2, <1>4, <1>5 DEF TreeInv, TreeIsSound

\* The invariant, for all users, items, names and requests.
THEOREM TreeInvariant == ServerSpec => []TreeInv
<1>1. ServerInit => TreeInv
  BY TreeStarts
<1>2. TreeInv /\ [ServerNext]_serverVars => TreeInv'
  <2> SUFFICES ASSUME TreeInv, [ServerNext]_serverVars PROVE TreeInv'
    OBVIOUS
  <2>1. ASSUME NEW s \in Slots, Arrive(s) PROVE Client(s)
    <3>1. PICK q \in Requests : (q.op \in {"create", "list"} \/ q.item \in Items) /\ Submit(s, q)
      BY <2>1 DEF Arrive
    <3> DEFINE r == [stage |-> "sent", q |-> q]
    <3>2. IsQuery(q)
      BY <3>1, RequestsAreQueries
    <3>3. r.stage = "sent" /\ IsUnderWay(r) /\ Becomes(s, r)
      BY <3>1, <3>2 DEF IsUnderWay, Stages, Submit
    <3>4. requests[s].stage # "checked" /\ UNCHANGED <<tables, outdated, overlapped>>
      BY <3>1 DEF Submit, NoRequest
    <3> HIDE DEF r
    <3> QED BY <3>3, <3>4 DEF Client
  <2>2. ASSUME NEW s \in Slots, Deliver(s) PROVE Client(s)
    BY <2>2, Zenon DEF Deliver, Client, Under
  <2>3. CASE UNCHANGED serverVars
    BY <2>3 DEF serverVars, tables, TreeInv, TypeInv, CheckedInv, Under, TreeIsSound
  <2> QED
    BY <2>1, <2>2, <2>3, TreeKept DEF ServerNext, ServerStep
<1> QED
  BY <1>1, <1>2, PTL DEF ServerSpec

\* No admitted request spoils the tree: it has no cycles, nothing live is in what
\* is deleted, and names differ ("cycle validation", move_item), unless a request
\* commits what it checked before another commit.
THEOREM TreeStaysSound == ServerSpec => []TreeIsSound
<1>1. TreeInv => TreeIsSound
  BY DEF TreeInv
<1> QED
  BY <1>1, TreeInvariant, PTL

-----------------------------------------------------------------------------
(* Pages.                                                                  *)

PageFields == {"folder", "rows", "listing", "listError", "dialog", "targets", "loadingTargets",
               "sharees", "asked", "refreshing", "mishaps"}

IsDialog(d) == \/ d = Closed
               \/ d.type = "create" /\ d.kind \in Kinds
               \/ d.type \in {"rename", "delete", "move", "share"} /\ IsRow(d.row)

IsPage(r) == /\ DOMAIN r = PageFields
             /\ r.folder \in Places /\ AreRows(r.rows) /\ IsDialog(r.dialog) /\ r.sharees \subseteq Sharees
             /\ AreTargets(r.targets)
             /\ \A t \in r.refreshing : t.collaborators \subseteq Sharees

\* The pages have their types, and so has what the scenario says.
PageTypes ==
  /\ scenario \in Scenarios
  /\ page = [u \in Pages |-> page[u]]
  /\ \A u \in Pages : IsPage(page[u])

\* Every request is one of a page, for its user, and lists its folder.
OwnInv ==
  \A s \in Slots : requests[s] # NoRequest =>
    LET q == requests[s].q
    IN  /\ "by" \in DOMAIN q /\ q.by \in Readers /\ q.user = UserOf(q.by)
        /\ q.op = "list" => q.to = page[q.by].folder

\* What the scenario says of pages.
LEMMA ScenarioTypes ==
  ASSUME PageTypes
  PROVE  /\ Readers \subseteq Pages /\ scenario.names \subseteq Names \cup {""}
         /\ \A u \in Readers : UserOf(u) \in Users /\ scenario.pages[u].folder \in Places
         /\ scenario.tree \in InitialTrees
<1>1. scenario \in [tree : InitialTrees,
        pages : UNION {[P -> [user : Users, folder : Items \cup {Root}]] : P \in SUBSET Pages},
        ops : SUBSET Mutations, names : SUBSET (Names \cup {""}),
        maxDialogs : Nat, maxMutations : Nat, maxRefreshes : Nat,
        failures : SUBSET {"network"}]
  BY ScenariosAssumption DEF PageTypes
<1>2. PICK P \in SUBSET Pages : scenario.pages \in [P -> [user : Users, folder : Items \cup {Root}]]
  BY <1>1
<1> QED BY <1>1, <1>2 DEF Readers, UserOf, Places

\* A step that changes one page only.
LEMMA OnePage ==
  ASSUME PageTypes, NEW u \in Pages, NEW r, Shows(u, r)
  PROVE  /\ page' = [v \in Pages |-> page'[v]] /\ page'[u] = r
         /\ \A v \in Pages \ {u} : page'[v] = page[v]
<1>1. page' = [v \in Pages |-> IF v = u THEN r ELSE page[v]]
  BY DEF PageTypes, Shows
<1> QED BY <1>1

\* r is p but for the fields F.
Same(r, p, F) == DOMAIN r = PageFields /\ \A f \in PageFields \ F : r[f] = p[f]

\* Mapping keeps collaborators as they are, and an item in its place.
LEMMA CollaboratorsMapped ==
  ASSUME NEW C \in SUBSET Sharees
  PROVE  ToCollaborators(C) = C
<1>1. \A c \in Sharees : [c EXCEPT !.permission = ToPermissionLevel(@)] = c
  <2> SUFFICES ASSUME NEW c \in Sharees PROVE [c EXCEPT !.permission = ToPermissionLevel(@)] = c
    OBVIOUS
  <2>1. ToPermissionLevel(c.permission) = c.permission
    BY DEF ToPermissionLevel, Sharees
  <2> QED BY <2>1 DEF Sharees
<1> QED BY <1>1 DEF ToCollaborators

\* So does mapping a row.
LEMMA RowMapped ==
  ASSUME NEW x, IsRow(x)
  PROVE  /\ IsRow(ToWorkspaceItem(x)) /\ ToWorkspaceItem(x).item = x.item
         /\ ToWorkspaceItem(x).parent = x.parent
         /\ ToWorkspaceItem(x).collaborators = x.collaborators
<1>1. ToCollaborators(x.collaborators) = x.collaborators
  BY CollaboratorsMapped DEF IsRow
<1> QED BY <1>1 DEF IsRow, ToWorkspaceItem

\* And rows.
LEMMA RowsMapped ==
  ASSUME NEW S, AreRows(S)
  PROVE  AreRows(ToWorkspaceItems(S))
<1>1. \A x \in S : IsRow(ToWorkspaceItem(x)) /\ ToWorkspaceItem(x).item = x.item
  BY RowMapped DEF AreRows
<1>2. \A y \in ToWorkspaceItems(S) : \E x \in S : y = ToWorkspaceItem(x)
  BY DEF ToWorkspaceItems
<1>3. \A y \in ToWorkspaceItems(S) : IsRow(y)
  BY <1>1, <1>2
<1>4. OnceEach(ToWorkspaceItems(S))
  <2> SUFFICES ASSUME NEW y \in ToWorkspaceItems(S), NEW z \in ToWorkspaceItems(S), y.item = z.item
               PROVE  y = z
    BY DEF OnceEach
  <2>1. PICK x \in S : y = ToWorkspaceItem(x)
    BY <1>2
  <2>2. PICK w \in S : z = ToWorkspaceItem(w)
    BY <1>2
  <2>3. x.item = w.item
    BY <1>1, <2>1, <2>2
  <2> QED BY <2>1, <2>2, <2>3 DEF AreRows, OnceEach
<1> QED BY <1>3, <1>4 DEF AreRows

-----------------------------------------------------------------------------
(* What the steps of a page do: the action Refresh amounts to Refreshed,   *)
(* OpenMove to MoveOpened, and so on.                                      *)

\* Page u sends the request q.
Sent(u, s, q) ==
  /\ s \in Slots /\ requests[s] = NoRequest /\ Becomes(s, [stage |-> "sent", q |-> q])
  /\ UNCHANGED <<tables, outdated, overlapped>>
  /\ IsQuery(q) /\ "by" \in DOMAIN q /\ q.by = u /\ q.user = UserOf(u)

\* Page u takes the answer in the slot s.
Taken(u, s) ==
  /\ s \in Slots /\ requests[s] # NoRequest /\ requests[s].q.by = u /\ requests[s].stage = "answered"
  /\ Becomes(s, NoRequest)
  /\ UNCHANGED <<tables, outdated, overlapped>>

\* What is sent goes into a free slot.
LEMMA SendsMeans ==
  ASSUME NEW u, NEW q, Sends(q), IsQuery(q), "by" \in DOMAIN q, q.by = u, q.user = UserOf(u)
  PROVE  Sent(u, Slot, q)
<1>1. Slot \in Slots
  BY DEF Sends, Slot, Free
<1> QED BY <1>1 DEF Sends, Submit, Sent

\* Requests of an item.
LEMMA RowRequestType ==
  ASSUME NEW u, UserOf(u) \in Users, NEW row, IsRow(row), NEW op \in Mutations \cup Readings,
         op \notin {"create", "rename"}
  PROVE  LET q == RowRequest(u, op, row)
         IN  /\ IsQuery(q) /\ DOMAIN q = {"op", "by", "user", "item", "to", "name", "kind", "with",
                                          "permission"}
             /\ q.by = u /\ q.user = UserOf(u) /\ q.op = op /\ q.item = row.item
BY DEF RowRequest, IsQuery, IsRow, Places

\* What is taken.
LEMMA TakenMeans ==
  ASSUME NEW u, NEW ops, NEW s \in Own(u, ops), Deliver(s)
  PROVE  Taken(u, s) /\ requests[s].q.op \in ops
BY DEF Own, Deliver, Taken, Under

Refreshed(u, s, q) ==
  /\ Sent(u, s, q) /\ q.op = "list" /\ q.to = page[u].folder
  /\ page[u].listing = {} /\ page'[u].listing = {s}
  /\ Same(page'[u], page[u], {"listing", "listError"})
  /\ \A v \in Pages \ {u} : page'[v] = page[v]

\* The listing is asked for.
LEMMA RefreshDoes ==
  ASSUME PageTypes, NEW u \in Readers, Refresh(u)
  PROVE  \E s \in Slots : \E q : Refreshed(u, s, q)
<1> DEFINE q == ListRequest(u, page[u].folder)
<1>1. u \in Pages /\ UserOf(u) \in Users /\ IsPage(page[u])
  BY ScenarioTypes DEF PageTypes
<1>2. IsQuery(q) /\ "by" \in DOMAIN q /\ q.by = u /\ q.user = UserOf(u) /\ q.op = "list"
      /\ q.to = page[u].folder
  BY <1>1 DEF ListRequest, FolderRequest, IsQuery, Readings, IsPage, Places, Kinds
<1>3. Sends(q) /\ page[u].listing = {}
      /\ Shows(u, [page[u] EXCEPT !.listing = {Slot}, !.listError = FALSE])
  BY DEF Refresh
<1> HIDE DEF q
<1>4. Sent(u, Slot, q)
  BY <1>2, <1>3, SendsMeans
<1>5. page'[u] = [page[u] EXCEPT !.listing = {Slot}, !.listError = FALSE]
      /\ \A v \in Pages \ {u} : page'[v] = page[v]
  BY <1>1, <1>3, OnePage
<1>6. Same(page'[u], page[u], {"listing", "listError"}) /\ page'[u].listing = {Slot}
  BY <1>1, <1>5 DEF Same, IsPage, PageFields
<1>7. Slot \in Slots
  BY <1>4 DEF Sent
<1> QED BY <1>2, <1>3, <1>4, <1>5, <1>6, <1>7 DEF Refreshed

PlainOpened(u) ==
  /\ UNCHANGED serverVars
  /\ page[u].dialog = Closed /\ IsDialog(page'[u].dialog)
  /\ page'[u].dialog.type \in {"create", "rename", "delete"}
  /\ Same(page'[u], page[u], {"dialog"})
  /\ \A v \in Pages \ {u} : page'[v] = page[v]

\* A dialog opens that asks for nothing.
LEMMA OpenPlainDoes ==
  ASSUME PageTypes, NEW u \in Readers,
         (\E k \in {"folder", "document"} : OpenCreate(u, k)) \/ (\E t \in {"rename", "delete"} : OpenPlain(u, t))
  PROVE  PlainOpened(u)
<1>1. u \in Pages /\ IsPage(page[u])
  BY ScenarioTypes DEF PageTypes
<1>2. PICK d : /\ Shows(u, [page[u] EXCEPT !.dialog = d]) /\ UNCHANGED serverVars
               /\ page[u].dialog = Closed /\ IsDialog(d) /\ d.type \in {"create", "rename", "delete"}
  <2>1. ASSUME NEW k \in {"folder", "document"}, OpenCreate(u, k)
        PROVE  \E d : /\ Shows(u, [page[u] EXCEPT !.dialog = d]) /\ UNCHANGED serverVars
                      /\ page[u].dialog = Closed /\ IsDialog(d) /\ d.type \in {"create", "rename", "delete"}
    <3> DEFINE d == [type |-> "create", kind |-> k]
    <3>1. Shows(u, [page[u] EXCEPT !.dialog = d]) /\ UNCHANGED serverVars /\ page[u].dialog = Closed
      BY <2>1 DEF OpenCreate, Offered
    <3>2. IsDialog(d) /\ d.type = "create"
      BY DEF IsDialog, Kinds
    <3> HIDE DEF d
    <3> QED BY <3>1, <3>2
  <2>2. ASSUME NEW t \in {"rename", "delete"}, OpenPlain(u, t)
        PROVE  \E d : /\ Shows(u, [page[u] EXCEPT !.dialog = d]) /\ UNCHANGED serverVars
                      /\ page[u].dialog = Closed /\ IsDialog(d) /\ d.type \in {"create", "rename", "delete"}
    <3>1. PICK row \in page[u].rows : /\ page[u].dialog = Closed
                                      /\ Shows(u, [page[u] EXCEPT !.dialog = [type |-> t, row |-> row]])
      BY <2>2 DEF OpenPlain, OpenRow, Offered
    <3> DEFINE d == [type |-> t, row |-> row]
    <3>2. IsDialog(d) /\ d.type = t
      BY <1>1, <3>1 DEF IsDialog, IsPage, AreRows
    <3>3. UNCHANGED serverVars /\ Shows(u, [page[u] EXCEPT !.dialog = d])
      BY <2>2, <3>1 DEF OpenPlain
    <3> HIDE DEF d
    <3> QED BY <3>1, <3>2, <3>3
  <2> QED BY <2>1, <2>2
<1>3. page'[u] = [page[u] EXCEPT !.dialog = d] /\ \A v \in Pages \ {u} : page'[v] = page[v]
  BY <1>1, <1>2, OnePage
<1>4. Same(page'[u], page[u], {"dialog"}) /\ page'[u].dialog = d
  BY <1>1, <1>3 DEF Same, IsPage, PageFields
<1> QED BY <1>2, <1>3, <1>4 DEF PlainOpened

MoveOpened(u, s, q) ==
  /\ Sent(u, s, q) /\ q.op = "targets"
  /\ page[u].dialog = Closed /\ IsDialog(page'[u].dialog) /\ page'[u].dialog.type = "move"
  /\ Same(page'[u], page[u], {"dialog", "loadingTargets"})
  /\ \A v \in Pages \ {u} : page'[v] = page[v]

\* The dialog to move an item opens.
LEMMA OpenMoveDoes ==
  ASSUME PageTypes, NEW u \in Readers, OpenMove(u)
  PROVE  \E s \in Slots : \E q : MoveOpened(u, s, q)
<1>1. u \in Pages /\ UserOf(u) \in Users /\ IsPage(page[u])
  BY ScenarioTypes DEF PageTypes
<1>2. PICK row \in page[u].rows :
        /\ page[u].dialog = Closed /\ Sends(TargetsRequest(u, row))
        /\ Shows(u, [page[u] EXCEPT !.dialog = [type |-> "move", row |-> row], !.loadingTargets = TRUE])
  BY DEF OpenMove, OpenRow, Offered
<1> DEFINE q == TargetsRequest(u, row)
           d == [type |-> "move", row |-> row]
<1>3. IsRow(row)
  BY <1>1, <1>2 DEF IsPage, AreRows
<1>4. IsQuery(q) /\ "by" \in DOMAIN q /\ q.by = u /\ q.user = UserOf(u) /\ q.op = "targets"
  BY <1>1, <1>3, RowRequestType DEF TargetsRequest, Readings
<1>5. IsDialog(d) /\ d.type = "move"
  BY <1>3 DEF IsDialog
<1> HIDE DEF q
<1>6. Sent(u, Slot, q) /\ Slot \in Slots
  BY <1>2, <1>4, SendsMeans DEF q, Sent
<1> HIDE DEF d
<1>7. page'[u] = [page[u] EXCEPT !.dialog = d, !.loadingTargets = TRUE]
      /\ \A v \in Pages \ {u} : page'[v] = page[v]
  BY <1>1, <1>2, OnePage DEF d
<1>8. Same(page'[u], page[u], {"dialog", "loadingTargets"}) /\ page'[u].dialog = d
  BY <1>1, <1>7 DEF Same, IsPage, PageFields
<1> QED BY <1>2, <1>4, <1>5, <1>6, <1>7, <1>8 DEF MoveOpened

ShareOpened(u, s, q, row) ==
  /\ Sent(u, s, q) /\ q.op = "collaborators" /\ q.item = row.item
  /\ page[u].dialog = Closed /\ page'[u].dialog = [type |-> "share", row |-> row]
  /\ page'[u].sharees = row.collaborators /\ page'[u].asked = {s}
  /\ Same(page'[u], page[u], {"dialog", "sharees", "asked"})
  /\ \A v \in Pages \ {u} : page'[v] = page[v]

\* The dialog to share an item opens.
LEMMA OpenShareDoes ==
  ASSUME PageTypes, NEW u \in Readers, OpenShare(u)
  PROVE  \E s \in Slots : \E q : \E row \in page[u].rows : ShareOpened(u, s, q, row)
<1>1. u \in Pages /\ UserOf(u) \in Users /\ IsPage(page[u])
  BY ScenarioTypes DEF PageTypes
<1>2. PICK row \in page[u].rows :
        /\ page[u].dialog = Closed /\ Sends(CollaboratorsRequest(u, row))
        /\ Shows(u, [page[u] EXCEPT !.dialog = [type |-> "share", row |-> row],
                                    !.sharees = row.collaborators, !.asked = {Slot}])
  BY DEF OpenShare, OpenRow, Offered
<1> DEFINE q == CollaboratorsRequest(u, row)
           d == [type |-> "share", row |-> row]
<1>3. IsRow(row)
  BY <1>1, <1>2 DEF IsPage, AreRows
<1>4. IsQuery(q) /\ "by" \in DOMAIN q /\ q.by = u /\ q.user = UserOf(u) /\ q.op = "collaborators"
      /\ q.item = row.item
  BY <1>1, <1>3, RowRequestType DEF CollaboratorsRequest, Readings
<1> HIDE DEF q
<1>6. Sent(u, Slot, q) /\ Slot \in Slots
  BY <1>2, <1>4, SendsMeans DEF q, Sent
<1> HIDE DEF d
<1>7. page'[u] = [page[u] EXCEPT !.dialog = d, !.sharees = row.collaborators, !.asked = {Slot}]
      /\ \A v \in Pages \ {u} : page'[v] = page[v]
  BY <1>1, <1>2, OnePage DEF d
<1>8. /\ Same(page'[u], page[u], {"dialog", "sharees", "asked"}) /\ page'[u].dialog = d
      /\ page'[u].sharees = row.collaborators /\ page'[u].asked = {Slot}
  BY <1>1, <1>7 DEF Same, IsPage, PageFields
<1>9. page'[u].dialog = [type |-> "share", row |-> row] /\ row \in page[u].rows
  BY <1>2, <1>8 DEF d
<1>10. page[u].dialog = Closed
  BY <1>2
<1>11. /\ Sent(u, Slot, q) /\ q.op = "collaborators" /\ q.item = row.item
       /\ page[u].dialog = Closed /\ page'[u].dialog = [type |-> "share", row |-> row]
       /\ page'[u].sharees = row.collaborators /\ page'[u].asked = {Slot}
       /\ Same(page'[u], page[u], {"dialog", "sharees", "asked"})
       /\ \A v \in Pages \ {u} : page'[v] = page[v]
  BY <1>4, <1>6, <1>7, <1>8, <1>9, <1>10
<1> QED BY <1>6, <1>9, <1>11, Zenon DEF ShareOpened

\* The dialog of a page is closed.
Shut(r, p) ==
  /\ r.dialog = Closed
  /\ r.sharees = IF p.dialog.type = "share" THEN {} ELSE p.sharees
  /\ r.asked = IF p.dialog.type = "share" THEN {} ELSE p.asked

\* What is without a dialog.
LEMMA WithoutDialogDoes ==
  ASSUME NEW p, DOMAIN p = PageFields
  PROVE  Shut(WithoutDialog(p), p) /\ Same(WithoutDialog(p), p, {"dialog", "sharees", "asked"})
BY DEF Shut, WithoutDialog, Same, PageFields

\* A mishap changes nothing else.
LEMMA MishapDoes ==
  ASSUME NEW p, DOMAIN p = PageFields, NEW name, NEW happened
  PROVE  /\ Same(Mishap(p, name, happened), p, {"mishaps"})
         /\ Mishap(p, name, happened).mishaps = IF happened THEN p.mishaps \cup {name} ELSE p.mishaps
BY DEF Mishap, Same, PageFields

DialogClosed(u) ==
  /\ UNCHANGED serverVars
  /\ Shut(page'[u], page[u])
  /\ Same(page'[u], page[u], {"dialog", "sharees", "asked", "mishaps"})
  /\ page'[u].mishaps =
       IF \/ \E s \in Own(u, Mutations) : DialogOf(requests[s].q.op) = page[u].dialog.type
          \/ page[u].refreshing # {}
       THEN page[u].mishaps \cup {"left"} ELSE page[u].mishaps
  /\ \A v \in Pages \ {u} : page'[v] = page[v]

\* The user closes the dialog.
LEMMA CloseDoes ==
  ASSUME PageTypes, NEW u \in Readers, CloseDialog(u)
  PROVE  DialogClosed(u)
<1>1. u \in Pages /\ IsPage(page[u])
  BY ScenarioTypes DEF PageTypes
<1> DEFINE left == \/ \E s \in Own(u, Mutations) : DialogOf(requests[s].q.op) = page[u].dialog.type
                   \/ page[u].refreshing # {}
           p == WithoutDialog(page[u])
<1>2. Shows(u, Mishap(p, "left", left)) /\ UNCHANGED serverVars
  BY DEF CloseDialog
<1>3. Shut(p, page[u]) /\ Same(p, page[u], {"dialog", "sharees", "asked"})
  BY <1>1, WithoutDialogDoes DEF IsPage
<1> HIDE DEF p, left
<1>4. /\ Same(Mishap(p, "left", left), p, {"mishaps"})
      /\ Mishap(p, "left", left).mishaps = IF left THEN p.mishaps \cup {"left"} ELSE p.mishaps
  BY <1>3 DEF Same, Mishap, PageFields
<1>5. page'[u] = Mishap(p, "left", left) /\ \A v \in Pages \ {u} : page'[v] = page[v]
  BY <1>1, <1>2, OnePage
<1>6. Same(page'[u], page[u], {"dialog", "sharees", "asked", "mishaps"})
  BY <1>3, <1>4, <1>5 DEF Same, PageFields
<1>7. Shut(page'[u], page[u])
  BY <1>3, <1>4, <1>5 DEF Same, PageFields, Shut
<1>8. page'[u].mishaps = IF left THEN page[u].mishaps \cup {"left"} ELSE page[u].mishaps
  BY <1>3, <1>4, <1>5 DEF Same, PageFields
<1> QED BY <1>2, <1>5, <1>6, <1>7, <1>8 DEF left, DialogClosed

TargetsEnded(u, s) ==
  /\ Taken(u, s) /\ requests[s].q.op = "targets" /\ AreTargets(page'[u].targets)
  /\ Same(page'[u], page[u], {"loadingTargets", "targets"})
  /\ \A v \in Pages \ {u} : page'[v] = page[v]

\* Targets are taken over.
LEMMA TargetsEndDoes ==
  ASSUME PageTypes, TypeInv, NEW u \in Readers, TargetsEnd(u)
  PROVE  \E s \in Slots : TargetsEnded(u, s)
<1>1. u \in Pages /\ IsPage(page[u])
  BY ScenarioTypes DEF PageTypes
<1>2. PICK s \in Own(u, {"targets"}) :
        /\ Deliver(s)
        /\ Shows(u, [page[u] EXCEPT !.loadingTargets = FALSE,
                       !.targets = IF requests[s].ok THEN requests[s].result ELSE @])
  BY DEF TargetsEnd
<1>3. s \in Slots /\ Taken(u, s) /\ requests[s].q.op = "targets"
  BY <1>2, TakenMeans DEF Taken
<1>4. requests[s].ok => AreTargets(requests[s].result)
  BY <1>3 DEF TypeInv, IsRequest, IsUnderWay, IsAnswer, Taken
<1> DEFINE t == IF requests[s].ok THEN requests[s].result ELSE page[u].targets
<1>5. AreTargets(t)
  BY <1>1, <1>4 DEF IsPage
<1> HIDE DEF t
<1>6. page'[u] = [page[u] EXCEPT !.loadingTargets = FALSE, !.targets = t]
      /\ \A v \in Pages \ {u} : page'[v] = page[v]
  BY <1>1, <1>2, OnePage DEF t
<1>7. Same(page'[u], page[u], {"loadingTargets", "targets"}) /\ page'[u].targets = t
  BY <1>1, <1>6 DEF Same, IsPage, PageFields
<1> QED BY <1>3, <1>5, <1>6, <1>7 DEF TargetsEnded

CollaboratorsEnded(u, s) ==
  /\ Taken(u, s) /\ requests[s].q.op = "collaborators"
  /\ \A r \in page[u].refreshing : r.slot # s
  /\ page'[u].asked = page[u].asked \ {s}
  /\ page'[u].sharees = IF requests[s].ok /\ s \in page[u].asked THEN requests[s].result
                        ELSE page[u].sharees
  /\ requests[s].ok => requests[s].result \subseteq Sharees
  /\ Same(page'[u], page[u], {"asked", "sharees"})
  /\ \A v \in Pages \ {u} : page'[v] = page[v]

\* The collaborators of the dialog are taken over, if they are waited for.
LEMMA CollaboratorsEndDoes ==
  ASSUME PageTypes, TypeInv, NEW u \in Readers, CollaboratorsEnd(u)
  PROVE  \E s \in Slots : CollaboratorsEnded(u, s)
<1>1. u \in Pages /\ IsPage(page[u])
  BY ScenarioTypes DEF PageTypes
<1>2. PICK s \in Own(u, {"collaborators"}) :
        /\ \A r \in page[u].refreshing : r.slot # s
        /\ Deliver(s)
        /\ Shows(u, [page[u] EXCEPT !.asked = @ \ {s},
                       !.sharees = IF requests[s].ok /\ s \in page[u].asked
                                   THEN ToCollaborators(requests[s].result) ELSE @])
  BY DEF CollaboratorsEnd
<1>3. s \in Slots /\ Taken(u, s) /\ requests[s].q.op = "collaborators"
  BY <1>2, TakenMeans DEF Taken
<1>4. requests[s].ok => requests[s].result \subseteq Sharees
  BY <1>3 DEF TypeInv, IsRequest, IsUnderWay, IsAnswer, Taken
<1>5. requests[s].ok => ToCollaborators(requests[s].result) = requests[s].result
  BY <1>4, CollaboratorsMapped
<1> DEFINE c == IF requests[s].ok /\ s \in page[u].asked THEN ToCollaborators(requests[s].result)
                ELSE page[u].sharees
           a == page[u].asked \ {s}
<1>6. c = IF requests[s].ok /\ s \in page[u].asked THEN requests[s].result ELSE page[u].sharees
  BY <1>5
<1> HIDE DEF a, c
<1>7. page'[u] = [page[u] EXCEPT !.asked = a, !.sharees = c]
      /\ \A v \in Pages \ {u} : page'[v] = page[v]
  BY <1>1, <1>2, OnePage DEF a, c
<1>8. Same(page'[u], page[u], {"asked", "sharees"}) /\ page'[u].asked = a /\ page'[u].sharees = c
  BY <1>1, <1>7 DEF Same, IsPage, PageFields
<1>9. page'[u].asked = page[u].asked \ {s}
  BY <1>8 DEF a
<1> QED BY <1>2, <1>3, <1>4, <1>6, <1>7, <1>8, <1>9 DEF CollaboratorsEnded

RefreshEnded(u, r) ==
  /\ Taken(u, r.slot) /\ requests[r.slot].q.op = "collaborators"
  /\ page'[u].refreshing = page[u].refreshing \ {r}
  /\ page'[u].sharees = IF requests[r.slot].ok THEN requests[r.slot].result ELSE r.collaborators
  /\ requests[r.slot].ok => requests[r.slot].result \subseteq Sharees
  /\ Same(page'[u], page[u], {"refreshing", "sharees"})
  /\ \A v \in Pages \ {u} : page'[v] = page[v]

\* Those after a change are.
LEMMA RefreshEndsDoes ==
  ASSUME PageTypes, TypeInv, NEW u \in Readers, RefreshEnds(u),
         \A t \in page[u].refreshing : t.slot \in Own(u, {"collaborators"})
  PROVE  \E r \in page[u].refreshing : RefreshEnded(u, r)
<1>1. u \in Pages /\ IsPage(page[u])
  BY ScenarioTypes DEF PageTypes
<1>2. PICK r \in page[u].refreshing :
        /\ Deliver(r.slot)
        /\ Shows(u, [page[u] EXCEPT !.refreshing = @ \ {r},
                       !.sharees = IF requests[r.slot].ok
                                   THEN ToCollaborators(requests[r.slot].result) ELSE r.collaborators])
  BY DEF RefreshEnds
<1>3. r.slot \in Own(u, {"collaborators"})
  BY <1>2
<1> DEFINE s == r.slot
<1>4. s \in Slots /\ Taken(u, s) /\ requests[s].q.op = "collaborators"
  BY <1>2, <1>3, TakenMeans DEF Taken
<1>5. requests[s].ok => requests[s].result \subseteq Sharees
  BY <1>4 DEF TypeInv, IsRequest, IsUnderWay, IsAnswer, Taken
<1>6. requests[s].ok => ToCollaborators(requests[s].result) = requests[s].result
  BY <1>5, CollaboratorsMapped
<1> DEFINE c == IF requests[s].ok THEN ToCollaborators(requests[s].result) ELSE r.collaborators
           w == page[u].refreshing \ {r}
<1>7. c = IF requests[s].ok THEN requests[s].result ELSE r.collaborators
  BY <1>6
<1> HIDE DEF w, c
<1>8. page'[u] = [page[u] EXCEPT !.refreshing = w, !.sharees = c]
      /\ \A v \in Pages \ {u} : page'[v] = page[v]
  BY <1>1, <1>2, OnePage DEF w, c
<1>9. Same(page'[u], page[u], {"refreshing", "sharees"}) /\ page'[u].refreshing = w /\ page'[u].sharees = c
  BY <1>1, <1>8 DEF Same, IsPage, PageFields
<1>10. page'[u].refreshing = page[u].refreshing \ {r}
  BY <1>9 DEF w
<1> QED BY <1>2, <1>4, <1>5, <1>7, <1>8, <1>9, <1>10 DEF RefreshEnded

ListingEnded(u, s) ==
  /\ Taken(u, s) /\ requests[s].q.op = "list"
  /\ page'[u].listing = {} /\ page'[u].listError = ~requests[s].ok
  /\ page'[u].rows = IF requests[s].ok THEN ToWorkspaceItems(requests[s].result) ELSE page[u].rows
  /\ requests[s].ok => AreRows(requests[s].result)
  /\ Same(page'[u], page[u], {"listing", "listError", "rows"})
  /\ \A v \in Pages \ {u} : page'[v] = page[v]

\* A listing replaces the rows.
LEMMA ListingEndsDoes ==
  ASSUME PageTypes, TypeInv, NEW u \in Readers, ListingEnds(u), page[u].listing \subseteq Own(u, {"list"})
  PROVE  \E s \in page[u].listing : ListingEnded(u, s)
<1>1. u \in Pages /\ IsPage(page[u])
  BY ScenarioTypes DEF PageTypes
<1>2. PICK s \in page[u].listing :
        /\ Deliver(s)
        /\ Shows(u, [page[u] EXCEPT !.listing = {}, !.listError = ~requests[s].ok,
                       !.rows = IF requests[s].ok THEN ToWorkspaceItems(requests[s].result) ELSE @])
  BY DEF ListingEnds
<1>3. s \in Slots /\ Taken(u, s) /\ requests[s].q.op = "list"
  BY <1>2, TakenMeans DEF Taken
<1>4. requests[s].ok => AreRows(requests[s].result)
  BY <1>3 DEF TypeInv, IsRequest, IsUnderWay, IsAnswer, Taken
<1> DEFINE w == IF requests[s].ok THEN ToWorkspaceItems(requests[s].result) ELSE page[u].rows
           e == ~requests[s].ok
<1> HIDE DEF w
<1>5. page'[u] = [page[u] EXCEPT !.listing = {}, !.listError = e, !.rows = w]
      /\ \A v \in Pages \ {u} : page'[v] = page[v]
  BY <1>1, <1>2, OnePage DEF w
<1>6. /\ Same(page'[u], page[u], {"listing", "listError", "rows"})
      /\ page'[u].listing = {} /\ page'[u].rows = w
  BY <1>1, <1>5 DEF Same, IsPage, PageFields
<1>7. page'[u].listError = ~requests[s].ok
  BY <1>1, <1>5 DEF IsPage, PageFields
<1> QED BY <1>2, <1>3, <1>4, <1>5, <1>6, <1>7 DEF w, ListingEnded

Handled(u, s, q) ==
  /\ Sent(u, s, q) /\ q.op \in Mutations /\ page[u].dialog.type = DialogOf(q.op)
  /\ \A t \in Own(u, Mutations) : DialogOf(requests[t].q.op) # DialogOf(q.op)
  /\ q.op # "create" => q.item = page[u].dialog.row.item
  /\ UNCHANGED page

\* A form is submitted.
LEMMA HandleDoes ==
  ASSUME PageTypes, NEW u \in Readers, Handle(u)
  PROVE  \E s \in Slots : \E q : Handled(u, s, q)
<1>1. u \in Pages /\ UserOf(u) \in Users /\ IsPage(page[u]) /\ scenario.names \subseteq Names \cup {""}
  BY ScenarioTypes DEF PageTypes
<1> DEFINE row == page[u].dialog.row
<1>2. ASSUME page[u].dialog.type \in {"rename", "delete", "move", "share"} PROVE IsRow(row)
  <2> DEFINE d == page[u].dialog
  <2>1. IsDialog(d) /\ d.type \in {"rename", "delete", "move", "share"}
    BY <1>1, <1>2 DEF IsPage
  <2> HIDE DEF d
  <2>2. IsRow(d.row)
    BY <2>1 DEF IsDialog, Closed
  <2> QED BY <2>2 DEF d
<1>3. ASSUME NEW q, Execute(u, q), IsQuery(q), "by" \in DOMAIN q, q.by = u, q.user = UserOf(u),
             q.op \in Mutations, page[u].dialog.type = DialogOf(q.op),
             \A t \in Own(u, Mutations) : DialogOf(requests[t].q.op) # DialogOf(q.op),
             q.op # "create" => q.item = page[u].dialog.row.item
      PROVE  \E s \in Slots : \E p : Handled(u, s, p)
  <2>1. Sends(q) /\ UNCHANGED page
    BY <1>3 DEF Execute
  <2>2. Sent(u, Slot, q) /\ Slot \in Slots
    BY <1>3, <2>1, SendsMeans DEF Sent
  <2> QED BY <1>3, <2>1, <2>2 DEF Handled
<1>6. CASE HandleCreate(u)
  <2>1. PICK n \in NamesToCreate(u) :
          Execute(u, IF page[u].dialog.kind = "folder" THEN CreateFolderRequest(u, n, page[u].folder)
                     ELSE CreateDocumentRequest(u, n, page[u].folder))
    BY <1>6 DEF HandleCreate
  <2>2. PICK q : /\ Execute(u, q)
                 /\ q = CreateFolderRequest(u, n, page[u].folder)
                    \/ q = CreateDocumentRequest(u, n, page[u].folder)
    BY <2>1
  <2>3. n \in Names /\ page[u].dialog.type = "create" /\ Own(u, {"create"}) = {}
    BY <1>1 DEF NamesToCreate, Enabled, IsCreating
  <2>4. page[u].folder \in Places
    BY <1>1 DEF IsPage
  <2>6. IsQuery(q) /\ "by" \in DOMAIN q /\ q.by = u /\ q.user = UserOf(u) /\ q.op = "create"
    <3>1. CASE q = CreateFolderRequest(u, n, page[u].folder)
      BY <1>1, <2>3, <2>4, <3>1 DEF CreateFolderRequest, FolderRequest, IsQuery, Mutations, Kinds, Places
    <3>2. CASE q = CreateDocumentRequest(u, n, page[u].folder)
      BY <1>1, <2>3, <2>4, <3>2 DEF CreateDocumentRequest, FolderRequest, IsQuery, Mutations, Kinds, Places
    <3> QED BY <2>2, <3>1, <3>2
  <2>5. \A t \in Own(u, Mutations) : DialogOf(requests[t].q.op) # "create"
    BY <2>3 DEF Own, DialogOf
  <2> QED BY <1>3, <2>2, <2>3, <2>5, <2>6 DEF DialogOf, Mutations
<1>7. CASE HandleRename(u)
  <2> DEFINE q(n) == RenameRequest(u, row, n)
  <2>1. PICK n \in NamesToRename(u) : Execute(u, q(n))
    BY <1>7 DEF HandleRename
  <2>2. n \in Names /\ page[u].dialog.type = "rename" /\ Own(u, {"rename"}) = {}
    BY <1>1 DEF NamesToRename, Enabled, IsRenaming
  <2>3. IsRow(row)
    BY <1>2, <2>2
  <2>4. IsQuery(q(n)) /\ "by" \in DOMAIN q(n) /\ q(n).by = u /\ q(n).user = UserOf(u)
        /\ q(n).op = "rename" /\ q(n).item = row.item
    BY <1>1, <2>2, <2>3 DEF RenameRequest, RowRequest, IsQuery, IsRow, Mutations, Places
  <2>5. \A t \in Own(u, Mutations) : DialogOf(requests[t].q.op) # "rename"
    BY <2>2 DEF Own, DialogOf
  <2> HIDE DEF q
  <2> QED BY <1>3, <2>1, <2>2, <2>4, <2>5 DEF DialogOf, Mutations
<1>8. CASE HandleDelete(u)
  <2> DEFINE q == DeleteRequest(u, row)
  <2>1. Execute(u, q) /\ page[u].dialog.type = "delete" /\ Own(u, {"delete"}) = {}
    BY <1>8 DEF HandleDelete, ConfirmsDeletion, Enabled, IsDeleting
  <2>2. IsRow(row)
    BY <1>2, <2>1
  <2>3. IsQuery(q) /\ "by" \in DOMAIN q /\ q.by = u /\ q.user = UserOf(u)
        /\ q.op = "delete" /\ q.item = row.item
    BY <1>1, <2>2 DEF DeleteRequest, RowRequest, IsQuery, IsRow, Mutations, Places
  <2>4. \A t \in Own(u, Mutations) : DialogOf(requests[t].q.op) # "delete"
    BY <2>1 DEF Own, DialogOf
  <2> HIDE DEF q
  <2> QED BY <1>3, <2>1, <2>3, <2>4 DEF DialogOf, Mutations
<1>9. CASE HandleMove(u)
  <2> DEFINE q(t) == MoveRequest(u, row, t)
  <2>1. PICK t \in Destinations(u) : Execute(u, q(t))
    BY <1>9 DEF HandleMove
  <2>2. t \in Places /\ page[u].dialog.type = "move" /\ Own(u, {"move"}) = {}
    BY <1>1 DEF Destinations, Enabled, IsMoving, IsPage, AreTargets
  <2>3. IsRow(row)
    BY <1>2, <2>2
  <2>4. IsQuery(q(t)) /\ "by" \in DOMAIN q(t) /\ q(t).by = u /\ q(t).user = UserOf(u)
        /\ q(t).op = "move" /\ q(t).item = row.item
    BY <1>1, <2>2, <2>3 DEF MoveRequest, RowRequest, IsQuery, IsRow, Mutations, Places
  <2>5. \A x \in Own(u, Mutations) : DialogOf(requests[x].q.op) # "move"
    BY <2>2 DEF Own, DialogOf
  <2> HIDE DEF q
  <2> QED BY <1>3, <2>1, <2>2, <2>4, <2>5 DEF DialogOf, Mutations
<1>10. \A x \in Own(u, Mutations) :
         Own(u, {"share", "update", "remove"}) = {} => DialogOf(requests[x].q.op) # "share"
  BY DEF Own, DialogOf
<1>11. CASE HandleInvite(u)
  <2> DEFINE q(i) == ShareRequest(u, row, i.user, i.permission)
  <2>1. PICK i \in Invitations(u) : Execute(u, q(i))
    BY <1>11 DEF HandleInvite
  <2>2. i.user \in Users /\ page[u].dialog.type = "share" /\ Own(u, {"share", "update", "remove"}) = {}
    BY DEF Invitations, Enabled, IsSharing
  <2>3. IsRow(row)
    BY <1>2, <2>2
  <2>4. IsQuery(q(i)) /\ "by" \in DOMAIN q(i) /\ q(i).by = u /\ q(i).user = UserOf(u)
        /\ q(i).op = "share" /\ q(i).item = row.item
    BY <1>1, <2>2, <2>3 DEF ShareRequest, RowRequest, ToBackendPermission, IsQuery, IsRow, Mutations, Places
  <2> HIDE DEF q
  <2> QED BY <1>3, <1>10, <2>1, <2>2, <2>4 DEF DialogOf, Mutations
<1>12. CASE HandleUpdateCollaborator(u)
  <2> DEFINE q(c, p) == UpdateRequest(u, row, c.user, p)
  <2>1. PICK c \in CollaboratorRows(u) : \E p : Execute(u, q(c, p))
    BY <1>12 DEF HandleUpdateCollaborator
  <2>2. PICK p : Execute(u, q(c, p))
    BY <2>1
  <2>3. c.user \in Users /\ page[u].dialog.type = "share" /\ Own(u, {"share", "update", "remove"}) = {}
    BY <1>1 DEF CollaboratorRows, Enabled, IsSharing, IsPage, Sharees
  <2>4. IsRow(row)
    BY <1>2, <2>3
  <2>5. IsQuery(q(c, p)) /\ "by" \in DOMAIN q(c, p) /\ q(c, p).by = u /\ q(c, p).user = UserOf(u)
        /\ q(c, p).op = "update" /\ q(c, p).item = row.item
    BY <1>1, <2>3, <2>4 DEF UpdateRequest, RowRequest, ToBackendPermission, IsQuery, IsRow, Mutations, Places
  <2> HIDE DEF q
  <2> QED BY <1>3, <1>10, <2>2, <2>3, <2>5 DEF DialogOf, Mutations
<1>13. CASE HandleRemoveCollaborator(u)
  <2> DEFINE q(c) == RemoveRequest(u, row, c.user)
  <2>1. PICK c \in CollaboratorRows(u) : Execute(u, q(c))
    BY <1>13 DEF HandleRemoveCollaborator
  <2>2. c.user \in Users /\ page[u].dialog.type = "share" /\ Own(u, {"share", "update", "remove"}) = {}
    BY <1>1 DEF CollaboratorRows, Enabled, IsSharing, IsPage, Sharees
  <2>3. IsRow(row)
    BY <1>2, <2>2
  <2>4. IsQuery(q(c)) /\ "by" \in DOMAIN q(c) /\ q(c).by = u /\ q(c).user = UserOf(u)
        /\ q(c).op = "remove" /\ q(c).item = row.item
    BY <1>1, <2>2, <2>3 DEF RemoveRequest, RowRequest, IsQuery, IsRow, Mutations, Places
  <2> HIDE DEF q
  <2> QED BY <1>3, <1>10, <2>1, <2>2, <2>4 DEF DialogOf, Mutations
<1> QED BY <1>6, <1>7, <1>8, <1>9, <1>11, <1>12, <1>13 DEF Handle


\* Rows without those of the item i.
Except(rows, i) == {x \in rows : x.item # i}

\* The rows of page p after a mutation of the item i whose answer shows what is in R.
Updated(p, i, R) == Except(p.rows, i) \cup {y \in R : y.parent = p.folder}

\* What a mutation was answered with.
Outcome(s) == IF requests[s].q.op = "delete" THEN {} ELSE ToWorkspaceItems(requests[s].result)

\* A mutation that was carried out changes the rows.
LEMMA SucceedsDoes ==
  ASSUME NEW p, IsPage(p), NEW s, IsUnderWay(requests[s]), requests[s].stage = "answered",
         requests[s].ok, requests[s].q.op \in Mutations
  PROVE  LET q == requests[s].q
             r == Succeeds(p, q, requests[s].result)
         IN  /\ Same(r, p, {"rows"}) /\ AreRows(r.rows) /\ r.rows = Updated(p, q.item, Outcome(s))
             /\ q.op # "delete" =>
                  \E x : /\ requests[s].result = {x} /\ IsRow(x) /\ x.item = q.item
                         /\ (CHOOSE item \in requests[s].result : TRUE) = x
                         /\ Outcome(s) = {ToWorkspaceItem(x)}
<1> DEFINE q == requests[s].q
           result == requests[s].result
           r == Succeeds(p, q, result)
<1>1. CASE q.op = "delete"
  <2>1. r = [p EXCEPT !.rows = Except(p.rows, q.item)]
    BY <1>1 DEF Succeeds, RemoveItem, Except
  <2>2. Same(r, p, {"rows"}) /\ r.rows = Except(p.rows, q.item)
    BY <2>1 DEF IsPage, Same, PageFields
  <2>3. Updated(p, q.item, Outcome(s)) = Except(p.rows, q.item)
    BY <1>1 DEF Updated, Outcome
  <2>4. AreRows(Except(p.rows, q.item))
    BY DEF IsPage, AreRows, OnceEach, Except
  <2> QED BY <1>1, <2>2, <2>3, <2>4
<1>2. CASE q.op # "delete"
  <2>1. PICK x \in result : result = {x} /\ IsRow(x) /\ x.item = q.item
    BY <1>2 DEF IsUnderWay, IsAnswer, OneRow, Loading, Mutations
  <2> DEFINE y == ToWorkspaceItem(x)
             w == Except(p.rows, y.item) \cup (IF y.parent = p.folder THEN {y} ELSE {})
  <2>2. (CHOOSE item \in result : TRUE) = x
    BY <2>1
  <2>3. IsRow(y) /\ y.item = q.item
    BY <2>1, RowMapped
  <2>4. r = [p EXCEPT !.rows = w]
    BY <1>2, <2>2 DEF Succeeds, UpsertItem, Except
  <2>5. Outcome(s) = {y}
    BY <1>2, <2>1 DEF Outcome, ToWorkspaceItems
  <2> HIDE DEF y
  <2>6. w = Updated(p, q.item, Outcome(s))
    BY <2>3, <2>5 DEF Updated
  <2>7. AreRows(w)
    BY <2>3 DEF IsPage, AreRows, OnceEach, Except
  <2> HIDE DEF w
  <2>8. Same(r, p, {"rows"}) /\ r.rows = w
    BY <2>4 DEF IsPage, Same, PageFields
  <2>9. Outcome(s) = {ToWorkspaceItem(x)}
    BY <2>5 DEF y
  <2> QED BY <2>1, <2>2, <2>6, <2>7, <2>8, <2>9
<1> QED BY <1>1, <1>2

MutationEnded(u, s) ==
  /\ Taken(u, s) /\ requests[s].q.op \in {"create", "rename", "delete", "move"}
  /\ requests[s].ok =>
       /\ Shut(page'[u], page[u]) /\ AreRows(page'[u].rows)
       /\ page'[u].rows = Updated(page[u], requests[s].q.item, Outcome(s))
       /\ Same(page'[u], page[u], {"rows", "dialog", "sharees", "asked"})
  /\ ~requests[s].ok => page'[u] = page[u]
  /\ \A v \in Pages \ {u} : page'[v] = page[v]

\* The answer to a mutation outside the share dialog.
LEMMA MutationEndsDoes ==
  ASSUME PageTypes, TypeInv, NEW u \in Readers, MutationEnds(u)
  PROVE  \E s \in Slots : MutationEnded(u, s)
<1>1. u \in Pages /\ IsPage(page[u])
  BY ScenarioTypes DEF PageTypes
<1>2. PICK s \in Own(u, Mutations \ {"share", "update", "remove"}) :
        /\ Deliver(s)
        /\ Shows(u, IF ~requests[s].ok THEN page[u]
                    ELSE WithoutDialog(Succeeds(page[u], requests[s].q, requests[s].result)))
  BY DEF MutationEnds
<1> DEFINE q == requests[s].q
<1>3. s \in Slots /\ Taken(u, s) /\ q.op \in Mutations \ {"share", "update", "remove"}
  BY <1>2, TakenMeans DEF Taken
<1>4. q.op \in {"create", "rename", "delete", "move"} /\ q.op \in Mutations
  BY <1>3 DEF Mutations
<1>5. IsUnderWay(requests[s]) /\ requests[s].stage = "answered"
  BY <1>3 DEF TypeInv, IsRequest, Taken
<1> DEFINE r == Succeeds(page[u], q, requests[s].result)
<1>6. ASSUME requests[s].ok
      PROVE  /\ Shut(page'[u], page[u]) /\ AreRows(page'[u].rows)
             /\ page'[u].rows = Updated(page[u], q.item, Outcome(s))
             /\ Same(page'[u], page[u], {"rows", "dialog", "sharees", "asked"})
             /\ \A v \in Pages \ {u} : page'[v] = page[v]
  <2>1. Same(r, page[u], {"rows"}) /\ AreRows(r.rows) /\ r.rows = Updated(page[u], q.item, Outcome(s))
    BY <1>1, <1>4, <1>5, <1>6, SucceedsDoes
  <2>2. Shows(u, WithoutDialog(r))
    BY <1>2, <1>6
  <2> HIDE DEF r, q
  <2>3. page'[u] = WithoutDialog(r) /\ \A v \in Pages \ {u} : page'[v] = page[v]
    BY <1>1, <2>2, OnePage
  <2>4. Shut(page'[u], r) /\ Same(page'[u], r, {"dialog", "sharees", "asked"})
    BY <2>1, <2>3, WithoutDialogDoes DEF Same
  <2>5. Shut(page'[u], page[u])
    BY <2>1, <2>4 DEF Same, Shut, PageFields
  <2>6. Same(page'[u], page[u], {"rows", "dialog", "sharees", "asked"}) /\ page'[u].rows = r.rows
    BY <2>1, <2>4 DEF Same, PageFields
  <2> QED BY <2>1, <2>3, <2>5, <2>6
<1>7. ASSUME ~requests[s].ok PROVE page'[u] = page[u] /\ \A v \in Pages \ {u} : page'[v] = page[v]
  <2>1. Shows(u, page[u])
    BY <1>2, <1>7
  <2> QED BY <1>1, <2>1, OnePage
<1> QED BY <1>3, <1>4, <1>6, <1>7 DEF MutationEnded

SharingEnded(u, s) ==
  /\ requests[s] # NoRequest /\ requests[s].q.by = u /\ requests[s].stage = "answered"
  /\ requests[s].q.op \in {"share", "update", "remove"}
  /\ UNCHANGED <<tables, outdated, overlapped>>
  /\ \/ /\ requests[s].ok
        /\ \E q, c :
             /\ Becomes(s, [stage |-> "sent", q |-> q]) /\ IsQuery(q)
             /\ "by" \in DOMAIN q /\ q.by = u /\ q.user = UserOf(u)
             /\ q.op = "collaborators" /\ q.item = requests[s].q.item
             /\ c \subseteq Sharees /\ page'[u].sharees = c
             /\ page'[u].refreshing = page[u].refreshing \cup
                                        {[slot |-> s, collaborators |-> c]}
        /\ AreRows(page'[u].rows)
        /\ page'[u].rows = Updated(page[u], requests[s].q.item, Outcome(s))
        /\ Same(page'[u], page[u], {"rows", "sharees", "refreshing"})
     \/ ~requests[s].ok /\ Becomes(s, NoRequest) /\ page'[u] = page[u]
  /\ \A v \in Pages \ {u} : page'[v] = page[v]

\* The answer to a mutation of the share dialog: the collaborators are asked for again.
LEMMA SharingEndsDoes ==
  ASSUME PageTypes, TypeInv, OwnInv, NEW u \in Readers, SharingEnds(u)
  PROVE  \E s \in Slots : SharingEnded(u, s)
<1>1. u \in Pages /\ IsPage(page[u]) /\ UserOf(u) \in Users
  BY ScenarioTypes DEF PageTypes
<1>2. PICK s \in Own(u, {"share", "update", "remove"}) :
        LET q == requests[s].q IN
        /\ s \in Under("answered")
        /\ IF requests[s].ok
           THEN LET row == ToWorkspaceItem(CHOOSE item \in requests[s].result : TRUE)
                IN  /\ requests' = [requests EXCEPT ![s] =
                         [stage |-> "sent", q |-> CollaboratorsRequest(u, row)]]
                    /\ Shows(u, [Succeeds(page[u], q, requests[s].result) EXCEPT
                                   !.sharees = row.collaborators,
                                   !.refreshing = @ \cup {[slot |-> s,
                                                          collaborators |-> row.collaborators]}])
           ELSE /\ requests' = [requests EXCEPT ![s] = NoRequest]
                /\ Shows(u, page[u])
        /\ UNCHANGED <<tables, outdated, overlapped, budget>>
  BY DEF SharingEnds
<1> DEFINE q == requests[s].q
<1>3. /\ s \in Slots /\ requests[s] # NoRequest /\ q.by = u /\ requests[s].stage = "answered"
      /\ q.op \in {"share", "update", "remove"} /\ UNCHANGED <<tables, outdated, overlapped>>
  BY <1>2 DEF Own, Under
<1>4. IsUnderWay(requests[s]) /\ q.op \in Mutations /\ q.op # "delete"
  BY <1>3 DEF TypeInv, IsRequest, Mutations
<1>5. ASSUME requests[s].ok
      PROVE  /\ \E p, c :
                  /\ Becomes(s, [stage |-> "sent", q |-> p]) /\ IsQuery(p)
                  /\ "by" \in DOMAIN p /\ p.by = u /\ p.user = UserOf(u)
                  /\ p.op = "collaborators" /\ p.item = q.item
                  /\ c \subseteq Sharees /\ page'[u].sharees = c
                  /\ page'[u].refreshing = page[u].refreshing \cup {[slot |-> s, collaborators |-> c]}
             /\ AreRows(page'[u].rows)
             /\ page'[u].rows = Updated(page[u], q.item, Outcome(s))
             /\ Same(page'[u], page[u], {"rows", "sharees", "refreshing"})
             /\ \A v \in Pages \ {u} : page'[v] = page[v]
  <2> DEFINE r == Succeeds(page[u], q, requests[s].result)
  <2>1. Same(r, page[u], {"rows"}) /\ AreRows(r.rows) /\ r.rows = Updated(page[u], q.item, Outcome(s))
    BY <1>1, <1>4, <1>5, <1>3, SucceedsDoes
  <2>2. PICK x : /\ requests[s].result = {x} /\ IsRow(x) /\ x.item = q.item
                 /\ (CHOOSE item \in requests[s].result : TRUE) = x
    BY <1>1, <1>4, <1>5, <1>3, SucceedsDoes
  <2> DEFINE row == ToWorkspaceItem(x)
             p == CollaboratorsRequest(u, row)
             c == row.collaborators
             f == page[u].refreshing \cup {[slot |-> s, collaborators |-> c]}
  <2>3. IsRow(row) /\ row.item = q.item
    BY <2>2, RowMapped
  <2>4. c \subseteq Sharees
    BY <2>3 DEF IsRow
  <2>5. /\ requests' = [requests EXCEPT ![s] = [stage |-> "sent", q |-> p]]
        /\ Shows(u, [r EXCEPT !.sharees = c, !.refreshing = @ \cup {[slot |-> s, collaborators |-> c]}])
    BY <1>2, <1>5, <2>2
  <2>6. /\ IsQuery(p) /\ "by" \in DOMAIN p /\ p.by = u /\ p.user = UserOf(u)
        /\ p.op = "collaborators" /\ p.item = q.item
    BY <1>1, <2>3, RowRequestType DEF CollaboratorsRequest, Readings
  <2>7. r.refreshing = page[u].refreshing
    BY <2>1 DEF Same, PageFields
  <2> HIDE DEF r, p, c, row, q
  <2>8. page'[u] = [r EXCEPT !.sharees = c, !.refreshing = f] /\ \A v \in Pages \ {u} : page'[v] = page[v]
    BY <1>1, <2>5, <2>7, OnePage
  <2> HIDE DEF f
  <2>9. /\ Same(page'[u], r, {"sharees", "refreshing"}) /\ page'[u].sharees = c
        /\ page'[u].refreshing = f
    BY <2>1, <2>8 DEF Same, PageFields
  <2>10. Same(page'[u], page[u], {"rows", "sharees", "refreshing"}) /\ page'[u].rows = r.rows
    BY <2>1, <2>9 DEF Same, PageFields
  <2>11. Becomes(s, [stage |-> "sent", q |-> p])
    BY <2>5 DEF Becomes
  <2>12. page'[u].refreshing = page[u].refreshing \cup {[slot |-> s, collaborators |-> c]}
    BY <2>9 DEF f
  <2> QED BY <2>1, <2>4, <2>6, <2>8, <2>9, <2>10, <2>11, <2>12
<1>6. ASSUME ~requests[s].ok
      PROVE  Becomes(s, NoRequest) /\ page'[u] = page[u] /\ \A v \in Pages \ {u} : page'[v] = page[v]
  <2>1. Shows(u, page[u]) /\ requests' = [requests EXCEPT ![s] = NoRequest]
    BY <1>2, <1>6
  <2> QED BY <1>1, <2>1, OnePage DEF Becomes
<1> QED BY <1>3, <1>5, <1>6 DEF SharingEnded

-----------------------------------------------------------------------------
(* The requests of a page, before and after a step.                        *)

\* The slots of the refreshes a page waits for.
Refreshes(u) == {r.slot : r \in page[u].refreshing}

\* A page waits for its own requests only, for at most one listing, and for each
\* answer in one way.
Waits(u) ==
  /\ page[u].listing = Own(u, {"list"}) /\ \A s, t \in page[u].listing : s = t
  /\ page[u].asked \cup Refreshes(u) \subseteq Own(u, {"collaborators"})
  /\ page[u].asked \cap Refreshes(u) = {}
  /\ \A r, t \in page[u].refreshing : r.slot = t.slot => r = t

WaitInv == \A u \in Pages : Waits(u)

\* The request in s goes on, and stays what it is.
Moves(s) ==
  /\ requests[s] # NoRequest /\ requests'[s] # NoRequest
  /\ requests'[s].q.op = requests[s].q.op /\ requests'[s].q.by = requests[s].q.by
  /\ requests'[s].q.user = requests[s].q.user /\ requests'[s].q.to = requests[s].q.to
  /\ "by" \in DOMAIN requests'[s].q
  /\ requests[s].q.op # "create" => requests'[s].q = requests[s].q
  /\ \A t \in Slots \ {s} : requests'[t] = requests[t]

\* What is sent is one request more, of its page.
LEMMA OwnSent ==
  ASSUME TypeInv, NEW u, NEW s, NEW q, Sent(u, s, q), NEW v, NEW ops
  PROVE  /\ Own(v, ops)' = Own(v, ops) \cup (IF v = u /\ q.op \in ops THEN {s} ELSE {})
         /\ s \notin Own(v, ops)
<1> DEFINE r == [stage |-> "sent", q |-> q]
<1>1. s \in Slots /\ Becomes(s, r) /\ requests[s] = NoRequest /\ q.by = u
  BY DEF Sent
<1>2. r.q = q /\ r # NoRequest
  BY DEF NoRequest
<1> HIDE DEF r
<1>3. requests'[s] = r /\ \A t \in Slots \ {s} : requests'[t] = requests[t]
  BY <1>1, OneRequest
<1>4. s \notin Own(v, ops)
  BY <1>1 DEF Own
<1>5. Own(v, ops)' = {t \in Slots : requests'[t] # NoRequest /\ requests'[t].q.by = v /\ requests'[t].q.op \in ops}
  BY DEF Own
<1>6. \A t \in Slots : t \in Own(v, ops)' <=> (t \in Own(v, ops) \/ (t = s /\ v = u /\ q.op \in ops))
  BY <1>1, <1>2, <1>3, <1>4, <1>5 DEF Own
<1> QED BY <1>1, <1>4, <1>5, <1>6 DEF Own

\* What is taken is one less.
LEMMA OwnTaken ==
  ASSUME TypeInv, NEW s \in Slots, Becomes(s, NoRequest), NEW v, NEW ops
  PROVE  Own(v, ops)' = Own(v, ops) \ {s}
<1>1. requests'[s] = NoRequest /\ \A t \in Slots \ {s} : requests'[t] = requests[t]
  BY OneRequest
<1> QED BY <1>1 DEF Own

\* What goes on is still there.
LEMMA OwnMoved ==
  ASSUME NEW s \in Slots, Moves(s), NEW v, NEW ops
  PROVE  Own(v, ops)' = Own(v, ops)
BY DEF Own, Moves

\* Pages keep their folders.
FoldersKept == UNCHANGED scenario /\ \A v \in Pages : page'[v].folder = page[v].folder

\* What is sent is one of the page.
LEMMA SentKeeps ==
  ASSUME TreeInv, OwnInv, PageTypes, FoldersKept, NEW u \in Readers, NEW s, NEW q, Sent(u, s, q),
         q.op = "list" => q.to = page[u].folder
  PROVE  TreeInv' /\ OwnInv'
<1> DEFINE r == [stage |-> "sent", q |-> q]
<1>1. s \in Slots /\ Becomes(s, r) /\ requests[s] = NoRequest /\ q.by = u /\ "by" \in DOMAIN q
      /\ q.user = UserOf(u) /\ IsQuery(q) /\ UNCHANGED <<tables, outdated, overlapped>>
  BY DEF Sent
<1>2. r.q = q /\ r.stage = "sent"
  OBVIOUS
<1> HIDE DEF r
<1>3. requests'[s] = r /\ \A t \in Slots \ {s} : requests'[t] = requests[t]
  BY <1>1, OneRequest DEF TreeInv
<1>4. Readers' = Readers /\ \A v : UserOf(v)' = UserOf(v)
  BY DEF FoldersKept, Readers, UserOf
<1>5. Readers \subseteq Pages
  BY ScenarioTypes
<1>6. OwnInv'
  <2> SUFFICES ASSUME NEW t \in Slots, requests'[t] # NoRequest
               PROVE  /\ "by" \in DOMAIN requests'[t].q /\ requests'[t].q.by \in Readers
                      /\ requests'[t].q.user = UserOf(requests'[t].q.by)
                      /\ requests'[t].q.op = "list" => requests'[t].q.to = page'[requests'[t].q.by].folder
    BY <1>4 DEF OwnInv
  <2>1. CASE t = s
    BY <2>1, <1>1, <1>2, <1>3, <1>5 DEF FoldersKept
  <2>2. CASE t # s
    BY <2>2, <1>3, <1>5 DEF FoldersKept, OwnInv
  <2> QED BY <2>1, <2>2
<1>7. Client(s)
  <2>1. IsUnderWay(r)
    BY <1>1, <1>2 DEF IsUnderWay, Stages
  <2>2. requests[s].stage # "checked"
    BY <1>1 DEF NoRequest
  <2> QED BY <1>1, <1>2, <2>1, <2>2 DEF Client
<1> QED BY <1>1, <1>6, <1>7, TreeKept DEF ServerStep

\* What is taken is gone.
LEMMA TakenKeeps ==
  ASSUME TreeInv, OwnInv, PageTypes, FoldersKept, NEW s \in Slots, Becomes(s, NoRequest),
         requests[s].stage = "answered", UNCHANGED <<tables, outdated, overlapped>>
  PROVE  TreeInv' /\ OwnInv'
<1>1. requests'[s] = NoRequest /\ \A t \in Slots \ {s} : requests'[t] = requests[t]
  BY OneRequest DEF TreeInv
<1>2. Readers' = Readers /\ \A v : UserOf(v)' = UserOf(v)
  BY DEF FoldersKept, Readers, UserOf
<1>3. Readers \subseteq Pages
  BY ScenarioTypes
<1>4. OwnInv'
  BY <1>1, <1>2, <1>3 DEF OwnInv, FoldersKept
<1>5. Client(s)
  BY Zenon DEF Client
<1> QED BY <1>4, <1>5, TreeKept DEF ServerStep

\* A request that is sent in place of one that was answered.
LEMMA ReplacedKeeps ==
  ASSUME TreeInv, OwnInv, PageTypes, FoldersKept, NEW s \in Slots, NEW u \in Readers, NEW q,
         Becomes(s, [stage |-> "sent", q |-> q]), IsQuery(q), "by" \in DOMAIN q, q.by = u,
         q.user = UserOf(u), q.op # "list",
         requests[s].stage = "answered", UNCHANGED <<tables, outdated, overlapped>>
  PROVE  TreeInv' /\ OwnInv'
<1> DEFINE r == [stage |-> "sent", q |-> q]
<1>1. r.q = q /\ r.stage = "sent" /\ Becomes(s, r)
  OBVIOUS
<1> HIDE DEF r
<1>2. requests'[s] = r /\ \A t \in Slots \ {s} : requests'[t] = requests[t]
  BY <1>1, OneRequest DEF TreeInv
<1>3. Readers' = Readers /\ \A v : UserOf(v)' = UserOf(v)
  BY DEF FoldersKept, Readers, UserOf
<1>4. Readers \subseteq Pages
  BY ScenarioTypes
<1>5. OwnInv'
  BY <1>1, <1>2, <1>3, <1>4 DEF OwnInv, FoldersKept
<1>6. IsUnderWay(r)
  BY <1>1 DEF IsUnderWay, Stages
<1>7. Client(s)
  BY <1>1, <1>6 DEF Client
<1> QED BY <1>5, <1>7, TreeKept DEF ServerStep

\* A request that goes on is still one of its page.
LEMMA MovedKeeps ==
  ASSUME OwnInv, PageTypes, FoldersKept, NEW s \in Slots, Moves(s)
  PROVE  OwnInv'
<1>1. Readers' = Readers /\ \A v : UserOf(v)' = UserOf(v)
  BY DEF FoldersKept, Readers, UserOf
<1>2. Readers \subseteq Pages
  BY ScenarioTypes
<1> QED BY <1>1, <1>2 DEF OwnInv, FoldersKept, Moves

-----------------------------------------------------------------------------
(* What the steps of the server mean for pages.                            *)

\* A request that goes on to the record r.
LEMMA MovesTo ==
  ASSUME TypeInv, OwnInv, NEW s \in Slots, requests[s] # NoRequest, NEW r, Becomes(s, r),
         r.stage # "none", r.q = requests[s].q
  PROVE  Moves(s)
<1>1. requests'[s] = r /\ \A t \in Slots \ {s} : requests'[t] = requests[t]
  BY OneRequest
<1>2. r # NoRequest
  BY DEF NoRequest
<1> QED BY <1>1, <1>2 DEF Moves, OwnInv

\* A request that commits goes on.
LEMMA CommitMoves ==
  ASSUME TypeInv, OwnInv, NEW s \in Slots, Commit(s)
  PROVE  Moves(s) /\ requests'[s].stage = "committed" /\ requests[s].stage = "checked"
<1> DEFINE q == requests[s].q
           c(p, shown) == [stage |-> "committed", q |-> p, shown |-> shown]
<1>1. requests[s] # NoRequest /\ requests[s].stage = "checked"
  <2>1. requests[s].stage = "checked"
    BY DEF Commit, CreateItem, RenameItem, DeleteItem, MoveItem, ShareItem, UpdateCollaborator,
           RemoveCollaborator, Pending, Under
  <2> QED BY <2>1 DEF NoRequest
<1>2. CASE CreateItem(s)
  <2>1. PICK i, shown : i \in Items /\ Becomes(s, c([q EXCEPT !.item = i], shown))
    BY <1>2 DEF CreateItem, Commits
  <2>2. q.op = "create"
    BY <1>2 DEF CreateItem, Pending
  <2> DEFINE p == [q EXCEPT !.item = i]
  <2>3. "by" \in DOMAIN q /\ IsQuery(q)
    BY <1>1 DEF OwnInv, TypeInv, IsRequest, IsUnderWay
  <2>4. p.op = q.op /\ p.by = q.by /\ p.user = q.user /\ p.to = q.to /\ "by" \in DOMAIN p
    BY <2>3 DEF IsQuery
  <2> HIDE DEF p
  <2>5. c(p, shown).stage = "committed" /\ c(p, shown).q = p /\ Becomes(s, c(p, shown))
    BY <2>1 DEF p
  <2> HIDE DEF c
  <2>6. requests'[s] = c(p, shown) /\ \A t \in Slots \ {s} : requests'[t] = requests[t]
    BY <2>5, OneRequest
  <2> QED BY <1>1, <2>2, <2>4, <2>5, <2>6 DEF Moves, NoRequest
<1>3. CASE ~CreateItem(s)
  <2>1. PICK shown : Becomes(s, c(q, shown))
    BY <1>3, Zenon DEF Commit, RenameItem, DeleteItem, MoveItem, ShareItem, UpdateCollaborator,
                RemoveCollaborator, Commits
  <2>2. c(q, shown).stage = "committed" /\ c(q, shown).q = q
    OBVIOUS
  <2> HIDE DEF c
  <2>3. requests'[s] = c(q, shown)
    BY <2>1, OneRequest
  <2> QED BY <1>1, <2>1, <2>2, <2>3, MovesTo
<1> QED BY <1>2, <1>3

\* A request that does not commit goes on without the tables.
LEMMA OthersMove ==
  ASSUME TypeInv, OwnInv, NEW s \in Slots,
         Read(s) \/ Check(s) \/ Conflicts(s) \/ Answer(s) \/ Lose(s)
  PROVE  Moves(s) /\ UNCHANGED tables
<1> DEFINE q == requests[s].q
           a(result) == [stage |-> "answered", q |-> q, ok |-> TRUE, result |-> result]
<1>1. requests[s] # NoRequest /\ UNCHANGED tables
  BY DEF Read, Check, Conflicts, Answer, Lose, Pending, Under, NoRequest
<1>2. \A result : a(result).stage # "none" /\ a(result).q = q
  OBVIOUS
<1>3. Refused(q).stage # "none" /\ Refused(q).q = q /\ Kept(q).stage # "none" /\ Kept(q).q = q
  BY DEF Refused, Kept
<1>4. (\E result : Becomes(s, a(result))) \/ Becomes(s, Refused(q)) \/ Becomes(s, Kept(q))
  <2>1. CASE Read(s)
    BY <2>1, ReadAnswers
  <2>2. CASE Check(s)
    BY <2>2 DEF Check, Kept
  <2>3. CASE Conflicts(s) \/ Lose(s)
    BY <2>3 DEF Conflicts, Lose
  <2>4. CASE Answer(s)
    BY <2>4 DEF Answer
  <2> QED BY <2>1, <2>2, <2>3, <2>4
<1> HIDE DEF a, q
<1>5. \E r : Becomes(s, r) /\ r.stage # "none" /\ r.q = q
  BY <1>2, <1>3, <1>4
<1> QED BY <1>1, <1>5, MovesTo DEF q

\* The mishaps of a page change, nothing else.
OnlyMishaps == /\ page' = [v \in Pages |-> page'[v]]
               /\ \A v \in Pages : Same(page'[v], page[v], {"mishaps"})

\* One page may have a mishap.
LEMMA MishapOf ==
  ASSUME PageTypes, NEW u \in Pages, NEW name, NEW happened, Shows(u, Mishap(page[u], name, happened))
  PROVE  /\ OnlyMishaps
         /\ page'[u].mishaps = IF happened THEN page[u].mishaps \cup {name} ELSE page[u].mishaps
         /\ \A v \in Pages \ {u} : page'[v] = page[v]
<1>1. DOMAIN page[u] = PageFields /\ \A v \in Pages : DOMAIN page[v] = PageFields
  BY DEF PageTypes, IsPage
<1>2. page'[u] = Mishap(page[u], name, happened) /\ page' = [v \in Pages |-> page'[v]]
      /\ \A v \in Pages \ {u} : page'[v] = page[v]
  BY OnePage
<1>3. Same(page'[u], page[u], {"mishaps"})
      /\ page'[u].mishaps = IF happened THEN page[u].mishaps \cup {name} ELSE page[u].mishaps
  BY <1>1, <1>2 DEF Mishap, Same, PageFields
<1> QED BY <1>1, <1>2, <1>3 DEF OnlyMishaps, Same

\* A request is of a page.
LEMMA ByReader ==
  ASSUME PageTypes, OwnInv, NEW s \in Slots, requests[s] # NoRequest
  PROVE  requests[s].q.by \in Readers /\ requests[s].q.by \in Pages
BY ScenarioTypes DEF OwnInv

\* A listing may start a new account.
LEMMA ListsDoes ==
  ASSUME PageTypes, TypeInv, OwnInv, NEW s \in Slots, Lists(s)
  PROVE  LET q == requests[s].q
             u == q.by
         IN  /\ Read(s) /\ OnlyMishaps /\ \A v \in Pages \ {u} : page'[v] = page[v]
             /\ \/ /\ q.op = "list" /\ requests'[s].ok /\ page[u].dialog.type # "share"
                   /\ Own(u, Mutations \cup {"collaborators"}) = {}
                   /\ page'[u].mishaps = page[u].mishaps \cap {"left"}
                \/ page'[u].mishaps = IF q.op = "collaborators" /\ ~requests'[s].ok
                                      THEN page[u].mishaps \cup {"unanswered"} ELSE page[u].mishaps
<1> DEFINE q == requests[s].q
           u == q.by
           afresh == q.op = "list" /\ requests'[s].ok /\ page[u].dialog.type # "share"
                     /\ Own(u, Mutations \cup {"collaborators"}) = {}
<1>1. requests[s] # NoRequest /\ Read(s)
  BY DEF Lists, Read, Under, NoRequest
<1>2. u \in Pages
  BY <1>1, ByReader
<1> DEFINE lost == q.op = "collaborators" /\ ~requests'[s].ok
<1>3. Shows(u, IF afresh THEN [page[u] EXCEPT !.mishaps = @ \cap {"left"}]
               ELSE Mishap(page[u], "unanswered", lost))
  BY DEF Lists
<1> HIDE DEF afresh, lost, q
<1>4. CASE afresh
  <2>1. Shows(u, [page[u] EXCEPT !.mishaps = @ \cap {"left"}])
    BY <1>3, <1>4
  <2>2. page'[u] = [page[u] EXCEPT !.mishaps = @ \cap {"left"}] /\ page' = [v \in Pages |-> page'[v]]
        /\ \A v \in Pages \ {u} : page'[v] = page[v]
    BY <1>2, <2>1, OnePage
  <2>3. \A v \in Pages : DOMAIN page[v] = PageFields
    BY DEF PageTypes, IsPage
  <2>4. Same(page'[u], page[u], {"mishaps"}) /\ page'[u].mishaps = page[u].mishaps \cap {"left"}
    BY <1>2, <2>2, <2>3 DEF Same, PageFields
  <2>5. OnlyMishaps
    BY <2>2, <2>3, <2>4 DEF OnlyMishaps, Same
  <2> QED BY <1>1, <1>4, <2>2, <2>4, <2>5 DEF afresh, q
<1>5. CASE ~afresh
  <2>1. Shows(u, Mishap(page[u], "unanswered", lost))
    BY <1>3, <1>5
  <2>2. /\ OnlyMishaps
        /\ page'[u].mishaps = IF lost THEN page[u].mishaps \cup {"unanswered"} ELSE page[u].mishaps
        /\ \A v \in Pages \ {u} : page'[v] = page[v]
    BY <1>2, <2>1, MishapOf
  <2> QED BY <1>1, <2>2 DEF q, lost
<1> QED BY <1>4, <1>5 DEF q

\* Whatever was not answered may be a mishap.
LEMMA UnansweredDoes ==
  ASSUME PageTypes, OwnInv, NEW s \in Slots, requests[s] # NoRequest, Unanswered(s)
  PROVE  LET q == requests[s].q
             u == q.by
         IN  /\ OnlyMishaps /\ \A v \in Pages \ {u} : page'[v] = page[v]
             /\ page'[u].mishaps = IF ~requests'[s].ok /\ (\/ requests[s].stage = "committed"
                                                           \/ q.op = "collaborators")
                                   THEN page[u].mishaps \cup {"unanswered"} ELSE page[u].mishaps
<1> DEFINE u == requests[s].q.by
           lost == ~requests'[s].ok /\ (\/ requests[s].stage = "committed"
                                        \/ requests[s].q.op = "collaborators")
<1>1. u \in Pages
  BY ByReader
<1>2. Shows(u, Mishap(page[u], "unanswered", lost))
  BY DEF Unanswered, Shows
<1> HIDE DEF lost, u
<1> QED BY <1>1, <1>2, MishapOf DEF lost, u

\* What a commit means for the pages.
LEMMA HappenedDoes ==
  ASSUME PageTypes, OwnInv, NEW s \in Slots, requests[s] # NoRequest, Moves(s), Happened(s)
  PROVE  LET q == requests'[s].q
             u == q.by
         IN  /\ OnlyMishaps
             /\ \A v \in Pages \ {u} : page'[v].mishaps = page[v].mishaps \cup {"elsewhere"}
             /\ page[u].mishaps \subseteq page'[u].mishaps
             /\ "crossed" \notin page'[u].mishaps => s \notin outdated /\ Own(u, Mutations) = {s}
             /\ "overtaken" \notin page'[u].mishaps =>
                  Own(u, {"list", "collaborators"}) \cap Under("answered") = {}
             /\ "sharing" \notin page'[u].mishaps => q.op \notin {"share", "remove"}
             /\ "foreign" \notin page'[u].mishaps =>
                  (q.op \notin {"create", "delete"} /\ page[u].folder = Root => items[q.item].owner = q.user)
             /\ "nested" \notin page'[u].mishaps =>
                  (q.op \in {"delete", "move"} => ~ShownBelow(u, q.item))
<1> DEFINE q == requests'[s].q
           u == q.by
           crossed == s \in outdated \/ Own(u, Mutations) # {s}
           overtaken == Own(u, {"list", "collaborators"}) \cap Under("answered") # {}
           sharing == q.op \in {"share", "remove"}
           foreign == q.op \notin {"create", "delete"} /\ page[u].folder = Root /\ items[q.item].owner # q.user
           nested == q.op \in {"delete", "move"} /\ ShownBelow(u, q.item)
           happened == [crossed |-> crossed, overtaken |-> overtaken, sharing |-> sharing,
                        foreign |-> foreign, nested |-> nested]
           M == {m \in DOMAIN happened : happened[m]}
<1>1. u \in Pages
  BY ByReader DEF Moves
<1>2. page' = [v \in Pages |-> IF v # u THEN Mishap(page[v], "elsewhere", TRUE)
                               ELSE [page[u] EXCEPT !.mishaps = @ \cup M]]
  BY DEF Happened
<1>3. /\ "crossed" \notin M => ~crossed
      /\ "overtaken" \notin M => ~overtaken
      /\ "sharing" \notin M => ~sharing
      /\ "foreign" \notin M => ~foreign
      /\ "nested" \notin M => ~nested
  <2> HIDE DEF crossed, overtaken, sharing, foreign, nested
  <2> QED OBVIOUS
<1> HIDE DEF M
<1>4. \A v \in Pages : DOMAIN page[v] = PageFields
  BY DEF PageTypes, IsPage
<1>5. \A v \in Pages \ {u} : page'[v] = Mishap(page[v], "elsewhere", TRUE)
  BY <1>2
<1>6. \A v \in Pages \ {u} : /\ Same(page'[v], page[v], {"mishaps"})
                             /\ page'[v].mishaps = page[v].mishaps \cup {"elsewhere"}
  BY <1>4, <1>5 DEF Mishap, Same, PageFields
<1>7. page'[u] = [page[u] EXCEPT !.mishaps = @ \cup M]
  BY <1>1, <1>2
<1>8. Same(page'[u], page[u], {"mishaps"}) /\ page'[u].mishaps = page[u].mishaps \cup M
  BY <1>1, <1>4, <1>7 DEF Same, PageFields
<1>9. OnlyMishaps
  BY <1>2, <1>6, <1>8 DEF OnlyMishaps
<1> HIDE DEF crossed, overtaken, sharing, foreign, nested, q
<1> QED BY <1>3, <1>6, <1>8, <1>9 DEF crossed, overtaken, sharing, foreign, nested, q

\* Of the pages the steps of the server change the mishaps only.
LEMMA ServerDoes ==
  ASSUME PageTypes, TypeInv, OwnInv, NEW s \in Slots, Server(s) \/ Network(s)
  PROVE  OnlyMishaps /\ Moves(s) /\ ServerStep(s)
<1>1. ServerStep(s)
  BY Zenon DEF Server, Network, ServerStep, Serve, Lists
<1>2. CASE (Check(s) \/ Conflicts(s)) /\ UNCHANGED viewVars
  <2>1. page' = page
    BY <1>2 DEF viewVars
  <2>2. OnlyMishaps
    BY <2>1 DEF OnlyMishaps, Same, PageTypes, IsPage
  <2> QED BY <1>1, <1>2, <2>2, OthersMove
<1>3. CASE Lists(s)
  BY <1>1, <1>3, ListsDoes, OthersMove
<1>4. CASE Commit(s) /\ Happened(s)
  <2>1. Moves(s)
    BY <1>4, CommitMoves
  <2> QED BY <1>1, <1>4, <2>1, HappenedDoes DEF Moves
<1>5. CASE (Answer(s) \/ Lose(s)) /\ Unanswered(s)
  <2>1. Moves(s)
    BY <1>5, OthersMove
  <2> QED BY <1>1, <1>5, <2>1, UnansweredDoes DEF Moves
<1> QED BY <1>2, <1>3, <1>4, <1>5 DEF Server, Network

\* A step of a browser changes one page, if any.
LEMMA PagesShaped ==
  ASSUME PageTypes, NEW u \in Readers, Browser(u) \/ Refresh(u) \/ Open(u) \/ CloseDialog(u) \/ Handle(u)
  PROVE  page' = [v \in Pages |-> page'[v]]
<1>1. u \in Pages
  BY ScenarioTypes
<1>2. UNCHANGED page \/ \E r : Shows(u, r)
  <2>1. CASE Handle(u)
    BY <2>1, Zenon DEF Handle, HandleCreate, HandleRename, HandleDelete, HandleMove, HandleInvite,
                HandleUpdateCollaborator, HandleRemoveCollaborator, Execute
  <2>2. CASE ListingEnds(u) \/ TargetsEnd(u) \/ CollaboratorsEnd(u) \/ RefreshEnds(u)
    BY <2>2, Zenon DEF ListingEnds, TargetsEnd, CollaboratorsEnd, RefreshEnds
  <2>3. CASE MutationEnds(u)
    BY <2>3, Zenon DEF MutationEnds
  <2>4. CASE SharingEnds(u)
    BY <2>4, Zenon DEF SharingEnds
  <2>5. CASE Refresh(u) \/ CloseDialog(u)
    BY <2>5, Zenon DEF Refresh, CloseDialog
  <2>6. CASE Open(u)
    BY <2>6, Zenon DEF Open, OpenMove, OpenShare, OpenCreate, OpenPlain
  <2> QED BY <2>1, <2>2, <2>3, <2>4, <2>5, <2>6 DEF Browser
<1> QED BY <1>1, <1>2, OnePage DEF PageTypes

-----------------------------------------------------------------------------
(* Types, and what pages wait for.                                         *)

\* Requests, their pages and what these wait for fit together.
CoreInv == TreeInv /\ PageTypes /\ OwnInv /\ WaitInv

\* A request is sent in place of another one.
LEMMA OwnReplaced ==
  ASSUME TypeInv, NEW s \in Slots, NEW q, Becomes(s, [stage |-> "sent", q |-> q]), NEW v, NEW ops
  PROVE  Own(v, ops)' = (Own(v, ops) \ {s}) \cup (IF v = q.by /\ q.op \in ops THEN {s} ELSE {})
<1> DEFINE r == [stage |-> "sent", q |-> q]
<1>1. r.q = q /\ r # NoRequest
  BY DEF NoRequest
<1> HIDE DEF r
<1>2. requests'[s] = r /\ \A t \in Slots \ {s} : requests'[t] = requests[t]
  BY OneRequest DEF r
<1>3. \A t \in Slots : t \in Own(v, ops)' <=> ((t \in Own(v, ops) /\ t # s)
                                               \/ (t = s /\ v = q.by /\ q.op \in ops))
  BY <1>1, <1>2 DEF Own
<1> QED BY <1>3 DEF Own

\* What a page waits for may become less.
LEMMA WaitsLess ==
  ASSUME NEW v, Waits(v), page'[v].listing = page[v].listing, page'[v].asked \subseteq page[v].asked,
         page'[v].refreshing = page[v].refreshing,
         Own(v, {"list"})' = Own(v, {"list"}), Own(v, {"collaborators"})' = Own(v, {"collaborators"})
  PROVE  Waits(v)'
<1>1. Refreshes(v)' = Refreshes(v)
  BY DEF Refreshes
<1> QED BY <1>1 DEF Waits

\* The other pages do not notice what a page sends or takes.
LEMMA OthersWait ==
  ASSUME NEW u, WaitInv, \A v \in Pages \ {u} : page'[v] = page[v],
         \A v \in Pages \ {u} : /\ Own(v, {"list"})' = Own(v, {"list"})
                                /\ Own(v, {"collaborators"})' = Own(v, {"collaborators"}),
         u \in Pages => Waits(u)'
  PROVE  WaitInv'
<1>1. \A v \in Pages \ {u} : Waits(v)'
  BY WaitsLess DEF WaitInv
<1> QED BY <1>1 DEF WaitInv

\* One page is changed.
LEMMA OneTyped ==
  ASSUME PageTypes, UNCHANGED scenario, page' = [v \in Pages |-> page'[v]], NEW u \in Readers,
         \A v \in Pages \ {u} : page'[v] = page[v], IsPage(page'[u]), page'[u].folder = page[u].folder
  PROVE  PageTypes' /\ FoldersKept
BY DEF PageTypes, FoldersKept

\* The steps by which a page sends something keep the invariant.
LEMMA SendingKeeps ==
  ASSUME CoreInv, UNCHANGED scenario, NEW u \in Readers, Refresh(u) \/ OpenMove(u) \/ OpenShare(u) \/ Handle(u)
  PROVE  CoreInv'
<1>1. u \in Pages /\ PageTypes /\ TreeInv /\ OwnInv /\ TypeInv /\ Waits(u) /\ WaitInv /\ IsPage(page[u])
  BY ScenarioTypes DEF CoreInv, TreeInv, WaitInv, PageTypes
<1>2. page' = [v \in Pages |-> page'[v]]
  BY <1>1, PagesShaped DEF Open
<1>3. ASSUME NEW s, NEW q, Sent(u, s, q), q.op = "list" => q.to = page[u].folder,
             IsPage(page'[u]), page'[u].folder = page[u].folder,
             \A v \in Pages \ {u} : page'[v] = page[v],
             Waits(u)'
      PROVE  CoreInv'
  <2>1. PageTypes' /\ FoldersKept
    BY <1>1, <1>2, <1>3, OneTyped
  <2>2. TreeInv' /\ OwnInv'
    BY <1>1, <1>3, <2>1, SentKeeps
  <2>3. \A v \in Pages \ {u} : /\ Own(v, {"list"})' = Own(v, {"list"})
                               /\ Own(v, {"collaborators"})' = Own(v, {"collaborators"})
    BY <1>1, <1>3, OwnSent
  <2>4. WaitInv'
    BY <1>1, <1>3, <2>3, OthersWait
  <2> QED BY <2>1, <2>2, <2>4 DEF CoreInv
<1>4. ASSUME NEW s, NEW q, Sent(u, s, q)
      PROVE  /\ Own(u, {"list"})' = Own(u, {"list"}) \cup (IF q.op = "list" THEN {s} ELSE {})
             /\ Own(u, {"collaborators"})' = Own(u, {"collaborators"})
                                               \cup (IF q.op = "collaborators" THEN {s} ELSE {})
             /\ s \notin Own(u, {"collaborators"})
  <2>1. /\ Own(u, {"list"})' = Own(u, {"list"}) \cup (IF u = u /\ q.op \in {"list"} THEN {s} ELSE {})
        /\ Own(u, {"collaborators"})' = Own(u, {"collaborators"})
                                          \cup (IF u = u /\ q.op \in {"collaborators"} THEN {s} ELSE {})
        /\ s \notin Own(u, {"collaborators"})
    BY <1>1, <1>4, OwnSent
  <2> QED BY <2>1
<1>5. CASE Refresh(u)
  <2>1. PICK s, q : Refreshed(u, s, q)
    BY <1>1, <1>5, RefreshDoes
  <2> USE DEF Refreshed
  <2>2. IsPage(page'[u]) /\ page'[u].folder = page[u].folder
    BY <1>1, <2>1 DEF IsPage, Same, PageFields
  <2>3. page'[u].asked = page[u].asked /\ page'[u].refreshing = page[u].refreshing
    BY <2>1 DEF Same, PageFields
  <2>4. Waits(u)'
    BY <1>1, <1>4, <2>1, <2>3 DEF Waits, Refreshes
  <2> QED BY <1>3, <2>1, <2>2, <2>4
<1>6. CASE OpenMove(u)
  <2>1. PICK s, q : MoveOpened(u, s, q)
    BY <1>1, <1>6, OpenMoveDoes
  <2> USE DEF MoveOpened
  <2>2. IsPage(page'[u]) /\ page'[u].folder = page[u].folder
    BY <1>1, <2>1 DEF IsPage, Same, PageFields
  <2>3. page'[u].asked = page[u].asked /\ page'[u].refreshing = page[u].refreshing
        /\ page'[u].listing = page[u].listing
    BY <2>1 DEF Same, PageFields
  <2>4. Waits(u)'
    BY <1>1, <1>4, <2>1, <2>3, WaitsLess
  <2> QED BY <1>3, <2>1, <2>2, <2>4
<1>7. CASE OpenShare(u)
  <2>1. PICK s, q, row : row \in page[u].rows /\ ShareOpened(u, s, q, row)
    BY <1>1, <1>7, OpenShareDoes
  <2> USE DEF ShareOpened
  <2>2. IsRow(row) /\ row.collaborators \subseteq Sharees
    BY <1>1, <2>1 DEF IsPage, AreRows, IsRow
  <2>3. IsDialog(page'[u].dialog)
    BY <2>1, <2>2 DEF IsDialog
  <2>4. IsPage(page'[u]) /\ page'[u].folder = page[u].folder
    BY <1>1, <2>1, <2>2, <2>3 DEF IsPage, Same, PageFields
  <2>5. page'[u].refreshing = page[u].refreshing /\ page'[u].listing = page[u].listing
    BY <2>1 DEF Same, PageFields
  <2>6. Waits(u)'
    BY <1>1, <1>4, <2>1, <2>5 DEF Waits, Refreshes
  <2> QED BY <1>3, <2>1, <2>4, <2>6
<1>8. CASE Handle(u)
  <2>1. PICK s, q : Handled(u, s, q)
    BY <1>1, <1>8, HandleDoes
  <2> USE DEF Handled
  <2>2. q.op # "list" /\ q.op # "collaborators"
    BY <2>1 DEF Mutations
  <2>3. Waits(u)'
    BY <1>1, <1>4, <2>1, <2>2, WaitsLess
  <2> QED BY <1>1, <1>3, <2>1, <2>2, <2>3
<1> QED BY <1>5, <1>6, <1>7, <1>8

\* So do the steps that change only the page.
LEMMA LookingKeeps ==
  ASSUME CoreInv, UNCHANGED scenario, NEW u \in Readers, CloseDialog(u) \/
         (\E k \in {"folder", "document"} : OpenCreate(u, k)) \/ (\E t \in {"rename", "delete"} : OpenPlain(u, t))
  PROVE  CoreInv'
<1>1. u \in Pages /\ PageTypes /\ TreeInv /\ OwnInv /\ Waits(u) /\ WaitInv /\ IsPage(page[u])
  BY ScenarioTypes DEF CoreInv, WaitInv, PageTypes
<1>2. page' = [v \in Pages |-> page'[v]]
  BY <1>1, PagesShaped DEF Open
<1>3. ASSUME UNCHANGED serverVars, \A v \in Pages \ {u} : page'[v] = page[v], IsPage(page'[u]),
             page'[u].folder = page[u].folder, page'[u].listing = page[u].listing,
             page'[u].refreshing = page[u].refreshing, page'[u].asked \subseteq page[u].asked
      PROVE  CoreInv'
  <2>1. PageTypes' /\ FoldersKept
    BY <1>1, <1>2, <1>3, OneTyped
  <2>2. requests' = requests /\ items' = items /\ shares' = shares /\ outdated' = outdated
        /\ overlapped' = overlapped
    BY <1>3 DEF serverVars, tables
  <2>3. TreeInv'
    BY <1>1, <2>2 DEF TreeInv, TypeInv, CheckedInv, Under, TreeIsSound
  <2>4. Readers' = Readers /\ \A v : UserOf(v)' = UserOf(v)
    BY <2>1 DEF FoldersKept, Readers, UserOf
  <2>5. Readers \subseteq Pages
    BY <1>1, ScenarioTypes
  <2>6. OwnInv'
    BY <1>1, <2>1, <2>2, <2>4, <2>5 DEF OwnInv, FoldersKept
  <2>7. \A v : Own(v, {"list"})' = Own(v, {"list"}) /\ Own(v, {"collaborators"})' = Own(v, {"collaborators"})
    BY <2>2 DEF Own
  <2>8. Waits(u)'
    BY <1>1, <1>3, <2>7, WaitsLess
  <2>9. WaitInv'
    BY <1>1, <1>3, <2>7, <2>8, OthersWait
  <2> QED BY <2>1, <2>3, <2>6, <2>9 DEF CoreInv
<1>4. CASE CloseDialog(u)
  <2>1. DialogClosed(u)
    BY <1>1, <1>4, CloseDoes
  <2> USE DEF DialogClosed
  <2>2. IsDialog(Closed) /\ page'[u].sharees \subseteq Sharees /\ page'[u].asked \subseteq page[u].asked
    BY <1>1, <2>1 DEF Shut, IsPage, IsDialog
  <2>3. IsPage(page'[u]) /\ page'[u].folder = page[u].folder /\ page'[u].listing = page[u].listing
        /\ page'[u].refreshing = page[u].refreshing
    BY <1>1, <2>1, <2>2 DEF IsPage, Same, PageFields, Shut
  <2> QED BY <1>3, <2>1, <2>2, <2>3
<1>5. CASE ~CloseDialog(u)
  <2>1. PlainOpened(u)
    BY <1>1, <1>5, OpenPlainDoes
  <2> USE DEF PlainOpened
  <2>2. IsPage(page'[u]) /\ page'[u].folder = page[u].folder /\ page'[u].listing = page[u].listing
        /\ page'[u].refreshing = page[u].refreshing /\ page'[u].asked = page[u].asked
    BY <1>1, <2>1 DEF IsPage, Same, PageFields
  <2> QED BY <1>3, <2>1, <2>2
<1> QED BY <1>4, <1>5

\* So do the answers that are taken.
LEMMA BrowserKeeps ==
  ASSUME CoreInv, UNCHANGED scenario, NEW u \in Readers, Browser(u)
  PROVE  CoreInv'
<1>1. u \in Pages /\ PageTypes /\ TreeInv /\ OwnInv /\ TypeInv /\ Waits(u) /\ WaitInv /\ IsPage(page[u])
  BY ScenarioTypes DEF CoreInv, TreeInv, WaitInv, PageTypes
<1>2. page' = [v \in Pages |-> page'[v]]
  BY <1>1, PagesShaped
<1>3. ASSUME NEW s \in Slots, Becomes(s, NoRequest), requests[s].q.by = u, requests[s].stage = "answered",
             UNCHANGED <<tables, outdated, overlapped>>,
             IsPage(page'[u]), page'[u].folder = page[u].folder,
             \A v \in Pages \ {u} : page'[v] = page[v], Waits(u)'
      PROVE  CoreInv'
  <2>1. PageTypes' /\ FoldersKept
    BY <1>1, <1>2, <1>3, OneTyped
  <2>2. TreeInv' /\ OwnInv'
    BY <1>1, <1>3, <2>1, TakenKeeps
  <2>3. ASSUME NEW v \in Pages \ {u}
        PROVE  /\ Own(v, {"list"})' = Own(v, {"list"})
               /\ Own(v, {"collaborators"})' = Own(v, {"collaborators"})
    <3>1. s \notin Own(v, {"list"}) /\ s \notin Own(v, {"collaborators"})
      BY <1>3 DEF Own
    <3> QED BY <1>1, <1>3, <3>1, OwnTaken
  <2>4. WaitInv'
    BY <1>1, <1>3, <2>3, OthersWait
  <2> QED BY <2>1, <2>2, <2>4 DEF CoreInv
<1>4. ASSUME NEW s, Taken(u, s)
      PROVE  /\ s \in Slots /\ Becomes(s, NoRequest) /\ requests[s].q.by = u /\ requests[s].stage = "answered"
             /\ UNCHANGED <<tables, outdated, overlapped>>
             /\ Own(u, {"list"})' = Own(u, {"list"}) \ {s}
             /\ Own(u, {"collaborators"})' = Own(u, {"collaborators"}) \ {s}
             /\ requests[s].q.op # "list" => s \notin Own(u, {"list"})
             /\ requests[s].q.op # "collaborators" => s \notin Own(u, {"collaborators"})
  <2>1. s \in Slots /\ Becomes(s, NoRequest) /\ requests[s].q.by = u /\ requests[s].stage = "answered"
        /\ UNCHANGED <<tables, outdated, overlapped>>
    BY <1>4 DEF Taken
  <2>2. /\ requests[s].q.op # "list" => s \notin Own(u, {"list"})
        /\ requests[s].q.op # "collaborators" => s \notin Own(u, {"collaborators"})
    BY DEF Own
  <2> QED BY <1>1, <2>1, <2>2, OwnTaken
<1>5. CASE ListingEnds(u)
  <2>1. page[u].listing \subseteq Own(u, {"list"})
    BY <1>1 DEF Waits
  <2>2. PICK s \in page[u].listing : ListingEnded(u, s)
    BY <1>1, <1>5, <2>1, ListingEndsDoes
  <2> USE DEF ListingEnded
  <2>3. AreRows(page'[u].rows)
    BY <1>1, <2>2, RowsMapped DEF IsPage
  <2>4. IsPage(page'[u]) /\ page'[u].folder = page[u].folder
        /\ page'[u].asked = page[u].asked /\ page'[u].refreshing = page[u].refreshing
    BY <1>1, <2>2, <2>3 DEF IsPage, Same, PageFields
  <2>5. Waits(u)'
    BY <1>1, <1>4, <2>2, <2>4 DEF Waits, Refreshes
  <2> QED BY <1>3, <1>4, <2>2, <2>4, <2>5
<1>6. CASE TargetsEnd(u)
  <2>1. PICK s \in Slots : TargetsEnded(u, s)
    BY <1>1, <1>6, TargetsEndDoes
  <2> USE DEF TargetsEnded
  <2>2. IsPage(page'[u]) /\ page'[u].folder = page[u].folder /\ page'[u].listing = page[u].listing
        /\ page'[u].asked = page[u].asked /\ page'[u].refreshing = page[u].refreshing
    BY <1>1, <2>1 DEF IsPage, Same, PageFields
  <2>3. Waits(u)'
    BY <1>1, <1>4, <2>1, <2>2, WaitsLess
  <2> QED BY <1>3, <1>4, <2>1, <2>2, <2>3
<1>7. CASE CollaboratorsEnd(u)
  <2>1. PICK s \in Slots : CollaboratorsEnded(u, s)
    BY <1>1, <1>7, CollaboratorsEndDoes
  <2> USE DEF CollaboratorsEnded
  <2>2. page'[u].sharees \subseteq Sharees
    BY <1>1, <2>1 DEF IsPage
  <2>3. IsPage(page'[u]) /\ page'[u].folder = page[u].folder /\ page'[u].listing = page[u].listing
        /\ page'[u].refreshing = page[u].refreshing
    BY <1>1, <2>1, <2>2 DEF IsPage, Same, PageFields
  <2>4. s \notin Refreshes(u) /\ Refreshes(u)' = Refreshes(u)
    BY <2>1, <2>3 DEF Refreshes
  <2>5. Waits(u)'
    BY <1>1, <1>4, <2>1, <2>3, <2>4 DEF Waits
  <2> QED BY <1>3, <1>4, <2>1, <2>3, <2>5
<1>8. CASE RefreshEnds(u)
  <2>1. \A t \in page[u].refreshing : t.slot \in Own(u, {"collaborators"})
    BY <1>1 DEF Waits, Refreshes
  <2>2. PICK r \in page[u].refreshing : RefreshEnded(u, r)
    BY <1>1, <1>8, <2>1, RefreshEndsDoes
  <2> USE DEF RefreshEnded
  <2>3. page'[u].sharees \subseteq Sharees
    BY <1>1, <2>2 DEF IsPage
  <2>4. IsPage(page'[u]) /\ page'[u].folder = page[u].folder /\ page'[u].listing = page[u].listing
        /\ page'[u].asked = page[u].asked
    BY <1>1, <2>2, <2>3 DEF IsPage, Same, PageFields
  <2>5. Refreshes(u)' = Refreshes(u) \ {r.slot} /\ r.slot \in Refreshes(u)
    BY <1>1, <2>2 DEF Refreshes, Waits
  <2>6. Waits(u)'
    BY <1>1, <1>4, <2>2, <2>4, <2>5 DEF Waits
  <2> QED BY <1>3, <1>4, <2>2, <2>4, <2>6
<1>9. CASE MutationEnds(u)
  <2>1. PICK s \in Slots : MutationEnded(u, s)
    BY <1>1, <1>9, MutationEndsDoes
  <2> USE DEF MutationEnded
  <2>2. IsPage(page'[u]) /\ page'[u].folder = page[u].folder /\ page'[u].listing = page[u].listing
        /\ page'[u].refreshing = page[u].refreshing /\ page'[u].asked \subseteq page[u].asked
    <3>1. CASE requests[s].ok
      <4>1. IsDialog(Closed) /\ page'[u].sharees \subseteq Sharees /\ page'[u].asked \subseteq page[u].asked
        BY <1>1, <2>1, <3>1 DEF Shut, IsPage, IsDialog
      <4> QED BY <1>1, <2>1, <3>1, <4>1 DEF IsPage, Same, PageFields, Shut
    <3>2. CASE ~requests[s].ok
      BY <1>1, <2>1, <3>2
    <3> QED BY <3>1, <3>2
  <2>3. Waits(u)'
    BY <1>1, <1>4, <2>1, <2>2, WaitsLess
  <2> QED BY <1>3, <1>4, <2>1, <2>2, <2>3
<1>10. CASE SharingEnds(u)
  <2>1. PICK s \in Slots : SharingEnded(u, s)
    BY <1>1, <1>10, SharingEndsDoes
  <2> USE DEF SharingEnded
  <2>2. s \notin Own(u, {"list"}) /\ s \notin Own(u, {"collaborators"})
        /\ \A v \in Pages \ {u} : s \notin Own(v, {"list"}) /\ s \notin Own(v, {"collaborators"})
    BY <2>1 DEF Own
  <2>3. CASE requests[s].ok
    <3>1. PICK q, c :
            /\ Becomes(s, [stage |-> "sent", q |-> q]) /\ IsQuery(q)
            /\ "by" \in DOMAIN q /\ q.by = u /\ q.user = UserOf(u)
            /\ q.op = "collaborators"
            /\ c \subseteq Sharees /\ page'[u].sharees = c
            /\ page'[u].refreshing = page[u].refreshing \cup {[slot |-> s, collaborators |-> c]}
      BY <2>1, <2>3
    <3>2. AreRows(page'[u].rows) /\ Same(page'[u], page[u], {"rows", "sharees", "refreshing"})
      BY <2>1, <2>3
    <3>3. IsPage(page'[u]) /\ page'[u].folder = page[u].folder /\ page'[u].listing = page[u].listing
          /\ page'[u].asked = page[u].asked
      BY <1>1, <3>1, <3>2 DEF IsPage, Same, PageFields
    <3>4. PageTypes' /\ FoldersKept
      BY <1>1, <1>2, <2>1, <3>3, OneTyped
    <3>5. TreeInv' /\ OwnInv'
      BY <1>1, <2>1, <3>1, <3>4, ReplacedKeeps
    <3>6. \A v \in Pages : /\ Own(v, {"list"})' = Own(v, {"list"})
                           /\ Own(v, {"collaborators"})' =
                                Own(v, {"collaborators"}) \cup (IF v = u THEN {s} ELSE {})
      <4> SUFFICES ASSUME NEW v \in Pages
                   PROVE  /\ Own(v, {"list"})' = Own(v, {"list"})
                          /\ Own(v, {"collaborators"})' =
                               Own(v, {"collaborators"}) \cup (IF v = u THEN {s} ELSE {})
        OBVIOUS
      <4>1. /\ Own(v, {"list"})' = (Own(v, {"list"}) \ {s})
                                     \cup (IF v = q.by /\ q.op \in {"list"} THEN {s} ELSE {})
            /\ Own(v, {"collaborators"})' = (Own(v, {"collaborators"}) \ {s})
                                     \cup (IF v = q.by /\ q.op \in {"collaborators"} THEN {s} ELSE {})
        BY <1>1, <3>1, OwnReplaced
      <4>2. s \notin Own(v, {"list"}) /\ s \notin Own(v, {"collaborators"})
        BY <2>2
      <4> QED BY <3>1, <4>1, <4>2
    <3> DEFINE a == [slot |-> s, collaborators |-> c]
    <3>7. a.slot = s /\ page'[u].refreshing = page[u].refreshing \cup {a}
      BY <3>1
    <3> HIDE DEF a
    <3>8. Refreshes(u)' = Refreshes(u) \cup {s}
      BY <3>7 DEF Refreshes
    <3>9. \A r \in page[u].refreshing : r.slot # s
      BY <1>1, <2>2 DEF Waits, Refreshes
    <3>10. Waits(u)'
      BY <1>1, <2>2, <3>3, <3>6, <3>7, <3>8, <3>9 DEF Waits
    <3>11. WaitInv'
      <4>1. \A v \in Pages \ {u} : page'[v] = page[v]
        BY <2>1
      <4>2. \A v \in Pages \ {u} : /\ Own(v, {"list"})' = Own(v, {"list"})
                                   /\ Own(v, {"collaborators"})' = Own(v, {"collaborators"})
        BY <3>6
      <4> HIDE DEF SharingEnded
      <4> QED BY <1>1, <3>10, <4>1, <4>2, OthersWait
    <3> QED BY <3>4, <3>5, <3>11 DEF CoreInv
  <2>4. CASE ~requests[s].ok
    <3>1. Becomes(s, NoRequest) /\ page'[u] = page[u]
      BY <2>1, <2>4
    <3>2. /\ Own(u, {"list"})' = Own(u, {"list"})
          /\ Own(u, {"collaborators"})' = Own(u, {"collaborators"})
      <4>1. /\ Own(u, {"list"})' = Own(u, {"list"}) \ {s}
            /\ Own(u, {"collaborators"})' = Own(u, {"collaborators"}) \ {s}
        BY <1>1, <3>1, OwnTaken
      <4> QED BY <2>2, <4>1
    <3>3. Waits(u)'
      BY <1>1, <3>1, <3>2, WaitsLess
    <3> QED BY <1>1, <1>3, <2>1, <3>1, <3>3
  <2> QED BY <2>3, <2>4
<1> QED BY <1>5, <1>6, <1>7, <1>8, <1>9, <1>10 DEF Browser

\* So do the steps of the server.
LEMMA ServerKeeps ==
  ASSUME CoreInv, UNCHANGED scenario, NEW s \in Slots, Server(s) \/ Network(s)
  PROVE  CoreInv'
<1>1. PageTypes /\ TreeInv /\ OwnInv /\ TypeInv /\ WaitInv
  BY DEF CoreInv, TreeInv
<1>2. OnlyMishaps /\ Moves(s) /\ TreeInv'
  BY <1>1, ServerDoes, TreeKept
<1>3. \A v \in Pages : IsPage(page'[v]) /\ page'[v].folder = page[v].folder
                       /\ page'[v].listing = page[v].listing /\ page'[v].asked = page[v].asked
                       /\ page'[v].refreshing = page[v].refreshing
  BY <1>1, <1>2 DEF OnlyMishaps, Same, PageFields, PageTypes, IsPage
<1>4. PageTypes' /\ FoldersKept
  BY <1>1, <1>2, <1>3 DEF PageTypes, FoldersKept, OnlyMishaps
<1>5. OwnInv'
  BY <1>1, <1>2, <1>4, MovedKeeps
<1>6. WaitInv'
  <2> SUFFICES ASSUME NEW v \in Pages PROVE Waits(v)'
    BY DEF WaitInv
  <2>1. /\ Own(v, {"list"})' = Own(v, {"list"})
        /\ Own(v, {"collaborators"})' = Own(v, {"collaborators"})
    BY <1>2, OwnMoved
  <2> QED BY <1>1, <1>3, <2>1, WaitsLess DEF WaitInv
<1> QED BY <1>2, <1>4, <1>5, <1>6 DEF CoreInv

\* The invariant holds when the pages are loaded.
LEMMA CoreStarts ==
  ASSUME Init
  PROVE  CoreInv
<1>1. scenario \in Scenarios
  BY DEF Init
<1>2. scenario.tree \in InitialTrees
  BY <1>1, ScenariosAssumption
<1>3. TreeInv
  BY <1>2, TreeStarts DEF Init, ServerInit
<1>4. \A u \in Readers : scenario.pages[u].folder \in Places
  <2>1. scenario \in [tree : InitialTrees,
          pages : UNION {[P -> [user : Users, folder : Items \cup {Root}]] : P \in SUBSET Pages},
          ops : SUBSET Mutations, names : SUBSET (Names \cup {""}),
          maxDialogs : Nat, maxMutations : Nat, maxRefreshes : Nat,
          failures : SUBSET {"network"}]
    BY <1>1, ScenariosAssumption
  <2>2. PICK P \in SUBSET Pages : scenario.pages \in [P -> [user : Users, folder : Items \cup {Root}]]
    BY <2>1
  <2> QED BY <2>2 DEF Readers, Places
<1>5. IsPage(NoPage)
  BY DEF IsPage, NoPage, PageFields, Places, AreRows, OnceEach, IsDialog, AreTargets
<1>6. \A u \in Pages : /\ IsPage(page[u]) /\ page[u].listing = {} /\ page[u].asked = {}
                       /\ page[u].refreshing = {}
  <2> SUFFICES ASSUME NEW u \in Pages
               PROVE  /\ IsPage(page[u]) /\ page[u].listing = {} /\ page[u].asked = {}
                      /\ page[u].refreshing = {}
    OBVIOUS
  <2>1. CASE u \in Readers
    <3> DEFINE f == scenario.pages[u].folder
               w == ToWorkspaceItems(ListItems(UserOf(u), f))
    <3>1. AreRows(w)
      BY <1>3, ListingType, RowsMapped DEF TreeInv
    <3>2. page[u] = [NoPage EXCEPT !.folder = f, !.rows = w] /\ f \in Places
      BY <1>4, <2>1 DEF Init
    <3> HIDE DEF f, w
    <3> QED BY <1>5, <3>1, <3>2 DEF IsPage, NoPage, PageFields
  <2>2. CASE u \notin Readers
    <3>1. page[u] = NoPage
      BY <2>2 DEF Init
    <3> QED BY <1>5, <3>1 DEF NoPage
  <2> QED BY <2>1, <2>2
<1>7. page = [u \in Pages |-> page[u]]
  BY DEF Init
<1>8. \A s \in Slots : requests[s] = NoRequest
  BY DEF Init
<1>9. OwnInv
  BY <1>8 DEF OwnInv
<1>10. WaitInv
  BY <1>6, <1>8 DEF WaitInv, Waits, Own, Refreshes
<1> QED BY <1>1, <1>3, <1>6, <1>7, <1>9, <1>10 DEF CoreInv, PageTypes

\* Every step keeps it.
LEMMA CoreKept ==
  ASSUME CoreInv, [Next]_<<vars, scenario>>
  PROVE  CoreInv'
<1>1. CASE Next
  <2>1. UNCHANGED scenario
    BY <1>1 DEF Next
  <2>2. ASSUME NEW u \in Readers, Browser(u) \/ Refresh(u) \/ Open(u) \/ CloseDialog(u) \/ Handle(u)
        PROVE  CoreInv'
    BY <2>1, <2>2, SendingKeeps, LookingKeeps, BrowserKeeps DEF Open
  <2>3. ASSUME NEW s \in Slots, Server(s) \/ Network(s) PROVE CoreInv'
    BY <2>1, <2>3, ServerKeeps
  <2> QED BY <1>1, <2>2, <2>3 DEF Next
<1>2. CASE UNCHANGED <<vars, scenario>>
  <2>1. items' = items /\ shares' = shares /\ requests' = requests /\ outdated' = outdated
        /\ overlapped' = overlapped /\ page' = page /\ scenario' = scenario
    BY <1>2 DEF vars, viewVars, serverVars, tables
  <2>2. TreeInv'
    BY <2>1 DEF CoreInv, TreeInv, TypeInv, CheckedInv, Under, TreeIsSound
  <2>3. PageTypes' /\ OwnInv'
    BY <2>1 DEF CoreInv, PageTypes, OwnInv, Readers, UserOf
  <2>4. WaitInv'
    BY <2>1 DEF CoreInv, WaitInv, Waits, Own, Refreshes
  <2> QED BY <2>2, <2>3, <2>4 DEF CoreInv
<1> QED BY <1>1, <1>2

\* It implies the types.
LEMMA CoreTypes ==
  ASSUME CoreInv
  PROVE  TypeOK
<1>1. \A s \in Slots : requests[s].stage \in Stages /\ (requests[s] # NoRequest => requests[s].q.by \in Readers)
  <2> SUFFICES ASSUME NEW s \in Slots
               PROVE  requests[s].stage \in Stages /\ (requests[s] # NoRequest => requests[s].q.by \in Readers)
    OBVIOUS
  <2>1. CASE requests[s] = NoRequest
    BY <2>1 DEF NoRequest, Stages
  <2>2. CASE requests[s] # NoRequest
    BY <2>2 DEF CoreInv, TreeInv, TypeInv, IsRequest, IsUnderWay, OwnInv
  <2> QED BY <2>1, <2>2
<1>2. \A u \in Pages : IsDialog(page[u].dialog) /\ OnceEach(page[u].rows)
  BY DEF CoreInv, PageTypes, IsPage, AreRows
<1>3. \A d : IsDialog(d) => d.type \in {"closed"} \cup {DialogOf(op) : op \in Mutations}
  <2>1. /\ DialogOf("create") = "create" /\ DialogOf("rename") = "rename" /\ DialogOf("delete") = "delete"
        /\ DialogOf("move") = "move" /\ DialogOf("share") = "share"
    BY DEF DialogOf
  <2>2. {"create", "rename", "delete", "move", "share"} \subseteq {DialogOf(op) : op \in Mutations}
    BY <2>1 DEF Mutations
  <2>3. \A d : IsDialog(d) => d.type \in {"closed", "create", "rename", "delete", "move", "share"}
    BY DEF IsDialog, Closed
  <2> QED BY <2>2, <2>3
<1>4. \A u \in Pages : /\ page[u].listing = Own(u, {"list"})
                       /\ page[u].asked \cup {r.slot : r \in page[u].refreshing} \subseteq
                            Own(u, {"collaborators"})
  BY DEF CoreInv, WaitInv, Waits, Refreshes
<1> QED BY <1>1, <1>2, <1>3, <1>4 DEF TypeOK, CoreInv, TreeInv, TypeInv, OnceEach

\* The invariant, for all pages, users, trees and scenarios.
THEOREM CoreInvariant == Spec => []CoreInv
<1>1. Init => CoreInv
  BY CoreStarts
<1>2. CoreInv /\ [Next]_<<vars, scenario>> => CoreInv'
  BY CoreKept
<1> QED BY <1>1, <1>2, PTL DEF Spec

\* Pages, their dialogs and the requests have their types, no item is displayed
\* twice, and a page waits for requests of its own only (useWorkspaceItems,
\* ShareDialog).
THEOREM ViewTypes == Spec => []TypeOK
<1>1. CoreInv => TypeOK
  BY CoreTypes
<1> QED BY <1>1, CoreInvariant, PTL

\* The pages keep the tree sound ("cycle validation", move_item), unless a request
\* commits what it checked before another commit.
THEOREM PagesKeepTheTree == Spec => []TreeIsSound
<1>1. CoreInv => TreeIsSound
  BY DEF CoreInv, TreeInv
<1> QED BY <1>1, CoreInvariant, PTL

-----------------------------------------------------------------------------
(* Dialogs.                                                                *)

\* The request in s, that was answered, gives way to q.
Replaced(u, s, q) ==
  /\ s \in Slots /\ requests[s] # NoRequest /\ requests[s].q.by = u /\ requests[s].stage = "answered"
  /\ Becomes(s, [stage |-> "sent", q |-> q]) /\ q.by = u
  /\ UNCHANGED <<tables, outdated, overlapped>>

\* The requests of page u stay as they are.
Untouched(u) ==
  \A s \in Slots : \/ requests[s] # NoRequest /\ requests[s].q.by = u
                   \/ requests'[s] # NoRequest /\ requests'[s].q.by = u
                   => requests'[s] = requests[s]

\* Of the requests some are sent, or gone, the others as they were.
OnlySends ==
  \A s \in Slots : requests'[s] = requests[s] \/ requests'[s] = NoRequest \/ requests'[s].stage = "sent"

\* Page u has no new request.
NothingNew(u) ==
  \A s \in Slots : requests'[s] # NoRequest /\ requests'[s].q.by = u =>
    /\ requests[s] # NoRequest /\ requests[s].q.by = u /\ requests'[s].q.op = requests[s].q.op
    /\ requests[s].q.op # "create" => requests'[s].q.item = requests[s].q.item

\* The slots after a request was sent, or taken.
LEMMA SlotsAfter ==
  ASSUME TypeInv, NEW u, NEW s, NEW q, Sent(u, s, q) \/ Replaced(u, s, q)
  PROVE  /\ s \in Slots /\ requests'[s] = [stage |-> "sent", q |-> q]
         /\ requests'[s].q = q /\ requests'[s].stage = "sent" /\ q.by = u
         /\ \A t \in Slots \ {s} : requests'[t] = requests[t]
         /\ UNCHANGED <<tables, outdated, overlapped>>
         /\ \A v : v # u => Untouched(v)
<1>1. s \in Slots /\ Becomes(s, [stage |-> "sent", q |-> q]) /\ q.by = u
      /\ (requests[s] # NoRequest => requests[s].q.by = u) /\ UNCHANGED <<tables, outdated, overlapped>>
  BY DEF Sent, Replaced
<1>2. requests'[s] = [stage |-> "sent", q |-> q] /\ \A t \in Slots \ {s} : requests'[t] = requests[t]
  BY <1>1, OneRequest
<1>3. requests'[s].q = q /\ requests'[s].stage = "sent"
  BY <1>2
<1>4. \A v : v # u => Untouched(v)
  BY <1>1, <1>2, <1>3 DEF Untouched
<1> QED BY <1>1, <1>2, <1>3, <1>4

\* The slots after a request was sent.
LEMMA SlotsSent ==
  ASSUME TypeInv, NEW u, NEW s, NEW q, Sent(u, s, q)
  PROVE  /\ s \in Slots /\ requests'[s].q = q /\ requests'[s].stage = "sent"
         /\ \A t \in Slots \ {s} : requests'[t] = requests[t]
<1> DEFINE r == [stage |-> "sent", q |-> q]
<1>1. r.q = q /\ r.stage = "sent" /\ s \in Slots /\ Becomes(s, r)
  BY DEF Sent
<1> HIDE DEF r
<1> QED BY <1>1, OneRequest

\* The slots after an answer was taken.
LEMMA SlotsTaken ==
  ASSUME TypeInv, NEW u, NEW s, Taken(u, s)
  PROVE  /\ s \in Slots /\ requests'[s] = NoRequest
         /\ \A t \in Slots \ {s} : requests'[t] = requests[t]
         /\ UNCHANGED <<tables, outdated, overlapped>>
         /\ \A v : v # u => Untouched(v)
         /\ \A v : NothingNew(v)
<1>1. s \in Slots /\ Becomes(s, NoRequest) /\ requests[s].q.by = u /\ UNCHANGED <<tables, outdated, overlapped>>
  BY DEF Taken
<1>2. requests'[s] = NoRequest /\ \A t \in Slots \ {s} : requests'[t] = requests[t]
  BY <1>1, OneRequest
<1> QED BY <1>1, <1>2 DEF Untouched, NothingNew

\* What stays, or goes on, is not new.
LEMMA NotNew ==
  ASSUME NEW u, Untouched(u) \/ (\E s \in Slots : Moves(s)) \/ UNCHANGED requests
  PROVE  NothingNew(u)
BY DEF Untouched, NothingNew, Moves

\* A step of page w is not noticed by the other ones.
LEMMA StepOfOne ==
  ASSUME CoreInv, NEW w \in Readers, Browser(w) \/ Refresh(w) \/ Open(w) \/ CloseDialog(w) \/ Handle(w)
  PROVE  /\ \A v \in Pages \ {w} : page'[v] = page[v] /\ Untouched(v)
         /\ UNCHANGED <<tables, outdated, overlapped>> /\ OnlySends
<1>1. PageTypes /\ TypeInv /\ OwnInv /\ w \in Pages /\ Waits(w)
  BY ScenarioTypes DEF CoreInv, TreeInv, WaitInv
<1>2. ASSUME UNCHANGED serverVars \/ (\E s, q : Sent(w, s, q) \/ Replaced(w, s, q)) \/ (\E s : Taken(w, s)),
             \A v \in Pages \ {w} : page'[v] = page[v]
      PROVE  /\ \A v \in Pages \ {w} : page'[v] = page[v] /\ Untouched(v)
             /\ UNCHANGED <<tables, outdated, overlapped>> /\ OnlySends
  <2>1. CASE UNCHANGED serverVars
    BY <1>2, <2>1 DEF serverVars, tables, Untouched, OnlySends
  <2>2. CASE \E s, q : Sent(w, s, q) \/ Replaced(w, s, q)
    <3>1. OnlySends
      BY <1>1, <2>2, SlotsAfter DEF OnlySends
    <3> QED BY <1>1, <1>2, <2>2, <3>1, SlotsAfter
  <2>3. CASE \E s : Taken(w, s)
    <3>1. OnlySends
      BY <1>1, <2>3, SlotsTaken DEF OnlySends
    <3> QED BY <1>1, <1>2, <2>3, <3>1, SlotsTaken
  <2> QED BY <1>2, <2>1, <2>2, <2>3
<1>3. CASE Refresh(w)
  BY <1>1, <1>2, <1>3, RefreshDoes DEF Refreshed
<1>4. CASE Open(w)
  <2>1. CASE OpenMove(w)
    BY <1>1, <1>2, <2>1, OpenMoveDoes DEF MoveOpened
  <2>2. CASE OpenShare(w)
    BY <1>1, <1>2, <2>2, OpenShareDoes DEF ShareOpened
  <2>3. CASE ~OpenMove(w) /\ ~OpenShare(w)
    BY <1>1, <1>2, <1>4, <2>3, OpenPlainDoes DEF Open, PlainOpened
  <2> QED BY <2>1, <2>2, <2>3
<1>5. CASE CloseDialog(w)
  BY <1>1, <1>2, <1>5, CloseDoes DEF DialogClosed
<1>6. CASE Handle(w)
  BY <1>1, <1>2, <1>6, HandleDoes DEF Handled
<1>7. CASE Browser(w)
  <2>1. CASE ListingEnds(w)
    BY <1>1, <1>2, <2>1, ListingEndsDoes DEF Waits, ListingEnded
  <2>2. CASE TargetsEnd(w)
    BY <1>1, <1>2, <2>2, TargetsEndDoes DEF TargetsEnded
  <2>3. CASE CollaboratorsEnd(w)
    BY <1>1, <1>2, <2>3, CollaboratorsEndDoes DEF CollaboratorsEnded
  <2>4. CASE RefreshEnds(w)
    <3>1. \A t \in page[w].refreshing : t.slot \in Own(w, {"collaborators"})
      BY <1>1 DEF Waits, Refreshes
    <3> QED BY <1>1, <1>2, <2>4, <3>1, RefreshEndsDoes DEF RefreshEnded
  <2>5. CASE MutationEnds(w)
    BY <1>1, <1>2, <2>5, MutationEndsDoes DEF MutationEnded
  <2>6. CASE SharingEnds(w)
    <3>1. PICK s \in Slots : SharingEnded(w, s)
      BY <1>1, <2>6, SharingEndsDoes
    <3>2. (\E p, q : Replaced(w, p, q)) \/ (\E p : Taken(w, p))
      BY <3>1 DEF SharingEnded, Replaced, Taken
    <3>3. \A v \in Pages \ {w} : page'[v] = page[v]
      BY <3>1 DEF SharingEnded
    <3> QED BY <1>2, <3>2, <3>3
  <2> QED BY <1>7, <2>1, <2>2, <2>3, <2>4, <2>5, <2>6 DEF Browser
<1> QED BY <1>3, <1>4, <1>5, <1>6, <1>7

\* The mutations of the share dialog.
SharingOps == {"share", "update", "remove"}

\* As long as no dialog was left with its request under way, the requests of a page
\* belong to the dialog it shows: there is one mutation at most, and the share dialog
\* waits for nothing of another item.
Minded(u) ==
  "left" \notin page[u].mishaps =>
    /\ \A s \in Own(u, Mutations) : page[u].dialog.type = DialogOf(requests[s].q.op)
    /\ \A s, t \in Own(u, Mutations) : s = t
    /\ page[u].asked # {} \/ page[u].refreshing # {} => page[u].dialog.type = "share"
    /\ page[u].dialog.type = "share" =>
         \A s \in Own(u, SharingOps) \cup page[u].asked \cup Refreshes(u) :
            requests[s].q.item = page[u].dialog.row.item

MindedInv == \A u \in Pages : Minded(u)

\* The mutations of a closed dialog, there are none.
LEMMA NoneMinded ==
  ASSUME NEW u \in Pages, Minded(u), "left" \notin page[u].mishaps, page[u].dialog = Closed
  PROVE  Own(u, Mutations) = {} /\ page[u].asked = {} /\ page[u].refreshing = {}
<1>1. \A op : op \in Mutations => DialogOf(op) # "closed"
  BY DEF DialogOf, Mutations
<1>2. \A s \in Own(u, Mutations) : requests[s].q.op \in Mutations
  BY DEF Own
<1> QED BY <1>1, <1>2 DEF Minded, Closed

\* Nothing new has to be minded.
LEMMA MindedLess ==
  ASSUME NEW u \in Pages, Minded(u), WaitInv', NothingNew(u), page'[u].dialog = page[u].dialog,
         page'[u].asked \subseteq page[u].asked, page'[u].refreshing \subseteq page[u].refreshing,
         "left" \notin page'[u].mishaps => "left" \notin page[u].mishaps
  PROVE  Minded(u)'
<1> SUFFICES ASSUME "left" \notin page'[u].mishaps
             PROVE  /\ \A s \in Own(u, Mutations)' : page'[u].dialog.type = DialogOf(requests'[s].q.op)
                    /\ \A s, t \in Own(u, Mutations)' : s = t
                    /\ page'[u].asked # {} \/ page'[u].refreshing # {} => page'[u].dialog.type = "share"
                    /\ page'[u].dialog.type = "share" =>
                         \A s \in Own(u, SharingOps)' \cup page'[u].asked \cup Refreshes(u)' :
                            requests'[s].q.item = page'[u].dialog.row.item
  BY DEF Minded
<1>1. \A s \in Own(u, Mutations)' : s \in Own(u, Mutations) /\ requests'[s].q.op = requests[s].q.op
  BY DEF Own, NothingNew
<1>2. \A s \in Own(u, SharingOps)' : s \in Own(u, SharingOps) /\ requests'[s].q.item = requests[s].q.item
  BY DEF Own, NothingNew, SharingOps
<1>3. Refreshes(u)' \subseteq Refreshes(u)
  BY DEF Refreshes
<1>4. page'[u].asked \cup Refreshes(u)' \subseteq Own(u, {"collaborators"})'
  BY DEF WaitInv, Waits
<1>5. \A s \in Own(u, {"collaborators"})' : requests'[s].q.item = requests[s].q.item
  BY DEF Own, NothingNew
<1> QED BY <1>1, <1>2, <1>3, <1>4, <1>5 DEF Minded

\* What is sent is minded: a mutation of the dialog, or the collaborators of its item.
LEMMA MindedSent ==
  ASSUME CoreInv, NEW u \in Pages, NEW s, NEW q, Sent(u, s, q), NEW ops, q.op \notin ops
  PROVE  Own(u, ops)' = Own(u, ops) /\ \A t \in Own(u, ops) : requests'[t] = requests[t]
<1>1. TypeInv
  BY DEF CoreInv, TreeInv
<1>2. Own(u, ops)' = Own(u, ops) /\ s \notin Own(u, ops)
  BY <1>1, OwnSent
<1> QED BY <1>1, <1>2, SlotsSent DEF Own

\* A dialog opens.
LEMMA OpenIsMinded ==
  ASSUME CoreInv, CoreInv', NEW u \in Readers, Open(u), Minded(u)
  PROVE  Minded(u)'
<1>1. PageTypes /\ TypeInv /\ u \in Pages /\ IsPage(page[u]) /\ Waits(u)
  BY ScenarioTypes DEF CoreInv, TreeInv, PageTypes, WaitInv
<1>2. ASSUME page[u].dialog = Closed, page'[u].mishaps = page[u].mishaps,
             Own(u, Mutations)' = Own(u, Mutations), page'[u].refreshing = page[u].refreshing,
             page'[u].asked = page[u].asked
      PROVE  Minded(u)'
  <2> SUFFICES ASSUME "left" \notin page'[u].mishaps PROVE Minded(u)'
    BY DEF Minded
  <2>1. Own(u, Mutations)' = {} /\ page'[u].asked = {} /\ page'[u].refreshing = {}
    BY <1>1, <1>2, NoneMinded
  <2>2. Own(u, SharingOps)' = {} /\ Refreshes(u)' = {}
    BY <2>1 DEF Own, SharingOps, Mutations, Refreshes
  <2> QED BY <2>1, <2>2 DEF Minded
<1>3. CASE OpenMove(u)
  <2>1. PICK s, q : MoveOpened(u, s, q)
    BY <1>1, <1>3, OpenMoveDoes
  <2>2. Own(u, Mutations)' = Own(u, Mutations)
    BY <1>1, <2>1, MindedSent DEF MoveOpened, Mutations
  <2> QED BY <1>2, <2>1, <2>2 DEF MoveOpened, Same, PageFields
<1>4. CASE OpenShare(u)
  <2> SUFFICES ASSUME "left" \notin page'[u].mishaps PROVE Minded(u)'
    BY DEF Minded
  <2>1. PICK s, q, row : ShareOpened(u, s, q, row)
    BY <1>1, <1>4, OpenShareDoes
  <2>2. page[u].dialog = Closed /\ page'[u].mishaps = page[u].mishaps
        /\ page'[u].refreshing = page[u].refreshing
    BY <2>1 DEF ShareOpened, Same, PageFields
  <2>3. Own(u, Mutations) = {} /\ page[u].refreshing = {}
    BY <1>1, <2>2, NoneMinded
  <2>4. Own(u, Mutations)' = {}
    BY <1>1, <2>1, <2>3, MindedSent DEF ShareOpened, Mutations
  <2>5. Own(u, SharingOps)' = {} /\ Refreshes(u)' = {}
    BY <2>2, <2>3, <2>4 DEF Own, SharingOps, Mutations, Refreshes
  <2>6. page'[u].dialog.type = "share" /\ page'[u].dialog.row = row /\ page'[u].asked = {s}
    BY <2>1 DEF ShareOpened
  <2>7. Sent(u, s, q) /\ q.item = row.item
    BY <2>1 DEF ShareOpened
  <2>8. requests'[s].q = q
    BY <1>1, <2>7, SlotsSent
  <2> QED BY <2>4, <2>5, <2>6, <2>7, <2>8 DEF Minded
<1>5. CASE ~OpenMove(u) /\ ~OpenShare(u)
  <2>1. PlainOpened(u)
    BY <1>1, <1>5, OpenPlainDoes DEF Open
  <2>2. Own(u, Mutations)' = Own(u, Mutations)
    BY <2>1 DEF PlainOpened, serverVars, Own
  <2> QED BY <1>2, <2>1, <2>2 DEF PlainOpened, Same, PageFields
<1> QED BY <1>3, <1>4, <1>5

\* A dialog is closed, or its form submitted.
LEMMA UseIsMinded ==
  ASSUME CoreInv, CoreInv', NEW u \in Readers, CloseDialog(u) \/ Handle(u), Minded(u)
  PROVE  Minded(u)'
<1>1. PageTypes /\ TypeInv /\ u \in Pages /\ IsPage(page[u]) /\ Waits(u)
  BY ScenarioTypes DEF CoreInv, TreeInv, PageTypes, WaitInv
<1> SUFFICES ASSUME "left" \notin page'[u].mishaps PROVE Minded(u)'
  BY DEF Minded
<1>2. CASE CloseDialog(u)
  <2>1. DialogClosed(u)
    BY <1>1, <1>2, CloseDoes
  <2> DEFINE left == \/ \E s \in Own(u, Mutations) : DialogOf(requests[s].q.op) = page[u].dialog.type
                     \/ page[u].refreshing # {}
  <2>2. page'[u].mishaps = IF left THEN page[u].mishaps \cup {"left"} ELSE page[u].mishaps
    BY <2>1 DEF DialogClosed
  <2>3. ~left /\ "left" \notin page[u].mishaps
    BY <2>2
  <2>4. Own(u, Mutations) = {} /\ page[u].refreshing = {}
    BY <2>3 DEF Minded
  <2>5. requests' = requests /\ page'[u].refreshing = {} /\ page'[u].dialog = Closed
    BY <2>1, <2>4 DEF DialogClosed, serverVars, Same, PageFields, Shut
  <2>6. page'[u].asked = {}
    BY <2>1, <2>3 DEF DialogClosed, Shut, Minded
  <2>7. Own(u, Mutations)' = {} /\ Own(u, SharingOps)' = {} /\ Refreshes(u)' = {}
    BY <2>4, <2>5 DEF Own, SharingOps, Mutations, Refreshes
  <2> QED BY <2>5, <2>6, <2>7 DEF Minded
<1>3. CASE Handle(u)
  <2>1. PICK s, q : Handled(u, s, q)
    BY <1>1, <1>3, HandleDoes
  <2>2. Sent(u, s, q) /\ page' = page
    BY <2>1 DEF Handled
  <2>3. Own(u, Mutations) = {}
    BY <2>1, <2>2 DEF Handled, Minded
  <2>4. requests'[s].q = q /\ s \in Slots /\ \A t \in Slots \ {s} : requests'[t] = requests[t]
    BY <1>1, <2>2, SlotsSent
  <2>5. Own(u, Mutations)' = {s}
    <3>1. Own(u, Mutations)' = Own(u, Mutations) \cup (IF u = u /\ q.op \in Mutations THEN {s} ELSE {})
      BY <1>1, <2>2, OwnSent
    <3> QED BY <3>1, <2>1, <2>3 DEF Handled
  <2>6. \A t \in Own(u, SharingOps)' : t = s /\ q.op # "create"
    <3>1. Own(u, SharingOps)' \subseteq Own(u, Mutations)'
      BY DEF Own, SharingOps, Mutations
    <3>2. \A t \in Own(u, SharingOps)' : requests'[t].q.op \in SharingOps
      BY DEF Own
    <3> QED BY <2>4, <2>5, <3>1, <3>2 DEF SharingOps
  <2>7. \A t \in page[u].asked \cup Refreshes(u) : requests'[t] = requests[t]
    <3>1. \A t \in Own(u, {"collaborators"}) : t \in Slots /\ t # s
      BY <2>2 DEF Own, Sent
    <3> QED BY <1>1, <2>4, <3>1 DEF Waits
  <2>8. Refreshes(u)' = Refreshes(u)
    BY <2>2 DEF Refreshes
  <2> QED BY <2>1, <2>2, <2>4, <2>5, <2>6, <2>7, <2>8 DEF Minded, Handled
<1> QED BY <1>2, <1>3

\* Answers are taken.
LEMMA BrowserIsMinded ==
  ASSUME CoreInv, CoreInv', NEW u \in Readers, Browser(u) \/ Refresh(u), Minded(u)
  PROVE  Minded(u)'
<1>1. PageTypes /\ TypeInv /\ OwnInv /\ u \in Pages /\ IsPage(page[u]) /\ Waits(u) /\ WaitInv'
  BY ScenarioTypes DEF CoreInv, TreeInv, PageTypes, WaitInv
<1>2. ASSUME NothingNew(u), page'[u].dialog = page[u].dialog, page'[u].asked \subseteq page[u].asked,
             page'[u].refreshing \subseteq page[u].refreshing, page'[u].mishaps = page[u].mishaps
      PROVE  Minded(u)'
  BY <1>1, <1>2, MindedLess
<1>3. \A s : Taken(u, s) => NothingNew(u)
  BY <1>1, SlotsTaken
<1>4. CASE ListingEnds(u)
  <2>1. PICK s \in page[u].listing : ListingEnded(u, s)
    BY <1>1, <1>4, ListingEndsDoes DEF Waits
  <2> QED BY <1>2, <1>3, <2>1 DEF ListingEnded, Same, PageFields
<1>5. CASE TargetsEnd(u)
  <2>1. PICK s \in Slots : TargetsEnded(u, s)
    BY <1>1, <1>5, TargetsEndDoes
  <2> QED BY <1>2, <1>3, <2>1 DEF TargetsEnded, Same, PageFields
<1>6. CASE CollaboratorsEnd(u)
  <2>1. PICK s \in Slots : CollaboratorsEnded(u, s)
    BY <1>1, <1>6, CollaboratorsEndDoes
  <2> QED BY <1>2, <1>3, <2>1 DEF CollaboratorsEnded, Same, PageFields
<1>7. CASE RefreshEnds(u)
  <2>1. \A t \in page[u].refreshing : t.slot \in Own(u, {"collaborators"})
    BY <1>1 DEF Waits, Refreshes
  <2>2. PICK r \in page[u].refreshing : RefreshEnded(u, r)
    BY <1>1, <1>7, <2>1, RefreshEndsDoes
  <2> QED BY <1>2, <1>3, <2>2 DEF RefreshEnded, Same, PageFields
<1>8. CASE MutationEnds(u)
  <2>1. PICK s \in Slots : MutationEnded(u, s)
    BY <1>1, <1>8, MutationEndsDoes
  <2>2. CASE ~requests[s].ok
    BY <1>2, <1>3, <2>1, <2>2 DEF MutationEnded
  <2>3. CASE requests[s].ok
    <3> SUFFICES ASSUME "left" \notin page'[u].mishaps PROVE Minded(u)'
      BY DEF Minded
    <3>1. page'[u].mishaps = page[u].mishaps /\ page'[u].refreshing = page[u].refreshing
          /\ Shut(page'[u], page[u]) /\ Taken(u, s)
      BY <2>1, <2>3 DEF MutationEnded, Same, PageFields
    <3>2. requests[s].q.op \in {"create", "rename", "delete", "move"}
      BY <2>1 DEF MutationEnded
    <3>3. s \in Own(u, Mutations) /\ DialogOf(requests[s].q.op) # "share"
      BY <3>1, <3>2 DEF Own, Taken, Mutations, DialogOf
    <3>4. Own(u, Mutations)' = Own(u, Mutations) \ {s}
      BY <1>1, <3>1, OwnTaken DEF Taken
    <3>5. Own(u, Mutations)' = {} /\ page[u].dialog.type # "share" /\ page[u].asked = {}
          /\ page[u].refreshing = {}
      BY <3>1, <3>3, <3>4 DEF Minded
    <3>6. page'[u].asked = {} /\ page'[u].refreshing = {} /\ page'[u].dialog = Closed
      BY <3>1, <3>5 DEF Shut
    <3> QED BY <3>5, <3>6 DEF Minded, Closed
  <2> QED BY <2>2, <2>3
<1>9. CASE SharingEnds(u)
  <2>1. PICK s \in Slots : SharingEnded(u, s)
    BY <1>1, <1>9, SharingEndsDoes
  <2>2. CASE ~requests[s].ok
    <3>1. Taken(u, s) /\ page'[u] = page[u]
      BY <2>1, <2>2 DEF SharingEnded, Taken
    <3> QED BY <1>2, <1>3, <3>1
  <2>3. CASE requests[s].ok
    <3> SUFFICES ASSUME "left" \notin page'[u].mishaps PROVE Minded(u)'
      BY DEF Minded
    <3>1. PICK q, c :
            /\ Becomes(s, [stage |-> "sent", q |-> q]) /\ q.by = u
            /\ q.op = "collaborators" /\ q.item = requests[s].q.item
            /\ page'[u].refreshing = page[u].refreshing \cup {[slot |-> s, collaborators |-> c]}
      BY <2>1, <2>3 DEF SharingEnded
    <3>2. page'[u].dialog = page[u].dialog /\ page'[u].mishaps = page[u].mishaps
          /\ page'[u].asked = page[u].asked
      BY <2>1, <2>3 DEF SharingEnded, Same, PageFields
    <3>3. requests[s].q.op \in SharingOps /\ s \in Own(u, SharingOps) /\ s \in Own(u, Mutations)
          /\ DialogOf(requests[s].q.op) = "share"
      BY <2>1 DEF SharingEnded, SharingOps, Own, Mutations, DialogOf
    <3>4. page[u].dialog.type = "share" /\ requests[s].q.item = page[u].dialog.row.item
          /\ Own(u, Mutations) = {s}
      BY <3>2, <3>3 DEF Minded
    <3>5. Own(u, Mutations)' = {}
      <4>1. Own(u, Mutations)' = (Own(u, Mutations) \ {s})
                                   \cup (IF u = q.by /\ q.op \in Mutations THEN {s} ELSE {})
        BY <1>1, <3>1, OwnReplaced
      <4> QED BY <3>1, <3>4, <4>1 DEF Mutations
    <3>6. Own(u, SharingOps)' = {}
      BY <3>5 DEF Own, SharingOps, Mutations
    <3>7. requests'[s].q = q /\ \A t \in Slots \ {s} : requests'[t] = requests[t]
      <4>1. requests'[s] = [stage |-> "sent", q |-> q] /\ \A t \in Slots \ {s} : requests'[t] = requests[t]
        BY <1>1, <3>1, OneRequest
      <4> QED BY <4>1
    <3> DEFINE a == [slot |-> s, collaborators |-> c]
    <3>8. a.slot = s /\ page'[u].refreshing = page[u].refreshing \cup {a}
      BY <3>1
    <3> HIDE DEF a
    <3>9. Refreshes(u)' = Refreshes(u) \cup {s}
      BY <3>8 DEF Refreshes
    <3>10. \A t \in page[u].asked \cup Refreshes(u) : t \in Slots /\ t # s
      BY <1>1, <3>3 DEF Waits, Own, SharingOps
    <3> QED BY <3>1, <3>2, <3>4, <3>5, <3>6, <3>7, <3>9, <3>10 DEF Minded
  <2> QED BY <2>2, <2>3
<1>10. CASE Refresh(u)
  <2>1. PICK s, q : Refreshed(u, s, q)
    BY <1>1, <1>10, RefreshDoes
  <2>2. page'[u].dialog = page[u].dialog /\ page'[u].mishaps = page[u].mishaps
        /\ page'[u].asked = page[u].asked /\ page'[u].refreshing = page[u].refreshing
    BY <2>1 DEF Refreshed, Same, PageFields
  <2>3. q.op \notin Mutations \cup SharingOps \cup {"collaborators"} /\ Sent(u, s, q)
    BY <2>1 DEF Refreshed, Mutations, SharingOps
  <2>4. Own(u, Mutations)' = Own(u, Mutations) /\ \A t \in Own(u, Mutations) : requests'[t] = requests[t]
    BY <1>1, <2>3, MindedSent
  <2>5. Own(u, SharingOps)' = Own(u, SharingOps) /\ \A t \in Own(u, SharingOps) : requests'[t] = requests[t]
    BY <1>1, <2>3, MindedSent
  <2>6. \A t \in Own(u, {"collaborators"}) : requests'[t] = requests[t]
    BY <1>1, <2>3, MindedSent
  <2>7. Refreshes(u)' = Refreshes(u)
    BY <2>2 DEF Refreshes
  <2> QED BY <1>1, <2>2, <2>4, <2>5, <2>6, <2>7 DEF Minded, Waits
<1> QED BY <1>4, <1>5, <1>6, <1>7, <1>8, <1>9, <1>10 DEF Browser

\* The server forgets of no dialog that it was left.
LEMMA ServerKeepsLeft ==
  ASSUME CoreInv, NEW s \in Slots, Server(s) \/ Network(s), NEW u \in Pages, "left" \in page[u].mishaps
  PROVE  "left" \in page'[u].mishaps
<1>1. PageTypes /\ TypeInv /\ OwnInv
  BY DEF CoreInv, TreeInv
<1>2. CASE Lists(s)
  BY <1>1, <1>2, ListsDoes
<1>3. CASE UNCHANGED viewVars
  BY <1>3 DEF viewVars
<1>4. CASE Commit(s) /\ Happened(s)
  <2>1. Moves(s) /\ requests[s] # NoRequest
    BY <1>1, <1>4, CommitMoves DEF Moves
  <2> QED BY <1>1, <1>4, <2>1, HappenedDoes
<1>5. CASE (Answer(s) \/ Lose(s)) /\ Unanswered(s)
  <2>1. requests[s] # NoRequest
    BY <1>1, <1>5, OthersMove DEF Moves
  <2> QED BY <1>1, <1>5, <2>1, UnansweredDoes
<1> QED BY <1>2, <1>3, <1>4, <1>5 DEF Server, Network

\* Every step keeps the dialogs minded.
LEMMA MindedKept ==
  ASSUME CoreInv, MindedInv, [Next]_<<vars, scenario>>
  PROVE  MindedInv'
<1>1. CoreInv'
  BY CoreKept
<1> SUFFICES ASSUME NEW u \in Pages PROVE Minded(u)'
  BY DEF MindedInv
<1>2. Minded(u) /\ WaitInv'
  BY <1>1 DEF MindedInv, CoreInv
<1>3. CASE UNCHANGED <<vars, scenario>>
  BY <1>2, <1>3 DEF vars, viewVars, serverVars, Minded, Own, Refreshes
<1>4. ASSUME NEW w \in Readers, Browser(w) \/ Refresh(w) \/ Open(w) \/ CloseDialog(w) \/ Handle(w)
      PROVE  Minded(u)'
  <2>1. CASE u = w
    BY <1>1, <1>2, <1>4, <2>1, BrowserIsMinded, OpenIsMinded, UseIsMinded
  <2>2. CASE u # w
    <3>1. page'[u] = page[u] /\ Untouched(u)
      BY <1>4, <2>2, StepOfOne
    <3> QED BY <1>2, <3>1, NotNew, MindedLess
  <2> QED BY <2>1, <2>2
<1>5. ASSUME NEW s \in Slots, Server(s) \/ Network(s) PROVE Minded(u)'
  <2>1. OnlyMishaps /\ Moves(s)
    BY <1>5, ServerDoes DEF CoreInv, TreeInv
  <2>2. page'[u].dialog = page[u].dialog /\ page'[u].asked = page[u].asked
        /\ page'[u].refreshing = page[u].refreshing
    BY <2>1 DEF OnlyMishaps, Same, PageFields
  <2> QED BY <1>2, <1>5, <2>1, <2>2, NotNew, MindedLess, ServerKeepsLeft
<1> QED BY <1>3, <1>4, <1>5 DEF Next

\* So they are when the pages are loaded.
LEMMA MindedStarts ==
  ASSUME Init
  PROVE  MindedInv
<1>1. \A s \in Slots : requests[s] = NoRequest
  BY DEF Init
<1>2. \A u \in Pages : page[u].dialog = Closed /\ page[u].asked = {} /\ page[u].refreshing = {}
  BY DEF Init, NoPage
<1>3. \A u, ops : Own(u, ops) = {}
  BY <1>1 DEF Own
<1> QED BY <1>2, <1>3 DEF MindedInv, Minded, Refreshes, Closed

\* What the dialogs of the pages have to do with their requests, for all pages.
THEOREM MindedInvariant == Spec => []MindedInv
<1>1. Init => MindedInv
  BY MindedStarts
<1>2. CoreInv /\ MindedInv /\ [Next]_<<vars, scenario>> => MindedInv'
  BY MindedKept
<1> QED BY <1>1, <1>2, CoreInvariant, PTL DEF Spec

\* A dialog that is open closes by its user or by its own request.
LEMMA DialogsClose ==
  ASSUME CoreInv, MindedInv, [Next]_<<vars, scenario>>, NEW u \in Pages,
         page[u].dialog # Closed, page'[u].dialog = Closed, "left" \notin page'[u].mishaps
  PROVE  \/ UNCHANGED requests
         \/ \E s \in Own(u, {page[u].dialog.type}) : requests[s].ok /\ requests'[s] = NoRequest
<1>1. PageTypes /\ TypeInv /\ OwnInv /\ Minded(u) /\ Waits(u)
  BY DEF CoreInv, TreeInv, MindedInv, WaitInv
<1>2. CASE UNCHANGED <<vars, scenario>>
  BY <1>2 DEF vars, serverVars
<1>3. ASSUME NEW w \in Readers, Browser(w) \/ Refresh(w) \/ Open(w) \/ CloseDialog(w) \/ Handle(w)
      PROVE  \/ UNCHANGED requests
             \/ \E s \in Own(u, {page[u].dialog.type}) : requests[s].ok /\ requests'[s] = NoRequest
  <2>1. u = w
    BY <1>3, StepOfOne
  <2>2. ~Refresh(u)
    BY <1>1, <1>3, <2>1, RefreshDoes DEF Refreshed, Same, PageFields
  <2>3. ~Handle(u)
    BY <1>1, <1>3, <2>1, HandleDoes DEF Handled
  <2>4. ~Open(u)
    <3>1. Open(u) => page[u].dialog = Closed
      BY Zenon DEF Open, OpenMove, OpenShare, OpenCreate, OpenPlain, OpenRow, Offered
    <3> QED BY <3>1
  <2>5. CASE CloseDialog(u)
    BY <1>1, <1>3, <2>1, <2>5, CloseDoes DEF DialogClosed, serverVars
  <2>6. CASE Browser(u)
    <3>1. ~ListingEnds(u)
      BY <1>1, <1>3, <2>1, ListingEndsDoes DEF Waits, ListingEnded, Same, PageFields
    <3>2. ~TargetsEnd(u)
      BY <1>1, <1>3, <2>1, TargetsEndDoes DEF TargetsEnded, Same, PageFields
    <3>3. ~CollaboratorsEnd(u)
      BY <1>1, <1>3, <2>1, CollaboratorsEndDoes DEF CollaboratorsEnded, Same, PageFields
    <3>4. ~RefreshEnds(u)
      <4>1. \A t \in page[u].refreshing : t.slot \in Own(u, {"collaborators"})
        BY <1>1 DEF Waits, Refreshes
      <4> QED BY <1>1, <1>3, <2>1, <4>1, RefreshEndsDoes DEF RefreshEnded, Same, PageFields
    <3>5. ~SharingEnds(u)
      <4> SUFFICES ASSUME SharingEnds(u) PROVE FALSE
        OBVIOUS
      <4>1. PICK s \in Slots : SharingEnded(u, s)
        BY <1>1, <1>3, <2>1, SharingEndsDoes
      <4> QED BY <4>1 DEF SharingEnded, Same, PageFields
    <3>6. MutationEnds(u)
      BY <2>6, <3>1, <3>2, <3>3, <3>4, <3>5 DEF Browser
    <3>7. PICK s \in Slots : MutationEnded(u, s)
      BY <1>1, <1>3, <2>1, <3>6, MutationEndsDoes
    <3>8. requests[s].ok /\ page'[u].mishaps = page[u].mishaps
      BY <3>7 DEF MutationEnded, Same, PageFields
    <3>9. requests'[s] = NoRequest
      BY <1>1, <3>7, SlotsTaken DEF MutationEnded
    <3>10. requests[s] # NoRequest /\ requests[s].q.by = u
           /\ requests[s].q.op \in {"create", "rename", "delete", "move"}
      BY <3>7 DEF MutationEnded, Taken
    <3>11. s \in Own(u, Mutations) /\ DialogOf(requests[s].q.op) = requests[s].q.op
      BY <3>10 DEF Own, Mutations, DialogOf
    <3>12. page[u].dialog.type = requests[s].q.op
      BY <1>1, <3>8, <3>11 DEF Minded
    <3>13. s \in Own(u, {page[u].dialog.type})
      BY <3>10, <3>12 DEF Own
    <3> QED BY <3>8, <3>9, <3>13
  <2> QED BY <1>3, <2>1, <2>2, <2>3, <2>4, <2>5, <2>6
<1>4. ASSUME NEW s \in Slots, Server(s) \/ Network(s) PROVE FALSE
  <2>1. OnlyMishaps
    BY <1>1, <1>4, ServerDoes
  <2> QED BY <2>1 DEF OnlyMishaps, Same, PageFields
<1> QED BY <1>2, <1>3, <1>4 DEF Next

\* A dialog that is open closes when its user closes it or its own request was
\* carried out, unless one was left with its request under way (WorkspacePage).
THEOREM DialogsAreClosedByTheirOwn == Spec => DialogsCloseByTheirOwn
<1>1. CoreInv /\ MindedInv /\ [Next]_<<vars, scenario>> =>
        [\A u \in Pages :
           page[u].dialog # Closed /\ page'[u].dialog = Closed /\ "left" \notin page'[u].mishaps =>
             \/ UNCHANGED requests
             \/ \E s \in Own(u, {page[u].dialog.type}) : requests[s].ok /\ requests'[s] = NoRequest]_vars
  BY DialogsClose
<1> QED BY <1>1, CoreInvariant, MindedInvariant, PTL DEF Spec, DialogsCloseByTheirOwn

-----------------------------------------------------------------------------
(* The share dialog.                                                       *)

\* The requests of a page that were carried out, and the answers with the data
\* that was asked for.
Carried(u, ops) == {s \in Own(u, ops) : \/ requests[s].stage = "committed"
                                        \/ requests[s].stage = "answered" /\ requests[s].ok}
Arrived(u, op) == {s \in Own(u, {op}) : requests[s].stage = "answered" /\ requests[s].ok}

\* The mishaps a share dialog does not mind.
OfRows == {"crossed", "sharing", "foreign", "nested"}

\* Collaborators that arrived are those of their item, those that are waited for
\* arrive, and the share dialog shows those of its item or waits for them.
Current(u) == \A s \in Arrived(u, "collaborators") : requests[s].result = Collaborators(requests[s].q.item)

Arriving(u) == \A s \in page[u].asked \cup Refreshes(u) : requests[s].stage = "sent" \/ requests[s].ok

Displays(u) ==
  page[u].dialog.type = "share" =>
    \/ page[u].sharees = Collaborators(page[u].dialog.row.item)
    \/ page[u].asked # {} \/ page[u].refreshing # {} \/ Carried(u, SharingOps) # {}

Sharing(u) == page[u].mishaps \subseteq OfRows => Current(u) /\ Arriving(u) /\ Displays(u)

ShareInv == \A u \in Pages : Sharing(u)

\* What was sent did not arrive yet.
LEMMA CurrentKept ==
  ASSUME NEW u, Current(u), OnlySends, UNCHANGED shares
  PROVE  Current(u)'
<1>1. \A s \in Arrived(u, "collaborators")' : s \in Arrived(u, "collaborators") /\ requests'[s] = requests[s]
  BY DEF Arrived, Own, OnlySends
<1> QED BY <1>1 DEF Current, Collaborators

\* What is asked for is arriving.
LEMMA ArrivingKept ==
  ASSUME NEW u \in Pages, Arriving(u), WaitInv', OnlySends,
         \A s \in page'[u].asked \cup Refreshes(u)' :
           s \in page[u].asked \cup Refreshes(u) \/ requests'[s].stage = "sent"
  PROVE  Arriving(u)'
<1>1. \A s \in page'[u].asked \cup Refreshes(u)' : s \in Slots /\ requests'[s] # NoRequest
  BY DEF WaitInv, Waits, Own
<1> QED BY <1>1 DEF Arriving, OnlySends

\* The dialog stays as it is.
LEMMA DisplaysKept ==
  ASSUME NEW u \in Pages, Displays(u), UNCHANGED shares,
         \A s \in Carried(u, SharingOps) : requests'[s] = requests[s],
         page'[u].dialog = page[u].dialog, page'[u].sharees = page[u].sharees,
         page'[u].asked = page[u].asked, page'[u].refreshing = page[u].refreshing
  PROVE  Displays(u)'
<1>1. Carried(u, SharingOps) \subseteq Carried(u, SharingOps)'
  BY DEF Carried, Own
<1> QED BY <1>1 DEF Displays, Collaborators

\* Nothing that was carried out is disturbed by what is sent, or by an answer
\* that is taken and not of the share dialog.
LEMMA CarriedKept ==
  ASSUME TypeInv, NEW u, NEW s, (\E q : Sent(u, s, q))
                                \/ (Taken(u, s) /\ (requests[s].q.op \notin SharingOps \/ ~requests[s].ok))
  PROVE  \A t \in Carried(u, SharingOps) : requests'[t] = requests[t]
<1>1. CASE \E q : Sent(u, s, q)
  <2>1. requests[s] = NoRequest /\ \A t \in Slots \ {s} : requests'[t] = requests[t]
    BY <1>1, SlotsSent DEF Sent
  <2> QED BY <2>1 DEF Carried, Own
<1>2. CASE Taken(u, s) /\ (requests[s].q.op \notin SharingOps \/ ~requests[s].ok)
  <2>1. requests[s].stage = "answered" /\ \A t \in Slots \ {s} : requests'[t] = requests[t]
    BY <1>2, SlotsTaken DEF Taken
  <2> QED BY <1>2, <2>1 DEF Carried, Own
<1> QED BY <1>1, <1>2

\* A dialog opens.
LEMMA OpenIsShared ==
  ASSUME CoreInv, CoreInv', NEW u \in Readers, Open(u), MindedInv, Sharing(u)
  PROVE  Sharing(u)'
<1>1. PageTypes /\ TypeInv /\ u \in Pages /\ WaitInv' /\ Minded(u) /\ Waits(u) /\ OnlySends /\ UNCHANGED shares
  BY ScenarioTypes, StepOfOne DEF CoreInv, TreeInv, MindedInv, WaitInv, tables
<1> SUFFICES ASSUME page'[u].mishaps \subseteq OfRows PROVE Current(u)' /\ Arriving(u)' /\ Displays(u)'
  BY DEF Sharing
<1>2. ASSUME page[u].dialog = Closed, page'[u].mishaps = page[u].mishaps,
             page'[u].refreshing = page[u].refreshing,
             page'[u].dialog.type = "share" => page'[u].asked # {},
             \A s \in page'[u].asked : s \in page[u].asked \/ requests'[s].stage = "sent"
      PROVE  Current(u)' /\ Arriving(u)' /\ Displays(u)'
  <2>1. Current(u) /\ Arriving(u)
    BY <1>2 DEF Sharing
  <2>2. Current(u)'
    BY <1>1, <2>1, CurrentKept
  <2>3. Arriving(u)'
    <3>1. Refreshes(u)' = Refreshes(u)
      BY <1>2 DEF Refreshes
    <3> QED BY <1>1, <1>2, <2>1, <3>1, ArrivingKept
  <2>4. Displays(u)'
    BY <1>2 DEF Displays
  <2> QED BY <2>2, <2>3, <2>4
<1>3. CASE OpenMove(u)
  BY <1>1, <1>2, <1>3, OpenMoveDoes DEF MoveOpened, Same, PageFields
<1>4. CASE OpenShare(u)
  <2>1. PICK s, q, row : ShareOpened(u, s, q, row)
    BY <1>1, <1>4, OpenShareDoes
  <2>2. requests'[s].stage = "sent"
    BY <1>1, <2>1, SlotsSent DEF ShareOpened
  <2>3. page'[u].asked = {s}
    BY <2>1 DEF ShareOpened
  <2> QED BY <1>2, <2>1, <2>2, <2>3 DEF ShareOpened, Same, PageFields
<1>5. CASE ~OpenMove(u) /\ ~OpenShare(u)
  <2>1. PlainOpened(u)
    BY <1>1, <1>5, OpenPlainDoes DEF Open
  <2> QED BY <1>2, <2>1 DEF PlainOpened, Same, PageFields
<1> QED BY <1>3, <1>4, <1>5

\* A dialog is closed, its form submitted, or a listing asked for.
LEMMA UseIsShared ==
  ASSUME CoreInv, CoreInv', NEW u \in Readers, CloseDialog(u) \/ Handle(u) \/ Refresh(u), Sharing(u)
  PROVE  Sharing(u)'
<1>1. PageTypes /\ TypeInv /\ u \in Pages /\ WaitInv' /\ OnlySends /\ UNCHANGED shares
  BY ScenarioTypes, StepOfOne DEF CoreInv, TreeInv, tables
<1> SUFFICES ASSUME page'[u].mishaps \subseteq OfRows PROVE Current(u)' /\ Arriving(u)' /\ Displays(u)'
  BY DEF Sharing
<1>2. /\ page[u].mishaps \subseteq page'[u].mishaps /\ page'[u].refreshing = page[u].refreshing
      /\ page'[u].asked \subseteq page[u].asked
  <2>1. CASE CloseDialog(u)
    BY <1>1, <2>1, CloseDoes DEF DialogClosed, Shut, Same, PageFields
  <2>2. CASE Handle(u)
    BY <1>1, <2>2, HandleDoes DEF Handled
  <2>3. CASE Refresh(u)
    BY <1>1, <2>3, RefreshDoes DEF Refreshed, Same, PageFields
  <2> QED BY <2>1, <2>2, <2>3
<1>3. Current(u) /\ Arriving(u) /\ Displays(u)
  BY <1>2 DEF Sharing
<1>4. Current(u)'
  BY <1>1, <1>3, CurrentKept
<1>5. Arriving(u)'
  <2>1. Refreshes(u)' = Refreshes(u)
    BY <1>2 DEF Refreshes
  <2> QED BY <1>1, <1>2, <1>3, <2>1, ArrivingKept
<1>6. Displays(u)'
  <2>1. CASE CloseDialog(u)
    <3>1. page'[u].dialog = Closed
      BY <1>1, <2>1, CloseDoes DEF DialogClosed, Shut
    <3> QED BY <3>1 DEF Displays, Closed
  <2>2. CASE Handle(u)
    <3>1. PICK s, q : Handled(u, s, q)
      BY <1>1, <2>2, HandleDoes
    <3>2. \A t \in Carried(u, SharingOps) : requests'[t] = requests[t]
      BY <1>1, <3>1, CarriedKept DEF Handled
    <3> QED BY <1>1, <1>3, <3>1, <3>2, DisplaysKept DEF Handled
  <2>3. CASE Refresh(u)
    <3>1. PICK s, q : Refreshed(u, s, q)
      BY <1>1, <2>3, RefreshDoes
    <3>2. \A t \in Carried(u, SharingOps) : requests'[t] = requests[t]
      BY <1>1, <3>1, CarriedKept DEF Refreshed
    <3> QED BY <1>1, <1>3, <3>1, <3>2, DisplaysKept DEF Refreshed, Same, PageFields
  <2> QED BY <2>1, <2>2, <2>3
<1> QED BY <1>4, <1>5, <1>6

\* Answers are taken.
LEMMA BrowserIsShared ==
  ASSUME CoreInv, CoreInv', NEW u \in Readers, Browser(u), MindedInv, Sharing(u)
  PROVE  Sharing(u)'
<1>1. PageTypes /\ TypeInv /\ OwnInv /\ u \in Pages /\ WaitInv' /\ Minded(u) /\ Waits(u) /\ OnlySends
      /\ UNCHANGED shares
  BY ScenarioTypes, StepOfOne DEF CoreInv, TreeInv, MindedInv, WaitInv, tables
<1> SUFFICES ASSUME page'[u].mishaps \subseteq OfRows PROVE Current(u)' /\ Arriving(u)' /\ Displays(u)'
  BY DEF Sharing
<1>2. ASSUME page'[u].mishaps = page[u].mishaps,
             page'[u].asked \subseteq page[u].asked,
             Refreshes(u)' \subseteq Refreshes(u) \cup {s \in Slots : requests'[s].stage = "sent"},
             Current(u) /\ Arriving(u) /\ Displays(u) => Displays(u)'
      PROVE  Current(u)' /\ Arriving(u)' /\ Displays(u)'
  <2>1. Current(u) /\ Arriving(u) /\ Displays(u)
    BY <1>2 DEF Sharing
  <2>2. Current(u)' /\ Arriving(u)'
    BY <1>1, <1>2, <2>1, CurrentKept, ArrivingKept
  <2> QED BY <1>2, <2>1, <2>2
<1>3. \A s : Taken(u, s) /\ (requests[s].q.op \notin SharingOps \/ ~requests[s].ok)
             => \A t \in Carried(u, SharingOps) : requests'[t] = requests[t]
  BY <1>1, CarriedKept
<1>4. CASE ListingEnds(u)
  <2>1. PICK s \in page[u].listing : ListingEnded(u, s)
    BY <1>1, <1>4, ListingEndsDoes DEF Waits
  <2>2. \A t \in Carried(u, SharingOps) : requests'[t] = requests[t]
    BY <1>3, <2>1 DEF ListingEnded, SharingOps
  <2>3. /\ page'[u].mishaps = page[u].mishaps /\ page'[u].dialog = page[u].dialog
        /\ page'[u].sharees = page[u].sharees /\ page'[u].asked = page[u].asked
        /\ page'[u].refreshing = page[u].refreshing /\ Refreshes(u)' = Refreshes(u)
    BY <2>1 DEF ListingEnded, Same, PageFields, Refreshes
  <2> QED BY <1>1, <1>2, <2>2, <2>3, DisplaysKept
<1>5. CASE TargetsEnd(u)
  <2>1. PICK s \in Slots : TargetsEnded(u, s)
    BY <1>1, <1>5, TargetsEndDoes
  <2>2. \A t \in Carried(u, SharingOps) : requests'[t] = requests[t]
    BY <1>3, <2>1 DEF TargetsEnded, SharingOps
  <2>3. /\ page'[u].mishaps = page[u].mishaps /\ page'[u].dialog = page[u].dialog
        /\ page'[u].sharees = page[u].sharees /\ page'[u].asked = page[u].asked
        /\ page'[u].refreshing = page[u].refreshing /\ Refreshes(u)' = Refreshes(u)
    BY <2>1 DEF TargetsEnded, Same, PageFields, Refreshes
  <2> QED BY <1>1, <1>2, <2>2, <2>3, DisplaysKept
<1>6. CASE CollaboratorsEnd(u)
  <2>1. PICK s \in Slots : CollaboratorsEnded(u, s)
    BY <1>1, <1>6, CollaboratorsEndDoes
  <2>2. \A t \in Carried(u, SharingOps) : requests'[t] = requests[t]
    BY <1>3, <2>1 DEF CollaboratorsEnded, SharingOps
  <2>3. /\ page'[u].mishaps = page[u].mishaps /\ page'[u].dialog = page[u].dialog
        /\ page'[u].asked = page[u].asked \ {s}
        /\ page'[u].refreshing = page[u].refreshing /\ Refreshes(u)' = Refreshes(u)
    BY <2>1 DEF CollaboratorsEnded, Same, PageFields, Refreshes
  <2>4. ASSUME Current(u), Arriving(u), Displays(u) PROVE Displays(u)'
    <3>1. CASE s \notin page[u].asked
      <4>1. page'[u].sharees = page[u].sharees /\ page'[u].asked = page[u].asked
        BY <2>1, <2>3, <3>1 DEF CollaboratorsEnded
      <4> QED BY <1>1, <2>2, <2>3, <2>4, <4>1, DisplaysKept
    <3>2. CASE s \in page[u].asked
      <4>1. requests[s].stage = "answered" /\ requests[s].ok
        BY <2>1, <2>4, <3>2 DEF CollaboratorsEnded, Taken, Arriving
      <4>2. page'[u].sharees = Collaborators(requests[s].q.item)
        BY <2>1, <2>4, <3>2, <4>1 DEF CollaboratorsEnded, Taken, Current, Arrived, Own
      <4>3. page[u].dialog.type = "share" => requests[s].q.item = page[u].dialog.row.item
        BY <1>1, <2>3, <3>2 DEF Minded, OfRows
      <4> QED BY <1>1, <2>3, <4>2, <4>3 DEF Displays, Collaborators
    <3> QED BY <3>1, <3>2
  <2> QED BY <1>2, <2>3, <2>4
<1>7. CASE RefreshEnds(u)
  <2>1. \A t \in page[u].refreshing : t.slot \in Own(u, {"collaborators"})
    BY <1>1 DEF Waits, Refreshes
  <2>2. PICK r \in page[u].refreshing : RefreshEnded(u, r)
    BY <1>1, <1>7, <2>1, RefreshEndsDoes
  <2>3. /\ page'[u].mishaps = page[u].mishaps /\ page'[u].dialog = page[u].dialog
        /\ page'[u].asked = page[u].asked
        /\ page'[u].refreshing \subseteq page[u].refreshing /\ Refreshes(u)' \subseteq Refreshes(u)
    BY <2>2 DEF RefreshEnded, Same, PageFields, Refreshes
  <2>4. ASSUME Current(u), Arriving(u), Displays(u) PROVE Displays(u)'
    <3>1. r.slot \in Refreshes(u)
      BY DEF Refreshes
    <3>2. requests[r.slot].stage = "answered" /\ requests[r.slot].ok
      BY <2>2, <2>4, <3>1 DEF RefreshEnded, Taken, Arriving
    <3>3. page'[u].sharees = Collaborators(requests[r.slot].q.item)
      BY <2>2, <2>4, <3>2 DEF RefreshEnded, Taken, Current, Arrived, Own
    <3>4. page[u].dialog.type = "share" => requests[r.slot].q.item = page[u].dialog.row.item
      BY <1>1, <2>3, <3>1 DEF Minded, OfRows
    <3> QED BY <1>1, <2>3, <3>3, <3>4 DEF Displays, Collaborators
  <2> QED BY <1>2, <2>3, <2>4
<1>8. CASE MutationEnds(u)
  <2>1. PICK s \in Slots : MutationEnded(u, s)
    BY <1>1, <1>8, MutationEndsDoes
  <2>2. \A t \in Carried(u, SharingOps) : requests'[t] = requests[t]
    BY <1>3, <2>1 DEF MutationEnded, SharingOps
  <2>3. CASE ~requests[s].ok
    <3>1. page'[u] = page[u] /\ Refreshes(u)' = Refreshes(u)
      BY <2>1, <2>3 DEF MutationEnded, Refreshes
    <3> QED BY <1>1, <1>2, <2>2, <3>1, DisplaysKept
  <2>4. CASE requests[s].ok
    <3>1. /\ page'[u].mishaps = page[u].mishaps /\ page'[u].dialog = Closed
          /\ page'[u].asked \subseteq page[u].asked /\ page'[u].refreshing = page[u].refreshing
          /\ Refreshes(u)' = Refreshes(u)
      BY <2>1, <2>4 DEF MutationEnded, Shut, Same, PageFields, Refreshes
    <3>2. Displays(u)'
      BY <3>1 DEF Displays, Closed
    <3> QED BY <1>2, <3>1, <3>2
  <2> QED BY <2>3, <2>4
<1>9. CASE SharingEnds(u)
  <2>1. PICK s \in Slots : SharingEnded(u, s)
    BY <1>1, <1>9, SharingEndsDoes
  <2>2. CASE ~requests[s].ok
    <3>1. page'[u] = page[u] /\ Taken(u, s)
      BY <2>1, <2>2 DEF SharingEnded, Taken
    <3>2. \A t \in Carried(u, SharingOps) : requests'[t] = requests[t]
      BY <1>3, <2>2, <3>1
    <3>3. Refreshes(u)' = Refreshes(u)
      BY <3>1 DEF Refreshes
    <3> QED BY <1>1, <1>2, <3>1, <3>2, <3>3, DisplaysKept
  <2>3. CASE requests[s].ok
    <3>1. PICK q, c : /\ Becomes(s, [stage |-> "sent", q |-> q])
                      /\ page'[u].refreshing = page[u].refreshing \cup {[slot |-> s, collaborators |-> c]}
      BY <2>1, <2>3 DEF SharingEnded
    <3>2. page'[u].mishaps = page[u].mishaps /\ page'[u].asked = page[u].asked
      BY <2>1, <2>3 DEF SharingEnded, Same, PageFields
    <3>3. requests'[s].stage = "sent"
      <4>1. requests'[s] = [stage |-> "sent", q |-> q]
        BY <1>1, <3>1, OneRequest
      <4> QED BY <4>1
    <3> DEFINE a == [slot |-> s, collaborators |-> c]
    <3>4. a.slot = s /\ page'[u].refreshing = page[u].refreshing \cup {a}
      BY <3>1
    <3> HIDE DEF a
    <3>5. Refreshes(u)' = Refreshes(u) \cup {s}
      BY <3>4 DEF Refreshes
    <3>6. Displays(u)'
      BY <3>4 DEF Displays
    <3> QED BY <1>2, <3>2, <3>3, <3>5, <3>6
  <2> QED BY <2>2, <2>3
<1> QED BY <1>4, <1>5, <1>6, <1>7, <1>8, <1>9 DEF Browser

\* Every request that does not commit comes nearer to its answer.
LEMMA RequestsProceed ==
  ASSUME TypeInv, OwnInv, NEW s \in Slots,
         Read(s) \/ Check(s) \/ Conflicts(s) \/ Answer(s) \/ Lose(s)
  PROVE  /\ requests[s] # NoRequest /\ requests[s].stage # "answered"
         /\ requests[s].q.op = "collaborators" =>
              /\ Read(s) \/ Lose(s)
              /\ requests'[s].stage = "answered"
              /\ requests'[s].ok => requests'[s].result = Collaborators(requests[s].q.item)
         /\ requests[s].stage = "committed" => (Answer(s) \/ Lose(s)) /\ requests'[s].stage = "answered"
<1> DEFINE q == requests[s].q
           a(result) == [stage |-> "answered", q |-> q, ok |-> TRUE, result |-> result]
<1>1. Refused(q).stage = "answered" /\ Refused(q).ok = FALSE
  BY DEF Refused
<1>2. \A result : a(result).stage = "answered" /\ a(result).result = result
  OBVIOUS
<1>3. requests[s].stage \in {"checked", "committed"} => q.op \in Mutations
  BY DEF TypeInv, IsRequest, IsUnderWay, NoRequest
<1>4. CASE Read(s)
  <2>1. PICK ok, result :
          /\ q.op = "collaborators" => result = Collaborators(q.item)
          /\ Becomes(s, IF ok THEN a(result) ELSE Refused(q))
    BY <1>4, ReadAnswers
  <2>2. requests'[s] = IF ok THEN a(result) ELSE Refused(q)
    BY <2>1, OneRequest
  <2>3. requests[s].stage = "sent"
    BY <1>4 DEF Read, Under
  <2> HIDE DEF a, q
  <2> QED BY <1>1, <1>2, <1>4, <2>1, <2>2, <2>3 DEF NoRequest, q
<1>5. CASE Check(s)
  BY <1>5 DEF Check, Under, NoRequest, Mutations
<1>6. CASE Conflicts(s)
  BY <1>6 DEF Conflicts, Pending, Under, NoRequest
<1>7. CASE Answer(s)
  <2>1. PICK result : Becomes(s, a(result)) \/ Becomes(s, Refused(q))
    BY <1>7 DEF Answer
  <2>2. requests'[s] = a(result) \/ requests'[s] = Refused(q)
    BY <2>1, OneRequest
  <2>3. requests[s].stage = "committed" /\ q.op # "collaborators"
    BY <1>3, <1>7 DEF Answer, Under, Mutations
  <2> HIDE DEF a, q
  <2> QED BY <1>1, <1>2, <1>7, <2>2, <2>3 DEF NoRequest, q
<1>8. CASE Lose(s)
  <2>1. requests'[s] = Refused(q)
    BY <1>8, OneRequest DEF Lose
  <2>2. requests[s].stage \in {"sent", "committed"}
    BY <1>8 DEF Lose, Under
  <2> HIDE DEF q
  <2> QED BY <1>1, <1>8, <2>1, <2>2 DEF NoRequest, q
<1> QED BY <1>4, <1>5, <1>6, <1>7, <1>8

\* What these steps mean for the page: a new account, or a request that was answered
\* as it should be.
LEMMA ServerAnswers ==
  ASSUME PageTypes, TypeInv, OwnInv, NEW s \in Slots,
         \/ Lists(s) \/ (Check(s) /\ UNCHANGED viewVars) \/ (Conflicts(s) /\ UNCHANGED viewVars)
         \/ (Answer(s) /\ Unanswered(s)) \/ (Lose(s) /\ Unanswered(s))
  PROVE  LET q == requests[s].q
             u == q.by
         IN  \/ /\ q.op = "list" /\ page[u].dialog.type # "share"
                /\ Own(u, Mutations \cup {"collaborators"}) = {}
                /\ page'[u].mishaps = page[u].mishaps \cap {"left"}
             \/ /\ page[u].mishaps \subseteq page'[u].mishaps
                /\ "unanswered" \notin page'[u].mishaps =>
                     (requests[s].stage = "committed" \/ q.op = "collaborators" => requests'[s].ok)
<1> DEFINE q == requests[s].q
           u == q.by
<1>1. CASE Lists(s)
  <2>1. Read(s)
    BY <1>1 DEF Lists
  <2>2. requests[s].stage = "sent"
    BY <2>1 DEF Read, Under
  <2> QED BY <1>1, <2>2, ListsDoes
<1>2. CASE (Check(s) \/ Conflicts(s)) /\ UNCHANGED viewVars
  <2>1. requests[s].stage # "committed" /\ q.op # "collaborators"
    BY <1>2, RequestsProceed DEF Check, Conflicts, Pending, Under, Mutations
  <2> QED BY <1>2, <2>1 DEF viewVars
<1>3. CASE (Answer(s) \/ Lose(s)) /\ Unanswered(s)
  <2>1. requests[s] # NoRequest
    BY <1>3, RequestsProceed
  <2> QED BY <1>3, <2>1, UnansweredDoes
<1> QED BY <1>1, <1>2, <1>3

\* Which shares a commit changes.
LEMMA CommitShares ==
  ASSUME NEW s \in Slots, Commit(s), requests[s].q.op \notin SharingOps
  PROVE  UNCHANGED shares
BY Zenon DEF Commit, CreateItem, RenameItem, DeleteItem, MoveItem, ShareItem, UpdateCollaborator,
             RemoveCollaborator, Pending, SharingOps

\* The steps of the server that commit nothing.
LEMMA AnswersAreShared ==
  ASSUME CoreInv, CoreInv', NEW u \in Pages, Sharing(u), NEW s \in Slots,
         \/ Lists(s) \/ (Check(s) /\ UNCHANGED viewVars) \/ (Conflicts(s) /\ UNCHANGED viewVars)
         \/ (Answer(s) /\ Unanswered(s)) \/ (Lose(s) /\ Unanswered(s)),
         Server(s) \/ Network(s)
  PROVE  Sharing(u)'
<1>1. PageTypes /\ TypeInv /\ OwnInv /\ WaitInv'
  BY DEF CoreInv, TreeInv
<1>2. Read(s) \/ Check(s) \/ Conflicts(s) \/ Answer(s) \/ Lose(s)
  BY DEF Lists
<1>3. OnlyMishaps /\ Moves(s) /\ UNCHANGED shares
  BY <1>1, <1>2, ServerDoes, OthersMove DEF tables
<1>4. /\ page'[u].dialog = page[u].dialog /\ page'[u].sharees = page[u].sharees
      /\ page'[u].asked = page[u].asked /\ page'[u].refreshing = page[u].refreshing
  BY <1>3 DEF OnlyMishaps, Same, PageFields
<1>5. Refreshes(u)' = Refreshes(u)
  BY <1>4 DEF Refreshes
<1>6. \A ops : Own(u, ops)' = Own(u, ops)
  BY <1>3, OwnMoved
<1>7. \A t \in Slots \ {s} : requests'[t] = requests[t]
  BY <1>3 DEF Moves
<1> SUFFICES ASSUME page'[u].mishaps \subseteq OfRows PROVE Current(u)' /\ Arriving(u)' /\ Displays(u)'
  BY DEF Sharing
<1>8. CASE u # requests[s].q.by
  <2>1. page'[u] = page[u]
    BY <1>1, <1>8, ListsDoes, UnansweredDoes, RequestsProceed, <1>2 DEF viewVars
  <2>2. Current(u) /\ Arriving(u) /\ Displays(u)
    BY <2>1 DEF Sharing
  <2>3. \A ops : \A t \in Own(u, ops) : requests'[t] = requests[t]
    BY <1>7, <1>8 DEF Own
  <2>4. Current(u)'
    <3>1. \A t \in Arrived(u, "collaborators")' : t \in Arrived(u, "collaborators") /\ requests'[t] = requests[t]
      BY <1>6, <2>3 DEF Arrived
    <3> QED BY <1>3, <2>2, <3>1 DEF Current, Collaborators
  <2>5. Arriving(u)'
    <3>1. page[u].asked \cup Refreshes(u) \subseteq Own(u, {"collaborators"})
      BY DEF CoreInv, WaitInv, Waits
    <3> QED BY <1>4, <1>5, <2>2, <2>3, <3>1 DEF Arriving
  <2>6. Displays(u)'
    BY <1>3, <1>4, <2>2, <2>3, DisplaysKept DEF Carried
  <2> QED BY <2>4, <2>5, <2>6
<1>9. CASE u = requests[s].q.by
  <2>1. CASE /\ page[u].dialog.type # "share"
             /\ Own(u, Mutations \cup {"collaborators"}) = {}
    <3>1. Own(u, {"collaborators"})' = {}
      BY <1>6, <2>1 DEF Own
    <3>2. Current(u)'
      BY <3>1 DEF Current, Arrived
    <3>3. Arriving(u)'
      BY <1>1, <3>1 DEF Arriving, WaitInv, Waits
    <3> QED BY <1>4, <2>1, <3>2, <3>3 DEF Displays
  <2>2. CASE /\ page[u].mishaps \subseteq page'[u].mishaps
             /\ "unanswered" \notin page'[u].mishaps =>
                  (requests[s].stage = "committed" \/ requests[s].q.op = "collaborators" => requests'[s].ok)
    <3>1. Current(u) /\ Arriving(u) /\ Displays(u)
      BY <2>2 DEF Sharing
    <3>2. requests[s].stage = "committed" \/ requests[s].q.op = "collaborators" =>
            requests'[s].ok /\ requests'[s].stage = "answered"
      BY <1>1, <1>2, <2>2, RequestsProceed DEF OfRows
    <3>3. Current(u)'
      <4>1. \A t \in Arrived(u, "collaborators")' :
              requests'[t].result = Collaborators(requests'[t].q.item)
        <5> SUFFICES ASSUME NEW t \in Arrived(u, "collaborators")'
                     PROVE  requests'[t].result = Collaborators(requests'[t].q.item)
          OBVIOUS
        <5>1. t \in Own(u, {"collaborators"}) /\ requests'[t].stage = "answered" /\ requests'[t].ok
          BY <1>6 DEF Arrived
        <5>2. CASE t = s
          <6>1. requests[s].q.op = "collaborators" /\ requests'[s].q = requests[s].q
            BY <1>3, <5>1, <5>2 DEF Own, Moves
          <6> QED BY <1>1, <1>2, <5>1, <5>2, <6>1, RequestsProceed
        <5>3. CASE t # s
          <6>1. requests'[t] = requests[t]
            BY <1>7, <5>1, <5>3 DEF Own
          <6> QED BY <3>1, <5>1, <6>1 DEF Current, Arrived
        <5> QED BY <5>2, <5>3
      <4> QED BY <1>3, <4>1 DEF Current, Collaborators
    <3>4. Arriving(u)'
      <4>1. page[u].asked \cup Refreshes(u) \subseteq Own(u, {"collaborators"})
        BY DEF CoreInv, WaitInv, Waits
      <4>2. \A t \in Own(u, {"collaborators"}) : t \in Slots /\ requests[t].q.op = "collaborators"
        BY DEF Own
      <4> QED BY <1>4, <1>5, <1>7, <3>1, <3>2, <4>1, <4>2 DEF Arriving
    <3>5. Displays(u)'
      <4>1. Carried(u, SharingOps) \subseteq Carried(u, SharingOps)'
        <5> SUFFICES ASSUME NEW t \in Carried(u, SharingOps) PROVE t \in Carried(u, SharingOps)'
          OBVIOUS
        <5>1. t \in Own(u, SharingOps)' /\ t \in Slots
          BY <1>6 DEF Carried, Own
        <5>2. CASE t = s
          <6>1. requests[s].stage = "committed"
            BY <1>1, <1>2, <5>2, RequestsProceed DEF Carried
          <6> QED BY <3>2, <5>1, <5>2, <6>1 DEF Carried
        <5>3. CASE t # s
          BY <1>7, <5>1, <5>3 DEF Carried
        <5> QED BY <5>2, <5>3
      <4> QED BY <1>3, <1>4, <3>1, <4>1 DEF Displays, Collaborators
    <3> QED BY <3>3, <3>4, <3>5
  <2> QED BY <1>1, <1>9, <2>1, <2>2, ServerAnswers
<1> QED BY <1>8, <1>9

\* A commit.
LEMMA CommitsAreShared ==
  ASSUME CoreInv, CoreInv', NEW u \in Pages, Sharing(u), NEW s \in Slots, Commit(s), Happened(s)
  PROVE  Sharing(u)'
<1>1. PageTypes /\ TypeInv /\ OwnInv
  BY DEF CoreInv, TreeInv
<1>2. Moves(s) /\ requests'[s].stage = "committed" /\ requests[s].stage = "checked"
      /\ requests[s] # NoRequest
  BY <1>1, CommitMoves DEF Moves
<1>3. requests[s].q.op \in Mutations
  BY <1>1, <1>2 DEF TypeInv, IsRequest, IsUnderWay
<1>4. OnlyMishaps
  BY <1>1, <1>2, HappenedDoes
<1>5. /\ page'[u].dialog = page[u].dialog /\ page'[u].sharees = page[u].sharees
      /\ page'[u].asked = page[u].asked /\ page'[u].refreshing = page[u].refreshing
      /\ Refreshes(u)' = Refreshes(u)
  BY <1>4 DEF OnlyMishaps, Same, PageFields, Refreshes
<1>6. \A ops : Own(u, ops)' = Own(u, ops)
  BY <1>2, OwnMoved
<1> SUFFICES ASSUME page'[u].mishaps \subseteq OfRows PROVE Current(u)' /\ Arriving(u)' /\ Displays(u)'
  BY DEF Sharing
<1>7. /\ u = requests'[s].q.by /\ page[u].mishaps \subseteq page'[u].mishaps
      /\ Own(u, {"list", "collaborators"}) \cap Under("answered") = {}
  BY <1>1, <1>2, HappenedDoes DEF OfRows
<1>8. Arriving(u) /\ Displays(u)
  BY <1>7 DEF Sharing
<1>9. \A t \in Own(u, {"collaborators"}) : t \in Slots /\ t # s /\ requests'[t] = requests[t]
  BY <1>2, <1>3 DEF Own, Moves, Mutations
<1>10. Current(u)'
  <2>1. \A t \in Arrived(u, "collaborators")' : FALSE
    BY <1>6, <1>7, <1>9 DEF Arrived, Own, Under
  <2> QED BY <2>1 DEF Current
<1>11. Arriving(u)'
  <2>1. page[u].asked \cup Refreshes(u) \subseteq Own(u, {"collaborators"})
    BY DEF CoreInv, WaitInv, Waits
  <2> QED BY <1>5, <1>8, <1>9, <2>1 DEF Arriving
<1>12. Displays(u)'
  <2>1. CASE requests[s].q.op \in SharingOps
    <3>1. s \in Carried(u, SharingOps)'
      BY <1>2, <1>6, <1>7, <2>1 DEF Carried, Own, Moves
    <3> QED BY <3>1 DEF Displays
  <2>2. CASE requests[s].q.op \notin SharingOps
    <3>1. UNCHANGED shares
      BY <2>2, CommitShares
    <3>2. \A t \in Carried(u, SharingOps) : requests'[t] = requests[t]
      BY <1>2, <2>2 DEF Carried, Own, Moves
    <3> QED BY <1>5, <1>8, <3>1, <3>2, DisplaysKept
  <2> QED BY <2>1, <2>2
<1> QED BY <1>10, <1>11, <1>12

\* Every step keeps what the share dialogs show.
LEMMA ShareKept ==
  ASSUME CoreInv, MindedInv, ShareInv, [Next]_<<vars, scenario>>
  PROVE  ShareInv'
<1>1. CoreInv'
  BY CoreKept
<1> SUFFICES ASSUME NEW u \in Pages PROVE Sharing(u)'
  BY DEF ShareInv
<1>2. Sharing(u) /\ WaitInv' /\ WaitInv
  BY <1>1 DEF ShareInv, CoreInv
<1>3. CASE UNCHANGED <<vars, scenario>>
  BY <1>2, <1>3 DEF vars, viewVars, serverVars, tables, Sharing, Current, Arriving, Displays, Carried,
                    Arrived, Own, Refreshes, Collaborators
<1>4. ASSUME NEW w \in Readers, Browser(w) \/ Refresh(w) \/ Open(w) \/ CloseDialog(w) \/ Handle(w)
      PROVE  Sharing(u)'
  <2>1. CASE u = w
    BY <1>1, <1>2, <1>4, <2>1, BrowserIsShared, OpenIsShared, UseIsShared
  <2>2. CASE u # w
    <3>1. page'[u] = page[u] /\ Untouched(u) /\ UNCHANGED shares /\ OnlySends
      BY <1>4, <2>2, StepOfOne DEF tables
    <3>2. \A t \in Carried(u, SharingOps) : requests'[t] = requests[t]
      BY <3>1 DEF Untouched, Carried, Own
    <3>3. Refreshes(u)' = Refreshes(u)
      BY <3>1 DEF Refreshes
    <3> QED BY <1>2, <3>1, <3>2, <3>3, CurrentKept, ArrivingKept, DisplaysKept DEF Sharing
  <2> QED BY <2>1, <2>2
<1>5. ASSUME NEW s \in Slots, Server(s) \/ Network(s) PROVE Sharing(u)'
  <2>1. CASE Commit(s) /\ Happened(s)
    BY <1>1, <1>2, <1>5, <2>1, CommitsAreShared
  <2>2. CASE \/ Lists(s) \/ (Check(s) /\ UNCHANGED viewVars) \/ (Conflicts(s) /\ UNCHANGED viewVars)
             \/ (Answer(s) /\ Unanswered(s)) \/ (Lose(s) /\ Unanswered(s))
    BY <1>1, <1>2, <1>5, <2>2, AnswersAreShared
  <2> QED BY <1>5, <2>1, <2>2 DEF Server, Network
<1> QED BY <1>3, <1>4, <1>5 DEF Next

\* When the pages are loaded no dialog is open.
LEMMA ShareStarts ==
  ASSUME Init
  PROVE  ShareInv
<1>1. \A s \in Slots : requests[s] = NoRequest
  BY DEF Init
<1>2. \A u \in Pages : page[u].dialog = Closed /\ page[u].asked = {} /\ page[u].refreshing = {}
  BY DEF Init, NoPage
<1>3. \A u, ops : Own(u, ops) = {}
  BY <1>1 DEF Own
<1> QED BY <1>2, <1>3 DEF ShareInv, Sharing, Current, Arriving, Displays, Arrived, Refreshes, Closed

\* A share dialog that waits for nothing has loaded what it shows.
LEMMA ShareDialogShows ==
  ASSUME CoreInv, ShareInv
  PROVE  ShareDialogShowsItsItem
<1> SUFFICES ASSUME NEW u \in Readers, page[u].dialog.type = "share",
                    Own(u, {"share", "update", "remove", "collaborators"}) = {},
                    page[u].mishaps \subseteq {"crossed", "sharing", "foreign", "nested"}
             PROVE  page[u].sharees = Collaborators(page[u].dialog.row.item)
  BY DEF ShareDialogShowsItsItem
<1>1. u \in Pages /\ Waits(u)
  BY ScenarioTypes DEF CoreInv, WaitInv
<1>2. Displays(u)
  BY <1>1 DEF ShareInv, Sharing, OfRows
<1>3. Own(u, {"collaborators"}) = {} /\ Carried(u, SharingOps) = {}
  BY DEF Own, Carried, SharingOps
<1>4. page[u].asked = {} /\ page[u].refreshing = {}
  BY <1>1, <1>3 DEF Waits, Refreshes
<1> QED BY <1>2, <1>3, <1>4 DEF Displays

\* A share dialog shows the collaborators of its item once it has loaded them
\* (ShareDialog), whatever the pages do, unless a mishap other than of the rows
\* happened.
THEOREM ShareDialogsShowTheirItem == Spec => []ShareDialogShowsItsItem
<1>1. Init => ShareInv
  BY ShareStarts
<1>2. CoreInv /\ MindedInv /\ ShareInv /\ [Next]_<<vars, scenario>> => ShareInv'
  BY ShareKept
<1>3. CoreInv /\ ShareInv => ShareDialogShowsItsItem
  BY ShareDialogShows
<1> QED BY <1>1, <1>2, <1>3, CoreInvariant, MindedInvariant, PTL DEF Spec

-----------------------------------------------------------------------------
(* What a user is shown of a tree, in terms of its items w and shares sh.  *)

Shared(sh, i) == {c \in Sharees : sh[i][c.user] = c.permission}

Record(w, sh, i) == [item |-> i, kind |-> w[i].kind, name |-> w[i].name, owner |-> w[i].owner,
                     parent |-> w[i].parent, collaborators |-> Shared(sh, i)]

Access(w, sh, v, i) ==
  LET granted == {sh[i][v]} \cup {IF w[a].owner = v THEN "write" ELSE sh[a][v] :
                                    a \in LoadAncestors(w, w[i].parent)}
  IN  IF w[i].owner = v THEN "owner"
      ELSE IF "write" \in granted THEN "write"
      ELSE IF "read" \in granted THEN "read" ELSE "none"

Response(i, kind, name, parent, permission, collaborators) ==
  [item |-> i, kind |-> kind, name |-> name, parent |-> parent,
   permission |-> permission, sharing |-> SharingStatus(permission, collaborators),
   canWrite |-> permission \in {"write", "owner"}, canManage |-> permission = "owner",
   collaborators |-> collaborators]

Row(w, sh, v, i) ==
  ToWorkspaceItem(Response(i, w[i].kind, w[i].name, w[i].parent, Access(w, sh, v, i), Shared(sh, i)))

\* The item j is one to look for in the folder F.
Placed(w, sh, v, F, j) ==
  IF F # Root THEN w[j].parent = F
  ELSE IF w[j].owner = v THEN w[j].parent = Root ELSE sh[j][v] # "none"

Members(w, sh, v, F) == {j \in Live(w) : Access(w, sh, v, j) # "none" /\ Placed(w, sh, v, F, j)}

Listing(w, sh, v, F) == {Row(w, sh, v, i) : i \in Members(w, sh, v, F)}

\* What is loaded of an item, and the access to it.
LEMMA LoadedNow ==
  ASSUME TypeInv, NEW v \in Users, NEW i \in Items
  PROVE  /\ Loaded(i) = Record(items, shares, i)
         /\ ResolveAccess(v, Loaded(i)) = Access(items, shares, v, i)
         /\ ToWorkspaceItem(ToResponse(v, Loaded(i))) = Row(items, shares, v, i)
<1>1. Loaded(i) = Record(items, shares, i)
  BY DEF Loaded, Record, Collaborators, Shared, Sharees
<1>2. ResolveAccess(v, Loaded(i)) = Access(items, shares, v, i)
  <2> DEFINE o == Loaded(i)
             direct == {c.permission : c \in {d \in o.collaborators : d.user = v}}
             above == {IF items[a].owner = v THEN "write" ELSE shares[a][v] :
                         a \in LoadAncestors(items, items[i].parent)}
  <2>1. o.owner = items[i].owner /\ o.parent = items[i].parent /\ o.collaborators = Shared(shares, i)
    BY <1>1 DEF Record
  <2>2. \A p \in {"read", "write"} : p \in direct <=> shares[i][v] = p
    <3> SUFFICES ASSUME NEW p \in {"read", "write"} PROVE p \in direct <=> shares[i][v] = p
      OBVIOUS
    <3> DEFINE e == [user |-> v, permission |-> p]
    <3>1. e \in Sharees /\ e.user = v /\ e.permission = p
      BY DEF Sharees
    <3>2. p \in direct => shares[i][v] = p
      BY <2>1 DEF Shared
    <3>3. shares[i][v] = p => e \in Shared(shares, i)
      BY <3>1 DEF Shared
    <3> HIDE DEF e
    <3> QED BY <2>1, <3>1, <3>2, <3>3
  <2>3. ResolveAccess(v, o) = IF o.owner = v THEN "owner"
                              ELSE IF "write" \in direct \cup above THEN "write"
                              ELSE IF "read" \in direct \cup above THEN "read" ELSE "none"
    BY <2>1 DEF ResolveAccess
  <2>4. Access(items, shares, v, i) = IF items[i].owner = v THEN "owner"
                                      ELSE IF "write" \in {shares[i][v]} \cup above THEN "write"
                                      ELSE IF "read" \in {shares[i][v]} \cup above THEN "read" ELSE "none"
    BY DEF Access
  <2> HIDE DEF direct, above, o
  <2>5. \A p \in {"read", "write"} : p \in direct \cup above <=> p \in {shares[i][v]} \cup above
    BY <2>2
  <2>6. ResolveAccess(v, o) = Access(items, shares, v, i)
    BY <2>1, <2>3, <2>4, <2>5
  <2> QED BY <2>6 DEF o
<1>3. ToResponse(v, Loaded(i)) = Response(i, items[i].kind, items[i].name, items[i].parent,
                                          Access(items, shares, v, i), Shared(shares, i))
  BY <1>1, <1>2 DEF ToResponse, Response, Record
<1> QED BY <1>1, <1>2, <1>3 DEF Row

\* The server lists what there is to list.
LEMMA ListingNow ==
  ASSUME TypeInv, NEW v \in Users, NEW F
  PROVE  ToWorkspaceItems(ListItems(v, F)) = Listing(items, shares, v, F)
<1> DEFINE M == {j \in Live(items) :
                   /\ CanRead(v, j)
                   /\ IF F # Root THEN items[j].parent = F
                      ELSE IF items[j].owner = v THEN items[j].parent = Root
                      ELSE shares[j][v] # "none"}
<1>1. \A j \in Live(items) : j \in Items /\ (CanRead(v, j) <=> Access(items, shares, v, j) # "none")
  <2> SUFFICES ASSUME NEW j \in Live(items)
               PROVE  j \in Items /\ (CanRead(v, j) <=> Access(items, shares, v, j) # "none")
    OBVIOUS
  <2>1. j \in Items
    BY DEF Live
  <2>2. ResolveAccess(v, Loaded(j)) = Access(items, shares, v, j)
    BY <2>1, LoadedNow
  <2>3. Access(items, shares, v, j) \in {"owner", "write", "read", "none"}
    BY DEF Access
  <2> QED BY <2>1, <2>2, <2>3 DEF CanRead, Accessible
<1>2. M = Members(items, shares, v, F)
  BY <1>1 DEF Members, Placed
<1>3. ListItems(v, F) = {ToResponse(v, Loaded(i)) : i \in M}
  BY DEF ListItems
<1> HIDE DEF M
<1>4. ToWorkspaceItems(ListItems(v, F)) = {ToWorkspaceItem(ToResponse(v, Loaded(i))) : i \in M}
  BY <1>3 DEF ToWorkspaceItems
<1>5. \A i \in M : ToWorkspaceItem(ToResponse(v, Loaded(i))) = Row(items, shares, v, i)
  BY <1>1, <1>2, LoadedNow DEF Members
<1>6. {ToWorkspaceItem(ToResponse(v, Loaded(i))) : i \in M} = {Row(items, shares, v, i) : i \in M}
  BY <1>5
<1> QED BY <1>2, <1>4, <1>6 DEF Listing

\* Two trees that agree on the items of U, from where no walk up leaves it; apart
\* from the name and the shares of the item i, that may be shared anew by v.
Agree(w, sh, w2, sh2, v, i, U) ==
  /\ \A y \in U \cap Live(w) : w[y].parent # Root => w[y].parent \in U
  /\ \A y \in U : /\ w2[y].status = w[y].status /\ w2[y].kind = w[y].kind
                  /\ w2[y].owner = w[y].owner /\ w2[y].parent = w[y].parent
                  /\ w[y].owner = v \/ sh2[y] = sh[y]
                  /\ y # i => w2[y].name = w[y].name /\ sh2[y] = sh[y]

\* A walk up from an item of U is the same in both.
LEMMA WalksAgree ==
  ASSUME NEW w, NEW sh, NEW w2, NEW sh2, NEW v, NEW i, NEW U \in SUBSET Items,
         Agree(w, sh, w2, sh2, v, i, U), NEW x \in U, NEW a
  PROVE  /\ Reaches(w2, x, a) => a \in U /\ Reaches(w, x, a)
         /\ Reaches(w, x, a) => a \in U /\ Reaches(w2, x, a)
<1>1. U \cap Live(w2) = U \cap Live(w) /\ \A y \in U : w2[y].parent = w[y].parent
  BY DEF Agree, Live
<1>2. \A y \in U \cap Live(w) : w[y].parent # Root => w[y].parent \in U
  BY DEF Agree
<1>3. ASSUME Reaches(w2, x, a) PROVE a \in U /\ Reaches(w, x, a)
  <2>1. ASSUME NEW S \in SUBSET Items, x \in S,
               \A y \in S \cap Live(w) : w[y].parent # Root => w[y].parent \in S
        PROVE  a \in S \cap U
    <3> DEFINE T == S \cap U
    <3>1. T \in SUBSET Items /\ x \in T
      BY <2>1
    <3>2. \A y \in T \cap Live(w2) : w2[y].parent # Root => w2[y].parent \in T
      BY <2>1, <1>1, <1>2
    <3> HIDE DEF T
    <3>3. a \in T
      BY <3>1, <3>2, <1>3 DEF Reaches
    <3> QED BY <3>3 DEF T
  <2>2. Reaches(w, x, a)
    BY <2>1 DEF Reaches
  <2>3. a \in U
    BY <2>2, <1>2 DEF Reaches
  <2> QED BY <2>2, <2>3
<1>4. ASSUME Reaches(w, x, a) PROVE a \in U /\ Reaches(w2, x, a)
  <2>1. ASSUME NEW S \in SUBSET Items, x \in S,
               \A y \in S \cap Live(w2) : w2[y].parent # Root => w2[y].parent \in S
        PROVE  a \in S \cap U
    <3> DEFINE T == S \cap U
    <3>1. T \in SUBSET Items /\ x \in T
      BY <2>1
    <3>2. \A y \in T \cap Live(w) : w[y].parent # Root => w[y].parent \in T
      BY <2>1, <1>1, <1>2
    <3> HIDE DEF T
    <3>3. a \in T
      BY <3>1, <3>2, <1>4 DEF Reaches
    <3> QED BY <3>3 DEF T
  <2>2. Reaches(w2, x, a)
    BY <2>1 DEF Reaches
  <2>3. a \in U
    BY <1>2, <1>4 DEF Reaches
  <2> QED BY <2>2, <2>3
<1> QED BY <1>3, <1>4

\* So is the access to it, its row, and whether it is listed.
LEMMA RowsAgree ==
  ASSUME NEW w, NEW sh, NEW w2, NEW sh2, NEW v, NEW i, NEW U \in SUBSET Items, NEW F,
         Agree(w, sh, w2, sh2, v, i, U), NEW j \in U \cap Live(w), j # i, w[j].parent \in Places
  PROVE  /\ Row(w2, sh2, v, j) = Row(w, sh, v, j)
         /\ j \in Members(w2, sh2, v, F) <=> j \in Members(w, sh, v, F)
<1> DEFINE p == w[j].parent
<1>1. /\ w2[j].status = w[j].status /\ w2[j].kind = w[j].kind /\ w2[j].owner = w[j].owner
      /\ w2[j].parent = p /\ w2[j].name = w[j].name /\ sh2[j] = sh[j]
      /\ j \in Items /\ j \in Live(w2)
  BY DEF Agree, Live
<1>2. p # Root => p \in U
  BY DEF Agree
<1>3. LoadAncestors(w2, p) = LoadAncestors(w, p) /\ LoadAncestors(w, p) \subseteq U
  <2>1. CASE p = Root
    BY <2>1 DEF LoadAncestors, IsDescendantOf
  <2>2. CASE p # Root
    <3>1. \A a : (Reaches(w2, p, a) => a \in U /\ Reaches(w, p, a))
                 /\ (Reaches(w, p, a) => a \in U /\ Reaches(w2, p, a))
      BY <1>2, <2>2, WalksAgree
    <3>2. \A a \in U : (a \in Live(w2) <=> a \in Live(w)) /\ w2[a].kind = w[a].kind
      BY DEF Agree, Live
    <3> HIDE DEF p
    <3> QED BY <3>1, <3>2, <2>2 DEF LoadAncestors, IsDescendantOf
  <2> QED BY <2>1, <2>2
<1> DEFINE g(a)  == IF w[a].owner = v THEN "write" ELSE sh[a][v]
           g2(a) == IF w2[a].owner = v THEN "write" ELSE sh2[a][v]
<1>4. \A a \in LoadAncestors(w, p) : g2(a) = g(a)
  <2> SUFFICES ASSUME NEW a \in LoadAncestors(w, p) PROVE g2(a) = g(a)
    OBVIOUS
  <2>1. w2[a].owner = w[a].owner /\ (w[a].owner = v \/ sh2[a] = sh[a])
    BY <1>3 DEF Agree
  <2> QED BY <2>1
<1>5. {g2(a) : a \in LoadAncestors(w2, p)} = {g(a) : a \in LoadAncestors(w, p)}
  BY <1>3, <1>4
<1>6. Access(w2, sh2, v, j) = Access(w, sh, v, j)
  BY <1>1, <1>5 DEF Access
<1>7. Shared(sh2, j) = Shared(sh, j)
  BY <1>1 DEF Shared
<1>8. Placed(w2, sh2, v, F, j) <=> Placed(w, sh, v, F, j)
  BY <1>1 DEF Placed
<1>9. Row(w2, sh2, v, j) = Row(w, sh, v, j)
  BY <1>1, <1>6, <1>7 DEF Row
<1> QED BY <1>1, <1>6, <1>8, <1>9 DEF Members

\* Apart from i nothing outside U is listed.
NoneBeyond(w, sh, v, F, i, U) == \A j \in Items \ U : j # i => j \notin Members(w, sh, v, F)

\* A change to the item i changes nothing else in the list of F, if nothing else
\* outside U is listed.
LEMMA ListingAgrees ==
  ASSUME NEW w \in [Items -> ItemRecords], NEW sh, NEW w2, NEW sh2, NEW v, NEW i, NEW F,
         NEW U \in SUBSET Items, Agree(w, sh, w2, sh2, v, i, U),
         NoneBeyond(w, sh, v, F, i, U), NoneBeyond(w2, sh2, v, F, i, U)
  PROVE  Except(Listing(w2, sh2, v, F), i) = Except(Listing(w, sh, v, F), i)
<1>1. \A j : /\ Row(w, sh, v, j).item = j /\ Row(w2, sh2, v, j).item = j
  BY DEF Row, Response, ToWorkspaceItem
<1>2. \A j \in Items \ {i} :
        /\ j \in Members(w2, sh2, v, F) <=> j \in Members(w, sh, v, F)
        /\ j \in Members(w, sh, v, F) => Row(w2, sh2, v, j) = Row(w, sh, v, j)
  <2> SUFFICES ASSUME NEW j \in Items \ {i}
               PROVE  /\ j \in Members(w2, sh2, v, F) <=> j \in Members(w, sh, v, F)
                      /\ j \in Members(w, sh, v, F) => Row(w2, sh2, v, j) = Row(w, sh, v, j)
    OBVIOUS
  <2>1. CASE j \in U /\ j \in Live(w)
    <3>1. w[j].parent \in Places
      BY DEF ItemRecords, Places
    <3> QED BY <2>1, <3>1, RowsAgree
  <2>2. CASE j \in U /\ j \notin Live(w)
    <3>1. j \notin Live(w2)
      BY <2>2 DEF Agree, Live
    <3> QED BY <2>2, <3>1 DEF Members
  <2>3. CASE j \notin U
    BY <2>3 DEF NoneBeyond
  <2> QED BY <2>1, <2>2, <2>3
<1>3. Members(w, sh, v, F) \subseteq Items /\ Members(w2, sh2, v, F) \subseteq Items
  BY DEF Members, Live
<1>4. ASSUME NEW x PROVE x \in Except(Listing(w, sh, v, F), i)
                         <=> \E j \in Members(w, sh, v, F) \ {i} : x = Row(w, sh, v, j)
  BY <1>1 DEF Except, Listing
<1>5. ASSUME NEW x PROVE x \in Except(Listing(w2, sh2, v, F), i)
                         <=> \E j \in Members(w2, sh2, v, F) \ {i} : x = Row(w2, sh2, v, j)
  BY <1>1 DEF Except, Listing
<1>6. ASSUME NEW x PROVE x \in Except(Listing(w2, sh2, v, F), i) <=> x \in Except(Listing(w, sh, v, F), i)
  BY <1>2, <1>3, <1>4, <1>5
<1> QED BY <1>6

\* The list of F shows nothing below the item i, apart from i itself.
Unshown(w, sh, v, F, i) ==
  IF F # Root THEN ~IsDescendantOf(w, F, i)
  ELSE \A j \in Members(w, sh, v, F) : j # i => ~IsDescendantOf(w, j, i)

\* Who looks at a folder above an item comes to it.
LEMMA ReachesFrom ==
  ASSUME NEW w, NEW x \in Items \cap Live(w), NEW p, p # Root => p \in Items, w[x].parent = p, NEW a
  PROVE  /\ p # Root /\ Reaches(w, p, a) => Reaches(w, x, a)
         /\ p # Root /\ Reaches(w, x, a) /\ x # a => Reaches(w, p, a)
<1>1. ASSUME p # Root, Reaches(w, p, a) PROVE Reaches(w, x, a)
  BY <1>1 DEF Reaches
<1>2. ASSUME p # Root, Reaches(w, x, a), x # a PROVE Reaches(w, p, a)
  <2> SUFFICES ASSUME NEW S \in SUBSET Items, p \in S,
                      \A y \in S \cap Live(w) : w[y].parent # Root => w[y].parent \in S
               PROVE  a \in S
    BY DEF Reaches
  <2> DEFINE T == S \cup {x}
  <2>1. T \in SUBSET Items /\ x \in T
    OBVIOUS
  <2>2. \A y \in T \cap Live(w) : w[y].parent # Root => w[y].parent \in T
    OBVIOUS
  <2> HIDE DEF T
  <2>3. a \in T
    BY <2>1, <2>2, <1>2 DEF Reaches
  <2> QED BY <2>3, <1>2 DEF T
<1> QED BY <1>1, <1>2

\* A walk up from what a walk down comes to leads back.
LEMMA DescendantsReach ==
  ASSUME NEW w, NEW i \in Items, NEW y \in CollectDescendantIds(w, i), Root \notin Items
  PROVE  Reaches(w, y, i) /\ y \in Live(w) /\ y \in Items
<1>1. y \in Live(w) /\ y \in Items
  BY DEF CollectDescendantIds, Live
<1>2. ASSUME NEW S \in SUBSET Items, y \in S, i \notin S,
             \A z \in S \cap Live(w) : w[z].parent # Root => w[z].parent \in S
      PROVE  FALSE
  <2> DEFINE D == Items \ S
  <2>1. D \in SUBSET Items /\ i \in D
    BY <1>2
  <2>2. \A z \in Live(w) : w[z].parent \in D => z \in D
    BY <1>2 DEF Live
  <2> HIDE DEF D
  <2>3. y \in D
    BY <2>1, <2>2 DEF CollectDescendantIds
  <2> QED BY <2>3, <1>2 DEF D
<1> QED BY <1>1, <1>2 DEF Reaches

\* What is below i has no place in such a list.
LEMMA BelowIsNotPlaced ==
  ASSUME NEW w \in [Items -> ItemRecords], NEW sh \in [Items -> [Users -> {"none", "read", "write"}]],
         NEW v \in Users, NEW F, NEW i, Unshown(w, sh, v, F, i),
         NEW j \in Live(w), j # i, Reaches(w, j, i)
  PROVE  ~Placed(w, sh, v, F, j)
<1>1. j \in Items /\ w[j].parent \in Places
  BY DEF Live, ItemRecords, Places
<1>2. SUFFICES ASSUME Placed(w, sh, v, F, j) PROVE FALSE
  OBVIOUS
<1>3. CASE F # Root
  <2>1. w[j].parent = F /\ F \in Items
    BY <1>1, <1>2, <1>3 DEF Placed, Places
  <2>2. Reaches(w, F, i)
    BY <1>1, <1>3, <2>1, ReachesFrom
  <2> QED BY <1>3, <2>2 DEF Unshown, IsDescendantOf
<1>4. CASE F = Root
  <2>1. w[j].owner = v \/ sh[j][v] \in {"read", "write"}
    BY <1>1, <1>2, <1>4 DEF Placed
  <2>2. Access(w, sh, v, j) # "none"
    BY <2>1 DEF Access
  <2>3. j \in Members(w, sh, v, F)
    BY <2>2, <1>2 DEF Members
  <2>4. j # Root
    BY <1>1, WorkspaceAssumption
  <2> QED BY <2>3, <2>4, <1>4 DEF Unshown, IsDescendantOf
<1> QED BY <1>3, <1>4

-----------------------------------------------------------------------------
(* What each change makes of a list.                                       *)

\* The tree w2 is w with an item put in, with an item gone and what is below it, and
\* with an item moved.
PutIn(w, w2, i, r) == w2 = [w EXCEPT ![i] = r]
Gone(w, w2, i)     == w2 = [x \in Items |-> IF x = i \/ x \in CollectDescendantIds(w, i)
                                            THEN [w[x] EXCEPT !.status = "deleted"] ELSE w[x]]
MovedTo(w, w2, i, p) == w2 = [w EXCEPT ![i].parent = p]

\* A new item, that nobody may see for another one.
LEMMA CreateListing ==
  ASSUME NEW w \in [Items -> ItemRecords], NEW sh, NEW i \in Items, w[i].status = "none",
         \A j \in Live(w) : w[j].parent # Root => w[w[j].parent].status # "none",
         NEW r, NEW w2, PutIn(w, w2, i, r), NEW v, NEW F
  PROVE  Except(Listing(w2, sh, v, F), i) = Except(Listing(w, sh, v, F), i)
<1> DEFINE U == {x \in Items : w[x].status # "none"}
<1>1. i \notin U /\ \A y \in U : w2[y] = w[y]
  BY DEF PutIn
<1>2. \A y \in U \cap Live(w) : w[y].parent # Root => w[y].parent \in U
  BY DEF ItemRecords
<1>3. Agree(w, sh, w2, sh, v, i, U) /\ U \in SUBSET Items
  BY <1>1, <1>2 DEF Agree
<1>4. \A j \in Items \ U : j # i => j \notin Members(w, sh, v, F) /\ j \notin Members(w2, sh, v, F)
  BY DEF Members, Live, PutIn
<1> HIDE DEF U
<1>8. NoneBeyond(w, sh, v, F, i, U) /\ NoneBeyond(w2, sh, v, F, i, U)
  BY <1>4 DEF NoneBeyond
<1> QED BY <1>3, <1>8, ListingAgrees

\* A new name, or a share of the owner's.
LEMMA UpdateListing ==
  ASSUME NEW w \in [Items -> ItemRecords], NEW sh, NEW i, NEW w2, NEW sh2, NEW v, NEW F,
         \A y \in Items : /\ w2[y].status = w[y].status /\ w2[y].kind = w[y].kind
                          /\ w2[y].owner = w[y].owner /\ w2[y].parent = w[y].parent
                          /\ w[y].owner = v \/ sh2[y] = sh[y]
                          /\ y # i => w2[y].name = w[y].name /\ sh2[y] = sh[y]
  PROVE  Except(Listing(w2, sh2, v, F), i) = Except(Listing(w, sh, v, F), i)
<1>1. \A y \in Items \cap Live(w) : w[y].parent # Root => w[y].parent \in Items
  BY DEF ItemRecords
<1>2. Agree(w, sh, w2, sh2, v, i, Items) /\ Items \in SUBSET Items
  BY <1>1 DEF Agree
<1>3. NoneBeyond(w, sh, v, F, i, Items) /\ NoneBeyond(w2, sh2, v, F, i, Items)
  BY DEF NoneBeyond
<1> QED BY <1>2, <1>3, ListingAgrees

\* An item that goes with everything below it, of which nothing was shown.
LEMMA DeleteListing ==
  ASSUME NEW w \in [Items -> ItemRecords], NEW sh \in [Items -> [Users -> {"none", "read", "write"}]],
         NEW v \in Users, NEW F, NEW i \in Items, Unshown(w, sh, v, F, i),
         NEW w2, Gone(w, w2, i)
  PROVE  /\ Except(Listing(w2, sh, v, F), i) = Except(Listing(w, sh, v, F), i)
         /\ i \notin Live(w2)
<1> DEFINE D == {i} \cup CollectDescendantIds(w, i)
           U == Items \ D
<1>1. \A y \in U : w2[y] = w[y]
  BY DEF Gone
<1>2. \A y \in Items \cap D : w2[y].status = "deleted"
  BY DEF Gone, ItemRecords
<1>3. \A y \in Live(w) : w[y].parent \in D => y \in D
  BY DEF CollectDescendantIds
<1> HIDE DEF D
<1>4. \A y \in U \cap Live(w) : w[y].parent # Root => w[y].parent \in U
  BY <1>3 DEF ItemRecords
<1>5. Agree(w, sh, w2, sh, v, i, U) /\ U \in SUBSET Items
  BY <1>1, <1>4 DEF Agree
<1>6. ASSUME NEW j \in Items \ U, j # i
      PROVE  j \notin Members(w, sh, v, F) /\ j \notin Members(w2, sh, v, F)
  <2>1. j \in CollectDescendantIds(w, i)
    BY <1>6 DEF D
  <2>2. ~Placed(w, sh, v, F, j)
    BY <2>1, <1>6, DescendantsReach, BelowIsNotPlaced, WorkspaceAssumption
  <2>3. j \notin Live(w2)
    BY <1>2, <1>6 DEF Live
  <2> QED BY <2>2, <2>3 DEF Members
<1>7. i \notin Live(w2)
  BY <1>2 DEF Live, D
<1> HIDE DEF U
<1>8. NoneBeyond(w, sh, v, F, i, U) /\ NoneBeyond(w2, sh, v, F, i, U)
  BY <1>6 DEF NoneBeyond
<1> QED BY <1>5, <1>7, <1>8, ListingAgrees

\* An item that moves with everything below it, of which nothing was shown.
LEMMA MoveListing ==
  ASSUME NEW w \in [Items -> ItemRecords], NEW sh \in [Items -> [Users -> {"none", "read", "write"}]],
         NEW v \in Users, NEW F, NEW i \in Items, Unshown(w, sh, v, F, i),
         NEW p, NEW w2, MovedTo(w, w2, i, p)
  PROVE  Except(Listing(w2, sh, v, F), i) = Except(Listing(w, sh, v, F), i)
<1> DEFINE U == {x \in Items : ~Reaches(w, x, i)}
<1>1. i \notin U /\ \A y \in Items \ {i} : w2[y] = w[y]
  BY DEF Reaches, MovedTo
<1>2. ASSUME NEW y \in U \cap Live(w), w[y].parent # Root PROVE w[y].parent \in U
  <2>1. w[y].parent \in Items
    BY <1>2 DEF ItemRecords
  <2>2. ~Reaches(w, w[y].parent, i)
    BY <1>2, <2>1, ReachesFrom
  <2> QED BY <2>1, <2>2
<1>3. Agree(w, sh, w2, sh, v, i, U) /\ U \in SUBSET Items
  BY <1>1, <1>2 DEF Agree
<1>4. ASSUME NEW j \in Items \ U, j # i
      PROVE  j \notin Members(w, sh, v, F) /\ j \notin Members(w2, sh, v, F)
  <2>1. w2[j] = w[j] /\ Reaches(w, j, i)
    BY <1>1, <1>4
  <2>2. CASE j \in Live(w)
    <3>1. ~Placed(w, sh, v, F, j)
      BY <2>1, <2>2, <1>4, BelowIsNotPlaced
    <3>2. ~Placed(w2, sh, v, F, j)
      BY <3>1, <2>1 DEF Placed
    <3> QED BY <3>1, <3>2 DEF Members
  <2>3. CASE j \notin Live(w)
    BY <2>1, <2>3 DEF Members, Live
  <2> QED BY <2>2, <2>3
<1> HIDE DEF U
<1>8. NoneBeyond(w, sh, v, F, i, U) /\ NoneBeyond(w2, sh, v, F, i, U)
  BY <1>4 DEF NoneBeyond
<1> QED BY <1>3, <1>8, ListingAgrees

-----------------------------------------------------------------------------
(* What a request has read is still so, unless it is outdated.             *)

\* The items a request was checked for are there, though perhaps deleted.
BornFor(w, q) ==
  /\ q.op # "create" => w[q.item].status # "none"
  /\ q.op \in {"create", "move"} /\ q.to # Root => w[q.to].status # "none"

\* Nothing refers to an item that was not created yet.
BornTree(w, sh) ==
  /\ \A i \in Live(w) : w[i].parent # Root => w[w[i].parent].status # "none"
  /\ \A i \in Items : w[i].status = "none" => \A u \in Users : sh[i][u] = "none"

\* What was loaded of the item is what there is, and who had to own it still does.
FreshFor(w, sh, r) ==
  /\ r.q.op \in Loading => r.shown = {Record(w, sh, r.q.item)}
  /\ r.q.op # "create" => r.q.item \in Live(w)
  /\ r.q.op \in {"delete", "share", "update", "remove"} => w[r.q.item].owner = r.q.user

Born == BornTree(items, shares) /\ \A s \in Under("checked") : BornFor(items, requests[s].q)

Fresh == \A s \in Under("checked") \ outdated : FreshFor(items, shares, requests[s])

\* No table changes: only the request that is checked has to be looked at.
LEMMA QuietIsFresh ==
  ASSUME TreeInv, Born, Fresh, NEW s \in Slots, NEW r, Becomes(s, r), UNCHANGED tables,
         outdated' = outdated \ {s} \/ (outdated' = outdated /\ s \notin outdated),
         r.stage = "checked" => BornFor(items, r.q) /\ FreshFor(items, shares, r)
  PROVE  Born' /\ Fresh'
<1>1. requests'[s] = r /\ \A t \in Slots \ {s} : requests'[t] = requests[t]
  BY OneRequest DEF TreeInv
<1>2. items' = items /\ shares' = shares
  BY DEF tables
<1>3. outdated' = outdated \ {s}
  OBVIOUS
<1>4. ASSUME NEW t \in Under("checked")' PROVE BornFor(items, requests'[t].q)
  <2>1. t \in Slots /\ requests'[t].stage = "checked"
    BY DEF Under
  <2>2. CASE t = s
    BY <2>1, <2>2, <1>1
  <2>3. CASE t # s
    BY <2>1, <2>3, <1>1 DEF Born, Under
  <2> QED BY <2>2, <2>3
<1>5. ASSUME NEW t \in (Under("checked") \ outdated)' PROVE FreshFor(items, shares, requests'[t])
  <2>1. t \in Slots /\ requests'[t].stage = "checked" /\ t \notin outdated'
    BY DEF Under
  <2>2. CASE t = s
    BY <2>1, <2>2, <1>1
  <2>3. CASE t # s
    BY <2>1, <2>3, <1>1, <1>3 DEF Fresh, Under
  <2> QED BY <2>2, <2>3
<1>6. Born'
  BY <1>2, <1>4 DEF Born
<1>7. Fresh'
  BY <1>2, <1>5 DEF Fresh
<1> QED BY <1>6, <1>7

\* What a check admits was there, and is fresh.
LEMMA AdmittedIsFresh ==
  ASSUME TypeInv, NEW q, IsQuery(q), q.op \in Mutations, Admitted(q),
         NEW r, r.q = q, q.op \in Loading => r.shown = {Loaded(q.item)}
  PROVE  BornFor(items, q) /\ FreshFor(items, shares, r)
<1>1. q.op # "create" => q.item \in Items
  BY DEF IsQuery, Mutations
<1>2. q.op \in Loading => r.shown = {Record(items, shares, q.item)}
  BY <1>1, LoadedNow DEF Loading, IsQuery
<1>3. ASSUME NEW i, \E access : Accessible(q.user, i, access)
      PROVE  i \in Live(items) /\ items[i].status # "none"
  BY <1>3 DEF Accessible, Live
<1>4. ASSUME NEW i \in Items, IsOwner(q.user, i) PROVE items[i].owner = q.user
  <2>1. ResolveAccess(q.user, Loaded(i)) = "owner" /\ Loaded(i).owner = items[i].owner
    BY <1>4 DEF IsOwner, Accessible, Loaded
  <2> DEFINE o == Loaded(i)
             granted == {c.permission : c \in {d \in o.collaborators : d.user = q.user}} \cup
                 {IF items[a].owner = q.user THEN "write" ELSE shares[a][q.user] :
                    a \in LoadAncestors(items, o.parent)}
  <2>2. ResolveAccess(q.user, o) = IF o.owner = q.user THEN "owner"
                                   ELSE IF "write" \in granted THEN "write"
                                   ELSE IF "read" \in granted THEN "read" ELSE "none"
    BY DEF ResolveAccess
  <2> HIDE DEF granted, o
  <2>3. ResolveAccess(q.user, o) = "owner" => o.owner = q.user
    BY <2>2
  <2> QED BY <2>1, <2>3 DEF o
<1>5. q.op = "create" => BornFor(items, q) /\ FreshFor(items, shares, r)
  BY <1>2, <1>3 DEF Admitted, CreateAdmitted, WritableParent, CanWrite, BornFor, FreshFor, Loading
<1>6. q.op \in {"rename", "move"} =>
        /\ CanWrite(q.user, q.item)
        /\ q.op = "move" => WritableParent(q.user, q.to)
  BY DEF Admitted, RenameAdmitted, MoveAdmitted
<1>7. q.op \in {"rename", "move"} => BornFor(items, q) /\ FreshFor(items, shares, r)
  BY <1>2, <1>3, <1>6 DEF WritableParent, CanWrite, BornFor, FreshFor
<1>8. q.op \in {"delete", "share", "update", "remove"} => IsOwner(q.user, q.item)
  BY DEF Admitted, ShareAdmitted, CollaboratorAdmitted
<1>9. q.op \in {"delete", "share", "update", "remove"} => BornFor(items, q) /\ FreshFor(items, shares, r)
  BY <1>1, <1>2, <1>3, <1>4, <1>8 DEF IsOwner, BornFor, FreshFor
<1> QED BY <1>5, <1>7, <1>9 DEF Mutations

\* Requests that do not commit keep what was read.
LEMMA OthersKeepFresh ==
  ASSUME TreeInv, Born, Fresh, NEW s \in Slots,
         Read(s) \/ Check(s) \/ Conflicts(s) \/ Answer(s) \/ Lose(s) \/ Client(s)
  PROVE  Born' /\ Fresh'
<1> DEFINE q == requests[s].q
<1>1. Refused(q).stage # "checked" /\ NoRequest.stage # "checked"
  BY DEF Refused, NoRequest
<1>2. requests[s].stage # "checked" => s \notin outdated
  BY DEF TreeInv, TypeInv, Under
<1>3. ASSUME NEW r, Becomes(s, r), r.stage # "checked", UNCHANGED tables,
             outdated' = outdated \ {s} \/ (outdated' = outdated /\ s \notin outdated)
      PROVE  Born' /\ Fresh'
  BY <1>3, QuietIsFresh
<1>4. CASE Read(s)
  <2>1. PICK ok, result :
          Becomes(s, IF ok THEN [stage |-> "answered", q |-> q, ok |-> TRUE, result |-> result]
                     ELSE Refused(q))
    BY <1>4, ReadAnswers DEF TreeInv
  <2> DEFINE a == [stage |-> "answered", q |-> q, ok |-> TRUE, result |-> result]
  <2>2. a.stage # "checked" /\ (Becomes(s, a) \/ Becomes(s, Refused(q)))
    BY <2>1
  <2>3. requests[s].stage = "sent" /\ UNCHANGED <<tables, outdated>>
    BY <1>4 DEF Read, Under
  <2> HIDE DEF a, q
  <2> QED BY <1>1, <1>2, <1>3, <2>2, <2>3
<1>5. CASE Check(s)
  <2>1. IsQuery(q) /\ q.op \in Mutations
    BY <1>5 DEF TreeInv, TypeInv, IsRequest, IsUnderWay, Check, Under, NoRequest
  <2>2. /\ IF Admitted(q) THEN Becomes(s, Kept(q)) ELSE Becomes(s, Refused(q))
        /\ outdated' = outdated \ {s} /\ UNCHANGED tables
    BY <1>5 DEF Check, Kept
  <2> HIDE DEF q
  <2>3. Kept(q).q = q /\ (q.op \in Loading => Kept(q).shown = {Loaded(q.item)})
    BY DEF Kept, Loading
  <2>4. ASSUME Admitted(q) PROVE BornFor(items, Kept(q).q) /\ FreshFor(items, shares, Kept(q))
    BY <2>1, <2>3, <2>4, AdmittedIsFresh DEF TreeInv
  <2>5. CASE Admitted(q)
    BY <2>2, <2>4, <2>5, QuietIsFresh
  <2>6. CASE ~Admitted(q)
    BY <1>1, <1>3, <2>2, <2>6
  <2> QED BY <2>5, <2>6
<1>6. CASE Conflicts(s)
  <2>1. Becomes(s, Refused(q)) /\ UNCHANGED tables /\ outdated' = outdated \ {s}
    BY <1>6 DEF Conflicts
  <2> HIDE DEF q
  <2> QED BY <1>1, <1>3, <2>1
<1>7. CASE Lose(s)
  <2>1. Becomes(s, Refused(q)) /\ requests[s].stage \in {"sent", "committed"} /\ UNCHANGED <<tables, outdated>>
    BY <1>7 DEF Lose, Under
  <2> HIDE DEF q
  <2> QED BY <1>1, <1>2, <1>3, <2>1
<1>8. CASE Answer(s)
  <2> DEFINE a == [stage |-> "answered", q |-> q, ok |-> TRUE,
                   result |-> {ToResponse(q.user, o) : o \in requests[s].shown}]
  <2>1. requests[s].stage = "committed" /\ UNCHANGED <<tables, outdated>>
        /\ (Becomes(s, a) \/ Becomes(s, Refused(q)))
    BY <1>8 DEF Answer, Under
  <2>2. a.stage # "checked"
    OBVIOUS
  <2> HIDE DEF a, q
  <2> QED BY <1>1, <1>2, <1>3, <2>1, <2>2
<1>9. CASE Client(s)
  <2>1. PICK r : /\ Becomes(s, r)
                 /\ r = NoRequest \/ r.stage = "sent"
                 /\ requests[s].stage # "checked"
                 /\ UNCHANGED <<tables, outdated, overlapped>>
    BY <1>9 DEF Client
  <2>2. r.stage # "checked"
    BY <1>1, <2>1
  <2> QED BY <1>2, <1>3, <2>1, <2>2
<1> QED BY <1>4, <1>5, <1>6, <1>7, <1>8, <1>9

\* A commit outdates what the other requests have read.
LEMMA CommitOutdates ==
  ASSUME NEW s \in Slots, Commit(s)
  PROVE  outdated' = (outdated \cup Under("checked")) \ {s} /\ requests[s].q.op \in Mutations
BY Zenon DEF Commit, CreateItem, RenameItem, DeleteItem, MoveItem, ShareItem, UpdateCollaborator,
             RemoveCollaborator, Commits, Pending, Mutations

\* The tree after a commit refers to nothing that was not created.
LEMMA CommitKeepsBorn ==
  ASSUME TreeInv, Born, NEW s \in Slots, Commit(s)
  PROVE  /\ BornTree(items', shares')
         /\ \A x \in Items : items[x].status # "none" => items'[x].status # "none"
<1> DEFINE q == requests[s].q
<1> USE DEF Pending, Under
<1>1. s \in Under("checked")
  BY DEF Commit, CreateItem, RenameItem, DeleteItem, MoveItem, ShareItem, UpdateCollaborator,
         RemoveCollaborator
<1>2. IsQuery(q) /\ BornFor(items, q)
  BY <1>1 DEF TreeInv, TypeInv, IsRequest, IsUnderWay, NoRequest, Born
<1>3. items \in [Items -> ItemRecords] /\ shares \in [Items -> [Users -> {"none", "read", "write"}]]
      /\ BornTree(items, shares)
  BY DEF TreeInv, TypeInv, Born
<1>4. CASE CreateItem(s)
  <2>1. PICK i \in Items :
          /\ items[i].status = "none"
          /\ items' = [items EXCEPT ![i] = [status |-> "live", kind |-> q.kind, name |-> q.name,
                                            owner |-> q.user, parent |-> q.to]]
    BY <1>4 DEF CreateItem
  <2>2. /\ items'[i].status = "live" /\ items'[i].parent = q.to
        /\ \A x \in Items \ {i} : items'[x] = items[x]
    BY <1>3, <2>1
  <2>3. q.op = "create" /\ shares' = shares
    BY <1>4 DEF CreateItem
  <2>4. \A x \in Items : items[x].status # "none" => items'[x].status # "none"
    BY <2>2
  <2>5. ASSUME NEW x \in Live(items'), items'[x].parent # Root
        PROVE  items'[items'[x].parent].status # "none"
    <3>1. items'[x].parent \in Items /\ items[items'[x].parent].status # "none"
      <4>1. CASE x = i
        BY <4>1, <1>2, <2>2, <2>3, <2>5 DEF BornFor, IsQuery, Places
      <4>2. CASE x # i
        <5>1. x \in Live(items) /\ items'[x] = items[x] /\ items[x].parent \in Places
          BY <4>2, <2>2, <1>3 DEF Live, ItemRecords, Places
        <5> QED BY <5>1, <2>5, <1>3 DEF BornTree, Places
      <4> QED BY <4>1, <4>2
    <3> QED BY <3>1, <2>4
  <2>6. \A x \in Items : items'[x].status = "none" => \A u \in Users : shares'[x][u] = "none"
    BY <2>2, <2>3, <1>3 DEF BornTree
  <2> QED BY <2>4, <2>5, <2>6 DEF BornTree
<1>5. CASE DeleteItem(s)
  <2>1. /\ items' = [i \in Items |-> IF i = q.item \/ i \in requests[s].found
                                     THEN [items[i] EXCEPT !.status = "deleted"] ELSE items[i]]
        /\ shares' = shares
    BY <1>5 DEF DeleteItem
  <2>2. \A x \in Items : /\ items'[x].status \in {items[x].status, "deleted"}
                         /\ items'[x].parent = items[x].parent
    BY <1>3, <2>1 DEF ItemRecords
  <2>3. \A x \in Live(items') : x \in Live(items) /\ items[x].parent \in Places
    BY <1>3, <2>2 DEF Live, ItemRecords, Places
  <2> HIDE DEF q
  <2> QED BY <1>3, <2>1, <2>2, <2>3 DEF BornTree, Places, Live
<1>6. CASE MoveItem(s)
  <2>1. q.op = "move" /\ items' = [items EXCEPT ![q.item].parent = q.to] /\ shares' = shares
    BY <1>6 DEF MoveItem
  <2>2. \A x \in Items : /\ items'[x].status = items[x].status
                         /\ items'[x].parent = IF x = q.item THEN q.to ELSE items[x].parent
    BY <1>3, <2>1 DEF ItemRecords
  <2>3. \A x \in Live(items') : x \in Live(items) /\ items[x].parent \in Places /\ x \in Items
    BY <1>3, <2>2 DEF Live, ItemRecords, Places
  <2>4. q.to # Root => q.to \in Items /\ items[q.to].status # "none"
    BY <1>2, <2>1 DEF BornFor, IsQuery, Places
  <2> HIDE DEF q
  <2>5. ASSUME NEW x \in Live(items'), items'[x].parent # Root
        PROVE  items'[items'[x].parent].status # "none"
    BY <1>3, <2>2, <2>3, <2>4, <2>5 DEF BornTree, Places
  <2>6. \A x \in Items : items'[x].status = "none" => \A u \in Users : shares'[x][u] = "none"
    BY <1>3, <2>1, <2>2 DEF BornTree
  <2> QED BY <2>2, <2>5, <2>6 DEF BornTree
<1>7. CASE RenameItem(s)
  <2>1. items' = [items EXCEPT ![q.item].name = q.name] /\ shares' = shares
    BY <1>7 DEF RenameItem
  <2>2. \A x \in Items : items'[x].status = items[x].status /\ items'[x].parent = items[x].parent
    BY <1>3, <2>1 DEF ItemRecords
  <2>3. Live(items') = Live(items) /\ \A x \in Live(items) : items[x].parent \in Places /\ x \in Items
    BY <1>3, <2>2 DEF Live, ItemRecords, Places
  <2> HIDE DEF q
  <2> QED BY <1>3, <2>1, <2>2, <2>3 DEF BornTree, Places
<1>8. CASE ShareItem(s) \/ UpdateCollaborator(s) \/ RemoveCollaborator(s)
  <2>1. items' = items /\ q.op # "create" /\ \E p : shares' = [shares EXCEPT ![q.item][q.with] = p]
    BY <1>8, Zenon DEF ShareItem, UpdateCollaborator, RemoveCollaborator
  <2>2. q.item \in Items => items[q.item].status # "none"
    BY <1>2, <2>1 DEF BornFor
  <2>3. \A x \in Items : x # q.item => shares'[x] = shares[x]
    BY <1>3, <2>1
  <2> HIDE DEF q
  <2> QED BY <1>3, <2>1, <2>2, <2>3 DEF BornTree
<1> QED BY <1>4, <1>5, <1>6, <1>7, <1>8 DEF Commit

\* So commits keep what was read.
LEMMA CommitsKeepFresh ==
  ASSUME TreeInv, OwnInv, Born, NEW s \in Slots, Commit(s)
  PROVE  Born' /\ Fresh'
<1>1. /\ requests'[s].stage = "committed" /\ requests[s].stage = "checked"
      /\ \A t \in Slots \ {s} : requests'[t] = requests[t]
  BY CommitMoves DEF TreeInv, Moves
<1>2. Under("checked")' \subseteq Under("checked") \ {s}
  BY <1>1 DEF Under
<1>3. Fresh'
  <2>1. Under("checked")' \ outdated' = {}
    BY <1>2, CommitOutdates
  <2> QED BY <2>1 DEF Fresh
<1>4. ASSUME NEW t \in Under("checked")' PROVE BornFor(items', requests'[t].q)
  <2>1. t \in Slots /\ requests'[t] = requests[t] /\ requests[t].stage = "checked"
    BY <1>1, <1>2 DEF Under
  <2> DEFINE q == requests[t].q
  <2>2. BornFor(items, q) /\ IsQuery(q)
    BY <2>1 DEF Born, Under, TreeInv, TypeInv, IsRequest, IsUnderWay, NoRequest
  <2>3. q.op \in Mutations
    BY <2>1 DEF TreeInv, TypeInv, IsRequest, IsUnderWay, NoRequest
  <2>4. q.op # "create" => q.item \in Items
    BY <2>2, <2>3 DEF IsQuery, Mutations
  <2>5. q.to # Root => q.to \in Items
    BY <2>2 DEF IsQuery, Places
  <2> HIDE DEF q
  <2>6. BornFor(items', q)
    BY <2>2, <2>4, <2>5, CommitKeepsBorn DEF BornFor
  <2> QED BY <2>1, <2>6 DEF q
<1>5. Born'
  BY <1>4, CommitKeepsBorn DEF Born
<1> QED BY <1>3, <1>5

\* Every step keeps what was read.
LEMMA FreshKept ==
  ASSUME CoreInv, Born, Fresh, [Next]_<<vars, scenario>>
  PROVE  Born' /\ Fresh'
<1>1. CASE UNCHANGED <<vars, scenario>>
  BY <1>1 DEF vars, serverVars, tables, Born, Fresh, Under
<1>2. ASSUME NEW w \in Readers, Browser(w) \/ Refresh(w) \/ Open(w) \/ CloseDialog(w) \/ Handle(w)
      PROVE  Born' /\ Fresh'
  <2>1. UNCHANGED <<items, shares, outdated>> /\ OnlySends
    BY <1>2, StepOfOne DEF tables
  <2>2. \A t \in Under("checked")' : t \in Under("checked") /\ requests'[t] = requests[t]
    BY <2>1 DEF Under, OnlySends, NoRequest
  <2> QED BY <2>1, <2>2 DEF Born, Fresh
<1>3. ASSUME NEW s \in Slots, Server(s) \/ Network(s) PROVE Born' /\ Fresh'
  <2>1. ServerStep(s)
    BY <1>3, ServerDoes DEF CoreInv, TreeInv
  <2> QED BY <2>1, OthersKeepFresh, CommitsKeepFresh DEF ServerStep, Serve, CoreInv
<1> QED BY <1>1, <1>2, <1>3 DEF Next

\* It holds when the pages are loaded.
LEMMA FreshStarts ==
  ASSUME Init
  PROVE  Born /\ Fresh
<1>1. PICK c \in Scenarios : items = c.tree.items /\ shares = c.tree.shares /\ c.tree \in InitialTrees
  BY ScenariosAssumption DEF Init
<1> DEFINE t == c.tree
<1>2. /\ Sound(t.items) /\ t \in Trees
      /\ \A i \in Items : t.items[i].status = "none" => \A u \in Users : t.shares[i][u] = "none"
  BY <1>1, WorkspaceAssumption
<1>3. \A i \in Live(items) : items[i].parent # Root => items[items[i].parent].status # "none"
  BY <1>1, <1>2 DEF Sound, NoOrphans, Live
<1>4. BornTree(items, shares)
  BY <1>1, <1>2, <1>3 DEF BornTree
<1>5. Under("checked") = {}
  BY DEF Init, Under, NoRequest
<1> QED BY <1>4, <1>5 DEF Born, Fresh

-----------------------------------------------------------------------------
(* What a commit means for the list of the user who made it.               *)

\* In the list of F nothing changes but the item of the request in s, and the answer
\* will show it as it is.
Accounted(s, F) ==
  LET q == requests'[s].q
  IN  /\ Except(Listing(items', shares', q.user, F), q.item)
           = Except(Listing(items, shares, q.user, F), q.item)
      /\ q.op = "delete" => q.item \notin Live(items')
      /\ q.op # "delete" => /\ q.item \in Live(items')
                            /\ requests'[s].shown = {Record(items', shares', q.item)}
      /\ q.op \notin {"create", "delete"} => items'[q.item].owner = items[q.item].owner
      /\ q.op = "create" => items'[q.item].owner = q.user

\* A request that commits, and is not outdated.
LEMMA CommitContext ==
  ASSUME TreeInv, Fresh, NEW s \in Slots \ outdated, Commit(s)
  PROVE  LET q == requests[s].q
         IN  /\ items \in [Items -> ItemRecords]
             /\ shares \in [Items -> [Users -> {"none", "read", "write"}]]
             /\ IsQuery(q) /\ q.op \in Mutations /\ FreshFor(items, shares, requests[s])
             /\ q.op = "delete" => requests[s].found = CollectDescendantIds(items, q.item)
             /\ q.op # "create" => q.item \in Items
<1> DEFINE q == requests[s].q
<1>1. s \in Under("checked")
  BY Zenon DEF Commit, CreateItem, RenameItem, DeleteItem, MoveItem, ShareItem, UpdateCollaborator,
               RemoveCollaborator, Pending
<1>2. IsQuery(q) /\ q.op \in Mutations
  BY <1>1 DEF TreeInv, TypeInv, IsRequest, IsUnderWay, NoRequest, Under
<1>3. FreshFor(items, shares, requests[s]) /\ Relied(items, requests[s])
  BY <1>1 DEF Fresh, TreeInv, CheckedInv
<1> QED BY <1>2, <1>3 DEF Relied, TreeInv, TypeInv, IsQuery, Mutations

\* The request in s commits as q, with the item it shows.
LEMMA CommitsAs ==
  ASSUME TypeInv, NEW s \in Slots, NEW q, NEW shown, Commits(s, q, shown)
  PROVE  requests'[s].q = q /\ requests'[s].shown = shown
<1> DEFINE r == [stage |-> "committed", q |-> q, shown |-> shown]
<1>1. r.q = q /\ r.shown = shown /\ Becomes(s, r)
  BY DEF Commits
<1> HIDE DEF r
<1>2. requests'[s] = r
  BY <1>1, OneRequest
<1> QED BY <1>1, <1>2

\* A new item.
LEMMA CreateAccounted ==
  ASSUME TreeInv, Born, Fresh, NEW s \in Slots \ outdated, Commit(s), CreateItem(s), NEW F
  PROVE  Accounted(s, F)
<1> DEFINE q == requests[s].q
           record == [status |-> "live", kind |-> q.kind, name |-> q.name,
                      owner |-> q.user, parent |-> q.to]
           loaded(i) == [item |-> i, kind |-> q.kind, name |-> q.name, owner |-> q.user,
                         parent |-> q.to, collaborators |-> {}]
<1>1. IsQuery(q) /\ items \in [Items -> ItemRecords] /\ q.op = "create"
  BY CommitContext DEF CreateItem, Pending
<1>2. PICK i \in Items :
        /\ items[i].status = "none"
        /\ items' = [items EXCEPT ![i] = record]
        /\ Commits(s, [q EXCEPT !.item = i], {loaded(i)})
  BY DEF CreateItem
<1>3. shares' = shares
  BY DEF CreateItem
<1> DEFINE p == [q EXCEPT !.item = i]
<1>4. p.item = i /\ p.user = q.user /\ p.op = "create"
  BY <1>1 DEF IsQuery
<1>5. requests'[s].q = p /\ requests'[s].shown = {loaded(i)}
  BY <1>2, CommitsAs DEF TreeInv
<1>6. items'[i] = record /\ record.status = "live" /\ record.owner = q.user
  BY <1>1, <1>2
<1>7. Shared(shares, i) = {}
  BY <1>2 DEF Born, BornTree, Shared, Sharees
<1>8. Record(items', shares', i) = loaded(i)
  BY <1>3, <1>6, <1>7 DEF Record
<1>9. Except(Listing(items', shares, q.user, F), i) = Except(Listing(items, shares, q.user, F), i)
  <2>1. \A j \in Live(items) : items[j].parent # Root => items[items[j].parent].status # "none"
    BY DEF Born, BornTree
  <2>2. PutIn(items, items', i, record) /\ items[i].status = "none"
    BY <1>2 DEF PutIn
  <2> HIDE DEF record, q
  <2> QED BY <1>1, <2>1, <2>2, CreateListing
<1> HIDE DEF p, record, loaded, q
<1>10. i \in Live(items') /\ items'[i].owner = q.user
  BY <1>6 DEF Live
<1> QED BY <1>3, <1>4, <1>5, <1>8, <1>9, <1>10 DEF Accounted

\* A new name.
LEMMA RenameAccounted ==
  ASSUME TreeInv, Born, Fresh, NEW s \in Slots \ outdated, Commit(s), RenameItem(s), NEW F
  PROVE  Accounted(s, F)
<1> DEFINE q == requests[s].q
           i == q.item
           G(o) == [o EXCEPT !.name = q.name]
<1>1. /\ items \in [Items -> ItemRecords] /\ i \in Items /\ q.op = "rename"
      /\ requests[s].shown = {Record(items, shares, i)} /\ i \in Live(items)
  BY CommitContext DEF RenameItem, Pending, FreshFor, Loading
<1>2. /\ items' = [items EXCEPT ![i].name = q.name] /\ shares' = shares
      /\ Commits(s, q, {G(o) : o \in requests[s].shown})
  BY DEF RenameItem
<1>3. /\ \A y \in Items : /\ items'[y].status = items[y].status /\ items'[y].kind = items[y].kind
                          /\ items'[y].owner = items[y].owner /\ items'[y].parent = items[y].parent
                          /\ y # i => items'[y].name = items[y].name
      /\ items'[i].name = q.name
  BY <1>1, <1>2 DEF ItemRecords
<1>4. G(Record(items, shares, i)) = Record(items', shares', i)
  <2> DEFINE c == Shared(shares, i)
  <2>1. Shared(shares', i) = c
    BY <1>2
  <2> HIDE DEF c
  <2>2. Record(items, shares, i).collaborators = c
    BY DEF Record, c
  <2> QED BY <1>1, <1>3, <2>1, <2>2 DEF Record
<1>5. {G(o) : o \in requests[s].shown} = {Record(items', shares', i)}
  BY <1>1, <1>4
<1>6. requests'[s].q = q /\ requests'[s].shown = {Record(items', shares', i)}
  BY <1>2, <1>5, CommitsAs DEF TreeInv
<1> HIDE DEF q, i, G
<1>7. Except(Listing(items', shares, q.user, F), i) = Except(Listing(items, shares, q.user, F), i)
  BY <1>1, <1>3, UpdateListing
<1>8. i \in Live(items')
  BY <1>1, <1>3 DEF Live
<1> QED BY <1>1, <1>2, <1>3, <1>6, <1>7, <1>8 DEF Accounted, i

\* An item that is gone.
LEMMA DeleteAccounted ==
  ASSUME TreeInv, Born, Fresh, NEW s \in Slots \ outdated, Commit(s), DeleteItem(s), NEW F,
         Unshown(items, shares, requests[s].q.user, F, requests[s].q.item)
  PROVE  Accounted(s, F)
<1> DEFINE q == requests[s].q
           i == q.item
<1>1. /\ items \in [Items -> ItemRecords] /\ shares \in [Items -> [Users -> {"none", "read", "write"}]]
      /\ i \in Items /\ q.op = "delete" /\ q.user \in Users
      /\ requests[s].found = CollectDescendantIds(items, i)
  BY CommitContext DEF DeleteItem, Pending, IsQuery
<1>2. /\ items' = [x \in Items |-> IF x = i \/ x \in requests[s].found
                                   THEN [items[x] EXCEPT !.status = "deleted"] ELSE items[x]]
      /\ shares' = shares /\ Commits(s, q, {})
  BY DEF DeleteItem
<1>3. requests'[s].q = q
  BY <1>2, CommitsAs DEF TreeInv
<1>4. Gone(items, items', i)
  BY <1>1, <1>2 DEF Gone
<1>5. Unshown(items, shares, q.user, F, i)
  OBVIOUS
<1> HIDE DEF q, i
<1>6. /\ Except(Listing(items', shares, q.user, F), i) = Except(Listing(items, shares, q.user, F), i)
      /\ i \notin Live(items')
  BY <1>1, <1>4, <1>5, DeleteListing
<1> QED BY <1>1, <1>2, <1>3, <1>6 DEF Accounted, i

\* An item that is in another place.
LEMMA MoveAccounted ==
  ASSUME TreeInv, Born, Fresh, NEW s \in Slots \ outdated, Commit(s), MoveItem(s), NEW F,
         Unshown(items, shares, requests[s].q.user, F, requests[s].q.item)
  PROVE  Accounted(s, F)
<1> DEFINE q == requests[s].q
           i == q.item
           G(o) == [o EXCEPT !.parent = q.to]
<1>1. /\ items \in [Items -> ItemRecords] /\ shares \in [Items -> [Users -> {"none", "read", "write"}]]
      /\ i \in Items /\ q.op = "move" /\ q.user \in Users
      /\ requests[s].shown = {Record(items, shares, i)} /\ i \in Live(items)
  BY CommitContext DEF MoveItem, Pending, FreshFor, Loading, IsQuery
<1>2. /\ items' = [items EXCEPT ![i].parent = q.to] /\ shares' = shares
      /\ Commits(s, q, {G(o) : o \in requests[s].shown})
  BY DEF MoveItem
<1>3. /\ \A y \in Items : /\ items'[y].status = items[y].status /\ items'[y].kind = items[y].kind
                          /\ items'[y].owner = items[y].owner /\ items'[y].name = items[y].name
      /\ items'[i].parent = q.to
  BY <1>1, <1>2 DEF ItemRecords
<1>4. G(Record(items, shares, i)) = Record(items', shares', i)
  <2> DEFINE c == Shared(shares, i)
  <2>1. Shared(shares', i) = c
    BY <1>2
  <2> HIDE DEF c
  <2>2. Record(items, shares, i).collaborators = c
    BY DEF Record, c
  <2> QED BY <1>1, <1>3, <2>1, <2>2 DEF Record
<1>5. {G(o) : o \in requests[s].shown} = {Record(items', shares', i)}
  BY <1>1, <1>4
<1>6. requests'[s].q = q /\ requests'[s].shown = {Record(items', shares', i)}
  BY <1>2, <1>5, CommitsAs DEF TreeInv
<1>7. Unshown(items, shares, q.user, F, i) /\ MovedTo(items, items', i, q.to)
  BY <1>2 DEF MovedTo
<1> HIDE DEF q, i, G
<1>8. Except(Listing(items', shares, q.user, F), i) = Except(Listing(items, shares, q.user, F), i)
  BY <1>1, <1>7, MoveListing
<1>9. i \in Live(items')
  BY <1>1, <1>3 DEF Live
<1> QED BY <1>1, <1>2, <1>3, <1>6, <1>8, <1>9 DEF Accounted, i

\* A share of the owner's.
LEMMA UpdateAccounted ==
  ASSUME TreeInv, Born, Fresh, NEW s \in Slots \ outdated, Commit(s), UpdateCollaborator(s), NEW F
  PROVE  Accounted(s, F)
<1> DEFINE q == requests[s].q
           i == q.item
           Changed(c) == IF c.user = q.with THEN [c EXCEPT !.permission = q.permission] ELSE c
           G(o) == [o EXCEPT !.collaborators = {Changed(c) : c \in @}]
<1>1. /\ items \in [Items -> ItemRecords] /\ shares \in [Items -> [Users -> {"none", "read", "write"}]]
      /\ i \in Items /\ q.op = "update" /\ q.with \in Users /\ q.permission \in {"read", "write"}
      /\ requests[s].shown = {Record(items, shares, i)} /\ i \in Live(items)
      /\ items[i].owner = q.user
  BY CommitContext DEF UpdateCollaborator, Pending, FreshFor, Loading, IsQuery
<1>2. /\ items' = items /\ shares' = [shares EXCEPT ![i][q.with] = q.permission]
      /\ shares[i][q.with] # "none"
      /\ Commits(s, q, {G(o) : o \in requests[s].shown})
  BY DEF UpdateCollaborator
<1>3. /\ \A y \in Items : y # i => shares'[y] = shares[y]
      /\ \A u \in Users : shares'[i][u] = IF u = q.with THEN q.permission ELSE shares[i][u]
  BY <1>1, <1>2
<1>4. {Changed(c) : c \in Shared(shares, i)} = Shared(shares', i)
  <2>1. \A c \in Sharees : /\ Changed(c) \in Sharees /\ Changed(c).user = c.user
                           /\ Changed(c).permission = IF c.user = q.with THEN q.permission ELSE c.permission
    BY <1>1 DEF Sharees
  <2>2. \A c, d \in Sharees : c.user = d.user /\ c.permission = d.permission => c = d
    BY DEF Sharees
  <2>3. \A c \in Sharees : c.user \in Users /\ c.permission \in {"read", "write"}
    BY DEF Sharees
  <2>4. \A u \in Users : \A p \in {"read", "write"} : \E c \in Sharees : c.user = u /\ c.permission = p
    <3> SUFFICES ASSUME NEW u \in Users, NEW p \in {"read", "write"}
                 PROVE  \E c \in Sharees : c.user = u /\ c.permission = p
      OBVIOUS
    <3> DEFINE e == [user |-> u, permission |-> p]
    <3>1. e \in Sharees /\ e.user = u /\ e.permission = p
      BY DEF Sharees
    <3> QED BY <3>1
  <2>5. shares[i][q.with] \in {"read", "write"}
    BY <1>1, <1>2
  <2> HIDE DEF Changed, i
  <2>6. ASSUME NEW d \in Sharees, shares'[i][d.user] = d.permission
        PROVE  \E c \in Sharees : shares[i][c.user] = c.permission /\ Changed(c) = d
    <3>1. CASE d.user = q.with
      <4>1. PICK c \in Sharees : c.user = q.with /\ c.permission = shares[i][q.with]
        BY <1>1, <2>4, <2>5
      <4>2. Changed(c).user = d.user /\ Changed(c).permission = d.permission /\ Changed(c) \in Sharees
        BY <1>1, <1>3, <2>1, <2>6, <3>1, <4>1
      <4> QED BY <2>2, <4>1, <4>2
    <3>2. CASE d.user # q.with
      <4>1. shares[i][d.user] = d.permission
        BY <1>3, <2>3, <2>6, <3>2
      <4>2. Changed(d).user = d.user /\ Changed(d).permission = d.permission /\ Changed(d) \in Sharees
        BY <2>1, <3>2
      <4> QED BY <2>2, <4>1, <4>2
    <3> QED BY <3>1, <3>2
  <2>7. ASSUME NEW c \in Sharees, shares[i][c.user] = c.permission
        PROVE  Changed(c) \in Sharees /\ shares'[i][Changed(c).user] = Changed(c).permission
    BY <1>3, <2>1, <2>3, <2>7
  <2> QED BY <2>6, <2>7 DEF Shared
<1>5. G(Record(items, shares, i)) = Record(items', shares', i)
  <2> DEFINE o == Record(items, shares, i)
  <2>1. o.collaborators = Shared(shares, i)
    BY DEF Record
  <2>2. {Changed(c) : c \in o.collaborators} = Shared(shares', i)
    BY <1>4, <2>1
  <2>3. G(o) = [o EXCEPT !.collaborators = {Changed(c) : c \in o.collaborators}]
    OBVIOUS
  <2> HIDE DEF Changed, G
  <2>4. G(o) = [o EXCEPT !.collaborators = Shared(shares', i)]
    BY <2>2, <2>3
  <2> QED BY <1>2, <2>4 DEF Record
<1>6. {G(o) : o \in requests[s].shown} = {Record(items', shares', i)}
  <2> HIDE DEF G
  <2>1. {G(o) : o \in requests[s].shown} = {G(Record(items, shares, i))}
    BY <1>1
  <2> QED BY <1>5, <2>1
<1>7. requests'[s].q = q /\ requests'[s].shown = {Record(items', shares', i)}
  BY <1>2, <1>6, CommitsAs DEF TreeInv
<1> HIDE DEF q, i, G, Changed
<1>8. \A y \in Items : /\ items'[y].status = items[y].status /\ items'[y].kind = items[y].kind
                       /\ items'[y].owner = items[y].owner /\ items'[y].parent = items[y].parent
                       /\ items[y].owner = q.user \/ shares'[y] = shares[y]
                       /\ y # i => items'[y].name = items[y].name /\ shares'[y] = shares[y]
  BY <1>1, <1>2, <1>3
<1>9. Except(Listing(items', shares', q.user, F), i) = Except(Listing(items, shares, q.user, F), i)
  BY <1>1, <1>8, UpdateListing
<1> QED BY <1>1, <1>2, <1>7, <1>9 DEF Accounted, i

\* Whatever is changed, but a share that is new or removed.
LEMMA CommitAccounted ==
  ASSUME TreeInv, Born, Fresh, NEW s \in Slots \ outdated, Commit(s), NEW F,
         requests[s].q.op \notin {"share", "remove"},
         requests[s].q.op \in {"delete", "move"} =>
           Unshown(items, shares, requests[s].q.user, F, requests[s].q.item)
  PROVE  Accounted(s, F)
<1>1. ~ShareItem(s) /\ ~RemoveCollaborator(s)
  BY DEF ShareItem, RemoveCollaborator, Pending
<1>2. (DeleteItem(s) \/ MoveItem(s)) => requests[s].q.op \in {"delete", "move"}
  BY DEF DeleteItem, MoveItem, Pending
<1> QED BY <1>1, <1>2, CreateAccounted, RenameAccounted, DeleteAccounted, MoveAccounted,
           UpdateAccounted DEF Commit

-----------------------------------------------------------------------------
(* Pages and the server.                                                   *)

\* What page u would be sent if it asked now, and what was sent to it.
Now(u) == Listing(items, shares, UserOf(u), page[u].folder)

Fetched(u) == Arrived(u, "list")

\* The mutation in s was carried out, and its answer will show its item as it is.
Awaits(u, s) ==
  LET q == requests[s].q
      i == q.item
  IN  /\ q.op \notin {"share", "remove"}
      /\ q.op = "delete" => i \notin Live(items)
      /\ q.op # "delete" =>
           /\ i \in Live(items)
           /\ page[u].folder = Root => items[i].owner = UserOf(u)
           /\ requests[s].stage = "committed" => requests[s].shown = {Record(items, shares, i)}
           /\ requests[s].stage = "answered" =>
                /\ Outcome(s) = {Row(items, shares, UserOf(u), i)}
                /\ Access(items, shares, UserOf(u), i) # "none"

\* Unless a listing replaces them, the rows are as they should be, apart from that of
\* an item whose mutation was carried out.
RowsShown(u) ==
  Fetched(u) = {} =>
    /\ Carried(u, Mutations) = {} => page[u].rows = Now(u)
    /\ \A s \in Carried(u, Mutations) :
         Except(page[u].rows, requests[s].q.item) = Except(Now(u), requests[s].q.item)

Account(u) ==
  /\ \A s \in Fetched(u) : ToWorkspaceItems(requests[s].result) = Now(u)
  /\ \A s, t \in Carried(u, Mutations) : s = t
  /\ \A s \in Carried(u, Mutations) : Awaits(u, s)
  /\ RowsShown(u)

UpToDate(u) == page[u].mishaps \subseteq {"left"} => Account(u)

UpToDateInv == \A u \in Readers : UpToDate(u)

\* A request that matters for the rows: a mutation that was carried out, or a listing.
Done(r) == /\ r # NoRequest /\ r.q.op \in Mutations \cup {"list"}
           /\ r.stage = "committed" \/ (r.stage = "answered" /\ r.ok)

\* All that matters stays as it is.
SameAccount(u) ==
  /\ Fetched(u)' = Fetched(u) /\ Carried(u, Mutations)' = Carried(u, Mutations)
  /\ \A s \in Fetched(u) \cup Carried(u, Mutations) : requests'[s] = requests[s]

\* A row of a list, and the others.
LEMMA ListingSplit ==
  ASSUME NEW w, NEW sh, NEW v, NEW F, NEW i
  PROVE  /\ Listing(w, sh, v, F) = Except(Listing(w, sh, v, F), i)
              \cup (IF i \in Members(w, sh, v, F) THEN {Row(w, sh, v, i)} ELSE {})
         /\ Row(w, sh, v, i).parent = w[i].parent
<1>1. \A j : Row(w, sh, v, j).item = j /\ Row(w, sh, v, j).parent = w[j].parent
  BY DEF Row, Response, ToWorkspaceItem
<1> QED BY <1>1 DEF Listing, Except

\* With the answer to a mutation the rows are as they should be.
LEMMA AnswerCompletes ==
  ASSUME NEW u, Account(u), Fetched(u) = {}, NEW s \in Carried(u, Mutations),
         requests[s].stage = "answered"
  PROVE  Updated(page[u], requests[s].q.item, Outcome(s)) = Now(u)
<1> DEFINE q == requests[s].q
           i == q.item
           v == UserOf(u)
           F == page[u].folder
<1>1. /\ q.op = "delete" => i \notin Live(items) /\ Outcome(s) = {}
      /\ q.op # "delete" =>
           /\ i \in Live(items) /\ (F = Root => items[i].owner = v)
           /\ Outcome(s) = {Row(items, shares, v, i)} /\ Access(items, shares, v, i) # "none"
      /\ Except(page[u].rows, i) = Except(Now(u), i)
  BY DEF Account, Awaits, RowsShown, Outcome
<1>2. /\ Now(u) = Except(Now(u), i)
           \cup (IF i \in Members(items, shares, v, F) THEN {Row(items, shares, v, i)} ELSE {})
      /\ Row(items, shares, v, i).parent = items[i].parent
  BY ListingSplit DEF Now
<1> DEFINE rest == Except(Now(u), i)
           row == Row(items, shares, v, i)
<1>3. Updated(page[u], i, Outcome(s)) = rest \cup {y \in Outcome(s) : y.parent = F}
  BY <1>1 DEF Updated
<1>4. CASE q.op = "delete"
  <2>1. i \notin Members(items, shares, v, F)
    BY <1>1, <1>4 DEF Members
  <2> HIDE DEF rest, row
  <2> QED BY <1>1, <1>2, <1>3, <1>4, <2>1 DEF rest
<1>5. CASE q.op # "delete"
  <2>1. i \in Members(items, shares, v, F) <=> items[i].parent = F
    BY <1>1, <1>5 DEF Members, Placed
  <2>2. {y \in Outcome(s) : y.parent = F} = IF items[i].parent = F THEN {row} ELSE {}
    BY <1>1, <1>2, <1>5
  <2> HIDE DEF rest, row
  <2> QED BY <1>2, <1>3, <2>1, <2>2 DEF rest, row
<1> QED BY <1>4, <1>5

\* What does not matter changes no account.
LEMMA AccountKept ==
  ASSUME NEW u, UpToDate(u), UNCHANGED <<tables, scenario>>, SameAccount(u),
         page'[u].rows = page[u].rows, page'[u].folder = page[u].folder,
         page'[u].mishaps \subseteq {"left"} => page[u].mishaps \subseteq {"left"}
  PROVE  UpToDate(u)'
<1> SUFFICES ASSUME page'[u].mishaps \subseteq {"left"} PROVE Account(u)'
  BY DEF UpToDate
<1>1. Account(u)
  BY DEF UpToDate
<1>2. items' = items /\ shares' = shares /\ scenario' = scenario
  BY DEF tables
<1>3. Now(u)' = Now(u) /\ UserOf(u)' = UserOf(u)
  BY <1>2 DEF Now, UserOf
<1>4. \A s \in Carried(u, Mutations) : Awaits(u, s)'
  <2> SUFFICES ASSUME NEW s \in Carried(u, Mutations) PROVE Awaits(u, s)'
    OBVIOUS
  <2>1. requests'[s] = requests[s] /\ Awaits(u, s)
    BY <1>1 DEF SameAccount, Account
  <2>2. Outcome(s)' = Outcome(s)
    BY <2>1 DEF Outcome
  <2> QED BY <1>2, <1>3, <2>1, <2>2 DEF Awaits
<1>5. RowsShown(u)'
  BY <1>1, <1>3 DEF Account, RowsShown, SameAccount
<1> QED BY <1>1, <1>3, <1>4, <1>5 DEF Account, SameAccount

\* Neither do the slots whose requests do not matter.
LEMMA SlotsKept ==
  ASSUME NEW u, \A t \in Slots : requests'[t] = requests[t] \/ (~Done(requests[t]) /\ ~Done(requests'[t]))
  PROVE  SameAccount(u)
<1>1. \A t \in Slots : Done(requests[t]) \/ Done(requests'[t]) => requests'[t] = requests[t]
  OBVIOUS
<1>2. \A t \in Fetched(u) \cup Carried(u, Mutations) : t \in Slots /\ Done(requests[t])
  BY DEF Fetched, Arrived, Carried, Own, Done
<1>3. \A t \in Fetched(u)' \cup Carried(u, Mutations)' : t \in Slots /\ Done(requests'[t])
  BY DEF Fetched, Arrived, Carried, Own, Done
<1>4. \A t \in Fetched(u) : t \in Fetched(u)'
  BY <1>1, <1>2 DEF Fetched, Arrived, Own
<1>5. \A t \in Fetched(u)' : t \in Fetched(u)
  BY <1>1, <1>3 DEF Fetched, Arrived, Own
<1>6. \A t \in Carried(u, Mutations) : t \in Carried(u, Mutations)'
  BY <1>1, <1>2 DEF Carried, Own
<1>7. \A t \in Carried(u, Mutations)' : t \in Carried(u, Mutations)
  BY <1>1, <1>3 DEF Carried, Own
<1> QED BY <1>1, <1>2, <1>4, <1>5, <1>6, <1>7 DEF SameAccount

\* A slot whose request is taken, or gives way to one that is sent.
LEMMA SlotGone ==
  ASSUME NEW u, NEW s, \A t \in Slots \ {s} : requests'[t] = requests[t], ~Done(requests'[s])
  PROVE  /\ Fetched(u)' = Fetched(u) \ {s} /\ Carried(u, Mutations)' = Carried(u, Mutations) \ {s}
         /\ \A t \in (Fetched(u) \cup Carried(u, Mutations)) \ {s} : requests'[t] = requests[t]
<1>1. \A t \in Fetched(u) \cup Carried(u, Mutations) : t \in Slots
  BY DEF Fetched, Arrived, Carried, Own
<1>2. \A t \in Fetched(u)' \cup Carried(u, Mutations)' : t \in Slots /\ Done(requests'[t])
  BY DEF Fetched, Arrived, Carried, Own, Done
<1>3. \A t \in Fetched(u) \ {s} : t \in Fetched(u)'
  BY <1>1 DEF Fetched, Arrived, Own
<1>4. \A t \in Fetched(u)' : t \in Fetched(u) \ {s}
  BY <1>2 DEF Fetched, Arrived, Own
<1>5. \A t \in Carried(u, Mutations) \ {s} : t \in Carried(u, Mutations)'
  BY <1>1 DEF Carried, Own
<1>6. \A t \in Carried(u, Mutations)' : t \in Carried(u, Mutations) \ {s}
  BY <1>2 DEF Carried, Own
<1> QED BY <1>1, <1>3, <1>4, <1>5, <1>6

\* A request that is sent does not matter yet.
LEMMA SentCounts ==
  ASSUME TypeInv, NEW u, NEW s, NEW q, Sent(u, s, q), NEW v
  PROVE  SameAccount(v) /\ UNCHANGED tables
<1>1. \A t \in Slots : requests'[t] = requests[t] \/ (~Done(requests[t]) /\ ~Done(requests'[t]))
  BY SlotsSent DEF Sent, Done
<1> QED BY <1>1, SlotsKept DEF Sent

\* The steps by which a user looks at the page, or asks for something.
LEMMA UseCounts ==
  ASSUME CoreInv, UNCHANGED scenario, NEW u \in Readers, UpToDate(u),
         Refresh(u) \/ Open(u) \/ CloseDialog(u) \/ Handle(u)
  PROVE  UpToDate(u)'
<1>1. PageTypes /\ TypeInv
  BY DEF CoreInv, TreeInv
<1>2. ASSUME SameAccount(u), UNCHANGED tables, page'[u].rows = page[u].rows,
             page'[u].folder = page[u].folder, page[u].mishaps \subseteq page'[u].mishaps
      PROVE  UpToDate(u)'
  BY <1>2, AccountKept
<1>3. CASE Refresh(u)
  <2>1. PICK s, q : Refreshed(u, s, q)
    BY <1>1, <1>3, RefreshDoes
  <2>2. Same(page'[u], page[u], {"listing", "listError"}) /\ Sent(u, s, q)
    BY <2>1 DEF Refreshed
  <2>3. /\ page'[u].rows = page[u].rows /\ page'[u].folder = page[u].folder
        /\ page'[u].mishaps = page[u].mishaps
    BY <2>2 DEF Same, PageFields
  <2> QED BY <1>1, <1>2, <2>2, <2>3, SentCounts
<1>4. CASE OpenMove(u)
  <2>1. PICK s, q : MoveOpened(u, s, q)
    BY <1>1, <1>4, OpenMoveDoes
  <2>2. Same(page'[u], page[u], {"dialog", "loadingTargets"}) /\ Sent(u, s, q)
    BY <2>1 DEF MoveOpened
  <2>3. /\ page'[u].rows = page[u].rows /\ page'[u].folder = page[u].folder
        /\ page'[u].mishaps = page[u].mishaps
    BY <2>2 DEF Same, PageFields
  <2> QED BY <1>1, <1>2, <2>2, <2>3, SentCounts
<1>5. CASE OpenShare(u)
  <2>1. PICK s, q, row : ShareOpened(u, s, q, row)
    BY <1>1, <1>5, OpenShareDoes
  <2>2. Same(page'[u], page[u], {"dialog", "sharees", "asked"}) /\ Sent(u, s, q)
    BY <2>1 DEF ShareOpened
  <2>3. /\ page'[u].rows = page[u].rows /\ page'[u].folder = page[u].folder
        /\ page'[u].mishaps = page[u].mishaps
    BY <2>2 DEF Same, PageFields
  <2> QED BY <1>1, <1>2, <2>2, <2>3, SentCounts
<1>6. CASE Handle(u)
  <2>1. PICK s, q : Handled(u, s, q)
    BY <1>1, <1>6, HandleDoes
  <2>2. UNCHANGED page /\ Sent(u, s, q)
    BY <2>1 DEF Handled
  <2> QED BY <1>1, <1>2, <2>2, SentCounts
<1>7. UNCHANGED requests => SameAccount(u)
  BY SlotsKept
<1>8. CASE (\E k \in {"folder", "document"} : OpenCreate(u, k)) \/ (\E t \in {"rename", "delete"} : OpenPlain(u, t))
  <2>1. PlainOpened(u)
    BY <1>1, <1>8, OpenPlainDoes
  <2>2. /\ page'[u].rows = page[u].rows /\ page'[u].folder = page[u].folder
        /\ page'[u].mishaps = page[u].mishaps /\ UNCHANGED <<tables, requests>>
    BY <2>1 DEF PlainOpened, Same, PageFields, serverVars
  <2> QED BY <1>2, <1>7, <2>2
<1>9. CASE CloseDialog(u)
  <2>1. DialogClosed(u)
    BY <1>1, <1>9, CloseDoes
  <2>2. /\ page'[u].rows = page[u].rows /\ page'[u].folder = page[u].folder
        /\ page[u].mishaps \subseteq page'[u].mishaps /\ UNCHANGED <<tables, requests>>
    BY <2>1 DEF DialogClosed, Same, PageFields, serverVars
  <2> QED BY <1>2, <1>7, <2>2
<1> QED BY <1>3, <1>4, <1>5, <1>6, <1>8, <1>9 DEF Open

\* A listing replaces the rows.
LEMMA ListingCounts ==
  ASSUME CoreInv, CoreInv', UNCHANGED scenario, NEW u \in Readers, UpToDate(u), ListingEnds(u)
  PROVE  UpToDate(u)'
<1>1. PageTypes /\ TypeInv /\ Waits(u)
  BY ScenarioTypes DEF CoreInv, TreeInv, WaitInv
<1>2. PICK s \in page[u].listing : ListingEnded(u, s)
  BY <1>1, ListingEndsDoes DEF Waits
<1>3. Taken(u, s) /\ requests[s].q.op = "list"
  BY <1>2 DEF ListingEnded
<1>4. /\ s \in Slots /\ requests'[s] = NoRequest
      /\ \A t \in Slots \ {s} : requests'[t] = requests[t]
      /\ UNCHANGED tables
  BY <1>1, <1>3, SlotsTaken
<1>5. page'[u].folder = page[u].folder /\ page'[u].mishaps = page[u].mishaps
  BY <1>2 DEF ListingEnded, Same, PageFields
<1>6. CASE ~requests[s].ok
  <2>1. ~Done(requests[s]) /\ ~Done(requests'[s])
    BY <1>3, <1>4, <1>6 DEF Taken, Done
  <2>2. SameAccount(u)
    BY <1>4, <2>1, SlotsKept
  <2>3. page'[u].rows = page[u].rows
    BY <1>2, <1>6 DEF ListingEnded
  <2> QED BY <1>4, <1>5, <2>2, <2>3, AccountKept
<1>7. CASE requests[s].ok
  <2> SUFFICES ASSUME page'[u].mishaps \subseteq {"left"} PROVE Account(u)'
    BY DEF UpToDate
  <2>1. Account(u)
    BY <1>5 DEF UpToDate
  <2>2. /\ Fetched(u)' = Fetched(u) \ {s} /\ Carried(u, Mutations)' = Carried(u, Mutations) \ {s}
        /\ \A t \in (Fetched(u) \cup Carried(u, Mutations)) \ {s} : requests'[t] = requests[t]
    BY <1>4, SlotGone DEF Done
  <2>3. Fetched(u) = {s}
    BY <1>1, <1>3, <1>7 DEF Fetched, Arrived, Waits, Taken, Own
  <2>4. s \notin Carried(u, Mutations)
    BY <1>3 DEF Carried, Own, Mutations
  <2>5. items' = items /\ shares' = shares /\ scenario' = scenario
    BY <1>4 DEF tables
  <2>6. Now(u)' = Now(u) /\ UserOf(u)' = UserOf(u)
    BY <1>5, <2>5 DEF Now, UserOf
  <2>7. page'[u].rows = Now(u)
    BY <1>2, <1>7, <2>1, <2>3 DEF ListingEnded, Account
  <2>8. \A t \in Carried(u, Mutations) : Awaits(u, t)'
    <3> SUFFICES ASSUME NEW t \in Carried(u, Mutations) PROVE Awaits(u, t)'
      OBVIOUS
    <3>1. requests'[t] = requests[t] /\ Awaits(u, t)
      BY <2>1, <2>2, <2>4 DEF Account
    <3>2. Outcome(t)' = Outcome(t)
      BY <3>1 DEF Outcome
    <3> QED BY <1>5, <2>5, <2>6, <3>1, <3>2 DEF Awaits
  <2>9. RowsShown(u)'
    BY <2>6, <2>7 DEF RowsShown
  <2> QED BY <2>1, <2>2, <2>3, <2>4, <2>8, <2>9 DEF Account
<1> QED BY <1>6, <1>7

\* The answer to a mutation that was carried out completes the rows.
LEMMA MutationCounts ==
  ASSUME CoreInv, UNCHANGED <<tables, scenario>>, NEW u \in Readers, UpToDate(u),
         NEW s \in Carried(u, Mutations), requests[s].stage = "answered",
         \A t \in Slots \ {s} : requests'[t] = requests[t], ~Done(requests'[s]),
         page'[u].rows = Updated(page[u], requests[s].q.item, Outcome(s)),
         page'[u].folder = page[u].folder, page'[u].mishaps = page[u].mishaps
  PROVE  UpToDate(u)'
<1> SUFFICES ASSUME page'[u].mishaps \subseteq {"left"} PROVE Account(u)'
  BY DEF UpToDate
<1>1. Account(u)
  BY DEF UpToDate
<1>2. /\ Fetched(u)' = Fetched(u) \ {s} /\ Carried(u, Mutations)' = Carried(u, Mutations) \ {s}
      /\ \A t \in (Fetched(u) \cup Carried(u, Mutations)) \ {s} : requests'[t] = requests[t]
  BY SlotGone
<1>3. s \notin Fetched(u) /\ Carried(u, Mutations)' = {}
  BY <1>1, <1>2 DEF Account, Carried, Fetched, Arrived, Own, Mutations
<1>4. Now(u)' = Now(u)
  BY DEF Now, UserOf, tables
<1>5. Fetched(u) = {} => page'[u].rows = Now(u)
  BY <1>1, AnswerCompletes
<1>6. RowsShown(u)'
  BY <1>2, <1>3, <1>4, <1>5 DEF RowsShown
<1> QED BY <1>1, <1>2, <1>3, <1>4, <1>6 DEF Account

\* The answers a page takes.
LEMMA BrowserCounts ==
  ASSUME CoreInv, CoreInv', UNCHANGED scenario, NEW u \in Readers, UpToDate(u), Browser(u)
  PROVE  UpToDate(u)'
<1>1. PageTypes /\ TypeInv /\ OwnInv /\ Waits(u)
  BY ScenarioTypes DEF CoreInv, TreeInv, WaitInv
<1>2. ASSUME NEW s, Taken(u, s), requests[s].q.op \notin Mutations \cup {"list"} \/ ~requests[s].ok,
             page'[u].rows = page[u].rows, page'[u].folder = page[u].folder,
             page'[u].mishaps = page[u].mishaps
      PROVE  UpToDate(u)'
  <2>1. /\ s \in Slots /\ requests'[s] = NoRequest
        /\ \A t \in Slots \ {s} : requests'[t] = requests[t]
        /\ UNCHANGED tables
    BY <1>1, <1>2, SlotsTaken
  <2>2. ~Done(requests[s]) /\ ~Done(requests'[s])
    BY <1>2, <2>1 DEF Taken, Done
  <2> QED BY <1>2, <2>1, <2>2, SlotsKept, AccountKept
<1>3. CASE TargetsEnd(u)
  <2>1. PICK s \in Slots : TargetsEnded(u, s)
    BY <1>1, <1>3, TargetsEndDoes
  <2>2. /\ Taken(u, s) /\ requests[s].q.op \notin Mutations \cup {"list"}
        /\ page'[u].rows = page[u].rows /\ page'[u].folder = page[u].folder
        /\ page'[u].mishaps = page[u].mishaps
    BY <2>1 DEF TargetsEnded, Same, PageFields, Mutations
  <2> QED BY <1>2, <2>2
<1>4. CASE CollaboratorsEnd(u)
  <2>1. PICK s \in Slots : CollaboratorsEnded(u, s)
    BY <1>1, <1>4, CollaboratorsEndDoes
  <2>2. /\ Taken(u, s) /\ requests[s].q.op \notin Mutations \cup {"list"}
        /\ page'[u].rows = page[u].rows /\ page'[u].folder = page[u].folder
        /\ page'[u].mishaps = page[u].mishaps
    BY <2>1 DEF CollaboratorsEnded, Same, PageFields, Mutations
  <2> QED BY <1>2, <2>2
<1>5. CASE RefreshEnds(u)
  <2>0. \A t \in page[u].refreshing : t.slot \in Own(u, {"collaborators"})
    BY <1>1 DEF Waits, Refreshes
  <2>1. PICK r \in page[u].refreshing : RefreshEnded(u, r)
    BY <1>1, <1>5, <2>0, RefreshEndsDoes
  <2>2. /\ Taken(u, r.slot) /\ requests[r.slot].q.op \notin Mutations \cup {"list"}
        /\ page'[u].rows = page[u].rows /\ page'[u].folder = page[u].folder
        /\ page'[u].mishaps = page[u].mishaps
    BY <2>1 DEF RefreshEnded, Same, PageFields, Mutations
  <2> QED BY <1>2, <2>2
<1>6. CASE ListingEnds(u)
  BY <1>6, ListingCounts
<1>7. CASE MutationEnds(u)
  <2>1. PICK s \in Slots : MutationEnded(u, s)
    BY <1>1, <1>7, MutationEndsDoes
  <2>2. Taken(u, s) /\ requests[s].q.op \in Mutations
    BY <2>1 DEF MutationEnded, Mutations
  <2>3. CASE requests[s].ok
    <3>1. /\ page'[u].rows = Updated(page[u], requests[s].q.item, Outcome(s))
          /\ page'[u].folder = page[u].folder /\ page'[u].mishaps = page[u].mishaps
      BY <2>1, <2>3 DEF MutationEnded, Same, PageFields
    <3>2. s \in Carried(u, Mutations) /\ requests[s].stage = "answered"
      BY <2>2, <2>3 DEF Taken, Carried, Own
    <3>3. /\ \A t \in Slots \ {s} : requests'[t] = requests[t]
          /\ UNCHANGED tables /\ ~Done(requests'[s])
      BY <1>1, <2>2, SlotsTaken DEF Done
    <3> QED BY <3>1, <3>2, <3>3, MutationCounts
  <2>4. CASE ~requests[s].ok
    <3>1. page'[u] = page[u]
      BY <2>1, <2>4 DEF MutationEnded
    <3> QED BY <1>2, <2>2, <2>4, <3>1
  <2> QED BY <2>3, <2>4
<1>8. CASE SharingEnds(u)
  <2>1. PICK s \in Slots : SharingEnded(u, s)
    BY <1>1, <1>8, SharingEndsDoes
  <2>2. /\ requests[s] # NoRequest /\ requests[s].q.by = u /\ requests[s].stage = "answered"
        /\ requests[s].q.op \in Mutations /\ UNCHANGED <<tables, outdated, overlapped>>
    BY <2>1 DEF SharingEnded, Mutations
  <2>3. CASE requests[s].ok
    <3>1. PICK q : Becomes(s, [stage |-> "sent", q |-> q])
      BY <2>1, <2>3 DEF SharingEnded
    <3>2. requests'[s] = [stage |-> "sent", q |-> q] /\ \A t \in Slots \ {s} : requests'[t] = requests[t]
      BY <1>1, <3>1, OneRequest
    <3>3. ~Done(requests'[s])
      BY <3>2 DEF Done
    <3>4. /\ page'[u].rows = Updated(page[u], requests[s].q.item, Outcome(s))
          /\ page'[u].folder = page[u].folder /\ page'[u].mishaps = page[u].mishaps
      BY <2>1, <2>3 DEF SharingEnded, Same, PageFields
    <3>5. s \in Carried(u, Mutations)
      BY <2>2, <2>3 DEF Carried, Own
    <3> QED BY <2>2, <3>2, <3>3, <3>4, <3>5, MutationCounts
  <2>4. CASE ~requests[s].ok
    <3>1. page'[u] = page[u] /\ Taken(u, s)
      BY <2>1, <2>2, <2>4 DEF SharingEnded, Taken
    <3> QED BY <1>2, <2>4, <3>1
  <2> QED BY <2>3, <2>4
<1> QED BY <1>3, <1>4, <1>5, <1>6, <1>7, <1>8 DEF Browser

\* What a page does not send or take stays as it is.
LEMMA UntouchedCounts ==
  ASSUME NEW u, Untouched(u)
  PROVE  SameAccount(u)
<1>1. \A t \in Fetched(u) \cup Carried(u, Mutations) :
        t \in Slots /\ requests[t] # NoRequest /\ requests[t].q.by = u
  BY DEF Fetched, Arrived, Carried, Own
<1>2. \A t \in Fetched(u)' \cup Carried(u, Mutations)' :
        t \in Slots /\ requests'[t] # NoRequest /\ requests'[t].q.by = u
  BY DEF Fetched, Arrived, Carried, Own
<1>3. \A t \in Fetched(u) : t \in Fetched(u)'
  BY <1>1 DEF Fetched, Arrived, Own, Untouched
<1>4. \A t \in Fetched(u)' : t \in Fetched(u)
  BY <1>2 DEF Fetched, Arrived, Own, Untouched
<1>5. \A t \in Carried(u, Mutations) : t \in Carried(u, Mutations)'
  BY <1>1 DEF Carried, Own, Untouched
<1>6. \A t \in Carried(u, Mutations)' : t \in Carried(u, Mutations)
  BY <1>2 DEF Carried, Own, Untouched
<1> QED BY <1>1, <1>3, <1>4, <1>5, <1>6 DEF SameAccount, Untouched

\* A listing that is read may start a new account, and is what the server has now.
LEMMA ListsCount ==
  ASSUME CoreInv, CoreInv', UNCHANGED scenario, NEW s \in Slots, Lists(s), NEW u \in Readers,
         requests[s].q.by = u, requests[s].q.op = "list", requests'[s].ok, UpToDate(u), OnlyMishaps,
         UNCHANGED tables, Moves(s)
  PROVE  UpToDate(u)'
<1> DEFINE q == requests[s].q
<1>1. PageTypes /\ TypeInv /\ OwnInv /\ Waits(u) /\ u \in Pages /\ UserOf(u) \in Users
  BY ScenarioTypes DEF CoreInv, TreeInv, WaitInv
<1>2. /\ page'[u].rows = page[u].rows /\ page'[u].folder = page[u].folder
  BY <1>1 DEF OnlyMishaps, Same, PageFields
<1>3. Read(s) /\ requests[s].stage = "sent" /\ requests[s] # NoRequest
  BY DEF Lists, Read, Under, NoRequest
<1>4. requests'[s].stage = "answered" /\ requests'[s].result = ListItems(q.user, q.to)
  <2>1. PICK ok \in BOOLEAN : \E result :
          /\ result = ListItems(q.user, q.to)
          /\ Becomes(s, IF ok THEN [stage |-> "answered", q |-> q, ok |-> TRUE, result |-> result]
                        ELSE Refused(q))
    BY <1>1, <1>3, ReadAnswers
  <2> DEFINE a == [stage |-> "answered", q |-> q, ok |-> TRUE, result |-> ListItems(q.user, q.to)]
  <2>2. Becomes(s, a) \/ Becomes(s, Refused(q))
    BY <2>1
  <2> HIDE DEF a
  <2>3. requests'[s] = a \/ requests'[s] = Refused(q)
    BY <1>1, <2>2, OneRequest
  <2>4. requests'[s] = a
    BY <2>3 DEF Refused
  <2> QED BY <2>4 DEF a
<1>5. q.user = UserOf(u) /\ q.to = page[u].folder
  BY <1>1, <1>3 DEF OwnInv
<1>6. items' = items /\ shares' = shares
  BY DEF tables
<1>7. Now(u)' = Now(u)
  BY <1>2, <1>6 DEF Now, UserOf
<1>8. ToWorkspaceItems(requests'[s].result) = Now(u)
  BY <1>1, <1>4, <1>5, ListingNow DEF Now
<1>9. Own(u, {"list"})' = {s}
  <2>1. s \in Own(u, {"list"}) /\ \A t \in Own(u, {"list"}) : t = s
    BY <1>1, <1>3 DEF Own, Waits
  <2> QED BY <2>1, OwnMoved
<1>10. Fetched(u)' = {s}
  BY <1>4, <1>9 DEF Fetched, Arrived
<1>11. Carried(u, Mutations)' = Carried(u, Mutations) /\ s \notin Carried(u, Mutations)
  <2>1. \A t \in Slots : t \in Own(u, Mutations) => t # s /\ requests'[t] = requests[t]
    BY DEF Own, Mutations, Moves
  <2>2. Own(u, Mutations)' = Own(u, Mutations) /\ Own(u, Mutations) \subseteq Slots
    BY OwnMoved DEF Own
  <2>3. \A t \in Carried(u, Mutations) : t \in Carried(u, Mutations)' /\ t # s
    BY <2>1, <2>2 DEF Carried
  <2>4. \A t \in Carried(u, Mutations)' : t \in Carried(u, Mutations)
    BY <2>1, <2>2 DEF Carried
  <2> QED BY <2>3, <2>4
<1> SUFFICES ASSUME page'[u].mishaps \subseteq {"left"} PROVE Account(u)'
  BY DEF UpToDate
<1>12. Carried(u, Mutations) = {} \/ page[u].mishaps \subseteq {"left"}
  <2>1. Own(u, Mutations \cup {"collaborators"}) = {} => Carried(u, Mutations) = {}
    BY DEF Own, Carried
  <2> QED BY <1>1, <2>1, ListsDoes
<1>13. \A t, x \in Carried(u, Mutations) : t = x
  BY <1>12 DEF UpToDate, Account
<1>14. ASSUME NEW t \in Carried(u, Mutations) PROVE Awaits(u, t)'
  <2>1. Awaits(u, t) /\ requests'[t] = requests[t]
    BY <1>11, <1>12 DEF UpToDate, Account, Carried, Own, Moves
  <2>2. Outcome(t)' = Outcome(t) /\ UserOf(u)' = UserOf(u)
    BY <2>1 DEF Outcome, UserOf
  <2> QED BY <1>2, <1>6, <2>1, <2>2 DEF Awaits
<1>15. RowsShown(u)'
  BY <1>10 DEF RowsShown
<1> QED BY <1>7, <1>8, <1>10, <1>11, <1>13, <1>14, <1>15 DEF Account

\* A mutation is answered with its item as it is.
LEMMA AnswerCounts ==
  ASSUME CoreInv, UNCHANGED scenario, NEW s \in Slots, Answer(s), NEW u \in Readers,
         requests[s].q.by = u, requests'[s].ok, UpToDate(u), OnlyMishaps,
         page[u].mishaps \subseteq page'[u].mishaps, UNCHANGED tables, Moves(s)
  PROVE  UpToDate(u)'
<1> SUFFICES ASSUME page'[u].mishaps \subseteq {"left"} PROVE Account(u)'
  BY DEF UpToDate
<1> DEFINE q == requests[s].q
           i == q.item
<1>1. /\ PageTypes /\ TypeInv /\ OwnInv /\ u \in Pages /\ UserOf(u) \in Users /\ Account(u)
      /\ requests[s] # NoRequest /\ q.user = UserOf(u)
  BY ScenarioTypes DEF CoreInv, TreeInv, UpToDate, Moves, OwnInv
<1>2. /\ page'[u].rows = page[u].rows /\ page'[u].folder = page[u].folder
  BY <1>1 DEF OnlyMishaps, Same, PageFields
<1>3. items' = items /\ shares' = shares
  BY DEF tables
<1>4. Now(u)' = Now(u) /\ UserOf(u)' = UserOf(u)
  BY <1>2, <1>3 DEF Now, UserOf
<1>5. requests[s].stage = "committed" /\ q.op \in Mutations /\ IsQuery(q)
  BY <1>1 DEF Answer, Under, TypeInv, IsRequest, IsUnderWay
<1>6. s \in Carried(u, Mutations) /\ Awaits(u, s)
  BY <1>1, <1>5 DEF Carried, Own, Account
<1>7. /\ requests'[s].stage = "answered" /\ requests'[s].q = q
      /\ requests'[s].result = {ToResponse(q.user, o) : o \in requests[s].shown}
      /\ \A o \in requests[s].shown : ResolveAccess(q.user, o) # "none"
  <2> DEFINE shown == requests[s].shown
             reached == \A o \in shown : o.item \in Live(items) /\ ResolveAccess(q.user, o) # "none"
             a == [stage |-> "answered", q |-> q, ok |-> TRUE,
                   result |-> {ToResponse(q.user, o) : o \in shown}]
  <2>1. Becomes(s, IF reached THEN a ELSE Refused(q))
    BY DEF Answer
  <2> HIDE DEF a, reached
  <2>2. requests'[s] = IF reached THEN a ELSE Refused(q)
    BY <1>1, <2>1, OneRequest
  <2>3. reached /\ requests'[s] = a
    BY <2>2 DEF Refused
  <2> QED BY <2>3 DEF a, reached
<1>8. Fetched(u)' = Fetched(u) /\ \A t \in Fetched(u) : requests'[t] = requests[t]
  <2>1. \A t \in Own(u, {"list"}) : t \in Slots /\ t # s /\ requests'[t] = requests[t]
    BY <1>5 DEF Own, Mutations, Moves
  <2>2. Own(u, {"list"})' = Own(u, {"list"})
    BY OwnMoved
  <2> QED BY <2>1, <2>2 DEF Fetched, Arrived
<1>9. Carried(u, Mutations)' = Carried(u, Mutations) /\ Carried(u, Mutations) = {s}
  <2>1. Carried(u, Mutations) = {s}
    BY <1>1, <1>6 DEF Account
  <2>2. \A t \in Slots \ {s} : requests'[t] = requests[t]
    BY DEF Moves
  <2>3. Own(u, Mutations)' = Own(u, Mutations) /\ Own(u, Mutations) \subseteq Slots
    BY OwnMoved DEF Own
  <2>4. s \in Carried(u, Mutations)'
    BY <1>6, <1>7, <2>3 DEF Carried
  <2>5. \A t \in Carried(u, Mutations)' : t # s => t \in Carried(u, Mutations)
    BY <2>2, <2>3 DEF Carried
  <2> QED BY <2>1, <2>4, <2>5
<1>10. Awaits(u, s)'
  <2>1. CASE q.op = "delete"
    BY <1>3, <1>6, <1>7, <2>1 DEF Awaits
  <2>2. CASE q.op # "delete"
    <3>1. i \in Live(items) /\ (page[u].folder = Root => items[i].owner = UserOf(u))
          /\ requests[s].shown = {Record(items, shares, i)} /\ q.op \notin {"share", "remove"}
      BY <1>5, <1>6, <2>2 DEF Awaits
    <3>2. i \in Items
      BY <3>1 DEF Live
    <3>3. /\ Loaded(i) = Record(items, shares, i)
          /\ ResolveAccess(UserOf(u), Loaded(i)) = Access(items, shares, UserOf(u), i)
          /\ ToWorkspaceItem(ToResponse(UserOf(u), Loaded(i))) = Row(items, shares, UserOf(u), i)
      BY <1>1, <3>2, LoadedNow
    <3> HIDE DEF q, i
    <3>4. requests'[s].result = {ToResponse(UserOf(u), Loaded(i))}
          /\ Access(items, shares, UserOf(u), i) # "none"
      BY <1>1, <1>7, <3>1, <3>3
    <3>5. Outcome(s)' = {Row(items, shares, UserOf(u), i)}
      BY <1>7, <2>2, <3>3, <3>4 DEF Outcome, ToWorkspaceItems
    <3>6. requests'[s].q.item = i /\ requests'[s].q.op = q.op
      BY <1>7 DEF i
    <3> QED BY <1>2, <1>3, <1>4, <1>7, <2>2, <3>1, <3>4, <3>5, <3>6 DEF Awaits
  <2> QED BY <2>1, <2>2
<1>11. RowsShown(u)'
  <2>1. requests'[s].q.item = requests[s].q.item
    BY <1>7
  <2> QED BY <1>1, <1>2, <1>4, <1>8, <1>9, <2>1 DEF Account, RowsShown
<1> QED BY <1>1, <1>4, <1>8, <1>9, <1>10, <1>11 DEF Account

\* The steps of the server that commit nothing.
LEMMA AnswersCount ==
  ASSUME CoreInv, CoreInv', UNCHANGED scenario, NEW u \in Readers, UpToDate(u), NEW s \in Slots,
         \/ Lists(s) \/ (Check(s) /\ UNCHANGED viewVars) \/ (Conflicts(s) /\ UNCHANGED viewVars)
         \/ (Answer(s) /\ Unanswered(s)) \/ (Lose(s) /\ Unanswered(s)),
         Server(s) \/ Network(s)
  PROVE  UpToDate(u)'
<1> DEFINE q == requests[s].q
<1>1. PageTypes /\ TypeInv /\ OwnInv /\ u \in Pages
  BY ScenarioTypes DEF CoreInv, TreeInv
<1>2. Read(s) \/ Check(s) \/ Conflicts(s) \/ Answer(s) \/ Lose(s)
  BY DEF Lists
<1>3. OnlyMishaps /\ Moves(s) /\ UNCHANGED tables /\ requests[s] # NoRequest
  BY <1>1, <1>2, ServerDoes, OthersMove, RequestsProceed
<1>4. page'[u].rows = page[u].rows /\ page'[u].folder = page[u].folder
  BY <1>1, <1>3 DEF OnlyMishaps, Same, PageFields
<1>5. CASE u # q.by
  <2>1. page'[u] = page[u]
    BY <1>1, <1>2, <1>3, <1>5, ListsDoes, UnansweredDoes DEF viewVars
  <2>2. Untouched(u)
    BY <1>3, <1>5 DEF Untouched, Moves
  <2> QED BY <1>3, <2>1, <2>2, UntouchedCounts, AccountKept
<1>6. CASE u = q.by /\ q.op = "list" /\ requests[s].stage = "sent" /\ requests'[s].ok /\ Lists(s)
  BY <1>3, <1>6, ListsCount
<1>7. CASE u = q.by /\ Answer(s) /\ requests'[s].ok
  <2>1. q.op # "list"
    BY <1>1, <1>7 DEF Answer, Under, TypeInv, IsRequest, IsUnderWay, NoRequest, Mutations
  <2>2. page[u].mishaps \subseteq page'[u].mishaps
    BY <1>1, <1>7, <2>1, ServerAnswers
  <2> QED BY <1>3, <1>7, <2>2, AnswerCounts
<1>8. CASE u = q.by /\ requests[s].stage = "committed" /\ ~requests'[s].ok
  <2>1. q.op # "list"
    BY <1>1, <1>3, <1>8 DEF TypeInv, IsRequest, IsUnderWay, Mutations
  <2>2. "unanswered" \in page'[u].mishaps
    BY <1>1, <1>8, <2>1, ServerAnswers
  <2> QED BY <2>2 DEF UpToDate
<1>9. CASE /\ u = q.by /\ requests[s].stage # "committed"
           /\ ~(q.op = "list" /\ requests'[s].ok /\ Lists(s))
  <2>1. page[u].mishaps \subseteq page'[u].mishaps
    <3>1. CASE Lists(s)
      BY <1>1, <1>3, <1>9, <3>1, ListsDoes
    <3>2. CASE ~Lists(s)
      BY <1>1, <1>3, <1>9, <3>2, UnansweredDoes DEF viewVars
    <3> QED BY <3>1, <3>2
  <2>2. ~Done(requests[s])
    BY <1>1, <1>2, RequestsProceed, <1>9 DEF Done
  <2>3. ~Done(requests'[s])
    <3>1. CASE Lists(s)
      <4>1. Read(s) /\ requests[s].stage = "sent"
        BY <3>1 DEF Lists, Read, Under
      <4>2. PICK ok \in BOOLEAN : \E result :
              /\ q.op \in Readings
              /\ Becomes(s, IF ok THEN [stage |-> "answered", q |-> q, ok |-> TRUE, result |-> result]
                            ELSE Refused(q))
        BY <1>1, <4>1, ReadAnswers
      <4>3. PICK r : Becomes(s, r) /\ r.stage = "answered" /\ r.q = q /\ q.op \in Readings
        BY <4>2 DEF Refused
      <4>4. requests'[s] = r
        BY <1>1, <4>3, OneRequest
      <4> QED BY <1>9, <3>1, <4>3, <4>4 DEF Done, Readings, Mutations
    <3>2. CASE Check(s)
      <4>1. IF Admitted(q) THEN Becomes(s, Kept(q)) ELSE Becomes(s, Refused(q))
        BY <3>2 DEF Check, Kept
      <4>2. PICK r : Becomes(s, r) /\ (r.stage = "checked" \/ (r.stage = "answered" /\ ~r.ok))
        BY <4>1 DEF Kept, Refused
      <4>3. requests'[s] = r
        BY <1>1, <4>2, OneRequest
      <4> QED BY <4>2, <4>3 DEF Done
    <3>3. CASE Conflicts(s) \/ Lose(s)
      <4>1. Becomes(s, Refused(q))
        BY <3>3 DEF Conflicts, Lose
      <4>2. requests'[s] = Refused(q)
        BY <1>1, <4>1, OneRequest
      <4> QED BY <4>2 DEF Done, Refused
    <3>4. ~Answer(s)
      BY <1>9 DEF Answer, Under
    <3> QED BY <3>1, <3>2, <3>3, <3>4
  <2>4. SameAccount(u)
    BY <1>3, <2>2, <2>3, SlotsKept DEF Moves
  <2> QED BY <1>3, <1>4, <2>1, <2>4, AccountKept
<1>10. requests[s].stage = "committed" => Answer(s) \/ (Lose(s) /\ ~requests'[s].ok)
  <2>1. Lose(s) => requests'[s] = Refused(q)
    BY <1>1, OneRequest DEF Lose
  <2> QED BY <1>1, <1>2, <2>1, RequestsProceed DEF Refused
<1>11. Lists(s) => requests[s].stage = "sent"
  BY DEF Lists, Read, Under
<1> QED BY <1>5, <1>6, <1>7, <1>8, <1>9, <1>10, <1>11

\* A commit.
LEMMA CommitsCount ==
  ASSUME CoreInv, Born, Fresh, UNCHANGED scenario, NEW u \in Readers, UpToDate(u), NEW s \in Slots,
         Commit(s), Happened(s)
  PROVE  UpToDate(u)'
<1> DEFINE q == requests'[s].q
           i == q.item
           F == page[u].folder
<1>1. PageTypes /\ TypeInv /\ OwnInv /\ u \in Pages /\ UserOf(u) \in Users /\ TreeInv
  BY ScenarioTypes DEF CoreInv, TreeInv
<1>2. Moves(s) /\ requests'[s].stage = "committed" /\ requests[s].stage = "checked"
  BY <1>1, CommitMoves
<1>3. requests[s] # NoRequest /\ requests'[s] # NoRequest
  BY <1>2 DEF Moves
<1>4. OnlyMishaps
  BY <1>1, <1>2, <1>3, HappenedDoes
<1>5. page'[u].rows = page[u].rows /\ page'[u].folder = F
  BY <1>1, <1>4 DEF OnlyMishaps, Same, PageFields
<1> SUFFICES ASSUME page'[u].mishaps \subseteq {"left"} PROVE Account(u)'
  BY DEF UpToDate
<1>6. u = q.by /\ page[u].mishaps \subseteq {"left"}
  BY <1>1, <1>2, <1>3, HappenedDoes
<1>7. /\ s \notin outdated /\ Own(u, Mutations) = {s}
      /\ Own(u, {"list", "collaborators"}) \cap Under("answered") = {}
      /\ q.op \notin {"share", "remove"}
      /\ q.op \notin {"create", "delete"} /\ F = Root => items[i].owner = q.user
      /\ q.op \in {"delete", "move"} => ~ShownBelow(u, i)
  BY <1>1, <1>2, <1>3, <1>6, HappenedDoes
<1>8. /\ q.op = requests[s].q.op /\ q.user = UserOf(u) /\ q.user = requests[s].q.user
      /\ q.op # "create" => q = requests[s].q
      /\ q.op \in Mutations
  BY <1>1, <1>2, <1>3, <1>6, CommitOutdates DEF Moves, OwnInv
<1>9. Fetched(u) = {}
  BY <1>7 DEF Fetched, Arrived, Own, Under
<1>10. Carried(u, Mutations) = {}
  BY <1>2, <1>7 DEF Carried
<1>11. page[u].rows = Now(u)
  BY <1>6, <1>9, <1>10 DEF UpToDate, Account, RowsShown
<1>12. q.op \in {"delete", "move"} => Unshown(items, shares, q.user, F, i)
  <2> SUFFICES ASSUME q.op \in {"delete", "move"} PROVE Unshown(items, shares, q.user, F, i)
    OBVIOUS
  <2>1. ~ShownBelow(u, i)
    BY <1>7
  <2> HIDE DEF i
  <2>2. CASE F # Root
    BY <2>1, <2>2 DEF ShownBelow, Unshown
  <2>3. CASE F = Root
    <3>1. \A j \in Members(items, shares, q.user, F) :
            Row(items, shares, q.user, j) \in page[u].rows /\ Row(items, shares, q.user, j).item = j
      BY <1>8, <1>11 DEF Now, Listing, Row, Response, ToWorkspaceItem
    <3> QED BY <2>1, <2>3, <3>1 DEF ShownBelow, Unshown
  <2> QED BY <2>2, <2>3
<1>13. Accounted(s, F)
  BY <1>1, <1>7, <1>8, <1>12, CommitAccounted
<1>14. UserOf(u)' = UserOf(u) /\ Now(u)' = Listing(items', shares', UserOf(u), F)
  BY <1>5 DEF UserOf, Now
<1>15. Carried(u, Mutations)' = {s}
  <2>1. Own(u, Mutations)' = {s}
    BY <1>2, <1>7, OwnMoved
  <2> QED BY <1>2, <2>1 DEF Carried
<1>16. Fetched(u)' = {}
  <2>1. Own(u, {"list"})' = Own(u, {"list"})
    BY <1>2, OwnMoved
  <2>2. \A t \in Own(u, {"list"}) : t \in Slots /\ t # s /\ requests'[t] = requests[t]
    BY <1>2, <1>8 DEF Own, Moves, Mutations
  <2> QED BY <1>9, <2>1, <2>2 DEF Fetched, Arrived
<1>17. Awaits(u, s)'
  <2>1. /\ q.op = "delete" => i \notin Live(items')
        /\ q.op # "delete" => i \in Live(items') /\ requests'[s].shown = {Record(items', shares', i)}
        /\ q.op \notin {"create", "delete"} => items'[i].owner = items[i].owner
        /\ q.op = "create" => items'[i].owner = q.user
    BY <1>13 DEF Accounted
  <2>2. q.op # "delete" /\ F = Root => items'[i].owner = UserOf(u)
    BY <1>7, <1>8, <2>1
  <2> QED BY <1>2, <1>5, <1>7, <1>14, <2>1, <2>2 DEF Awaits
<1>18. RowsShown(u)'
  <2>1. Except(Listing(items', shares', UserOf(u), F), i) = Except(Listing(items, shares, UserOf(u), F), i)
    BY <1>8, <1>13 DEF Accounted
  <2>2. Except(page'[u].rows, i) = Except(Listing(items', shares', UserOf(u), F), i)
    BY <1>5, <1>11, <2>1 DEF Now
  <2> QED BY <1>14, <1>15, <2>2 DEF RowsShown
<1> QED BY <1>15, <1>16, <1>17, <1>18 DEF Account

\* Every step keeps the pages up to date.
LEMMA UpToDateKept ==
  ASSUME CoreInv, Born, Fresh, UpToDateInv, [Next]_<<vars, scenario>>
  PROVE  UpToDateInv'
<1>1. CoreInv'
  BY CoreKept
<1>2. scenario' = scenario /\ Readers' = Readers
  BY DEF Next, Readers
<1> SUFFICES ASSUME NEW u \in Readers PROVE UpToDate(u)'
  BY <1>2 DEF UpToDateInv
<1>3. UpToDate(u) /\ u \in Pages
  BY ScenarioTypes DEF UpToDateInv, CoreInv
<1>4. CASE UNCHANGED <<vars, scenario>>
  <2>1. SameAccount(u)
    BY <1>4, SlotsKept DEF vars, serverVars
  <2> QED BY <1>3, <1>4, <2>1, AccountKept DEF vars, serverVars, viewVars
<1>5. ASSUME NEW w \in Readers, Browser(w) \/ Refresh(w) \/ Open(w) \/ CloseDialog(w) \/ Handle(w)
      PROVE  UpToDate(u)'
  <2>1. CASE u = w
    BY <1>1, <1>2, <1>3, <1>5, <2>1, BrowserCounts, UseCounts
  <2>2. CASE u # w
    <3>1. page'[u] = page[u] /\ Untouched(u) /\ UNCHANGED tables
      BY <1>3, <1>5, <2>2, StepOfOne
    <3> QED BY <1>2, <1>3, <3>1, UntouchedCounts, AccountKept
  <2> QED BY <2>1, <2>2
<1>6. ASSUME NEW s \in Slots, Server(s) \/ Network(s) PROVE UpToDate(u)'
  <2>1. CASE Commit(s) /\ Happened(s)
    BY <1>2, <1>3, <2>1, CommitsCount
  <2>2. CASE \/ Lists(s) \/ (Check(s) /\ UNCHANGED viewVars) \/ (Conflicts(s) /\ UNCHANGED viewVars)
             \/ (Answer(s) /\ Unanswered(s)) \/ (Lose(s) /\ Unanswered(s))
    BY <1>1, <1>2, <1>3, <1>6, <2>2, AnswersCount
  <2> QED BY <1>6, <2>1, <2>2 DEF Server, Network
<1> QED BY <1>4, <1>5, <1>6 DEF Next

\* They are when they are loaded.
LEMMA UpToDateStarts ==
  ASSUME Init
  PROVE  UpToDateInv
<1>1. TypeInv /\ PageTypes
  BY CoreStarts DEF CoreInv, TreeInv
<1> SUFFICES ASSUME NEW u \in Readers PROVE Account(u)
  BY DEF UpToDateInv, UpToDate
<1>2. u \in Pages /\ UserOf(u) \in Users
  BY <1>1, ScenarioTypes
<1>3. page[u].rows = ToWorkspaceItems(ListItems(UserOf(u), page[u].folder))
  BY <1>2 DEF Init, NoPage
<1>4. page[u].rows = Now(u)
  BY <1>1, <1>2, <1>3, ListingNow DEF Now
<1>5. Fetched(u) = {} /\ Carried(u, Mutations) = {}
  BY DEF Init, Fetched, Arrived, Carried, Own
<1> QED BY <1>4, <1>5 DEF Account, RowsShown

\* A page without a request under way that is up to date shows what is stored.
LEMMA UpToDateShows ==
  ASSUME CoreInv, UpToDateInv
  PROVE  SettledViewIsStored
<1> SUFFICES ASSUME NEW u \in Readers, Settled(u), page[u].mishaps \subseteq {"left"}
             PROVE  page[u].rows = ToWorkspaceItems(ListItems(UserOf(u), page[u].folder))
  BY DEF SettledViewIsStored
<1>1. TypeInv /\ UserOf(u) \in Users
  BY ScenarioTypes DEF CoreInv, TreeInv
<1>2. Fetched(u) = {} /\ Carried(u, Mutations) = {}
  BY DEF Settled, Own, Fetched, Arrived, Carried
<1>3. page[u].rows = Now(u)
  BY <1>2 DEF UpToDateInv, UpToDate, Account, RowsShown
<1> QED BY <1>1, <1>3, ListingNow DEF Now

\* What requests have read is there, and fresh unless they are outdated.
THEOREM FreshInvariant == Spec => [](Born /\ Fresh)
<1>1. Init => Born /\ Fresh
  BY FreshStarts
<1>2. CoreInv /\ (Born /\ Fresh) /\ [Next]_<<vars, scenario>> => (Born /\ Fresh)'
  BY FreshKept
<1> QED BY <1>1, <1>2, CoreInvariant, PTL DEF Spec

\* A page that has no request under way shows what the server would list
\* (useWorkspaceItems), whatever its user and others do, unless one of the mishaps
\* happened since it was loaded.
THEOREM SettledPagesShowWhatIsStored == Spec => []SettledViewIsStored
<1>1. Init => UpToDateInv
  BY UpToDateStarts
<1>2. CoreInv /\ (Born /\ Fresh) /\ UpToDateInv /\ [Next]_<<vars, scenario>> => UpToDateInv'
  BY UpToDateKept
<1>3. CoreInv /\ UpToDateInv => SettledViewIsStored
  BY UpToDateShows
<1> QED BY <1>1, <1>2, <1>3, CoreInvariant, FreshInvariant, PTL DEF Spec
=============================================================================
