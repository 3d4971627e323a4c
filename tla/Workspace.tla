------------------------------ MODULE Workspace ------------------------------
(***************************************************************************)
(* The tree of folders and documents on the server: WorkspaceService of    *)
(* domain/workspace/service.py.                                            *)
(*                                                                         *)
(* A request runs in a transaction of its own, without locks.  It reads    *)
(* what it needs and checks it, commits its change, and reads the item     *)
(* again for the answer; others commit in between.  Each of the three is   *)
(* one step here, the queries of a check are made at one moment.           *)
(*                                                                         *)
(* The session keeps the objects it has loaded (expire_on_commit=False):   *)
(* the answer shows the item and its collaborators as they were read for   *)
(* the check, changed by what the request assigned to them. The folders    *)
(* above it are taken as they are when the answer is made.                 *)
(***************************************************************************)
EXTENDS Integers, FiniteSets

CONSTANTS Users, Items, Names,
          Root,           \* the parent of items that are in no folder
          Slots,          \* bound: requests under way
          InitialTrees    \* the trees to start with

\* An item: identifiers no item has yet have status "none".
ItemRecords == [status : {"none", "live", "deleted"}, kind : {"folder", "document"},
                name : Names, owner : Users, parent : Items \cup {Root}]

Trees == [items : [Items -> ItemRecords],
          shares : [Items -> [Users -> {"none", "read", "write"}]]]

Live(w) == {i \in Items : w[i].status = "live"}

-----------------------------------------------------------------------------
(* The walks along the tree, for the items w.                              *)

\* A walk up from x comes to the item a: it goes on from live items.
Reaches(w, x, a) ==
  \A S \in SUBSET Items :
    x \in S /\ (\A y \in S \cap Live(w) : w[y].parent # Root => w[y].parent \in S) => a \in S

\* is_descendant_of.
IsDescendantOf(w, x, a) == x # Root /\ Reaches(w, x, a)

\* load_ancestors_for_access: the folders from p upward.
LoadAncestors(w, p) == {a \in Live(w) : w[a].kind = "folder" /\ IsDescendantOf(w, p, a)}

\* The live items a walk down from i comes to.
CollectDescendantIds(w, i) ==
  {y \in Live(w) :
     \A S \in SUBSET Items :
       i \in S /\ (\A z \in Live(w) : w[z].parent \in S => z \in S) => y \in S}

-----------------------------------------------------------------------------
(* What makes a tree sound.                                                *)

\* From every live item a walk up ends: no set of live items holds the parents
\* of all its members.
Acyclic(w) == \A S \in SUBSET Live(w) : S # {} => \E i \in S : w[i].parent \notin S

\* The parent of a live item is a live folder.
NoOrphans(w) ==
  \A i \in Live(w) : w[i].parent # Root =>
    w[i].parent \in Live(w) /\ w[w[i].parent].kind = "folder"

\* Names differ in a folder, and in what a user has in none.
Homonyms(w, i, j) ==
  /\ w[i].name = w[j].name /\ w[i].parent = w[j].parent
  /\ w[i].parent = Root => w[i].owner = w[j].owner

UniqueNames(w) == \A i, j \in Live(w) : i # j => ~Homonyms(w, i, j)

Sound(w) == Acyclic(w) /\ NoOrphans(w) /\ UniqueNames(w)

ASSUME WorkspaceAssumption ==
  /\ Root \notin Items
  /\ InitialTrees \subseteq Trees
  /\ \A t \in InitialTrees :
       /\ Sound(t.items)
       /\ \A i \in Items : t.items[i].status = "none" => \A u \in Users : t.shares[i][u] = "none"

VARIABLES
  items, shares,  \* the tables
  requests,       \* the requests under way, by slot
  outdated,       \* history: slots checked before another request committed
  overlapped      \* history: whether an outdated request committed

tables == <<items, shares>>
serverVars == <<tables, requests, outdated, overlapped>>

-----------------------------------------------------------------------------
(* Access.                                                                 *)

Collaborators(i) == {c \in [user : Users, permission : {"read", "write"}] :
                       shares[i][c.user] = c.permission}

\* An item with its shares, as a request loads it.
Loaded(i) == [item |-> i, kind |-> items[i].kind, name |-> items[i].name,
              owner |-> items[i].owner, parent |-> items[i].parent,
              collaborators |-> Collaborators(i)]

\* resolve_access: the owner, or the best of what the direct share and the
\* folders above the item grant.
ResolveAccess(u, o) ==
  LET granted == {c.permission : c \in {d \in o.collaborators : d.user = u}} \cup
                 {IF items[a].owner = u THEN "write" ELSE shares[a][u] :
                    a \in LoadAncestors(items, o.parent)}
  IN  IF o.owner = u THEN "owner"
      ELSE IF "write" \in granted THEN "write"
      ELSE IF "read" \in granted THEN "read" ELSE "none"

\* get_accessible_record, with the access that is asked for.
Accessible(u, i, access) == i \in Live(items) /\ ResolveAccess(u, Loaded(i)) \in access

CanRead(u, i)  == Accessible(u, i, {"read", "write", "owner"})
CanWrite(u, i) == Accessible(u, i, {"write", "owner"})
IsOwner(u, i)  == Accessible(u, i, {"owner"})

\* assert_writable_parent.
WritableParent(u, p) == p = Root \/ (items[p].kind = "folder" /\ CanWrite(u, p))

\* assert_name_available, for an item with this name, owner and parent.
NameAvailable(n, o, p, except) ==
  \A j \in Live(items) \ except :
    ~(items[j].name = n /\ items[j].parent = p /\ (p = Root => items[j].owner = o))

-----------------------------------------------------------------------------
(* What is shown of items.                                                 *)

SharingStatus(permission, collaborators) ==
  IF permission # "owner" THEN "shared-with-me"
  ELSE IF collaborators # {} THEN "shared-by-me" ELSE "private"

\* to_workspace_item_response.
ToResponse(u, o) ==
  LET permission == ResolveAccess(u, o)
  IN  [item |-> o.item, kind |-> o.kind, name |-> o.name, parent |-> o.parent,
       permission |-> permission, sharing |-> SharingStatus(permission, o.collaborators),
       canWrite |-> permission \in {"write", "owner"}, canManage |-> permission = "owner",
       collaborators |-> o.collaborators]

\* find_children, or find_root_visible_items, as far as they are accessible.
ListItems(u, folder) ==
  {ToResponse(u, Loaded(i)) : i \in {j \in Live(items) :
     /\ CanRead(u, j)
     /\ IF folder # Root THEN items[j].parent = folder
        ELSE IF items[j].owner = u THEN items[j].parent = Root
        ELSE shares[j][u] # "none"}}

\* list_move_targets.
ListMoveTargets(u, i) ==
  {[id |-> t, canMoveHere |-> t # items[i].parent] :
     t \in {Root} \cup {f \in Live(items) :
              /\ items[f].kind = "folder" /\ CanWrite(u, f)
              /\ items[i].kind = "folder" => ~IsDescendantOf(items, f, i)}}

-----------------------------------------------------------------------------
(* Requests.                                                               *)

Mutations == {"create", "rename", "delete", "move", "share", "update", "remove"}
Readings  == {"list", "targets", "collaborators"}

\* Of the fields an operation uses some.
Requests == [op : Mutations \cup Readings, user : Users, item : Items \cup {Root},
             to : Items \cup {Root}, name : Names, kind : {"folder", "document"},
             with : Users, permission : {"read", "write"}]

NoRequest == [stage |-> "none"]

Stages == {"none", "sent", "checked", "committed", "answered"}

Under(stage) == {s \in Slots : requests[s].stage = stage}

\* The conditions under which an operation is not refused.
CreateAdmitted(q) == WritableParent(q.user, q.to) /\ NameAvailable(q.name, q.user, q.to, {})

RenameAdmitted(q) ==
  CanWrite(q.user, q.item)
  /\ NameAvailable(q.name, items[q.item].owner, items[q.item].parent, {q.item})

\* Mistake: only the item itself is no target.
MoveAdmittedAnywhere(q) ==
  /\ CanWrite(q.user, q.item)
  /\ WritableParent(q.user, q.to)
  /\ q.to # q.item
  /\ NameAvailable(items[q.item].name, items[q.item].owner, q.to, {q.item})

MoveAdmitted(q) ==
  /\ CanWrite(q.user, q.item)
  /\ WritableParent(q.user, q.to)
  /\ items[q.item].kind = "folder" => ~IsDescendantOf(items, q.to, q.item)
  /\ NameAvailable(items[q.item].name, items[q.item].owner, q.to, {q.item})

ShareAdmitted(q) ==
  IsOwner(q.user, q.item) /\ q.with # items[q.item].owner /\ shares[q.item][q.with] = "none"

CollaboratorAdmitted(q) == IsOwner(q.user, q.item) /\ shares[q.item][q.with] # "none"

Admitted(q) ==
  CASE q.op = "create" -> CreateAdmitted(q)
    [] q.op = "rename" -> RenameAdmitted(q)
    [] q.op = "delete" -> IsOwner(q.user, q.item)
    [] q.op = "move"   -> MoveAdmitted(q)
    [] q.op = "share"  -> ShareAdmitted(q)
    [] OTHER           -> CollaboratorAdmitted(q)

-----------------------------------------------------------------------------
(* Steps of the server.                                                    *)

Becomes(s, r) == requests' = [requests EXCEPT ![s] = r]

Refused(q) == [stage |-> "answered", q |-> q, ok |-> FALSE]

\* A request arrives.
Submit(s, q) ==
  /\ requests[s] = NoRequest
  /\ Becomes(s, [stage |-> "sent", q |-> q])
  /\ UNCHANGED <<tables, outdated, overlapped>>

\* A reading request is answered.
Read(s) ==
  LET q == requests[s].q
      Answered(ok, result) ==
        Becomes(s, IF ok THEN [stage |-> "answered", q |-> q, ok |-> TRUE, result |-> result]
                   ELSE Refused(q))
  IN  /\ s \in Under("sent")
      /\ \/ /\ q.op = "list"
            /\ Answered(q.to = Root \/ (CanRead(q.user, q.to) /\ items[q.to].kind = "folder"),
                        ListItems(q.user, q.to))
         \/ q.op = "targets" /\ Answered(CanWrite(q.user, q.item), ListMoveTargets(q.user, q.item))
         \/ q.op = "collaborators" /\ Answered(CanRead(q.user, q.item), Collaborators(q.item))
      /\ UNCHANGED <<tables, outdated, overlapped>>

\* A mutation is checked, and what it has read is kept.
Check(s) ==
  LET q == requests[s].q
  IN  /\ s \in Under("sent") /\ q.op \in Mutations
      /\ Becomes(s, IF Admitted(q)
                    THEN [stage |-> "checked", q |-> q,
                          found |-> IF q.op = "delete" THEN CollectDescendantIds(items, q.item) ELSE {},
                          shown |-> IF q.op \in {"create", "delete"} THEN {}
                                    ELSE {Loaded(q.item)}]
                    ELSE Refused(q))
      /\ outdated' = outdated \ {s}
      /\ UNCHANGED <<tables, overlapped>>

\* A commit makes the other requests that are checked outdated. The objects that
\* were loaded are shown with what was assigned to them.
Commits(s, q, shown) ==
  /\ Becomes(s, [stage |-> "committed", q |-> q, shown |-> shown])
  /\ outdated' = (outdated \cup Under("checked")) \ {s}
  /\ overlapped' = (overlapped \/ s \in outdated)

Pending(s, op) == s \in Under("checked") /\ requests[s].q.op = op

\* A new item has no collaborators.
CreateItem(s) ==
  LET q == requests[s].q
  IN  /\ Pending(s, "create")
      /\ \E i \in Items :
           /\ items[i].status = "none"
           /\ items' = [items EXCEPT ![i] = [status |-> "live", kind |-> q.kind, name |-> q.name,
                                             owner |-> q.user, parent |-> q.to]]
           /\ Commits(s, [q EXCEPT !.item = i],
                      {[item |-> i, kind |-> q.kind, name |-> q.name, owner |-> q.user,
                        parent |-> q.to, collaborators |-> {}]})
      /\ UNCHANGED shares

RenameItem(s) ==
  LET q == requests[s].q
  IN  /\ Pending(s, "rename")
      /\ items' = [items EXCEPT ![q.item].name = q.name]
      /\ Commits(s, q, {[o EXCEPT !.name = q.name] : o \in requests[s].shown})
      /\ UNCHANGED shares

\* Mistake: only the item itself is marked.
DeleteItemOnly(s) ==
  LET q == requests[s].q
  IN  /\ Pending(s, "delete")
      /\ items' = [items EXCEPT ![q.item].status = "deleted"]
      /\ Commits(s, q, {})
      /\ UNCHANGED shares

\* The item and the descendants that were found are marked.
DeleteItem(s) ==
  LET q == requests[s].q
  IN  /\ Pending(s, "delete")
      /\ items' = [i \in Items |-> IF i = q.item \/ i \in requests[s].found
                                   THEN [items[i] EXCEPT !.status = "deleted"] ELSE items[i]]
      /\ Commits(s, q, {})
      /\ UNCHANGED shares

MoveItem(s) ==
  LET q == requests[s].q
  IN  /\ Pending(s, "move")
      /\ items' = [items EXCEPT ![q.item].parent = q.to]
      /\ Commits(s, q, {[o EXCEPT !.parent = q.to] : o \in requests[s].shown})
      /\ UNCHANGED shares

\* The commit of a row that refers to a share fails if the share is there
\* already, or is not there any more.
Conflicts(s) ==
  LET q == requests[s].q
  IN  /\ \/ Pending(s, "share") /\ shares[q.item][q.with] # "none"
         \/ Pending(s, "update") /\ shares[q.item][q.with] = "none"
      /\ Becomes(s, Refused(q))
      /\ outdated' = outdated \ {s}
      /\ UNCHANGED <<tables, overlapped>>

\* The new row is not among the collaborators that were loaded.
ShareItem(s) ==
  LET q == requests[s].q
  IN  /\ Pending(s, "share") /\ shares[q.item][q.with] = "none"
      /\ shares' = [shares EXCEPT ![q.item][q.with] = q.permission]
      /\ Commits(s, q, requests[s].shown)
      /\ UNCHANGED items

UpdateCollaborator(s) ==
  LET q == requests[s].q
      Changed(c) == IF c.user = q.with THEN [c EXCEPT !.permission = q.permission] ELSE c
  IN  /\ Pending(s, "update") /\ shares[q.item][q.with] # "none"
      /\ shares' = [shares EXCEPT ![q.item][q.with] = q.permission]
      /\ Commits(s, q, {[o EXCEPT !.collaborators = {Changed(c) : c \in @}] :
                          o \in requests[s].shown})
      /\ UNCHANGED items

\* The row that is deleted stays among those that were loaded.
RemoveCollaborator(s) ==
  LET q == requests[s].q
  IN  /\ Pending(s, "remove")
      /\ shares' = [shares EXCEPT ![q.item][q.with] = "none"]
      /\ Commits(s, q, requests[s].shown)
      /\ UNCHANGED items

Commit(s) ==
  \/ CreateItem(s) \/ RenameItem(s) \/ DeleteItem(s) \/ MoveItem(s)
  \/ ShareItem(s) \/ UpdateCollaborator(s) \/ RemoveCollaborator(s)

\* get_item, after the commit; it refuses an item that is gone or out of reach.
Answer(s) ==
  LET q == requests[s].q
      shown == requests[s].shown
      reached == \A o \in shown : o.item \in Live(items) /\ ResolveAccess(q.user, o) # "none"
  IN  /\ s \in Under("committed")
      /\ Becomes(s, IF reached THEN [stage |-> "answered", q |-> q, ok |-> TRUE,
                                     result |-> {ToResponse(q.user, o) : o \in shown}]
                    ELSE Refused(q))
      /\ UNCHANGED <<tables, outdated, overlapped>>

\* A request or its answer is lost on the way.
Lose(s) ==
  /\ s \in Under("sent") \cup Under("committed")
  /\ Becomes(s, Refused(requests[s].q))
  /\ UNCHANGED <<tables, outdated, overlapped>>

\* The answer is delivered.
Deliver(s) ==
  /\ s \in Under("answered")
  /\ Becomes(s, NoRequest)
  /\ UNCHANGED <<tables, outdated, overlapped>>

-----------------------------------------------------------------------------
ServerInit ==
  /\ \E t \in InitialTrees : items = t.items /\ shares = t.shares
  /\ requests = [s \in Slots |-> NoRequest]
  /\ outdated = {} /\ overlapped = FALSE

Serve(s) == Read(s) \/ Check(s) \/ Commit(s) \/ Conflicts(s) \/ Answer(s)

\* Anybody requests anything of an item.
Arrive(s) == \E q \in Requests : (q.op \in {"create", "list"} \/ q.item \in Items) /\ Submit(s, q)

ServerNext == \E s \in Slots : Serve(s) \/ Arrive(s) \/ Lose(s) \/ Deliver(s)

ServerSpec == ServerInit /\ [][ServerNext]_serverVars

-----------------------------------------------------------------------------
(* Properties.                                                             *)

\* The tree has no cycles, nothing live is in a deleted folder, and names differ
\* ("cycle validation", move_item; "Soft-delete an item and all descendants",
\* delete_item; "Reject duplicate active sibling names", assert_name_available),
\* as long as no request commits what it checked before another commit.
TreeIsSound == ~overlapped => Sound(items)
=============================================================================
