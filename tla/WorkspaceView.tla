---------------------------- MODULE WorkspaceView ----------------------------
(***************************************************************************)
(* Workspace pages of one or several users and the server of module        *)
(* Workspace: pages/WorkspacePage.tsx with its dialogs, and the hooks      *)
(* useWorkspace, useWorkspaceItems and useWorkspaceActions.                *)
(*                                                                         *)
(* A page shows one folder. It loads the folder's items once, and then     *)
(* keeps them up to date with the answers to its own requests. A dialog    *)
(* that was left with its request under way may be followed by another     *)
(* one, whatever the request then answers.                                 *)
(*                                                                         *)
(* A form is filled in at the moment it is submitted, a filter is chosen   *)
(* at the moment a row is used, and a list is a set: nothing depends on    *)
(* what is typed or chosen meanwhile, and the page sorts what it shows.    *)
(* The messages of failed requests are left out.                           *)
(***************************************************************************)
EXTENDS Workspace

CONSTANTS Pages,      \* the pages, or tabs
          Scenarios   \* the instances, one of which a behaviour is

\* An instance: the tree to start with, the pages with their users and folders,
\* the mutations that are made, the names that are typed, and bounds: the dialogs,
\* the mutations and the refreshes of one page; and what may fail.
ASSUME ScenariosAssumption ==
  /\ Scenarios \subseteq
       [tree : InitialTrees,
        pages : UNION {[P -> [user : Users, folder : Items \cup {Root}]] : P \in SUBSET Pages},
        ops : SUBSET Mutations, names : SUBSET (Names \cup {""}),
        maxDialogs : Nat, maxMutations : Nat, maxRefreshes : Nat,
        failures : SUBSET {"network"}]

VARIABLES scenario,
          page,    \* the state of the page and of its hooks
          budget   \* dialogs, mutations and refreshes that are left

viewVars == <<page, budget>>
vars == <<serverVars, viewVars>>

Readers == DOMAIN scenario.pages
UserOf(u) == scenario.pages[u].user

Closed == [type |-> "closed"]

\* listing, asked and refreshing are the slots of the requests whose answer is
\* waited for: of the listing, of the collaborators of the share dialog that was
\* opened, and of those after a change. mishaps is history no code
\* keeps: what happened since the last listing after which the page need not
\* agree with the server.
\*   elsewhere   another page changed something
\*   overtaken   a listing, or collaborators, that were read before an own change
\*               are answered after it
\*   crossed     two own requests were under way at a time
\*   unanswered  a request was carried out, and the user told that it was not, or
\*               collaborators could not be loaded
\*   sharing     a share was added or removed: the answer does not show it
\*   foreign     an item was changed that the page shows in no folder because it is
\*               shared
\*   nested      an item was deleted or moved with others below it that the page
\*               shows beside it, or with the folder of the page
\*   left        a dialog was left with its request under way
NoPage == [folder |-> Root, rows |-> {}, listing |-> {}, listError |-> FALSE, dialog |-> Closed,
           targets |-> {}, loadingTargets |-> FALSE, sharees |-> {}, asked |-> {}, refreshing |-> {},
           mishaps |-> {}]

-----------------------------------------------------------------------------
(* The client of the service. The fields a request does not use are those  *)
(* of its item; the page is known by the slot it waits for.                *)

RowRequest(u, op, row) ==
  [op |-> op, by |-> u, user |-> UserOf(u), item |-> row.item, to |-> row.parent, name |-> row.name,
   kind |-> row.kind, with |-> UserOf(u), permission |-> "read"]

FolderRequest(u, op, folder) ==
  [op |-> op, by |-> u, user |-> UserOf(u), item |-> Root, to |-> folder, name |-> CHOOSE n \in Names : TRUE,
   kind |-> "folder", with |-> UserOf(u), permission |-> "read"]

ListRequest(u, folder) == FolderRequest(u, "list", folder)
CollaboratorsRequest(u, row) == RowRequest(u, "collaborators", row)
TargetsRequest(u, row) == RowRequest(u, "targets", row)
CreateFolderRequest(u, n, folder) == [FolderRequest(u, "create", folder) EXCEPT !.name = n]
CreateDocumentRequest(u, n, folder) ==
  [FolderRequest(u, "create", folder) EXCEPT !.name = n, !.kind = "document"]
RenameRequest(u, row, n) == [RowRequest(u, "rename", row) EXCEPT !.name = n]
DeleteRequest(u, row) == RowRequest(u, "delete", row)
MoveRequest(u, row, target) == [RowRequest(u, "move", row) EXCEPT !.to = target]

ToBackendPermission(p) == IF p = "write" THEN "write" ELSE "read"

ShareRequest(u, row, user, p) ==
  [RowRequest(u, "share", row) EXCEPT !.with = user, !.permission = ToBackendPermission(p)]
UpdateRequest(u, row, user, p) ==
  [RowRequest(u, "update", row) EXCEPT !.with = user, !.permission = ToBackendPermission(p)]
RemoveRequest(u, row, user) == [RowRequest(u, "remove", row) EXCEPT !.with = user]

\* What a page makes of the answers.
ToPermissionLevel(role) ==
  CASE role = "owner" -> "owner" [] role \in {"editor", "write"} -> "write" [] OTHER -> "read"

ToCollaborators(collaborators) ==
  {[c EXCEPT !.permission = ToPermissionLevel(@)] : c \in collaborators}

ToWorkspaceItem(item) == [item EXCEPT !.permission = ToPermissionLevel(@),
                                      !.collaborators = ToCollaborators(@)]

ToWorkspaceItems(result) == {ToWorkspaceItem(item) : item \in result}

\* A slot that is free.
Free == {s \in Slots : requests[s] = NoRequest}
Slot == CHOOSE s \in Free : TRUE

Sends(q) == Free # {} /\ Submit(Slot, q)

Own(u, ops) == {s \in Slots : requests[s] # NoRequest /\ requests[s].q.by = u
                              /\ requests[s].q.op \in ops}

\* The pages are loaded.
Init ==
  /\ scenario \in Scenarios
  /\ items = scenario.tree.items /\ shares = scenario.tree.shares
  /\ requests = [s \in Slots |-> NoRequest] /\ outdated = {} /\ overlapped = FALSE
  /\ page = [u \in Pages |->
               IF u \in Readers
               THEN [NoPage EXCEPT !.folder = scenario.pages[u].folder,
                                   !.rows = ToWorkspaceItems(ListItems(UserOf(u), scenario.pages[u].folder))]
               ELSE NoPage]
  /\ budget = [u \in Pages |-> [dialogs   |-> scenario.maxDialogs,
                                mutations |-> scenario.maxMutations,
                                refreshes |-> scenario.maxRefreshes]]

Shows(u, r) == page' = [page EXCEPT ![u] = r]

Mishap(r, name, happened) == [r EXCEPT !.mishaps = IF happened THEN @ \cup {name} ELSE @]

-----------------------------------------------------------------------------
(* The items of the page (useWorkspaceItems).                              *)

\* The button is disabled while a listing is loaded.
Refresh(u) ==
  /\ page[u].listing = {} /\ budget[u].refreshes > 0
  /\ Sends(ListRequest(u, page[u].folder))
  /\ Shows(u, [page[u] EXCEPT !.listing = {Slot}, !.listError = FALSE])
  /\ budget' = [budget EXCEPT ![u].refreshes = @ - 1]

\* Mistake: the answer is added to what is displayed.
ListingEndsAdding(u) ==
  \E s \in page[u].listing :
    /\ Deliver(s)
    /\ Shows(u, [page[u] EXCEPT !.listing = {}, !.listError = ~requests[s].ok,
                                !.rows = IF requests[s].ok THEN @ \cup ToWorkspaceItems(requests[s].result)
                                         ELSE @])
    /\ UNCHANGED budget

\* Items that were displayed stay if the request fails.
ListingEnds(u) ==
  \E s \in page[u].listing :
    /\ Deliver(s)
    /\ Shows(u, [page[u] EXCEPT !.listing = {}, !.listError = ~requests[s].ok,
                                !.rows = IF requests[s].ok THEN ToWorkspaceItems(requests[s].result)
                                         ELSE @])
    /\ UNCHANGED budget

\* Mistake: the row is kept where it is displayed, wherever the item is now.
UpsertKeeping(r, row) ==
  [r EXCEPT !.rows = {x \in @ : x.item # row.item} \cup {row}]

UpsertItem(r, row) ==
  [r EXCEPT !.rows = {x \in @ : x.item # row.item}
                     \cup (IF row.parent = r.folder THEN {row} ELSE {})]

RemoveItem(r, i) == [r EXCEPT !.rows = {x \in @ : x.item # i}]

\* The sections of the sidebar.
Filters == {"all", "private", "shared-by-me", "shared-with-me"}

FilterWorkspaceItems(rows, filter) == {r \in rows : filter = "all" \/ r.sharing = filter}

\* The rows a user finds under one of them.
VisibleItems(u) == UNION {FilterWorkspaceItems(page[u].rows, f) : f \in Filters}

-----------------------------------------------------------------------------
(* Dialogs.                                                                *)

CanRename(row) == row.canWrite
CanMove(row)   == row.canWrite
CanShare(row)  == row.canManage
CanDelete(row) == row.canManage

\* The menu of a row.
CanOpen(type, row) ==
  CASE type = "rename" -> CanRename(row) [] type = "move" -> CanMove(row)
    [] type = "share" -> CanShare(row)   [] type = "delete" -> CanDelete(row)

\* The dialog a mutation is made in.
DialogOf(op) == IF op \in {"share", "update", "remove"} THEN "share" ELSE op

Offered(u, type) ==
  /\ page[u].dialog = Closed /\ budget[u].dialogs > 0
  /\ \E op \in scenario.ops : DialogOf(op) = type
  /\ budget' = [budget EXCEPT ![u].dialogs = @ - 1]

OpenCreate(u, kind) ==
  /\ Offered(u, "create")
  /\ Shows(u, [page[u] EXCEPT !.dialog = [type |-> "create", kind |-> kind]])
  /\ UNCHANGED serverVars

OpenRow(u, type, row) ==
  Offered(u, type) /\ row \in VisibleItems(u) /\ CanOpen(type, row)

OpenPlain(u, type) ==
  /\ type \in {"rename", "delete"}
  /\ \E row \in page[u].rows :
       /\ OpenRow(u, type, row)
       /\ Shows(u, [page[u] EXCEPT !.dialog = [type |-> type, row |-> row]])
  /\ UNCHANGED serverVars

\* The dialog to move an item loads its targets; those of the last one that were
\* loaded are still there.
OpenMove(u) ==
  \E row \in page[u].rows :
    /\ OpenRow(u, "move", row)
    /\ Sends(TargetsRequest(u, row))
    /\ Shows(u, [page[u] EXCEPT !.dialog = [type |-> "move", row |-> row], !.loadingTargets = TRUE])

\* Mistake: the collaborators of the last dialog are not replaced.
OpenShareOver(u) ==
  \E row \in page[u].rows :
    /\ OpenRow(u, "share", row)
    /\ Sends(CollaboratorsRequest(u, row))
    /\ Shows(u, [page[u] EXCEPT !.dialog = [type |-> "share", row |-> row]])

\* The dialog to share an item shows the collaborators of its row, and loads them.
OpenShare(u) ==
  \E row \in page[u].rows :
    /\ OpenRow(u, "share", row)
    /\ Sends(CollaboratorsRequest(u, row))
    /\ Shows(u, [page[u] EXCEPT !.dialog = [type |-> "share", row |-> row],
                                !.sharees = row.collaborators, !.asked = {Slot}])

\* The state without a dialog: the collaborators are forgotten, and an answer
\* with them is not waited for any more.
WithoutDialog(r) ==
  [r EXCEPT !.dialog = Closed,
            !.sharees = IF r.dialog.type = "share" THEN {} ELSE @,
            !.asked = IF r.dialog.type = "share" THEN {} ELSE @]

\* Escape, the close button, or a click beside the dialog: also while its request
\* is under way.
CloseDialog(u) ==
  /\ page[u].dialog # Closed
  /\ Shows(u, Mishap(WithoutDialog(page[u]), "left",
                     \/ \E s \in Own(u, Mutations) : DialogOf(requests[s].q.op) = page[u].dialog.type
                     \/ page[u].refreshing # {}))
  /\ UNCHANGED <<serverVars, budget>>

\* An answer with the targets is taken over, whichever item they are of.
TargetsEnd(u) ==
  \E s \in Own(u, {"targets"}) :
    /\ Deliver(s)
    /\ Shows(u, [page[u] EXCEPT !.loadingTargets = FALSE,
                   !.targets = IF requests[s].ok THEN requests[s].result ELSE @])
    /\ UNCHANGED budget

\* Those of the share dialog, if it is still open.
CollaboratorsEnd(u) ==
  \E s \in Own(u, {"collaborators"}) :
    /\ \A r \in page[u].refreshing : r.slot # s
    /\ Deliver(s)
    /\ Shows(u, [page[u] EXCEPT !.asked = @ \ {s},
                   !.sharees = IF requests[s].ok /\ s \in page[u].asked
                               THEN ToCollaborators(requests[s].result) ELSE @])
    /\ UNCHANGED budget

\* Those after a change, whichever dialog is open; the ones of the change, if they
\* could not be loaded.
RefreshEnds(u) ==
  \E r \in page[u].refreshing :
    /\ Deliver(r.slot)
    /\ Shows(u, [page[u] EXCEPT !.refreshing = @ \ {r},
                   !.sharees = IF requests[r.slot].ok THEN ToCollaborators(requests[r.slot].result)
                               ELSE r.collaborators])
    /\ UNCHANGED budget

-----------------------------------------------------------------------------
(* Mutations (useWorkspaceActions).                                        *)

\* A hook is loading from its request to the answer; the share dialog has three.
IsCreating(u) == Own(u, {"create"}) # {}
IsRenaming(u) == Own(u, {"rename"}) # {}
IsDeleting(u) == Own(u, {"delete"}) # {}
IsMoving(u)   == Own(u, {"move"}) # {}
IsSharing(u)  == Own(u, {"share", "update", "remove"}) # {}

\* The message of the last request is reset.
Execute(u, q) ==
  /\ q.op \in scenario.ops /\ budget[u].mutations > 0
  /\ Sends(q)
  /\ UNCHANGED page
  /\ budget' = [budget EXCEPT ![u].mutations = @ - 1]

\* What the forms of the open dialog submit. Their buttons are disabled while a hook
\* is loading.
Enabled(u, type, submitting) == page[u].dialog.type = type /\ ~submitting

NamesToCreate(u) == {n \in scenario.names : Enabled(u, "create", IsCreating(u)) /\ n # ""}

NamesToRename(u) == {n \in scenario.names : Enabled(u, "rename", IsRenaming(u)) /\ n # ""}

ConfirmsDeletion(u) == Enabled(u, "delete", IsDeleting(u))

\* Targets can be chosen when they are loaded.
Destinations(u) ==
  {t.id : t \in {t \in page[u].targets :
       Enabled(u, "move", IsMoving(u)) /\ ~page[u].loadingTargets /\ t.canMoveHere}}

Invitations(u) ==
  {i \in [user : Users, permission : {"read", "write"}] : Enabled(u, "share", IsSharing(u))}

\* The collaborators with controls.
CollaboratorRows(u) ==
  {c \in page[u].sharees : Enabled(u, "share", IsSharing(u)) /\ c.permission # "owner"}

HandleCreate(u) ==
  \E n \in NamesToCreate(u) :
    Execute(u, IF page[u].dialog.kind = "folder" THEN CreateFolderRequest(u, n, page[u].folder)
               ELSE CreateDocumentRequest(u, n, page[u].folder))

HandleRename(u) ==
  \E n \in NamesToRename(u) : Execute(u, RenameRequest(u, page[u].dialog.row, n))

HandleDelete(u) == ConfirmsDeletion(u) /\ Execute(u, DeleteRequest(u, page[u].dialog.row))

HandleMove(u) == \E t \in Destinations(u) : Execute(u, MoveRequest(u, page[u].dialog.row, t))

HandleInvite(u) ==
  \E i \in Invitations(u) : Execute(u, ShareRequest(u, page[u].dialog.row, i.user, i.permission))

HandleUpdateCollaborator(u) ==
  \E c \in CollaboratorRows(u) : \E p \in {"read", "write"} \ {c.permission} :
    Execute(u, UpdateRequest(u, page[u].dialog.row, c.user, p))

HandleRemoveCollaborator(u) ==
  \E c \in CollaboratorRows(u) : Execute(u, RemoveRequest(u, page[u].dialog.row, c.user))

\* What is done with the answer to a request that was carried out.
Succeeds(r, q, result) ==
  IF q.op = "delete" THEN RemoveItem(r, q.item)
  ELSE UpsertItem(r, ToWorkspaceItem(CHOOSE item \in result : TRUE))

\* Mistake: the dialog is closed whatever the answer.
MutationEndsClosing(u) ==
  \E s \in Own(u, Mutations \ {"share", "update", "remove"}) :
    LET q == requests[s].q IN
    /\ Deliver(s)
    /\ Shows(u, WithoutDialog(IF ~requests[s].ok THEN page[u]
                              ELSE Succeeds(page[u], q, requests[s].result)))
    /\ UNCHANGED budget

\* The answer to a mutation of any other dialog than the share dialog: the item
\* is displayed as it is now, and the dialog is closed, whichever it is.
MutationEnds(u) ==
  \E s \in Own(u, Mutations \ {"share", "update", "remove"}) :
    LET q == requests[s].q IN
    /\ Deliver(s)
    /\ Shows(u, IF ~requests[s].ok THEN page[u]
                ELSE WithoutDialog(Succeeds(page[u], q, requests[s].result)))
    /\ UNCHANGED budget

\* After a change of collaborators they are shown as in the answer, and asked for.
SharingEnds(u) ==
  \E s \in Own(u, {"share", "update", "remove"}) :
    LET q == requests[s].q IN
    /\ s \in Under("answered")
    /\ IF requests[s].ok
       THEN LET row == ToWorkspaceItem(CHOOSE item \in requests[s].result : TRUE)
            IN  /\ requests' = [requests EXCEPT ![s] =
                     [stage |-> "sent", q |-> CollaboratorsRequest(u, row)]]
                /\ Shows(u, [Succeeds(page[u], q, requests[s].result) EXCEPT
                               !.sharees = row.collaborators,
                               !.refreshing = @ \cup {[slot |-> s,
                                                      collaborators |-> row.collaborators]}])
       ELSE /\ requests' = [requests EXCEPT ![s] = NoRequest]
            /\ Shows(u, page[u])
    /\ UNCHANGED <<tables, outdated, overlapped, budget>>

-----------------------------------------------------------------------------
(* The server, with what its steps mean for the pages.                     *)

\* A listing that is read starts a new account, unless a share dialog is open: it
\* keeps the collaborators it has.
Lists(s) ==
  LET q == requests[s].q
      u == q.by
      afresh == q.op = "list" /\ requests'[s].ok /\ page[u].dialog.type # "share"
                /\ Own(u, Mutations \cup {"collaborators"}) = {}
  IN  /\ Read(s)
      /\ Shows(u, IF afresh THEN [page[u] EXCEPT !.mishaps = @ \cap {"left"}]
                  ELSE Mishap(page[u], "unanswered", q.op = "collaborators" /\ ~requests'[s].ok))

\* The page shows something below the item i, apart from i itself.
ShownBelow(u, i) ==
  IF page[u].folder # Root THEN IsDescendantOf(items, page[u].folder, i)
  ELSE \E row \in page[u].rows : row.item # i /\ IsDescendantOf(items, row.item, i)

Happened(s) ==
  LET q == requests'[s].q
      u == q.by
      happened == [crossed   |-> s \in outdated \/ Own(u, Mutations) # {s},
                   overtaken |-> Own(u, {"list", "collaborators"}) \cap Under("answered") # {},
                   sharing   |-> q.op \in {"share", "remove"},
                   foreign   |-> q.op \notin {"create", "delete"}
                                 /\ page[u].folder = Root /\ items[q.item].owner # q.user,
                   nested    |-> q.op \in {"delete", "move"} /\ ShownBelow(u, q.item)]
  IN  page' = [v \in Pages |->
                 IF v # u THEN Mishap(page[v], "elsewhere", TRUE)
                 ELSE [page[u] EXCEPT !.mishaps = @ \cup {m \in DOMAIN happened : happened[m]}]]

Unanswered(s) ==
  page' = [page EXCEPT ![requests[s].q.by] =
             Mishap(@, "unanswered", ~requests'[s].ok /\ (\/ requests[s].stage = "committed"
                                                         \/ requests[s].q.op = "collaborators"))]

Server(s) ==
  /\ \/ Lists(s) /\ UNCHANGED budget
     \/ Check(s) /\ UNCHANGED viewVars
     \/ Commit(s) /\ Happened(s) /\ UNCHANGED budget
     \/ Conflicts(s) /\ UNCHANGED viewVars
     \/ Answer(s) /\ Unanswered(s) /\ UNCHANGED budget

Network(s) ==
  /\ "network" \in scenario.failures
  /\ Lose(s) /\ Unanswered(s) /\ UNCHANGED budget

-----------------------------------------------------------------------------
Browser(u) == ListingEnds(u) \/ TargetsEnd(u) \/ CollaboratorsEnd(u) \/ RefreshEnds(u)
              \/ MutationEnds(u) \/ SharingEnds(u)

Open(u) == OpenMove(u) \/ OpenShare(u) \/ (\E k \in {"folder", "document"} : OpenCreate(u, k))
           \/ \E t \in {"rename", "delete"} : OpenPlain(u, t)

Handle(u) == HandleCreate(u) \/ HandleRename(u) \/ HandleDelete(u) \/ HandleMove(u)
             \/ HandleInvite(u) \/ HandleUpdateCollaborator(u) \/ HandleRemoveCollaborator(u)

Next ==
  /\ \/ \E u \in Readers : Browser(u) \/ Refresh(u) \/ Open(u) \/ CloseDialog(u) \/ Handle(u)
     \/ \E s \in Slots : Server(s) \/ Network(s)
  /\ UNCHANGED scenario

Spec == Init /\ [][Next]_<<vars, scenario>>

-----------------------------------------------------------------------------
(* Properties.                                                             *)

TypeOK ==
  /\ items \in [Items -> ItemRecords] /\ shares \in [Items -> [Users -> {"none", "read", "write"}]]
  /\ outdated \subseteq Under("checked") /\ overlapped \in BOOLEAN
  /\ \A s \in Slots : /\ requests[s].stage \in Stages
                      /\ requests[s] # NoRequest => requests[s].q.by \in Readers
  /\ \A u \in Pages :
       /\ page[u].dialog.type \in {"closed"} \cup {DialogOf(op) : op \in Mutations}
       /\ \A r, x \in page[u].rows : r.item = x.item => r = x
       /\ page[u].listing = Own(u, {"list"})
       /\ page[u].asked \cup {r.slot : r \in page[u].refreshing} \subseteq Own(u, {"collaborators"})

Settled(u) == Own(u, Mutations \cup {"list"}) = {} /\ ~page[u].listError

\* When a page has no request under way, it shows what the server would list
\* ("Inserts or replaces a single item in the current folder state",
\* useWorkspaceItems), unless one of the mishaps happened since it was loaded.
SettledViewIsStored ==
  \A u \in Readers :
    Settled(u) /\ page[u].mishaps \subseteq {"left"} =>
      page[u].rows = ToWorkspaceItems(ListItems(UserOf(u), page[u].folder))

\* A share dialog shows the collaborators of its item, once it has loaded them,
\* unless a mishap other than of the rows happened.
ShareDialogShowsItsItem ==
  \A u \in Readers :
    /\ page[u].dialog.type = "share"
    /\ Own(u, {"share", "update", "remove", "collaborators"}) = {}
    /\ page[u].mishaps \subseteq {"crossed", "sharing", "foreign", "nested"}
    => page[u].sharees = Collaborators(page[u].dialog.row.item)

\* A dialog that is open closes when its user closes it or its own request was
\* carried out, unless one was left with its request under way.
DialogsCloseByTheirOwn ==
  [][\A u \in Pages :
       page[u].dialog # Closed /\ page'[u].dialog = Closed /\ "left" \notin page'[u].mishaps =>
         \/ UNCHANGED requests
         \/ \E s \in Own(u, {page[u].dialog.type}) : requests[s].ok /\ requests'[s] = NoRequest]_vars
=============================================================================
