# CollabDocs, verified: the program in TLA+

CollabDocs (in the interface: DocFlow) is a collaborative plain-text editor: a
FastAPI backend (`src/backend-collab`), a React frontend (`src/frontend`) and
bots that load and test the backend (`src/backend-collab/tools/bots`). Users keep
documents in a tree of folders, share them, and edit them together: either over
WebSockets, where the server orders the operations, transforms each over the ones it
missed ("OT-light"), stores it, acknowledges it and broadcasts it; or by saving
whole documents over REST or GraphQL, where revisions detect conflicts.

This directory holds TLA+ models of that program, the TLC configurations that
check them on small instances, and TLAPS proofs of what matters most for every
instance. All definitions are translated from the code at the lines that
`PROJECT.json` gives ("map").

Contents: [1 The system](#1-the-system) ·
[2 The models](#2-the-models) ·
[3 The runs](#3-the-runs) ·
[4 The proofs](#4-the-proofs) ·
[5 What the checks found](#5-what-the-checks-found) ·
[6 Not modelled, and other limits](#6-not-modelled-and-other-limits)

## 1 The system

### 1.1 Inventory

Paths of the backend are below `src/backend-collab/app`, those of the frontend below
`src/frontend/src`.

| Component | Where | State | Operations | What makes it correct | Modelled in |
|---|---|---|---|---|---|
| Text operations, transformation | `domain/collaboration/operations.py`, `transform.py`; `operationTransform.ts` | none | apply, transform (four cases), transform over history | the merged text is what the authors meant, in every order; an operation stays within its text; both implementations agree | `TextOperations`, `ConcurrentEdits` |
| Collaboration room | `domain/collaboration/service.py`, `main.py` (`document_socket`), `db/models/collaboration.py` | per document: text, version, roster, lock (memory); document, operation and snapshot rows (database) | join, leave, receive an operation, persist, publish, snapshot, acknowledge, broadcast | one sequential history; nothing announced that is not stored; nobody registered misses a version; no operation accepted twice; memory and database agree | `Room`, `SequentialDocument` (partly) |
| Editor client | `usePlainTextCollaboration.ts` (WebSocket editor), `PlainTextEditorSurface.tsx` | text, version, operation in flight, queue, remote operation to render, socket | type, send next, handle acknowledgement, remote operation and snapshot, reconnect, resync, leave | the editor displays a version of the document with its own pending operations; own edits arrive in order; the queue does not block | `EditorSession` |
| Cursor transformation | `cursor_transform.py`, `cursorTransform.ts`, `remoteCursorExtension.ts` | cursor and selection of every client | move over an operation, presence | a cursor stays between the same characters | `Cursors` |
| Divergence, resync | `divergence.py`, `useDivergenceStatus.ts`, `collaborationClient.ts` | the badge, the last question asked | check by timer, resync by hand | a wrong view is noticed; the badge is right, and never waits for nothing | `Divergence` |
| Metrics | `metrics.py`, `useCollaborationMetrics.ts` | counters | count | the count of pending operations holds back the divergence check | `EditorSession` (partly) |
| Bot client | `tools/bots` | text, version | send, drain events | | not modelled |
| Documents | `domain/documents/service.py` | content rows, revision, name | read, save (rename, compare, write) | no save overwrites an edit nobody saw | `ContentSync` |
| Content events | `domain/documents/events.py`, `api/graphql/schema.py` | a queue of one element per subscriber | publish, subscribe | a subscriber ends with the latest content | `ContentSync` |
| Polling editor | `usePlainTextCollaboration.ts` (polling editor), the REST and GraphQL clients, the content mappers | text, revision, dirty flag, timer, conflict | type, autosave, save, poll, subscription event | no typed text is lost; what is called saved is stored | `ContentSync` |
| Workspace | `domain/workspace/service.py` | tree of items, shares | create, rename, move, delete, share, update and remove a share, list, resolve access | the tree has no cycle and no orphans; names are unique; a listing shows what the user may see | `Workspace` (partly) |
| Workspace view | `WorkspacePage.tsx`, its dialogs, `useWorkspace*.ts`, the workspace clients and mappers | rows, dialogs, requests under way | load, act, upsert an answer, refresh | a page at rest shows what is stored; a dialog shows its own item and closes by its own request | `WorkspaceView` |
| Authentication session | `useAuth.ts`, `authService.ts`, the auth clients, `AppRouter.tsx`, `SignInPage.tsx`, `SignUpPage.tsx` | user, token, page | restore, refresh, submit a form, sign out, redirect | a late answer does not undo a later step; every page settles again and again | `AuthSession` |
| User interface | `Dropdown`, `Modal` and the other components of `shared` | open menus and dialogs, focus | keys, clicks, renderings | the focus stays in an open dialog; the page scrolls afterwards | `Overlays` (partly) |
| Users, authentication services | `domain/auth`, `domain/users`, `core/security.py` | user rows | one transaction each | | not modelled |
| Transport, configuration | `api`, `core` | none | route, serialise | | not modelled |

### 1.2 How the parts interact

* **Editor → room.** One WebSocket per open document. The editor sends
  `op` messages (operation, identity, base version), one at a time. The server answers
  `ack` to the author and sends `broadcast_op` to the others, and a `snapshot`
  when a connection joins. In the browser a message changes the hook's state and
  references at once, and the view at the next rendering.
* **Room → database.** Accepting an operation is one transaction: insert the
  operation row, update the document row, update the workspace item's
  timestamp. Two constraints protect it: the operation id is a primary key and
  (document, version) is unique.
* **Room → documents → events.** After the commit the room reads the document
  back *with the author's access rights* and publishes it to subscribers. This
  can raise after the commit.
* **Editor → comparison.** A timer sends the hash of the displayed text with its version;
  the answer is displayed as a badge, next to which a button replaces the text.
* **Polling editor → documents → events.** Loads, saves and polls are requests of their own
  that take any time; a save publishes an event, on which a subscription reads the
  document anew.
* **Page → workspace.** A page lists a folder once, then merges the answers to its own
  requests into its rows. A share is loaded separately.
* **Tabs → token.** All tabs share one token in `localStorage`; every page restores its
  session from it.
* **Inside the backend** there is one process and one event loop. Handlers
  interleave at each `await` and nowhere else. `room.lock` is a FIFO
  `asyncio.Lock` around transform, persist and publish; the lookup of retries
  comes before it, the acknowledgement and the broadcast come after it. The services for
  documents and the workspace take no locks: each request is one transaction
  that reads, checks and commits.

### 1.3 What is hard about it

* *Interleaving at awaits*: the lookup before the lock; the broadcast that walks a
  roster others change; two saves, or two moves, that are both checked before either
  is committed.
* *Failures between two awaits*: commit succeeded, publication raised; a socket closed while
  it is sent to; an answer lost after the change was made.
* *Reconnection and restarts*: a client shares its key with its previous connection; memory is
  lost, rows stay; a snapshot replaces pending edits.
* *Order*: acknowledgements and broadcasts in another order than the versions; answers to
  polls, checks and listings in another order than the questions; a subscription
  event that finds an older one still in the queue.
* *State that lags*: a remote operation waits for a rendering while the next arrives; a
  page's rows, a token, a revision that others have changed since.
* *The transformation functions*, which must agree in every order of acceptance.

`PROJECT.json` lists every hazard at its line with the properties that are about it.

## 2 The models

```
TextOperations ─── TextOperationsProofs
   ├── SequentialDocument                              the abstract document
   │        ▲ implements
   ├────── Room ── MCRoom, RoomProofs                  the room, with its database
   ├── ConcurrentEdits ── Cursors ── MCConcurrentEdits the merge, and others' cursors
   │                         └── ConcurrentEditsProofs   about both
   └── EditorSession ── Divergence ── MCDivergence     browsers over sockets, and the badge
          └── EditorSessionProofs ── DivergenceProofs         their badges, and what they display

ContentSync ── MCContentSync, ContentSyncProofs        browsers that save whole documents
Workspace                                              the tree on the server
   └── WorkspaceView ── MCWorkspaceView                pages on that tree
          └── WorkspaceProofs                          about both
AuthSession ── MCAuthSession                           tabs and the token
Overlays ── MCOverlays                                 menus, dialogs, focus
   └── PageProofs                                      about AuthSession and Overlays
```

### Conventions

**Scenarios.** `EditorSession`, `ContentSync` and `WorkspaceView` take a set of
*scenarios*: records that name who takes part, what is typed or done, the bounds, and
which *disturbances* or *failures* may happen. A behaviour picks one in `Init` and keeps it. So one run
covers several small instances, each with the disturbances whose interplay it is
about, and the proofs hold for any scenario.

**Mishaps.** The code does not always recover from what happens to it. Where it does
not, the model records the event in a history field (`mishaps` of an editor, a tab or a
page; `stale` and `dropped` in `Room`; `outdated` and `overlapped` in `Workspace`; `drifted` in
`Cursors`; `strayed` in `Overlays`) that no guard reads. A property then says: *unless one of these named
events happened, …*. That is a strong statement: the list is complete, nothing
else takes the component off its specification. Each mishap is possible in the code
as it stands, and section 5 lists them as the known weaknesses.

**Mistakes.** Definitions whose comment starts with "Mistake:" are variants of the code that a
programmer could plausibly have written: a dropped guard, a wrong bound, a
missing step. No specification uses them. Each property is known to fail
when the definition it watches is replaced by such a variant ("mutants" in
`PROJECT.json`), which is the evidence that the property is about the code.

### TextOperations

The pure functions of `operations.py` and `transform.py`. A text is a sequence
over `Chars`; an operation is a record of one shape for both kinds because the
code reads a missing `text` as `""` and a missing `len` as 0. Python's `None`
(nothing of a delete remains) is `NoOperation`. Each `transform_x_y` is an
operator of the same name in camel case. `transform_over_history` is the
recursive function `TransformOverHistory` over versions base+1..top, which stops
at `None` as the loop does. Client and operation identities are strings that the
code only compares; numbers stand for them.

### SequentialDocument

What a room promises, with no rooms, locks, connections or rows: a text, its
revision, the accepted operations and the operations clients have formulated.
`Formulate` fixes an operation and the revision it was made against; `Commit`
accepts a formulated operation once, transformed over all that was accepted since
its base.

### Room

| Variables | Code |
|---|---|
| `loaded`, `content`, `version`, `roster`, `lock` | the `Room` object: exists in `RoomManager.rooms`; `self.content`, `self.version`, `self.clients`, `self.lock` |
| `marked` | `stale_keys` of the presence and cursor broadcasts under way |
| `dbContent`, `dbVersion`, `log`, `snapshots` | the rows of `collab_documents`, `collab_operations`, `collab_snapshots` |
| `pc`, `request`, `target`, `walk` | the locals of the handler of each connection and the await it is suspended at |
| `up`, `outbox` | the client ends that are open; everything that was sent on each |
| `submitted`, `textAt`, `dropped`, `stale` | history variables: no guard of the server reads them, except that `Receive` uses `submitted` to let a client repeat a message only as it first was |

A handler is split where the code awaits something that lets another handler
run and the order makes a difference:

```
 idle ─LookUp→ waiting ─Transform→ persisting ─Persist→ publishing ─Publish→ [snapshotting] → acking
   ▲              └AcknowledgeNoOp→ idle   (lock is held in these three)                      │
   └──────── FinishBroadcast ── broadcasting ←DeliverTo── acked ←────────Acknowledge──────────┘
```

A `waiting` handler has had its lookup answered by the database and is not in the
lock yet. Since that answer may take any time, the lock can be entered in any order.

Failures: `PersistFails` (rollback), `PublishFails` (after the commit),
`SaveSnapshotFails`, `AnnouncementFails` (own socket closed, a recipient's
closed, or the roster changed its size under the iteration). Each ends the
handler in `failed`, from where the endpoint's `finally` runs `Leave`.
`Disconnect` closes a client end at any moment. `MarkUnreachable` and `RemoveMarked`
are the two moments of a presence or cursor broadcast that matter to others: a send on a closed
socket raises and marks the key; at its end the broadcast pops the marked keys,
whatever connection is registered under them by then. `Restart` loses memory and keeps
rows. `Join` of a reconnecting client is a new member of `Connections` with the
same `ClientOf`, because the room registers connections under a key made of
document and client.

A send on a closed socket may go unnoticed, raise `RuntimeError` (the broadcast
catches it and marks the recipient) or raise `WebSocketDisconnect` (it does
not); the model has all three.

### ConcurrentEdits and Cursors

A second question about the transformation functions: not whether the room
applies them in the right place, but whether they do what users expect. Several
authors edit the same text, whose characters are pairwise different, so that what
they meant can be said of characters: which must remain (`Remaining`), which must have been
added (`Added`), and in which order they must stand (`LeftOf`). The server accepts the operations in every order; each editor
applies `handleRemoteOperation` with its one operation pending.

`Cursors` adds the cursors of others: a reader who edits nothing selects something; the room moves the
selection with every operation it accepts and each client with every operation it is sent; a
second reader joins later and is told what the room holds. Its editor, as every browser's, counts in
UTF-16 code units where the server counts code points: the characters in `Wide` take two.
`drifted` are the clients that edited since they were told: a client does not move others'
cursors by its own operations.

### EditorSession and Divergence

Browsers that edit one document over sockets. A browser is one thread, but keystrokes
(`Type`), socket events (`Deliver`, `Closed`) and renderings (`Render`) come at times of their own:
`editor[e]` is the hook's state and references, `surface[e]` the CodeMirror view and its
references, and `Render` carries one over into the other in the order of the effects. The
handlers are operators from the editor's state to its next state with the names of the code
(`SendNext`, `SendLocal`, `HandleAck`, `HandleRemoteOperation`, `HandleSnapshot`, `HandleResyncSnapshot`).
The metrics are counted as the code counts them, because the divergence check reads
the count of pending operations. A page that is left (`Leave`) closes its socket, which still
transmits what was sent, while the queue is lost.

Of the server the module has what an editor can notice: operations are accepted in
some order; the author is told first and then, one by one, the registered others; different
authors' announcements may overtake each other. That this is what a room does is the
subject of `Room`: there every accepted operation has one version (`LogReplays`), the
announcements tell what is stored (`AnnouncedAsStored`) and none is left out but those named
(`DeliveryComplete`).

`Divergence` composes the editors with the badge: the timer (`CheckNow`), the server's
comparison (`AnswerCheck`), the answer whenever it arrives (`ReceiveAnswer`), failures, and the resync by hand.
A hash stands for its text.

Mishaps of an editor: *behind* (a message or an edit came before a due
rendering: the slot of one remote operation is overwritten), *order* (versions were told out of
order), *queue* (a remote operation came while several were pending), *inside* and *kept* (the two
weaknesses of the merge), *discarded* (a snapshot or resync replaced pending edits), *rewound* (a
resync went back behind a known version), *untold* (an operation received on a closed
socket was accepted and its author, back on a new one, is not told).

### ContentSync

Browsers that save whole documents: the polling editor in its two modes, the editor clients, and
`DocumentsService` with the event broker. A save is four steps on the server's side, because
the rename, the comparison of the revision and the commit have awaits between them. A text is the set
of the edits in it: users only add lines. `PlainTextToTiptap` and `TiptapToPlainText` are what they do to such a text: an
empty line becomes a paragraph without a text node, which the way back drops. Reads, saves and subscription messages are under way for any time.
`Autosave` is the effect that drops and sets the timer when one of its dependencies changed.

Mishaps: *overlooked* (typed during a save), *late* (the first answer came
when there was text to lose), *crossed* (it came while a save was under way), *rewound* (an older
answer was taken over), *offline*, *missed* (a save between the first read and the registration), *raced*
(the server compared two saves before either was written).

### Workspace and WorkspaceView

`Workspace` is the server: each request (create, rename, move, delete, share, update, remove,
list, collaborators) is *checked* at one moment, *committed* at another and *answered* from the
session's loaded objects at a third. `Reaches` describes the walk along parents without recursion, so that the
module can be proved about. `outdated` holds the requests under way whose check precedes another's
commit; `overlapped` is set when one of them commits.

`WorkspaceView` adds the pages: the listing, five dialogs, the actions hook with its one error at a
time, the merging of answers (`upsertItem`), the share dialog with its own loading, and requests whose answers are lost
on the network after, or before, the server worked on them. It takes the steps of `Workspace`; only
the refresh that follows a share is sent in the step in which the share's answer arrives.

### AuthSession

Tabs, each with a page, the provider's state and its requests, and the next page, if one is
being loaded: until it is there the old one keeps running. Forms are checked as the sign-in and
sign-up pages do. A token may be stale; the server's answer depends only on the token a request was sent
with.

### Overlays

The page of a folder with its menus and dialogs. A step is an event with all the handlers,
renderings and effects React runs for it; the timeout that moves the focus into a dialog is a step of its
own. Focus moves as the code says and, where it says nothing, as the browser does (an element that
is removed or disabled gives the focus to the body).

## 3 The runs

| Run | Question | Instance | States |
|---|---|---|---|
| `room_history` | Does the room implement the sequential document? Is what it announces what it stored? Does the history replay, does an operation stay within its text, does every waiting operation get dealt with? | two clients, three operations: an insert inside the range of a delete that is longer than the text; a snapshot every second version; handlers fail, the process restarts | 0.22 M |
| `room_broadcast` | Is everybody who stays told of everything, whoever comes and goes? Is nothing accepted twice? Are snapshots true, does memory mirror the database? | a writer that may come back over a second connection and retry, two readers; two client ends may close; a snapshot at every version | 0.23 M |
| `room_retry` | Does a retry get the stored outcome? (no: section 5) | | |
| `edits_merge` | Is the merged text the intended one, do editors converge, do cursors keep their place? | all edits of three authors on three characters, inserts of up to two, in all orders; two selections; narrow and wide characters | 0.56 M |
| `editors` | Does an editor display what it should, in order, with one operation in flight? Is the badge right? | eleven scenarios of up to three editors | 3.5 M |
| `editors_liveness` | Does the queue empty? Is a divergence noticed? | two of these scenarios, under fairness | 0.09 M |
| `editors_pending` | Do several pending operations survive a remote one? (no: section 5) | | |
| `content` | Is no save overwritten, what is called saved stored, no text lost, dirty text saved at last, every view brought up to date? | seven scenarios of two editors, under fairness | 0.13 M |
| `content_raced` | Does the revision protect two saves at a time? (no: section 5) | | |
| `auth` | Is the user displayed the one of the token, does signing out hold, do pages settle? | two tabs, two users, any stored token, three forms, two of them submitted, under fairness | 0.75 M |
| `workspace` | Does the tree stay sound? Does a page at rest show what is stored, a share dialog its item, and does a dialog close by its own request? | eight scenarios of up to two pages of one or two users on four items | 1.6 M |
| `overlays` | Does an open dialog hold the focus, and give the scrolling back? | a row with four actions, the user's menu, five dialogs, every sequence of keys, clicks, answers, renderings | 0.33 M |

### What the properties say

*Room.*

* `ImplementsDocument`: each change of the three database tables is one `Commit` of
  `SequentialDocument`, of the operation its client submitted, transformed over the
  versions since its base. A crash, a failure or a stale room never leaves a partial
  or a wrong one.
* `LogReplays`: versions are consecutive and each text is the previous one with
  the logged operation applied.
* `AcceptedInBounds`: an operation that was within the text its author saw is within
  the text it is applied to, so the clamping in `apply_operation` hides nothing.
* `AcceptedOnce`: retries, also those that pass the lookup before the lock, are
  accepted at most once.
* `RoomMirrorsDatabase`: memory and database agree whenever no handler is between
  commit and publication and no publication failed.
* `AnnouncedAsStored`: every acknowledgement and broadcast names the stored version and
  the stored form, at all times after it was sent.
* `SnapshotsAreHistory`: a snapshot sent or stored is the text of its version.
* `DeliveryComplete`: in a quiet state each open and registered connection has been
  told of every version since its snapshot; the exceptions (handler died; the
  client's own operation from an earlier connection) are spelled out and are
  exactly those the code has.
* `ServedMeansRegistered`: a connection that is served gets the broadcasts, unless its client had
  an earlier one.
* `EveryRequestEnds`: nobody waits for the lock for ever.

*The merge.* `OriginalTextAsIntended`, `MergedAsIntended`, `EditorsConvergeMostly`: the accepted
text is what the authors meant and all editors end with it; the exceptions, known limits of the transformation functions, are
named: `InsideDelete` for the last two, `Collapsed` for the merged text, `Covered` for the editors. `CursorsKeepTheirPlace`: a selection stays between the characters
it was made between, in the room, for a reader who joined later, and for each client that did
not edit since it was told.

*Editors.* `EditorShowsItsVersion`: the text displayed is that of a version with the pending
operations applied, but for the mishaps. `QuietEditorsShowTheText`: when nothing is under way it is the
server's text, and the metrics count everything sent as acknowledged. `AcceptedInTypedOrder`,
`OneOperationInFlight`: operations of a connection arrive once and in order, whatever
is dropped, and one at a time. `QueueDrains`: what waits is sent and answered, across
closed sockets. *Badge.* `BadgeWaitsForAnAnswer`: "checking" and "resyncing" never stay
without a request under way. `SettledBadgeIsRight`: at rest the badge says the truth,
*whatever* mishap took the view off the document. `DivergenceNoticed`: a view that stays wrong is reported.

*Content.* `NoSaveIsOverwritten`: every stored content contains the lines of the one before, and has the next revision.
`SavedMeansStored`: what the badge calls saved is stored under the editor's
revision. `UnsavedTextIsHeld`: text that no revision has does not vanish from the view. `DirtyIsSaved`: it
is saved at last or the user gets a notice. `ViewsCatchUp`: an editor without unsaved text comes to display
what is stored. Each names the mishaps it excepts.

*Workspace.* `TreeIsSound`: no cycle, nothing live in a deleted folder, no two siblings of one name, as long as
no request commits what it checked before another's commit. `SettledViewIsStored`,
`ShareDialogShowsItsItem`, `DialogsCloseByTheirOwn`: about pages, see the table.

*Session.* `SessionIsStored`: who is displayed is who the token stands for. `SignedOutStaysOut`: nobody who signed
out is signed in again by a late answer. `PagesSettle`: every tab *settles* again and again: the session is restored, no request the user waits for and no
other page is under way, and the page shows its form to nobody signed in or the application to somebody. A restoration that is
never answered for the page, or redirects without end, violate it. Two exceptions are stated as steps that happen
again and again (TLC finds both loops when they are taken out):
`Alternates`, the redirect loop of section 5, and `Wanders`, a user who leaves each form before the session is restored.

*Overlays.* `DialogHoldsThePage`: once its timeout ran, the focus stays in the open dialog, whatever is
disabled, removed or rendered; the page can be scrolled exactly while no dialog is open.

### Bounds, and why they suffice

* **Room.** Its races are between two handlers, or between a
  broadcast and one joining or leaving; reconnection needs two connections of
  one client. `Ids` bounds the operations: two concurrent ones exercise each
  transformation case, three a history of two. `MaxOutbox` bounds the messages sent to one connection;
  `MayClose` names the client ends that may close. Handlers fail and leave in both
  runs; in `room_history` no end closes because what a closed end adds
  is the subject of `room_broadcast`. `SnapshotEveryOps` is 2 where being due matters, 1 where
  snapshots do.
* **Merge.** `edits_merge` enumerates *all* edits of three characters: overlaps on both sides, complete
  coverage, equal positions, in all orders of three.
* **Editors.** `maxEdits`, `maxCloses`, `maxChecks` of a scenario bound the edits of an editor, its closed sockets and
  its unanswered checks. *Merging* has every kind of edit by both, *Watching* a third editor, *Queueing* several
  pending operations of both, *Lagging* late renderings and overtaking announcements, *Closing* lost sockets,
  *Granting* a permission that changes while everything else may happen to one editor, *Resyncing* a resync over
  pending operations, *Leaving* a page that is left, and *Checking*, *Asking*, *Losing* the
  badge over views that go wrong. Resync and grant happen once.
* **Content.** `maxEdits`, `maxReads` bound the edits and the unanswered reads of an editor; *Overlapping* has
  two reads, *Losing* two edits. Two writers suffice for every
  conflict: a revision has one winner.
* **Workspace.** Four items, of which one is free to be created; three requests under way; `maxDialogs`, `maxMutations`,
  `maxRefreshes` per page. *Moving* and *Filling* have two users on the same folders, *Alone* every mutation with
  failures, *Sharing*, *Inviting* and *Tabs* the shares, *Foreign* items shared with the page's user, *Nested* such an item
  beside the folder it is in.
* **Session.** `MaxSubmits` = 2: a sign-in while another tab's is under way, or after a sign-out.
* **Overlays.** `MaxBusy`, `MaxTimers` = 2: one dialog left with its request or timeout under way, and the next.

Random simulation of much larger instances of the same specifications (three editors with three
edits and all disturbances; two writers with two edits and all failures; three tabs with four submits; two pages
with all operations; two rows of menus), 45 to 210 million states each, found nothing the small ones do not
have. The scenario *Events* with two edits of both writers holds exhaustively (10.6 million states).

Nothing else is bounded; the proofs of section 4 need none of these bounds.
Deadlock is not checked because the system may stop: users need not do anything, and the bounded
instances run out of edits and connections.

### Fairness

* `Room.FairSpec`: weak fairness of `Handle(c)` for each connection: the event loop
  resumes every handler whose await has completed, and an await of the database
  or of a socket returns or raises. Strong fairness of entering the lock stands for
  its queue: `asyncio.Lock` wakes its waiters in order, so none is passed over for
  ever. `Handle` includes the failures, so fairness does not mean success.
* `Divergence.DFairSpec`: a browser's thread returns to its event queue (`Render`, `Deliver`, `Resync`,
  the reconnection timer and the socket's `open`), sockets deliver while they are open, the server answers and goes on with its
  announcements, the timer of the check fires again and again.
* `ContentSync.FairSpec`: timers fire, requests and subscription messages arrive or fail, the server
  works on what it received. Strong fairness of `Poll` stands for the interval: an effect that is run again starts
  a new interval, so polling is not always enabled but again and again.
* `AuthSession.FairSpec`: a page is loaded at last, and a request answered or failed. That requests succeed is not
  assumed, hence the exception `Alternates`.

Nothing is assumed of users, of sockets that close, of permissions that change or of restarts.
Safety of `Workspace`, `WorkspaceView` and `Overlays` needs no fairness.

## 4 The proofs

Checked by TLAPS completely, for every value of the constants that satisfies the modules'
assumptions: any number of connections, editors, users, items and edits, any text, any history, any scenario.

**Transformation** (`TextOperationsProofs`). `HistoryType`: the transformation over any history returns an
operation of the wire schema or nothing. `HistoryInBounds`: if each operation
of a history lies within the text it was applied to and the incoming one within its
base text, the result lies within the last text. Both rest on
`TransformType`, `TransformInBounds` and `ApplyLength` for one step, and on an induction
over versions (`IntervalInduction`, `HistoryInduction`) that is carried
out by well-founded induction on sets of versions, because
the library's induction theorems take an operator as a parameter. `TransformsCommute`: two
operations of different identities made on the same text lead to the same text in either order, each transformed over the other,
unless one inserts strictly inside what the other deletes (the exception of §5); the operation applied
as received may even reach beyond the text. An operation is a `Splice`; two disjoint splices commute, and two
overlapping deletes join.

**Room** (`RoomProofs`). The safety theorems rest on an inductive invariant,

```
HistoryInv == TypeOK /\ LogReplays /\ RoomInHistory /\ LockHeld /\ RequestsKept /\ HolderReady
```

| Conjunct | Why it is needed |
|---|---|
| `LogReplays` | what is to be shown; a commit extends the chain at its end |
| `RoomInHistory` | the text a handler works on is that of a stored version, so a snapshot taken from it is true and its successor version is the right one or refused |
| `LockHeld` | only the holder of the lock is in the critical section: two handlers never work on the same version |
| `RequestsKept` | a handler past the transformation holds an operation of the schema under its identity |
| `HolderReady` | the operation the lock holder is about to write is the submitted one, transformed over all rows since its base |

From it: `TypeCorrect`, `HistoryReplays`, `SnapshotsTrue` and, with `RoomLagsOnlyThen`
(room and database differ only between commit and publication or after a
failed publication), `RoomMirrors`. `NoDoubleAccept` follows because a commit
requires the identity to be new, the database's primary key. `InBoundsWhenApplied` adds
`SubmissionInv`, which follows a submitted operation from the message through
the waiting and the persisting handler into the log, and uses `HistoryInBounds`.
`Implementation` shows that initial states map to initial states and each step to a
`Commit`, a `Formulate` or a stutter: `Spec => ImplementsDocument`.

What clients are told rests on a second layer, over `HistoryInv`:

| Theorem | What it adds |
|---|---|
| `ServedIsRegistered` | `RosterInv`: who takes part is in the roster, unless its client also had another connection, whose departure removed the name they share |
| `AnnouncementsTrue` | `Announced` (a handler that announces stands behind a row of the log), `OwnRequests` (under its own name), `BroadcastsStored` (so do all broadcasts on their way); `AcksKept` (an acknowledged operation is stored as acknowledged, or nothing was left of it and it is *doomed*: never written later) |
| `EverybodyHears` | `SnapshotFirst` and `DeliveryInv`: every version after the snapshot a connection began with is `Covered`, by a message it was sent, or `Pending` with the handler that still announces it, or *dropped*, or its own operation of an earlier connection |

**Editors** (`EditorSessionProofs`). `EditorsTypeCorrect`, `OneAtATime` (`OneOperationInFlight`) and
`TypedOrderKept` (`AcceptedInTypedOrder`), for any editors, scenarios, sockets and restarts. The invariant (theorem
`SessionInvariant`) is `SessionInv == Typed /\ Bounded /\ FlightInv /\ OrderInv`:

| Conjunct | Why it is needed |
|---|---|
| `Typed`, `Bounded` | every queue and message is typed, and nobody knows or is told a version that does not exist |
| `FlightInv` | where the operation in flight can be: at most one place of the socket, an announcement that has not reached its author, and an answer (`Lone`), and none of them when nothing is in flight (`Idle`); except for an editor that *discarded* its queue for a snapshot, whose earlier operation may still be on its way |
| `OrderInv` | the `Line` in which the operations of an editor stand whose socket never closed: accepted before those on their way, these before the queued ones, these before what is still to be typed |

A step is taken apart twice. Lemmas about the hook's functions say which fields they change; lemmas about the
actions say what becomes of an editor and of its messages (`Becomes`, `Sends`). The invariants are shown
from the latter, so that each function of the hook is looked into once.

**Divergence** (`DivergenceProofs`). `BadgeNeverStuck` (`BadgeWaitsForAnAnswer`) and `SettledBadgesTellTheTruth`
(`SettledBadgeIsRight`); and, the editors being composed with resynchronisation here, `OneAtATimeWithResyncs` and
`TypedOrderKeptWithResyncs`. The invariant `DetectionInv` adds to `SessionInv`:

| Conjunct | Why it is needed |
|---|---|
| `ShownInv` | the text that the hook hashes is the displayed one, once a rendering is done |
| `ToldInv` | of every version an editor does not know it is about to be told (`News`, `Informed`), so that an editor with nothing on its way knows the last one |
| `ServedInv` | a text that is handed out with a version is the text of that version |
| `BadgeInv` | every answer was `Right` when it was given, and can have become wrong only for a version that is no longer the last; a badge that is not *late* shows the answer to the last question, or waits for it |
| `BadgeWaitsForAnAnswer` | a badge that says *checking* has a check under way, one that says *resyncing* a resync |

**What editors display** (`DivergenceProofs`, from *The text that pending operations lead to* on). `EditorsShowTheirVersion` (`EditorShowsItsVersion`) and
`QuietEditorsAgree` (`QuietEditorsShowTheText`), and the same with resyncs, where the text of the document is replaced
under the editor. The invariant `DisplayInv` (theorem `DisplayInvariant`) is `SessionInv`, `ToldInv`, `ServedInv` and

| Conjunct | Why it is needed |
|---|---|
| `ServerInv` | each text is the one before with the accepted operation applied, and what an editor is told of a version is what is stored of it |
| `CountedInv` | the metrics count the pending operations, and as acknowledged all that was sent and is not pending |
| `OnceInv` | an editor is told of each version once, and what waits in the slot for a rendering is not what was rendered last: the surface does not drop it for a repetition |
| `NewerInv` | the numbers of operations not yet accepted are above those of all that were, so none is answered as a repetition of another one |
| `ViewInv` | what will be displayed once a rendering is done (`Displayed`) is what the pending operations make of the server's text (`Leads`, `Agrees`), each of them within its text; and what the editor has made of the operation in flight is what the server makes of it (`InStep`) |

The last conjunct carries the argument. When a remote operation arrives, the pending one and it are transformed over each other
and `TransformsCommute` gives the same text either way. When the acknowledgement arrives, the
pending operation becomes a part of the server's text without being looked at again: this is right because the editor
transformed it over the remote operations one by one as the server did over its history (`HistoryPeel`). An editor
of which the exceptions of §5 hold is not `Sound`, and nothing is claimed of it until its view is replaced.

**Session** (`PageProofs`). `SessionTypeCorrect`, `DisplayedUserOwnsTheToken` (`SessionIsStored`) and
`SigningOutLasts` (`SignedOutStaysOut`), for any number of tabs, forms and submissions. The invariant
`SessionInv == Typed /\ \A t \in Tabs : TabInv(t)` says which requests a page can have under way together and
what each of them knows: one besides cleanups (`OneRequest`), during which the page shows nobody
(`WaitingShowsNobody`); a page that restores its session does nothing else and asks with the stored token
(`Restoring`, unless another tab changed it); a session that begins during the cleanup of the one before is
*overtaken* (`CleaningUp`); sign-ins bring tokens that are not stale (`FreshTokens`); after signing out the
token is gone or goes with the answer (`Departed`); who is displayed owns the stored token (`Stored`).

**Workspace** (`WorkspaceProofs`). `TreeStaysSound`: `ServerSpec => []TreeIsSound`, for any users, items,
names, slots and sound initial trees, under any requests. Soundness alone is not inductive, because a commit does not
check again. The invariant `TreeInv` (theorem `TreeInvariant`) adds `CheckedInv`: what a checked request relies
on (its target is a live folder that is not below the item, the name is free) still holds, unless the
request is `outdated`. That a step of *this* request keeps the tree sound is then
a lemma for each operation; that a step of *another* one makes it outdated is the
definition of a commit. The lemmas about `Reaches` say what a change of one parent does to all walks.

**Pages** (`WorkspaceProofs`, from *Pages* on). For any pages, users, trees and scenarios: `ViewTypes` (`TypeOK`),
`PagesKeepTheTree` (`TreeIsSound`), `ShareDialogsShowTheirItem` (`ShareDialogShowsItsItem`),
`SettledPagesShowWhatIsStored` (`SettledViewIsStored`) and the action property
`DialogsAreClosedByTheirOwn` (`DialogsCloseByTheirOwn`). Each action of a page has a lemma that says what it does to the
page and to the requests (`Refresh` amounts to `Refreshed`, and so on; `Sent`, `Taken`, `Replaced`); a step of the
server moves one request (`Moves`) and changes nothing of a page but its mishaps (`OnlyMishaps`). These
invariants build on each other:

| Invariant | What it says, and why it is needed |
|---|---|
| `CoreInv` | `TreeInv`; the pages are typed (`PageTypes`); a request is one of a page, for its user, and lists its folder (`OwnInv`); a page waits for its own requests only, for each answer in one way (`WaitInv`). So a step of one page is none of another (`StepOfOne`) |
| `MindedInv` | unless a dialog was *left* with its request under way: a page has one mutation at most, of the dialog it shows, and what a share dialog waits for is of its item. So the answer that closes a dialog is its own |
| `ShareInv` | unless a mishap other than of the rows happened: collaborators that arrived are those the server stores *now*, those that are waited for will arrive, and a share dialog shows those of its item, or waits, or a change of them was carried out whose answer will make it ask again |
| `Born`, `Fresh` | what a request loaded when it was checked is what the server stores, and it is for items that exist, unless the request is `outdated`; nothing refers to an item that was never created. So the row an answer brings is the row the server would list now (theorem `FreshInvariant`) |
| `UpToDateInv` | unless a mishap other than *left* happened: a listing that arrived is what the server would list *now*; at most one mutation of the page is carried out and not yet answered; the rows are the server's listing but for the item of that mutation |

`ShareInv` is why `overtaken` has to be excepted: an answer with collaborators that was read before a commit and
is taken after it is the only way a dialog at rest comes to show what is no longer stored by its own user's doing.

That a page is up to date has to be shown against the server's listing, which asks for the access to every item from its
ancestors and the shares on the way. `WalksAgree`, `RowsAgree` and `ListingAgrees` say that an item keeps its row
when no walk up from it meets what changed; `CreateListing`, `UpdateListing`, `DeleteListing` and `MoveListing`
say what each mutation does to a listing, and each is compared with what the page does with the answer
(`AnswerCompletes`). A commit that changes what another page lists is one of that page's mishaps; so is a change
above the page or of what it shows below other items (`nested`).

**Content** (`ContentSyncProofs`). `SavesKeepWhatIsStored`: `Spec => []NoSaveIsOverwritten`. The invariant
(theorem `ContentInvariant`) is `TypeInv /\ (Undisturbed => Good)`, where `Undisturbed` says that no
save was *raced* or *crossed*:

| Conjunct of `Good` | Why it is needed |
|---|---|
| `GoodHistory` | what is to be shown, and that the document is the end of the history |
| `LocalGood`: the editors | an editor displays at least the text of its revision, so what it sends under that revision contains it |
| `LocalGood`: saves, answers, events | a save under way contains the text of its base; every answer and event on its way is the text of the revision it names |
| `Compared` | a save that passed the comparison is the only one, and is based on the stored document |

There is one lemma for each function of the hook (what `ApplyContentResult`, `SaveNow`, `Autosave` preserve), one for
what a commit does to the histories others rely on, and a step for each action.

`ContentTypeCorrect` (`TypeOK`), `SavedIsStored` (`SavedMeansStored`) and the action property `UnsavedTextStays`
(`UnsavedTextIsHeld`) rest on a second invariant (theorem `SyncInvariant`), which the races do not touch:

| Conjunct of `SyncInv` | Why it is needed |
|---|---|
| `HistorySync` | revisions hold typed texts and have no number above their count, and the document is the last of them |
| `EditorSync` | an editor without unsaved text displays the text of its revision; one that has loaded nothing has no text and may not write |
| `SaveSync` | the text being saved stays displayed and unsaved until its answer arrives, and the answer names a revision that was stored with that text |
| `Answerable` | an answer or event on its way is a stored revision as it was loaded |

What is claimed of an editor's text holds while the editor is `Held`: it was neither *overlooked* (an answer took what
was typed meanwhile for saved) nor *late* (the first answer came after the typing), the two cases of §5.

**Overlays** (`PageProofs`, from *An open dialog* on). `DialogsHoldThePage` (`DialogHoldsThePage`), for any rows, any menus and any number of
requests under way. The invariant (theorem `HoldInvariant`) is `HoldInv`:

| Conjunct | Why it is needed |
|---|---|
| `IsPage` | the form that is displayed is one of the open dialog, so its controls are known; the first is *close*, which nothing disables |
| `PageScrollsAgain`, `saved = "visible"` | what a dialog gives back is what a page without dialogs has, however often its effect was cleaned up and run again |
| `FocusHeld` | with no timeout due, the focus is not only somewhere in the dialog but *on* its background or a control that is enabled: from a disabled one Tab could leave (`Neighbour`). A request that disables the focused control renders the page, so a timeout is due |

**Merge and cursors** (`ConcurrentEditsProofs`). `OriginalsAsMeant` (`OriginalTextAsIntended`), `MergedAsMeant`
(`MergedAsIntended`) and `EditorsMeet` (`EditorsConvergeMostly`), for any number of authors, any base text and inserts of any
length; `CursorsStand` (`CursorsKeepTheirPlace`), for any selections and any characters that take two code units. The
constants are assumed to be what the question needs: the characters of the base text are all different, and the inserted ones
are their author's. The invariant of the merge is `MergeInv`, which says of an operation that is not accepted what
`Transformed` would make of it *now*:

| Conjunct of `MergeInv` | Why it is needed |
|---|---|
| `FlightInv` | types; what an operation would be transformed to is within the text and of its own kind; an insert never vanishes, and an author whose operation was answered and is not accepted has nothing left to do |
| `StandsInv` | `OriginalTextAsIntended`, and what a pending operation would do *to the base text*: an insert stands between the characters it was made between, the range of a delete has exactly those of its own that are left |
| `WholeInv` | the range of a pending delete has nothing that was inserted, unless strictly within (`InsideDelete`): accepting it removes no other author's text |
| `OrderInv` | without `InsideDelete` and `Collapsed`: the text is in the order meant (`SortedText`), and a pending insert is behind all characters that are left of what it inserts, and only those. The order of two inserts at one position is decided by identities, so one at a time |

`Transformed` folds over the accepted operations, and no induction over them is needed: the log grows by one operation
in a step, so the new result is the old one transformed once more (`HistoryStep`), and there is none in the beginning
(`NothingAccepted`). The exceptions are stated for sets of authors, because what is claimed of a pending
operation depends on those accepted and on itself.

`EditorsMeet` adds `MatchInv`: an editor shows the server's text, or, with its operation pending, that text with what the
operation *would be transformed to* applied, and that is what it holds. A step keeps this because transforming over
each other gives the same text in either order (`TransformsCommute`). `Remote` keeps a pending operation of
which nothing is left, which the server would acknowledge as nothing: hence `Covered`.

`CursorsStand` rests on `CursorInv` over `MergeInv` (theorem `CursorInvariant`): characters are pairwise different
in every reachable text, the second reader has the server's text although its editor counts in code units
(offsets there and back give the same position), and the room's cursors are `Alike` those that were
selected. That authors do with readers what they do without, `ReadersOnlyRead`, brings `MergeInv` to the composition.

**Model-checked only.** Liveness, which is out of this prover's reach: `EveryRequestEnds`, `QueueDrains`,
`DivergenceNoticed`, `DirtyIsSaved`, `ViewsCatchUp`, `PagesSettle`. Every safety property
of a passing run is a theorem.

## 5 What the checks found

Three disagreements with what the code says of itself are violation runs with a counterexample;
`PROJECT.json` "findings" quotes the lines.

1. `room_retry`: the lookup that recognises a retry runs before the lock. A retry over
   a new connection, while the first submission is being committed, is
   transformed over its own row; a delete vanishes and is acknowledged as a no-op
   at another version and in another form than the stored one.
2. `editors_pending`: every pending operation is transformed over the remote one as it was
   received, though the second applies after the first. With two of them pending
   they no longer lead from the server's text to the displayed one.
3. `content_raced`: the revision of a save is compared in the transaction that writes it, but
   without a lock. Two saves at a time both pass, and the second replaces the first
   under the same revision.

The mishaps and exceptions of the other properties are weaknesses the models document, most of them without
a claim of the code against them:

* **Room.** A publication that fails after the commit leaves the room behind its rows: each later operation is refused by the
  unique (document, version) until the process restarts. A handler that ends late removes its client's *newer*
  connection from the roster. An operation accepted over an earlier connection is not broadcast to its
  client's new one.
* **Merge.** An insert inside a concurrently deleted range survives on the server and
  disappears in its author's editor. A pending delete that others covered is kept, although its transformation is
  nothing, and distorts the next remote operation. Inserts of one position are ordered by identity, by code points on
  the server (`transform.py`) and with `localeCompare` in the browser (`operationTransform.ts:157-161`); the model has one order, since they agree on the
  UUIDs that are used.
* **Editors.** Each mishap of section 2. A resync gives a reader who was granted write access the right to type, while the connection
  still has the old one: the operation is refused with `READ_ONLY`, stays in flight, and blocks the queue until
  the next snapshot. Leaving a page drops the operations that wait. The resync button is only offered when the badge
  reports a divergence or an error.
* **Cursors.** A client does not move others' cursors by its own operations; they drift until it is told again. The
  cursor (0, 0) of a client that sent none is moved by clients and not by the server.
* **Content.** The answer to a save takes what was typed meanwhile for saved. The first answer replaces what was typed
  before it; if a save was under way, the rest gets the save's revision, and the next save overwrites others' lines.
  A save's answer settles a conflict with a newer revision. Between the first read of a subscription and its registration an
  update is lost. Empty lines vanish when a document is loaded, and so from its next save. The error of a failed poll
  stays until the next save and hides the notice of a conflict; with unsaved text, it also ends autosaving, though the
  notice stays. The polling hook's `resyncDocument` is never called.
* **Workspace.** Two moves, or a creation and a deletion, that are both checked before either commits leave a cycle, an orphan or
  a duplicate name; on a cycle `collect_descendant_ids` does not end. The answers to sharing and removing a
  share show the collaborators as they were (`expire_on_commit=False`).
* **Pages.** A request that ends closes whatever dialog is open; its error is displayed in others. The list of move targets is not reset
  between items, and the end of one load ends the loading of another. A refresh of collaborators is not guarded
  against a newer one. An item that is shared for itself disappears from the root listing when it is changed; when the folder it is in is
  deleted it stays there, and when that is moved it keeps showing the permission it had. A dialog can be closed
  while its request is under way.
* **Session.** The cleanup of an expired session, or a failing refresh, ends one that began meanwhile. Another tab changes the
  token under a page. `AppUserMenu.tsx:17` says that signing out "clears the current session before redirecting to sign
  in", but `signOut` sets the user to null first, and `AppRouter.tsx:48-49` redirects as soon as that is rendered; the token is cleared
  after the server's answer. This is the ordinary course of a sign-out. If the form is loaded earlier, its page finds the token, restores the session and
  goes back to the application: a user who signed out is signed in again. `SignedOutStaysOut` excepts it as `unloaded`;
  what it says is that otherwise signing out holds, whatever the answer to it. Pages redirect for ever as long as the restoration of a good token fails in the application, the form is loaded
  before the cleanup of that failure was answered and cleared the token, and the restoration succeeds there:
  `/workspace`, `/sign-in`, `/workspace`, and so on. Each round needs another failure of a request, so a server that answers ends the loop.
* **Overlays.** Each rendering of the page moves the focus in the open dialog to the button in its header, also while
  typing. Shift and Tab on a dialog's background leave it. Escape closes all menus and the dialog at once.

## 6 Not modelled, and other limits

**Not modelled.** *Bot client*: load-test clients outside the product; they submit one operation at a time, a part of
what the editors do. *Users and authentication services*: one database transaction each
(`create_user` checks the address and inserts; a constraint decides), around cryptography. *Transport and configuration*:
routing and serialisation without state. *Presentation*: markup, styles, formatting, types, the
components of `shared` beside menus and dialogs: no state that several steps share.

**Left out of modelled parts.**

* *Room*: presence and cursor payloads are in `Cursors` only, nor is it kept which handler is busy with such a
  broadcast; a handler may therefore take its next message earlier than the code lets it. Messages that only lead to an error or a pong change no state. That recording
  a metric may fail is in `Leave`, which is possible from `idle` at any moment. `AcknowledgeNoOp` sends while it holds the
  lock; the model does both in one step, since nothing can enter the critical section in between. Reading the row in
  `get_room` and registering in `join` are one step: the row is read under `manager_lock` while no room
  exists, and `join` registers and takes the snapshot before its first await.
* *Metrics*: latencies, counts of transformation cases, and the server's counters.
* *Editors*: how long reconnection waits; the throttling of cursor messages; identity of a hash and its text. The timer
  of the check reads the counts and the state as they are, not as they were at the last rendering; it fires a whole
  interval after a rendering that changed them. A page that is left comes back as another editor.
* *Content*: an editor leaves only to reopen the document after a conflict; text that waits for
  its autosave when a page is left otherwise is lost, as the code has it. Texts only grow, because what is asked of saves
  is whether lines are lost.
* *Workspace*: breadcrumbs, counts of children and search, which only read; a move does not update
  counts on the page.
* *REST saves beside rooms*: `env.editorSyncMode` selects one way of editing for a whole build of the
  frontend, so a document is saved beside an open room only by another client of the API.
* The server is one process, as `main.py` keeps its rooms in a module-level service. Several workers would each
  have their own rooms.
* Characters are abstract; only `Cursors` distinguishes code points and code units.
