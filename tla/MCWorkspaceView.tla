--------------------------- MODULE MCWorkspaceView ---------------------------
(* Pages and trees on small instances. *)
EXTENDS WorkspaceView, TLC

Item(status, kind, name, owner, parent) ==
  [status |-> status, kind |-> kind, name |-> name, owner |-> owner, parent |-> parent]

Private == [u \in Users |-> "none"]
With(u, p) == [Private EXCEPT ![u] = p]

\* Two folders and a document of ann in no folder; bob may change what is in the
\* folders.
Flat == [items  |-> 1 :> Item("live", "folder", "x", "ann", Root)
                    @@ 2 :> Item("live", "folder", "y", "ann", Root)
                    @@ 3 :> Item("live", "document", "z", "ann", Root)
                    @@ 4 :> Item("none", "document", "z", "ann", Root),
         shares |-> 1 :> With("bob", "write") @@ 2 :> With("bob", "write")
                    @@ 3 :> Private @@ 4 :> Private]

\* A folder in another one, with a document that is shared for itself.
Deep == [Flat EXCEPT !.items[2].parent = 1, !.items[3].parent = 2,
                     !.shares[1] = Private, !.shares[2] = Private,
                     !.shares[3] = With("bob", "write")]

\* Two folders; a folder and a document.
Pair == [Flat EXCEPT !.items[3].status = "deleted"]
Few  == [Flat EXCEPT !.items[2].status = "deleted"]

\* A document of bob's in a folder of ann's, which he shares with her.
Hosted == [Flat EXCEPT !.items[3] = Item("live", "document", "z", "bob", 1),
                       !.shares[3] = With("ann", "read")]

MCTrees == {Flat, Deep, Pair, Few, Hosted}

Page(user, folder) == [user |-> user, folder |-> folder]

\* Two users work on the same folders at a time.
Moving ==
  [tree |-> Flat, pages |-> 1 :> Page("ann", Root) @@ 2 :> Page("bob", Root),
   ops |-> {"move", "rename"}, names |-> {"x", ""},
   maxDialogs |-> 1, maxMutations |-> 1, maxRefreshes |-> 0, failures |-> {}]
Filling ==
  [Moving EXCEPT !.pages = 1 :> Page("ann", Root) @@ 2 :> Page("bob", 1),
                 !.ops = {"create", "delete"}]

\* One user makes everything, with failures.
Alone ==
  [Moving EXCEPT !.tree = Deep, !.pages = 1 :> Page("ann", Root),
                 !.ops = {"create", "rename", "delete", "move"},
                 !.maxDialogs = 2, !.maxMutations = 2, !.maxRefreshes = 1,
                 !.failures = {"network"}]

\* One user shares, the other has the item open.
Sharing ==
  [Moving EXCEPT !.tree = Deep, !.pages = 1 :> Page("ann", 2) @@ 2 :> Page("bob", Root),
                 !.ops = {"share", "update", "remove"}, !.maxDialogs = 2, !.maxMutations = 2]

\* An owner shares two items with failures, or one item in two tabs.
Inviting ==
  [Sharing EXCEPT !.tree = Pair, !.pages = 1 :> Page("ann", Root), !.failures = {"network"}]
Tabs ==
  [Sharing EXCEPT !.tree = Few, !.pages = 1 :> Page("ann", Root) @@ 2 :> Page("ann", Root),
                  !.maxDialogs = 1, !.maxMutations = 1]

\* What was shared with a user is changed by that user.
Foreign ==
  [Moving EXCEPT !.tree = Deep, !.pages = 1 :> Page("bob", Root), !.ops = {"rename", "move"},
                 !.maxDialogs = 2, !.maxMutations = 2, !.maxRefreshes = 1]

\* What a user has in a folder is shown beside the folder.
Nested ==
  [Moving EXCEPT !.tree = Hosted, !.pages = 1 :> Page("ann", Root), !.ops = {"delete", "move"},
                 !.maxDialogs = 2, !.maxMutations = 2, !.maxRefreshes = 1]

MCScenarios == {Moving, Filling, Alone, Sharing, Inviting, Tabs, Foreign, Nested}
=============================================================================
