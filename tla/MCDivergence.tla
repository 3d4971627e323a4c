---------------------------- MODULE MCDivergence ----------------------------
(* Editors and their divergence detection on small instances. *)
EXTENDS Divergence

MCChars == 0..99

\* One editor types one character, the other reads, and nothing goes wrong.
Calm == [open |-> {1, 2}, readers |-> {}, typists |-> {1}, kinds |-> {"insert"}, text |-> <<1>>,
         maxEdits |-> 1, maxCloses |-> 0, maxChecks |-> 0, disturbances |-> {}]

\* Both type one edit of any kind.
Merging == [Calm EXCEPT !.typists = {1, 2}, !.kinds = {"insert", "delete", "erase", "replace"},
                        !.text = <<1, 2>>]

\* Two type while a third reads.
Watching == [Calm EXCEPT !.open = {1, 2, 3}, !.typists = {1, 2}, !.kinds = {"insert", "delete"}]

\* Both have several operations pending.
Queueing == [Calm EXCEPT !.typists = {1, 2}, !.maxEdits = 2]

\* One editor makes replacements, each of them two operations; renderings lag
\* and announcements overtake each other.
Lagging == [Calm EXCEPT !.kinds = {"insert", "replace"}, !.maxEdits = 2,
                        !.disturbances = {"overtake", "lag"}]

\* Sockets close while operations are under way.
Closing == [Calm EXCEPT !.kinds = {"delete"}, !.text = <<1, 2>>, !.maxEdits = 2,
                        !.maxCloses = 1, !.disturbances = {"close", "overtake"}]

\* A reader becomes a writer, and everything else happens to it.
Granting == [Calm EXCEPT !.open = {1}, !.readers = {1}, !.maxCloses = 1, !.maxEdits = 2,
                         !.maxChecks = 1,
                         !.disturbances = {"close", "lag", "resync", "grant", "metadata"}]

\* The server's text is asked for while operations are pending.
Resyncing == [Calm EXCEPT !.maxEdits = 2, !.maxChecks = 1, !.disturbances = {"resync"}]

\* The badge, over views that go wrong, with a resync, and with a lost socket.
Checking == [Calm EXCEPT !.text = <<>>, !.maxEdits = 2, !.maxChecks = 1, !.disturbances = {"lag"}]
Asking   == [Calm EXCEPT !.maxChecks = 1, !.disturbances = {"resync"}]
Losing   == [Calm EXCEPT !.maxCloses = 1, !.maxChecks = 1, !.disturbances = {"close"}]

\* The user leaves the page while operations are under way or wait.
Leaving == [Calm EXCEPT !.typists = {1, 2}, !.kinds = {"replace"},
                        !.disturbances = {"leave", "overtake"}]

MCScenarios == {Merging, Watching, Queueing, Lagging, Closing, Granting, Resyncing, Checking,
                Asking, Losing, Leaving}
MCQueueing == {Queueing}
MCFairScenarios == {Closing, Checking}
=============================================================================
