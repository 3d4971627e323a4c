---------------------------- MODULE MCContentSync ----------------------------
(* Editors that save whole documents, on small instances. *)
EXTENDS ContentSync

\* Two users that write, each once.
Polling == [writers |-> {1, 2}, mode |-> "polling", maxEdits |-> 1, maxReads |-> 1,
            blank |-> {}, failures |-> {}]

\* One of them enters an empty line.
Blanks == [Polling EXCEPT !.blank = {<<1, 1>>}]

\* Polls that overlap, and polls that fail while the document is renamed.
Overlapping == [Polling EXCEPT !.writers = {1}, !.maxReads = 2]
Failing     == [Polling EXCEPT !.writers = {1}, !.failures = {"read", "rename"}]

\* Saves and their answers are lost; the user types on meanwhile, and opens the
\* document anew.
Losing == [Polling EXCEPT !.writers = {1}, !.maxEdits = 2, !.failures = {"save", "answer"}]

\* Subscriptions that end.
Subscribing == [Polling EXCEPT !.mode = "subscription", !.writers = {1}, !.failures = {"socket"}]
Events      == [Polling EXCEPT !.mode = "subscription", !.maxReads = 0]

MCScenarios == {Polling, Blanks, Overlapping, Failing, Losing, Subscribing, Events}
MCPolling == {Polling}
=============================================================================
