----------------------------- MODULE ContentSync -----------------------------
(***************************************************************************)
(* Several browsers that edit one document without the collaboration       *)
(* server, saving its whole text: usePollingPlainTextEditor of             *)
(* hooks/usePlainTextCollaboration.ts with the two editor clients, and on  *)
(* the server DocumentsService and the event broker of                     *)
(* domain/documents.                                                       *)
(*                                                                         *)
(* The editor loads the document, saves it some time after an edit, and    *)
(* learns of the others' saves by polling, or by a GraphQL subscription    *)
(* that falls back to polling when its socket closes. Every request takes  *)
(* an arbitrary time and reads the document somewhere in between.          *)
(*                                                                         *)
(* A text is the set of the edits that are in it: users only add, and an   *)
(* edit adds a line. What is rendered is the text of the state; that a     *)
(* rendering takes time is the subject of module EditorSession.            *)
(***************************************************************************)
EXTENDS Integers, Sequences, FiniteSets

CONSTANTS Editors,
          Scenarios     \* the instances, one of which a behaviour is

\* An instance: the editors whose user may write, env.editorSyncMode, bounds:
\* the edits typed in one editor and its reads that are unanswered, the edits
\* that add an empty line, and what may fail ("rename" is no failure: somebody
\* renames the document).
ASSUME ScenariosAssumption ==
  Scenarios \subseteq
    [writers : SUBSET Editors, mode : {"polling", "subscription"},
     maxEdits : Nat, maxReads : Nat, blank : SUBSET (Editors \X (Nat \ {0})),
     failures : SUBSET {"save", "answer", "read", "socket", "rename"}]

VARIABLES
  scenario,
  editor,    \* the hook's state and references
  reads,     \* requests for the document under way, with their answers
  saves,     \* the request to save under way
  socket,    \* the subscription: its stage and the messages on the way
  document,  \* the stored document
  history,   \* every content that was stored, with its revision
  typed      \* edits typed so far

clientVars == <<editor, typed>>
serverVars == <<document, history>>
vars == <<clientVars, reads, saves, socket, serverVars>>

Edits == {<<e, n>> : e \in Editors, n \in 1..scenario.maxEdits}

\* Every line is a paragraph, with a text node unless it is empty.
PlainTextToTiptap(text) == [line \in text |-> IF line \in scenario.blank THEN {} ELSE {line}]

\* Paragraphs that render as nothing are dropped: an empty line does not survive
\* being loaded.
TiptapToPlainText(content) == UNION {content[line] : line \in DOMAIN content}

\* The document as the server answers with it.
Content(e) == [content |-> document.content, revision |-> document.revision,
               title |-> document.name, canWrite |-> e \in scenario.writers]

ToDocumentContentResult(c) ==
  [text |-> TiptapToPlainText(c.content), revision |-> c.revision, title |-> c.title,
   canWrite |-> c.canWrite]

Result(e) == ToDocumentContentResult(Content(e))

NoAnswer == [revision |-> 0]
NoSave   == [stage |-> "none"]

\* mishaps is history no code keeps: events after which the editor need not
\* behave as the properties say, each possible in the code as it stands.
\*   overlooked  an edit was made while a save was under way
\*   late        the first answer came when there was text to lose
\*   crossed     the first answer came when a save was under way: it takes the edits
\*               away, and the answer to the save gives the rest its revision
\*   rewound     an answer older than the document displayed was taken over, or
\*               that to a save settled the conflict with a newer one
\*   offline     a poll failed, or the subscription ended
\*   missed      a save was made after the first read and before the registration
\*   raced       the server compared the revisions of two saves before either was
\*               written
InitialEditor ==
  [status |-> "loading", saveStatus |-> "idle", conflict |-> FALSE, canWrite |-> FALSE,
   revision |-> 0, text |-> {}, saved |-> {}, dirty |-> FALSE, saving |-> FALSE,
   title |-> "none", timer |-> FALSE, fallback |-> FALSE, error |-> FALSE, mishaps |-> {}]

\* The first read is made when the editor is mounted, and so is the subscription.
FirstReads == {[source |-> "initial", answer |-> NoAnswer]}
FirstSocket == [stage |-> IF scenario.mode = "subscription" THEN "opening" ELSE "none",
                event |-> FALSE, messages |-> <<>>]

Revision(text, n) == [content |-> PlainTextToTiptap(text), revision |-> n]

\* A document starts at revision 1, empty.
Init ==
  /\ scenario \in Scenarios
  /\ editor = [e \in Editors |-> InitialEditor]
  /\ reads = [e \in Editors |-> FirstReads]
  /\ saves = [e \in Editors |-> NoSave]
  /\ socket = [e \in Editors |-> FirstSocket]
  /\ document = [content |-> PlainTextToTiptap({}), revision |-> 1, name |-> "old"]
  /\ history = <<Revision({}, 1)>>
  /\ typed = [e \in Editors |-> 0]

-----------------------------------------------------------------------------
(* The editor's state after a handler.                                     *)

\* Mistake: the text is no dependency of the effect that schedules the autosave.
AutosaveIgnoringText(old, new) ==
  IF <<old.canWrite, old.conflict, old.title, old.status>>
       = <<new.canWrite, new.conflict, new.title, new.status>>
  THEN new
  ELSE [new EXCEPT !.timer = /\ new.canWrite /\ ~new.conflict /\ new.dirty
                             /\ new.status = "connected"]

\* The effect that schedules the autosave runs when one of its dependencies
\* changed: it drops the timer, and starts another one if there is something
\* to save.
Autosave(old, new) ==
  IF <<old.canWrite, old.conflict, old.text, old.title, old.status>>
       = <<new.canWrite, new.conflict, new.text, new.title, new.status>>
  THEN new
  ELSE [new EXCEPT !.timer = /\ new.canWrite /\ ~new.conflict /\ new.dirty
                             /\ new.status = "connected"]

\* Mistake: a remote document replaces unsaved text.
ApplyRemoteAlways(r, result, source) ==
  [r EXCEPT !.title = result.title, !.canWrite = result.canWrite,
            !.revision = result.revision, !.status = "connected", !.conflict = FALSE,
            !.dirty = FALSE,
            !.text = IF source = "save" THEN @ ELSE result.text,
            !.saved = IF source = "save" THEN r.text ELSE result.text,
            !.saveStatus = "saved"]

\* Mistake: a revision that came in while the text is unsaved is taken over.
ApplyTakingRevision(r, result, source) ==
  IF source = "remote" /\ r.dirty
  THEN [r EXCEPT !.revision = result.revision, !.title = result.title,
                 !.canWrite = result.canWrite]
  ELSE [r EXCEPT !.title = result.title, !.canWrite = result.canWrite,
                 !.revision = result.revision, !.status = "connected", !.conflict = FALSE,
                 !.dirty = FALSE,
                 !.text = IF source = "save" THEN @ ELSE result.text,
                 !.saved = IF source = "save" THEN r.text ELSE result.text,
                 !.saveStatus = IF source = "save" \/ result.canWrite THEN "saved" ELSE "idle"]

\* Mistake: of a remote document everything is taken over but its text.
ApplyWithoutText(r, result, source) ==
  IF source = "remote"
  THEN [r EXCEPT !.title = result.title, !.canWrite = result.canWrite,
                 !.revision = result.revision, !.status = "connected", !.conflict = FALSE]
  ELSE [r EXCEPT !.title = result.title, !.canWrite = result.canWrite,
                 !.revision = result.revision, !.status = "connected", !.conflict = FALSE,
                 !.dirty = FALSE,
                 !.text = IF source = "save" THEN @ ELSE result.text,
                 !.saved = IF source = "save" THEN r.text ELSE result.text,
                 !.saveStatus = IF source = "save" \/ result.canWrite THEN "saved" ELSE "idle"]

\* A document from a remote source is held back as a conflict, if it is newer,
\* while there is unsaved text.
ApplyContentResult(r, result, source) ==
  IF source = "remote" /\ r.dirty
  THEN [r EXCEPT !.conflict   = @ \/ result.revision > r.revision,
                 !.saveStatus = IF result.revision > r.revision THEN "conflict" ELSE @,
                 !.title = result.title, !.canWrite = result.canWrite]
  ELSE [r EXCEPT !.title = result.title, !.canWrite = result.canWrite,
                 !.revision = result.revision, !.status = "connected", !.conflict = FALSE,
                 !.dirty = FALSE,
                 !.text = IF source = "save" THEN @ ELSE result.text,
                 !.saved = IF source = "save" THEN r.text ELSE result.text,
                 !.saveStatus = IF source = "save" \/ result.canWrite THEN "saved" ELSE "idle"]

Becomes(e, r) == editor' = [editor EXCEPT ![e] = Autosave(@, r)]

Mishap(r, name, happened) == [r EXCEPT !.mishaps = IF happened THEN @ \cup {name} ELSE @]

\* What the subscription tells the hook.
OnConnected(r) == [r EXCEPT !.fallback = FALSE, !.status = "connected"]

OnDisconnected(r) ==
  [r EXCEPT !.fallback = TRUE, !.status = IF @ = "error" THEN @ ELSE "disconnected"]

OnError(r) == [OnDisconnected(r) EXCEPT !.error = TRUE]

\* The notice above the text: the first of these that applies. There is none of
\* a divergence, which these editors do not look for.
EditorNotice(r) ==
  IF r.error THEN "error"
  ELSE IF r.conflict THEN "conflict"
  ELSE IF r.status \in {"loading", "disconnected"} THEN r.status
  ELSE IF ~r.canWrite THEN "read-only" ELSE "none"

-----------------------------------------------------------------------------
(* Editing and saving.                                                     *)

Type(e) ==
  /\ editor[e].canWrite /\ typed[e] < scenario.maxEdits
  /\ typed' = [typed EXCEPT ![e] = @ + 1]
  /\ Becomes(e, Mishap([editor[e] EXCEPT !.text = @ \cup {<<e, typed[e] + 1>>}, !.dirty = TRUE,
                                         !.saveStatus = IF @ = "conflict" THEN @ ELSE "unsaved"],
                        "overlooked", saves[e] # NoSave))
  /\ UNCHANGED <<reads, saves, socket, serverVars>>

\* saveNow, for the state r: there is nothing to do, nothing to save, or a
\* request is sent.
SaveNow(e, r) ==
  IF ~r.canWrite \/ r.saving \/ r.conflict
  THEN Becomes(e, r) /\ UNCHANGED saves
  ELSE IF ~r.dirty /\ r.text = r.saved
       THEN Becomes(e, [r EXCEPT !.saveStatus = "saved"]) /\ UNCHANGED saves
       ELSE /\ Becomes(e, [r EXCEPT !.saving = TRUE, !.saveStatus = "saving", !.error = FALSE])
            /\ saves' = [saves EXCEPT ![e] = [stage |-> "sent", text |-> r.text,
                                              base |-> r.revision, title |-> r.title]]

TimerFires(e) ==
  /\ editor[e].timer
  /\ SaveNow(e, [editor[e] EXCEPT !.timer = FALSE])
  /\ UNCHANGED <<reads, socket, serverVars, typed>>

\* The button is disabled without write access and in a conflict.
PressSave(e) ==
  /\ editor[e].canWrite /\ ~editor[e].conflict /\ editor[e].saveStatus # "saving"
  /\ SaveNow(e, editor[e])
  /\ UNCHANGED <<reads, socket, serverVars, typed>>

\* Mistake: the revision of a refused save is taken over, as if it were known.
SaveEndsForgiving(e) ==
  /\ saves[e].stage = "answered"
  /\ saves' = [saves EXCEPT ![e] = NoSave]
  /\ LET r == [editor[e] EXCEPT !.saving = FALSE]
     IN  Becomes(e, CASE saves[e].answer = "ok" -> ApplyContentResult(r, saves[e].result, "save")
                      [] saves[e].answer = "conflict" -> [r EXCEPT !.revision = @ + 1]
                      [] saves[e].answer = "error" -> [r EXCEPT !.saveStatus = "error",
                                                                !.error = TRUE])
  /\ UNCHANGED <<reads, socket, serverVars, typed>>

\* Mistake: only a save that succeeded allows the next one.
SaveEndsBusy(e) ==
  /\ saves[e].stage = "answered"
  /\ saves' = [saves EXCEPT ![e] = NoSave]
  /\ LET r == [editor[e] EXCEPT !.saving = saves[e].answer # "ok"]
     IN  Becomes(e, CASE saves[e].answer = "ok" -> ApplyContentResult(r, saves[e].result, "save")
                      [] saves[e].answer = "conflict" -> [r EXCEPT !.conflict = TRUE,
                                                                   !.saveStatus = "conflict"]
                      [] saves[e].answer = "error" -> [r EXCEPT !.saveStatus = "error",
                                                                !.error = TRUE])
  /\ UNCHANGED <<reads, socket, serverVars, typed>>

\* The answer to a save arrives.
SaveEnds(e) ==
  /\ saves[e].stage = "answered"
  /\ saves' = [saves EXCEPT ![e] = NoSave]
  /\ LET r == [editor[e] EXCEPT !.saving = FALSE]
     IN  Becomes(e, CASE saves[e].answer = "ok" ->
                           Mishap(ApplyContentResult(r, saves[e].result, "save"),
                                  "rewound", r.conflict)
                      [] saves[e].answer = "conflict" -> [r EXCEPT !.conflict = TRUE,
                                                                   !.saveStatus = "conflict"]
                      [] saves[e].answer = "error" -> [r EXCEPT !.saveStatus = "error",
                                                                !.error = TRUE])
  /\ UNCHANGED <<reads, socket, serverVars, typed>>

-----------------------------------------------------------------------------
(* Learning of the others' saves.                                          *)

\* The interval of the poll fires; polls may overlap.
Poll(e) ==
  /\ scenario.mode = "polling" \/ editor[e].fallback
  /\ editor[e].status # "loading"
  /\ Cardinality(reads[e]) < scenario.maxReads
  /\ reads' = [reads EXCEPT ![e] = @ \cup {[source |-> "poll", answer |-> NoAnswer]}]
  /\ UNCHANGED <<clientVars, saves, socket, serverVars>>

\* The user does what the notice of a conflict says, and opens the document anew.
Reopen(e) ==
  /\ editor[e].conflict /\ saves[e] = NoSave
  /\ editor' = [editor EXCEPT ![e] = [InitialEditor EXCEPT !.mishaps = editor[e].mishaps \cap {"raced", "crossed"}]]
  /\ reads' = [reads EXCEPT ![e] = FirstReads]
  /\ socket' = [socket EXCEPT ![e] = FirstSocket]
  /\ UNCHANGED <<typed, saves, serverVars>>

GetContent(e) ==
  /\ \E q \in reads[e] :
       /\ q.answer = NoAnswer
       /\ reads' = [reads EXCEPT ![e] = (@ \ {q}) \cup {[q EXCEPT !.answer = Result(e)]}]
  /\ UNCHANGED <<clientVars, saves, socket, serverVars>>

\* An answer arrives. That of a poll is ignored if it is older than the editor's
\* revision.
ReadEnds(e) ==
  \E q \in reads[e] :
    /\ q.answer # NoAnswer
    /\ reads' = [reads EXCEPT ![e] = @ \ {q}]
    /\ IF q.source = "poll" /\ q.answer.revision < editor[e].revision THEN UNCHANGED editor
       ELSE LET r == Mishap(ApplyContentResult(editor[e], q.answer,
                              IF q.source = "initial" THEN "initial" ELSE "remote"),
                            "late", q.source = "initial" /\ editor[e].text # {})
                c == Mishap(r, "crossed", q.source = "initial" /\ saves[e] # NoSave)
            IN  Becomes(e, Mishap(c, "rewound", q.answer.revision < editor[e].revision))
    /\ UNCHANGED <<typed, saves, socket, serverVars>>

ReadFails(e) ==
  /\ "read" \in scenario.failures
  /\ \E q \in reads[e] :
       LET r == [editor[e] EXCEPT !.error = TRUE] IN
       /\ reads' = [reads EXCEPT ![e] = @ \ {q}]
       /\ Becomes(e, CASE q.source = "initial" -> [r EXCEPT !.status = "error",
                                                            !.saveStatus = "error"]
                       [] q.source = "poll" ->
                            Mishap([r EXCEPT !.status = "disconnected"], "offline", TRUE))
  /\ UNCHANGED <<typed, saves, socket, serverVars>>

Subscription(e, stage) == socket' = [socket EXCEPT ![e].stage = stage]

\* connection_ack: the client is connected and subscribes.
ConnectionAck(e) ==
  /\ socket[e].stage = "opening"
  /\ Subscription(e, "acknowledged")
  /\ Becomes(e, OnConnected(editor[e]))
  /\ UNCHANGED <<typed, reads, saves, serverVars>>

\* The server registers the queue of the subscriber.
Listen(e) ==
  /\ socket[e].stage = "acknowledged"
  /\ Subscription(e, "listening")
  /\ editor' = [editor EXCEPT ![e] = Mishap(@, "missed", Len(history) > 1)]
  /\ UNCHANGED <<typed, reads, saves, serverVars>>

\* The subscriber is woken by the one event its queue holds, and reads the
\* document anew.
Notify(e) ==
  /\ socket[e].stage = "listening" /\ socket[e].event
  /\ socket' = [socket EXCEPT ![e].event = FALSE, ![e].messages = Append(@, Result(e))]
  /\ UNCHANGED <<clientVars, reads, saves, serverVars>>

Event(e) ==
  /\ socket[e].messages # <<>>
  /\ socket' = [socket EXCEPT ![e].messages = Tail(@)]
  /\ Becomes(e, ApplyContentResult(editor[e], Head(socket[e].messages), "remote"))
  /\ UNCHANGED <<typed, reads, saves, serverVars>>

\* The socket fails or closes, the subscription ends; there is no other one.
Disconnected(e) ==
  /\ "socket" \in scenario.failures /\ socket[e].stage \notin {"none", "ended"}
  /\ socket' = [socket EXCEPT ![e] = [stage |-> "ended", event |-> FALSE, messages |-> <<>>]]
  /\ \E failed \in BOOLEAN :
       Becomes(e, Mishap(IF failed THEN OnError(editor[e]) ELSE OnDisconnected(editor[e]),
                         "offline", TRUE))
  /\ UNCHANGED <<typed, reads, saves, serverVars>>

-----------------------------------------------------------------------------
(* The server.                                                             *)

Stage(e, s) == saves' = [saves EXCEPT ![e].stage = s]

Answered(e, answer) ==
  saves' = [saves EXCEPT ![e] = [stage |-> "answered", answer |-> answer]]

\* A title other than the document's name renames it, whatever comes of the save.
RenameItem(e) ==
  /\ saves[e].stage = "sent"
  /\ Stage(e, "named")
  /\ document' = [document EXCEPT !.name = saves[e].title]
  /\ UNCHANGED <<clientVars, reads, socket, history>>

CompareRevision(e) ==
  /\ saves[e].stage = "named"
  /\ IF document.revision # saves[e].base THEN Answered(e, "conflict") ELSE Stage(e, "compared")
  /\ editor' = [editor EXCEPT ![e] =
       Mishap(@, "raced", \E d \in Editors \ {e} : saves[d].stage = "compared")]
  /\ UNCHANGED <<typed, reads, socket, serverVars>>

\* The answer to a save shows what was sent.
Saved(e) ==
  ToDocumentContentResult([Content(e) EXCEPT !.content = PlainTextToTiptap(saves[e].text)])

\* Mistake: the revision is not incremented.
CommitSameRevision(e) ==
  /\ saves[e].stage = "compared"
  /\ document' = [document EXCEPT !.content = PlainTextToTiptap(saves[e].text)]
  /\ history' = Append(history, Revision(saves[e].text, saves[e].base))
  /\ saves' = [saves EXCEPT ![e] = [stage |-> "answered", answer |-> "ok", result |-> Saved(e)]]
  /\ socket' = [d \in Editors |->
                  [socket[d] EXCEPT !.event = @ \/ socket[d].stage = "listening"]]
  /\ UNCHANGED <<clientVars, reads>>

\* The row is written as it was read, one revision further; the answer is built
\* from it, and the subscribers are told.
CommitSave(e) ==
  LET next == saves[e].base + 1
  IN  /\ saves[e].stage = "compared"
      /\ document' = [document EXCEPT !.content = PlainTextToTiptap(saves[e].text),
                                      !.revision = next]
      /\ history' = Append(history, Revision(saves[e].text, next))
      /\ saves' = [saves EXCEPT ![e] = [stage |-> "answered", answer |-> "ok",
                                        result |-> [Saved(e) EXCEPT !.revision = next]]]
      /\ socket' = [d \in Editors |->
                      [socket[d] EXCEPT !.event = @ \/ socket[d].stage = "listening"]]
      /\ UNCHANGED <<clientVars, reads>>

\* The request does not reach the server.
LoseSave(e) ==
  /\ "save" \in scenario.failures /\ saves[e].stage = "sent"
  /\ Answered(e, "error")
  /\ UNCHANGED <<clientVars, reads, socket, serverVars>>

\* The answer to a save does not reach the editor.
LoseAnswer(e) ==
  /\ "answer" \in scenario.failures /\ saves[e].stage = "answered" /\ saves[e].answer # "error"
  /\ Answered(e, "error")
  /\ UNCHANGED <<clientVars, reads, socket, serverVars>>

\* Somebody renames the document in the workspace, once.
Rename ==
  /\ "rename" \in scenario.failures /\ document.name = "old"
  /\ document' = [document EXCEPT !.name = "new"]
  /\ UNCHANGED <<clientVars, reads, saves, socket, history>>

-----------------------------------------------------------------------------
Serve(e) == RenameItem(e) \/ CompareRevision(e) \/ CommitSave(e)

Browser(e) == TimerFires(e) \/ SaveEnds(e) \/ ReadEnds(e) \/ Event(e) \/ ConnectionAck(e)

Answer(e) == Serve(e) \/ GetContent(e) \/ Listen(e) \/ Notify(e)

User(e) == Type(e) \/ PressSave(e) \/ Reopen(e)

Fault(e) == LoseSave(e) \/ LoseAnswer(e) \/ ReadFails(e) \/ Disconnected(e)

Next ==
  /\ Rename \/ \E e \in Editors : Browser(e) \/ Answer(e) \/ User(e) \/ Poll(e) \/ Fault(e)
  /\ UNCHANGED scenario

Spec == Init /\ [][Next]_<<vars, scenario>>

\* Timers fire, requests are served and answered, messages arrive. The interval of
\* the poll fires again and again, whatever else is read meanwhile.
FairSpec ==
  Spec /\ \A e \in Editors : /\ WF_vars(TimerFires(e)) /\ WF_vars(SaveEnds(e))
                             /\ WF_vars(ReadEnds(e)) /\ WF_vars(Event(e))
                             /\ WF_vars(ConnectionAck(e)) /\ SF_vars(Poll(e))
                             /\ WF_vars(Serve(e)) /\ WF_vars(GetContent(e))
                             /\ WF_vars(Listen(e)) /\ WF_vars(Notify(e))
-----------------------------------------------------------------------------
(* Properties.                                                             *)

TypeOK ==
  /\ \A e \in Editors :
       LET r == editor[e]
       IN  /\ r.status \in {"loading", "connected", "disconnected", "error"}
           /\ r.saveStatus \in {"idle", "unsaved", "saving", "saved", "conflict", "error"}
           /\ r.text \subseteq Edits /\ r.saved \subseteq Edits
           /\ r.revision \in 0..Len(history)
           /\ {r.conflict, r.canWrite, r.dirty, r.saving, r.timer, r.fallback, r.error} \subseteq BOOLEAN
           /\ saves[e].stage \in {"none", "sent", "named", "compared", "answered"}
           /\ r.saving <=> saves[e].stage # "none"
  /\ DOMAIN document.content \subseteq Edits /\ document.revision <= Len(history)
  /\ typed \in [Editors -> 0..scenario.maxEdits]

\* No revision drops a line of the one before it.
NothingIsLost ==
  \A i \in DOMAIN history : i > 1 =>
    /\ TiptapToPlainText(history[i - 1].content) \subseteq TiptapToPlainText(history[i].content)
    /\ history[i - 1].revision + 1 = history[i].revision

\* No save undoes another, unless the server works on two at a time or the first
\* answer crosses a save: every content that is stored contains the lines of the
\* one before it, empty ones excepted, and has the next revision. An editor that did
\* not see a save cannot save over it ("preventing an autosave from overwriting a
\* newer backend revision", applyContentResult).
NoSaveIsOverwritten ==
  (\A e \in Editors : editor[e].mishaps \cap {"raced", "crossed"} = {}) => NothingIsLost

\* The same however saves are interleaved ("Save TipTap JSON content and
\* increment the revision exactly once", update_content).
NoSaveIsEverOverwritten == NothingIsLost

\* What the badge calls saved is stored, as the text of the editor's revision, in
\* the form in which it was typed or in that in which it is loaded, unless it was
\* typed during a save or before the first answer.
SavedMeansStored ==
  \A e \in Editors :
    editor[e].saveStatus = "saved" /\ editor[e].mishaps \cap {"overlooked", "late"} = {} =>
      \E i \in DOMAIN history :
        /\ history[i].revision = editor[e].revision
        /\ editor[e].text \in {DOMAIN history[i].content, TiptapToPlainText(history[i].content)}

Stored == UNION {DOMAIN history[i].content : i \in DOMAIN history}

\* What a user typed and no revision has does not vanish from the view ("Remote
\* updates are held as conflicts when the local editor has unsaved changes",
\* applyContentResult), unless it was typed during a save or before the first
\* answer, or the user opens the document anew.
UnsavedTextIsHeld ==
  [][\A e \in Editors :
       editor'[e].mishaps \cap {"overlooked", "late"} = {} /\ editor'[e].status # "loading"
       => editor[e].text \ Stored \subseteq editor'[e].text]_vars

\* Unsaved text is saved at last, or the user is told that something is wrong: no
\* failure leaves both the text unsaved and the user without a notice.
DirtyIsSaved ==
  \A e \in Editors :
    editor[e].dirty ~> \/ ~editor[e].dirty \/ editor[e].saveStatus \in {"conflict", "error"}
                       \/ EditorNotice(editor[e]) \in {"error", "conflict", "disconnected"}

\* An editor without unsaved text comes to display what is stored, but for empty
\* lines, unless a save fell between its first read and its subscription, answers
\* and events came out of their order, or two saves got the same revision.
ViewsCatchUp ==
  \A e \in Editors :
    []<>(\/ editor[e].text \ scenario.blank = TiptapToPlainText(document.content)
         \/ editor[e].dirty
         \/ editor[e].mishaps \cap {"missed", "late", "rewound", "offline"} # {}
         \/ \E d \in Editors : "raced" \in editor[d].mishaps)
=============================================================================
