-------------------------- MODULE ContentSyncProofs --------------------------
(***************************************************************************)
(* However many editors save one document, with whatever is lost, late or  *)
(* overlapping, no save undoes another, unless the server works on two at  *)
(* a time or the first answer crosses a save; what is called saved is      *)
(* stored, and what is not saved stays in view.                            *)
(*                                                                         *)
(* The first invariant (Inv): what an editor displays contains the text of *)
(* the revision it names, what is on the way to an editor is the text of   *)
(* the revision it names, and what is on the way to the server contains    *)
(* the text of the revision it was based on. The second (SyncInv), which   *)
(* races do not touch: the texts of an editor without unsaved edits, of a  *)
(* save and of its answer are those of stored revisions.                   *)
(***************************************************************************)
EXTENDS ContentSync, TLAPS

Lines == Editors \X Nat

Contents == UNION {[S -> SUBSET Lines] : S \in SUBSET Lines}

Titles == {"none", "old", "new"}

Fields == {"status", "saveStatus", "conflict", "canWrite", "revision", "text", "saved", "dirty",
           "saving", "title", "timer", "fallback", "error", "mishaps"}

IsEditor(r) ==
  /\ r = [f \in Fields |-> r[f]]
  /\ r.revision \in Nat /\ r.text \in SUBSET Lines /\ r.title \in Titles
  /\ r.canWrite \in BOOLEAN /\ r.dirty \in BOOLEAN

Results == [text : SUBSET Lines, revision : Nat, title : Titles, canWrite : BOOLEAN]

OpenSaves == [stage : {"sent", "named", "compared"}, text : SUBSET Lines, base : Nat,
              title : Titles]

IsSave(s) ==
  /\ s.stage \in {"none", "sent", "named", "compared", "answered"}
  /\ s.stage \in {"sent", "named", "compared"} => s \in OpenSaves
  /\ s.stage = "answered" => /\ s.answer \in {"ok", "conflict", "error"}
                             /\ s.answer = "ok" => s.result \in Results

IsRead(q) ==
  /\ q = [source |-> q.source, answer |-> q.answer] /\ q.source \in {"initial", "poll"}
  /\ q.answer # NoAnswer => q.answer \in Results

Sockets ==
  [stage : {"none", "opening", "acknowledged", "listening", "ended"}, event : BOOLEAN,
   messages : Seq(Results)]

Revisions == [content : Contents, revision : Nat]

\* The variables are functions, and what belongs to one editor is of its type.
Shape ==
  /\ editor = [e \in Editors |-> editor[e]] /\ saves = [e \in Editors |-> saves[e]]
  /\ reads = [e \in Editors |-> reads[e]] /\ socket = [e \in Editors |-> socket[e]]
  /\ typed \in [Editors -> Nat]

LocalType(e) ==
  /\ IsEditor(editor[e]) /\ IsSave(saves[e]) /\ socket[e] \in Sockets
  /\ \A q \in reads[e] : IsRead(q)

ServerType ==
  /\ document \in [content : Contents, revision : Nat, name : Titles]
  /\ history \in Seq(Revisions)

TypeInv == Shape /\ ServerType /\ \A e \in Editors : LocalType(e)

StoredLines(n) == TiptapToPlainText(history[n].content)

\* A document as the server had it at its revision.
Genuine(a) == a.revision \in 1..Len(history) /\ a.text = StoredLines(a.revision)

\* Every revision has its number and contains the one before it; none has an empty
\* line; the document is the last one.
GoodHistory ==
  /\ Len(history) \in Nat \ {0}
  /\ \A i \in 1..Len(history) :
       history[i].revision = i /\ StoredLines(i) \cap scenario.blank = {}
  /\ \A i, j \in 1..Len(history) : i <= j => StoredLines(i) \subseteq StoredLines(j)
  /\ document.content = history[Len(history)].content /\ document.revision = Len(history)

\* An editor displays at least the text of its revision.
GoodEditor(r) ==
  /\ r.revision \in 0..Len(history)
  /\ r.revision = 0 => ~r.canWrite /\ ~r.dirty
  /\ r.revision > 0 => StoredLines(r.revision) \subseteq r.text
  /\ ~r.dirty => r.text = r.saved

\* A request to save contains the text of the revision it is based on, and what is
\* answered to it is still displayed.
GoodSave(s, r) ==
  /\ s.stage # "none" => r.dirty
  /\ s.stage \in {"sent", "named", "compared"} =>
       /\ s.base \in 1..Len(history)
       /\ StoredLines(s.base) \subseteq s.text /\ s.text \subseteq r.text
  /\ s.stage = "answered" /\ s.answer = "ok" => Genuine(s.result) /\ s.result.text \subseteq r.text

LocalGood(e) ==
  /\ GoodEditor(editor[e]) /\ GoodSave(saves[e], editor[e])
  /\ \A q \in reads[e] : q.answer # NoAnswer => Genuine(q.answer)
  /\ \A i \in 1..Len(socket[e].messages) : Genuine(socket[e].messages[i])

\* A save that has passed the comparison is the only one, and still based on the
\* document.
Compared(e) ==
  saves[e].stage = "compared" =>
    /\ saves[e].base = document.revision
    /\ \A d \in Editors \ {e} : saves[d].stage # "compared"

Good == GoodHistory /\ \A e \in Editors : LocalGood(e) /\ Compared(e)

Excepted == {"raced", "crossed"}

Undisturbed == \A e \in Editors : editor[e].mishaps \cap Excepted = {}

Inv == TypeInv /\ (Undisturbed => Good)

-----------------------------------------------------------------------------
(* Texts.                                                                  *)

\* A text that is stored and loaded again has lost its empty lines.
LEMMA RoundTrip ==
  ASSUME NEW text
  PROVE  TiptapToPlainText(PlainTextToTiptap(text)) = text \ scenario.blank
BY DEF TiptapToPlainText, PlainTextToTiptap

\* A text becomes a document.
LEMMA ContentType ==
  ASSUME NEW text \in SUBSET Lines
  PROVE  PlainTextToTiptap(text) \in Contents
<1>1. PlainTextToTiptap(text) \in [text -> SUBSET Lines]
  BY DEF PlainTextToTiptap
<1> QED
  BY <1>1 DEF Contents

\* A document becomes a text.
LEMMA LinesType ==
  ASSUME NEW c \in Contents
  PROVE  TiptapToPlainText(c) \in SUBSET Lines
BY DEF Contents, TiptapToPlainText

-----------------------------------------------------------------------------
(* What the handlers make of an editor.                                    *)

\* Only the mishaps are other ones.
LEMMA MishapFields ==
  ASSUME NEW r, IsEditor(r), NEW name, NEW happened
  PROVE  LET m == Mishap(r, name, happened)
         IN  /\ IsEditor(m)
             /\ m.text = r.text /\ m.saved = r.saved /\ m.dirty = r.dirty
             /\ m.revision = r.revision /\ m.canWrite = r.canWrite
             /\ r.mishaps \subseteq m.mishaps /\ (happened => name \in m.mishaps)
BY DEF Mishap, IsEditor, Fields

\* Only the timer is another one.
LEMMA AutosaveFields ==
  ASSUME NEW old, NEW r, IsEditor(r)
  PROVE  LET m == Autosave(old, r)
         IN  /\ IsEditor(m)
             /\ m.text = r.text /\ m.saved = r.saved /\ m.dirty = r.dirty
             /\ m.revision = r.revision /\ m.canWrite = r.canWrite /\ m.mishaps = r.mishaps
BY DEF Autosave, IsEditor, Fields

\* A document is held back, or taken over.
LEMMA AppliedFields ==
  ASSUME NEW r, IsEditor(r), NEW a \in Results, NEW source
  PROVE  LET m == ApplyContentResult(r, a, source)
         IN  /\ IsEditor(m) /\ m.mishaps = r.mishaps /\ m.canWrite = a.canWrite
             /\ source = "remote" /\ r.dirty =>
                  m.text = r.text /\ m.saved = r.saved /\ m.dirty /\ m.revision = r.revision
             /\ ~(source = "remote" /\ r.dirty) =>
                  /\ m.revision = a.revision /\ ~m.dirty /\ m.text = m.saved
                  /\ m.text = (IF source = "save" THEN r.text ELSE a.text)
<1>1. CASE source = "remote" /\ r.dirty
  BY <1>1 DEF ApplyContentResult, IsEditor, Fields, Results
<1>2. CASE ~(source = "remote" /\ r.dirty)
  BY <1>2 DEF ApplyContentResult, IsEditor, Fields, Results
<1> QED
  BY <1>1, <1>2

\* An editor's next state is r, but for the timer and what is only shown.
Displays(e, r) ==
  /\ editor' = [d \in Editors |-> editor'[d]]
  /\ \A d \in Editors \ {e} : editor'[d] = editor[d]
  /\ LET m == editor'[e]
     IN  /\ IsEditor(m)
         /\ m.text = r.text /\ m.saved = r.saved /\ m.dirty = r.dirty
         /\ m.revision = r.revision /\ m.canWrite = r.canWrite /\ m.mishaps = r.mishaps

\* An editor's next state is that of the handler.
LEMMA BecomesFields ==
  ASSUME NEW e \in Editors, NEW r, IsEditor(r), Shape, Becomes(e, r)
  PROVE  Displays(e, r)
<1> DEFINE m == Autosave(editor[e], r)
<1>1. editor' = [editor EXCEPT ![e] = m]
  BY DEF Becomes
<1>2. /\ IsEditor(m)
      /\ m.text = r.text /\ m.saved = r.saved /\ m.dirty = r.dirty
      /\ m.revision = r.revision /\ m.canWrite = r.canWrite /\ m.mishaps = r.mishaps
  BY AutosaveFields
<1> HIDE DEF m
<1>3. editor = [d \in Editors |-> editor[d]]
  BY DEF Shape
<1>4. editor'[e] = m
  BY <1>1, <1>3
<1> QED
  BY <1>1, <1>2, <1>3, <1>4 DEF Displays
-----------------------------------------------------------------------------
(* Steps that concern one editor.                                          *)

\* What such a step leaves alone, and what it must show of its editor.
Others(e) ==
  /\ Shape'
  /\ \A d \in Editors \ {e} : /\ editor'[d] = editor[d] /\ saves'[d] = saves[d]
                             /\ reads'[d] = reads[d] /\ socket'[d] = socket[d]

DocumentKept ==
  /\ history' = history /\ scenario' = scenario
  /\ document' \in [content : Contents, revision : Nat, name : Titles]
  /\ document'.content = document.content /\ document'.revision = document.revision

Kept(e) == editor[e].mishaps \cap Excepted \subseteq editor'[e].mishaps

LocalStep(e) ==
  /\ Others(e) /\ DocumentKept /\ LocalType(e)' /\ Kept(e)
  /\ Good /\ editor'[e].mishaps \cap Excepted = {} => LocalGood(e)' /\ Compared(e)'

\* If they show it, the invariant is kept.
LEMMA LocalStepKeeps ==
  ASSUME Inv, NEW e \in Editors, LocalStep(e)
  PROVE  Inv'
<1>1. TypeInv'
  BY DEF Inv, TypeInv, LocalStep, Others, LocalType, IsEditor, IsRead, DocumentKept, ServerType
<1>2. ASSUME Undisturbed' PROVE Good'
  <2>1. Undisturbed
    BY <1>2 DEF Undisturbed, LocalStep, Others, Kept
  <2>2. Good
    BY <2>1 DEF Inv
  <2>3. GoodHistory'
    BY <2>2 DEF Good, GoodHistory, LocalStep, DocumentKept, StoredLines
  <2>4. LocalGood(e)' /\ Compared(e)'
    BY <1>2, <2>2 DEF LocalStep, Undisturbed
  <2>5. ASSUME NEW d \in Editors \ {e} PROVE LocalGood(d)' /\ Compared(d)'
    <3>1. /\ LocalGood(d) /\ Compared(d) /\ editor'[d] = editor[d] /\ saves'[d] = saves[d]
          /\ reads'[d] = reads[d] /\ socket'[d] = socket[d] /\ history' = history
          /\ document'.revision = document.revision
      BY <2>2 DEF Good, LocalStep, Others, DocumentKept
    <3>2. LocalGood(d)'
      BY <3>1 DEF LocalGood, GoodEditor, GoodSave, Genuine, StoredLines
    <3>3. Compared(d)'
      BY <2>4, <3>1 DEF Compared, LocalStep, Others
    <3> QED
      BY <3>2, <3>3
  <2> QED
    BY <2>3, <2>4, <2>5 DEF Good
<1> QED
  BY <1>1, <1>2 DEF Inv

-----------------------------------------------------------------------------
(* The steps of a browser.                                                 *)

\* What is around the editor that a handler changes.
Around(e) ==
  /\ saves' = [d \in Editors |-> saves'[d]] /\ reads' = [d \in Editors |-> reads'[d]]
  /\ socket' = [d \in Editors |-> socket'[d]] /\ typed' \in [Editors -> Nat]
  /\ \A d \in Editors \ {e} : /\ saves'[d] = saves[d] /\ reads'[d] = reads[d]
                             /\ socket'[d] = socket[d]
  /\ IsSave(saves'[e]) /\ socket'[e] \in Sockets /\ \A q \in reads'[e] : IsRead(q)
  /\ UNCHANGED <<document, history, scenario>>

GoodAround(e, r) ==
  /\ GoodEditor(r) /\ GoodSave(saves'[e], r)
  /\ saves'[e].stage = "compared" => saves'[e] = saves[e]
  /\ \A q \in reads'[e] : q.answer # NoAnswer => Genuine(q.answer)
  /\ \A i \in 1..Len(socket'[e].messages) : Genuine(socket'[e].messages[i])

\* A step that makes r of an editor.
LEMMA Displayed ==
  ASSUME Inv, NEW e \in Editors, NEW r, Displays(e, r), Around(e),
         editor[e].mishaps \cap Excepted \subseteq r.mishaps,
         Good /\ r.mishaps \cap Excepted = {} => GoodAround(e, r)
  PROVE  LocalStep(e)
<1> DEFINE m == editor'[e]
<1>2. /\ editor' = [d \in Editors |-> editor'[d]]
      /\ \A d \in Editors \ {e} : editor'[d] = editor[d]
      /\ IsEditor(m)
      /\ m.text = r.text /\ m.saved = r.saved /\ m.dirty = r.dirty
      /\ m.revision = r.revision /\ m.canWrite = r.canWrite /\ m.mishaps = r.mishaps
  BY DEF Displays
<1> HIDE DEF m
<1>3. Others(e) /\ LocalType(e)' /\ Kept(e)
  BY <1>2 DEF Around, Others, Shape, LocalType, IsRead, Kept, m, IsEditor
<1>4. DocumentKept
  BY DEF Around, DocumentKept, Inv, TypeInv, ServerType
<1>5. ASSUME Good, m.mishaps \cap Excepted = {} PROVE LocalGood(e)' /\ Compared(e)'
  <2>1. GoodAround(e, r) /\ history' = history /\ document' = document
    BY <1>2, <1>5 DEF Around
  <2>2. GoodEditor(editor[e])' /\ GoodSave(saves[e], editor[e])'
    BY <1>2, <2>1 DEF GoodAround, GoodEditor, GoodSave, Genuine, StoredLines, m
  <2>3. LocalGood(e)'
    BY <2>1, <2>2 DEF GoodAround, LocalGood, Genuine, StoredLines
  <2>4. Compared(e)'
    BY <1>5, <2>1 DEF GoodAround, Compared, Around, Good
  <2> QED
    BY <2>3, <2>4
<1> QED
  BY <1>3, <1>4, <1>5 DEF LocalStep, m

\* A handler that makes r of an editor.
LEMMA Handled ==
  ASSUME Inv, NEW e \in Editors, NEW r, IsEditor(r), Becomes(e, r), Around(e),
         editor[e].mishaps \cap Excepted \subseteq r.mishaps,
         Good /\ r.mishaps \cap Excepted = {} => GoodAround(e, r)
  PROVE  LocalStep(e)
<1>1. Shape
  BY DEF Inv, TypeInv
<1> QED
  BY <1>1, BecomesFields, Displayed

\* What is known of an editor.
LEMMA Known ==
  ASSUME Inv, NEW e \in Editors
  PROVE  /\ Shape /\ LocalType(e) /\ ServerType /\ Len(history) \in Nat
         /\ Good => GoodHistory /\ LocalGood(e) /\ Compared(e)
BY DEF Inv, TypeInv, Good, ServerType

\* The user types.
LEMMA TypeKeeps ==
  ASSUME Inv, NEW e \in Editors, Type(e), scenario' = scenario
  PROVE  LocalStep(e)
<1> DEFINE new  == <<e, typed[e] + 1>>
           t    == [editor[e] EXCEPT !.text = @ \cup {new}, !.dirty = TRUE,
                                     !.saveStatus = IF @ = "conflict" THEN @ ELSE "unsaved"]
           r    == Mishap(t, "overlooked", saves[e] # NoSave)
<1>1. /\ Shape /\ LocalType(e) /\ ServerType
      /\ Good => GoodHistory /\ LocalGood(e) /\ Compared(e)
  BY Known
<1>2. new \in Lines
  BY <1>1 DEF Shape, Lines
<1> HIDE DEF new
<1>3. /\ IsEditor(t) /\ t.text = editor[e].text \cup {new} /\ t.dirty = TRUE
      /\ t.revision = editor[e].revision /\ t.canWrite = editor[e].canWrite
      /\ t.mishaps = editor[e].mishaps
  BY <1>1, <1>2 DEF LocalType, IsEditor, Fields
<1> HIDE DEF t
<1>4. /\ IsEditor(r) /\ r.text = t.text /\ r.saved = t.saved /\ r.dirty = t.dirty
      /\ r.revision = t.revision /\ r.canWrite = t.canWrite /\ t.mishaps \subseteq r.mishaps
  BY <1>3, MishapFields
<1>5. Becomes(e, r)
  BY DEF Type, t, new
<1> HIDE DEF r
<1>6. Around(e)
  BY <1>1 DEF Type, Around, Shape, LocalType, serverVars
<1>7. ASSUME Good PROVE GoodAround(e, r)
  <2>1. LocalGood(e) /\ editor[e].canWrite /\ saves' = saves /\ reads' = reads /\ socket' = socket
    BY <1>1, <1>7 DEF Type
  <2>2. GoodEditor(r)
    BY <1>3, <1>4, <2>1 DEF LocalGood, GoodEditor
  <2>3. GoodSave(saves[e], r)
    BY <1>3, <1>4, <2>1 DEF LocalGood, GoodSave
  <2> QED
    BY <2>1, <2>2, <2>3 DEF GoodAround, LocalGood
<1> QED
  BY <1>3, <1>4, <1>5, <1>6, <1>7, Handled

\* Nothing is sent, or what the editor displays, as based on its revision.
LEMMA SaveNowKeeps ==
  ASSUME Inv, NEW e \in Editors, NEW b, IsEditor(b), SaveNow(e, b), scenario' = scenario,
         UNCHANGED <<reads, socket, serverVars, typed>>,
         b.text = editor[e].text, b.saved = editor[e].saved, b.dirty = editor[e].dirty,
         b.revision = editor[e].revision, b.canWrite = editor[e].canWrite,
         b.mishaps = editor[e].mishaps
  PROVE  LocalStep(e)
<1>1. /\ Shape /\ LocalType(e) /\ ServerType
      /\ Good => GoodHistory /\ LocalGood(e) /\ Compared(e)
  BY Known
<1>2. CASE ~b.canWrite \/ b.saving \/ b.conflict \/ (~b.dirty /\ b.text = b.saved)
  <2>1. PICK r : /\ Becomes(e, r) /\ saves' = saves
                 /\ r = b \/ r = [b EXCEPT !.saveStatus = "saved"]
    BY <1>2 DEF SaveNow
  <2>2. /\ IsEditor(r) /\ r.text = b.text /\ r.saved = b.saved /\ r.dirty = b.dirty
        /\ r.revision = b.revision /\ r.canWrite = b.canWrite /\ r.mishaps = b.mishaps
    BY <2>1 DEF IsEditor, Fields
  <2>3. Around(e)
    BY <1>1, <2>1 DEF Around, Shape, LocalType, serverVars
  <2>4. ASSUME Good PROVE GoodAround(e, r)
    <3>1. GoodEditor(r) /\ GoodSave(saves[e], r)
      BY <1>1, <2>2, <2>4 DEF LocalGood, GoodEditor, GoodSave
    <3> QED
      BY <1>1, <2>1, <2>4, <3>1 DEF LocalGood, GoodAround, serverVars
  <2> QED
    BY <2>1, <2>2, <2>3, <2>4, Handled
<1>3. CASE b.canWrite /\ ~(b.saving \/ b.conflict \/ (~b.dirty /\ b.text = b.saved))
  <2> DEFINE r == [b EXCEPT !.saving = TRUE, !.saveStatus = "saving", !.error = FALSE]
             q == [stage |-> "sent", text |-> b.text, base |-> b.revision, title |-> b.title]
  <2>1. Becomes(e, r) /\ saves' = [saves EXCEPT ![e] = q]
    BY <1>3 DEF SaveNow
  <2>2. /\ IsEditor(r) /\ r.text = b.text /\ r.saved = b.saved /\ r.dirty = b.dirty
        /\ r.revision = b.revision /\ r.canWrite = b.canWrite /\ r.mishaps = b.mishaps
    BY DEF IsEditor, Fields
  <2>3. q \in OpenSaves
    BY DEF OpenSaves, IsEditor
  <2>4. saves' = [d \in Editors |-> saves'[d]] /\ saves'[e] = q
        /\ \A d \in Editors \ {e} : saves'[d] = saves[d]
    BY <1>1, <2>1 DEF Shape
  <2>5. q.stage = "sent" /\ q.text = b.text /\ q.base = b.revision
    OBVIOUS
  <2> HIDE DEF r, q
  <2>6. IsSave(q)
    BY <2>3, <2>5 DEF IsSave
  <2>7. Around(e)
    BY <1>1, <2>4, <2>6 DEF Around, Shape, LocalType, serverVars
  <2>8. ASSUME Good PROVE GoodAround(e, r)
    <3>1. LocalGood(e) /\ editor[e].canWrite /\ editor[e].revision \in 0..Len(history)
      BY <1>1, <1>3, <2>8 DEF LocalGood, GoodEditor
    <3>2. GoodEditor(r)
      BY <2>2, <3>1 DEF LocalGood, GoodEditor
    <3>3. r.dirty /\ r.revision \in 1..Len(history)
      BY <1>1, <1>3, <2>2, <3>1 DEF LocalGood, GoodEditor
    <3>4. GoodSave(q, r)
      BY <2>2, <2>5, <3>2, <3>3 DEF GoodSave, GoodEditor
    <3> QED
      BY <2>4, <2>5, <3>1, <3>2, <3>4 DEF LocalGood, GoodAround, serverVars
  <2> QED
    BY <2>1, <2>2, <2>7, <2>8, Handled
<1> QED
  BY <1>2, <1>3

\* The autosave timer fires.
LEMMA TimerFiresKeeps ==
  ASSUME Inv, NEW e \in Editors, TimerFires(e), scenario' = scenario
  PROVE  LocalStep(e)
<1> DEFINE b == [editor[e] EXCEPT !.timer = FALSE]
<1>1. IsEditor(editor[e])
  BY Known DEF LocalType
<1>2. /\ IsEditor(b) /\ b.text = editor[e].text /\ b.saved = editor[e].saved
      /\ b.dirty = editor[e].dirty /\ b.revision = editor[e].revision
      /\ b.canWrite = editor[e].canWrite /\ b.mishaps = editor[e].mishaps
  BY <1>1 DEF IsEditor, Fields
<1>3. SaveNow(e, b) /\ UNCHANGED <<reads, socket, serverVars, typed>>
  BY DEF TimerFires
<1> QED
  BY <1>2, <1>3, SaveNowKeeps

\* The user presses save.
LEMMA PressSaveKeeps ==
  ASSUME Inv, NEW e \in Editors, PressSave(e), scenario' = scenario
  PROVE  LocalStep(e)
<1>1. IsEditor(editor[e])
  BY Known DEF LocalType
<1> QED
  BY <1>1, SaveNowKeeps DEF PressSave

\* What was saved is still displayed, and its revision is the editor's.
LEMMA SaveEndsKeeps ==
  ASSUME Inv, NEW e \in Editors, SaveEnds(e), scenario' = scenario
  PROVE  LocalStep(e)
<1> DEFINE b == [editor[e] EXCEPT !.saving = FALSE]
           answer == saves[e].answer
           result == saves[e].result
           applied == ApplyContentResult(b, result, "save")
<1>1. /\ Shape /\ LocalType(e) /\ ServerType /\ Len(history) \in Nat
      /\ Good => GoodHistory /\ LocalGood(e) /\ Compared(e)
  BY Known
<1>2. /\ IsEditor(b) /\ b.text = editor[e].text /\ b.saved = editor[e].saved
      /\ b.dirty = editor[e].dirty /\ b.revision = editor[e].revision
      /\ b.canWrite = editor[e].canWrite /\ b.mishaps = editor[e].mishaps
  BY <1>1 DEF LocalType, IsEditor, Fields
<1>3. /\ saves[e].stage = "answered" /\ saves' = [saves EXCEPT ![e] = NoSave]
      /\ UNCHANGED <<reads, socket, serverVars, typed>>
      /\ Becomes(e, CASE answer = "ok" -> Mishap(applied, "rewound", b.conflict)
                       [] answer = "conflict" -> [b EXCEPT !.conflict = TRUE,
                                                           !.saveStatus = "conflict"]
                       [] answer = "error" -> [b EXCEPT !.saveStatus = "error", !.error = TRUE])
  BY DEF SaveEnds
<1>4. Around(e) /\ saves'[e].stage = "none"
  BY <1>1, <1>3 DEF Around, Shape, LocalType, serverVars, NoSave, IsSave
<1>5. ASSUME NEW r, GoodEditor(r), Good PROVE GoodAround(e, r)
  <2>1. GoodSave(saves'[e], r)
    BY <1>4 DEF GoodSave
  <2> QED
    BY <1>1, <1>3, <1>4, <1>5, <2>1 DEF LocalGood, GoodAround
<1> HIDE DEF b
<1>6. CASE answer = "ok"
  <2> DEFINE r == Mishap(applied, "rewound", b.conflict)
  <2>1. result \in Results
    BY <1>1, <1>3, <1>6 DEF LocalType, IsSave
  <2>2. /\ IsEditor(applied) /\ applied.mishaps = b.mishaps /\ applied.revision = result.revision
        /\ ~applied.dirty /\ applied.text = applied.saved /\ applied.text = b.text
    BY <1>2, <2>1, AppliedFields
  <2> HIDE DEF applied
  <2>3. /\ IsEditor(r) /\ r.text = applied.text /\ r.saved = applied.saved
        /\ r.dirty = applied.dirty /\ r.revision = applied.revision
        /\ applied.mishaps \subseteq r.mishaps
    BY <2>2 DEF Mishap, IsEditor, Fields
  <2>4. Becomes(e, r)
    BY <1>3, <1>6
  <2> HIDE DEF r
  <2>5. ASSUME Good PROVE GoodEditor(r)
    <3>1. Genuine(result) /\ result.text \subseteq editor[e].text
      BY <1>1, <1>3, <1>6, <2>5 DEF LocalGood, GoodSave
    <3>2. /\ r.revision = result.revision /\ ~r.dirty /\ r.text = r.saved
          /\ r.text = editor[e].text
      BY <1>2, <2>2, <2>3
    <3>3. r.revision \in 1..Len(history) /\ StoredLines(r.revision) \subseteq r.text
      BY <3>1, <3>2 DEF Genuine
    <3> QED
      BY <1>1, <3>2, <3>3 DEF GoodEditor
  <2> QED
    BY <1>2, <1>4, <1>5, <2>2, <2>3, <2>4, <2>5, Handled
<1>7. CASE answer # "ok"
  <2>1. PICK r : /\ Becomes(e, r) /\ IsEditor(r) /\ r.text = b.text /\ r.saved = b.saved
                 /\ r.dirty = b.dirty /\ r.revision = b.revision /\ r.canWrite = b.canWrite
                 /\ r.mishaps = b.mishaps
    <3>1. CASE answer = "conflict"
      <4> DEFINE r == [b EXCEPT !.conflict = TRUE, !.saveStatus = "conflict"]
      <4>1. /\ IsEditor(r) /\ r.text = b.text /\ r.saved = b.saved
            /\ r.dirty = b.dirty /\ r.revision = b.revision /\ r.canWrite = b.canWrite
            /\ r.mishaps = b.mishaps
        BY <1>2 DEF IsEditor, Fields
      <4>2. Becomes(e, r)
        BY <1>3, <3>1
      <4> QED
        BY <4>1, <4>2
    <3>2. CASE answer = "error"
      <4> DEFINE r == [b EXCEPT !.saveStatus = "error", !.error = TRUE]
      <4>1. /\ IsEditor(r) /\ r.text = b.text /\ r.saved = b.saved
            /\ r.dirty = b.dirty /\ r.revision = b.revision /\ r.canWrite = b.canWrite
            /\ r.mishaps = b.mishaps
        BY <1>2 DEF IsEditor, Fields
      <4>2. Becomes(e, r)
        BY <1>3, <3>2
      <4> QED
        BY <4>1, <4>2
    <3>3. answer \in {"ok", "conflict", "error"}
      BY <1>1, <1>3 DEF LocalType, IsSave
    <3> QED
      BY <1>7, <3>1, <3>2, <3>3
  <2>2. ASSUME Good PROVE GoodEditor(r)
    BY <1>1, <1>2, <2>1, <2>2 DEF LocalGood, GoodEditor
  <2> QED
    BY <1>2, <1>4, <1>5, <2>1, <2>2, Handled
<1> QED
  BY <1>6, <1>7

\* A step that leaves the editor and its save alone.
LEMMA OnTheWay ==
  ASSUME Inv, NEW e \in Editors, Around(e), UNCHANGED <<editor, saves>>,
         Good => /\ \A q \in reads'[e] : q.answer # NoAnswer => Genuine(q.answer)
                 /\ \A i \in 1..Len(socket'[e].messages) : Genuine(socket'[e].messages[i])
  PROVE  LocalStep(e)
<1>1. /\ Shape /\ LocalType(e)
      /\ Good => GoodHistory /\ LocalGood(e) /\ Compared(e)
  BY Known
<1>2. Displays(e, editor[e])
  BY <1>1 DEF Displays, Shape, LocalType
<1>3. Good => GoodAround(e, editor[e])
  BY <1>1 DEF GoodAround, LocalGood
<1> QED
  BY <1>2, <1>3, Displayed

\* What the server answers with is the document.
LEMMA ResultIsGenuine ==
  ASSUME Inv, NEW e \in Editors
  PROVE  Result(e) \in Results /\ (Good => Genuine(Result(e)))
<1>1. /\ ServerType /\ Len(history) \in Nat /\ (Good => GoodHistory)
  BY Known
<1>2. /\ Result(e).revision = document.revision /\ Result(e).title = document.name
      /\ Result(e).text = TiptapToPlainText(document.content)
      /\ Result(e) = [text |-> Result(e).text, revision |-> Result(e).revision,
                      title |-> Result(e).title, canWrite |-> (e \in scenario.writers)]
  BY DEF Result, ToDocumentContentResult, Content
<1>3. TiptapToPlainText(document.content) \in SUBSET Lines
  BY <1>1, LinesType DEF ServerType
<1>4. (e \in scenario.writers) \in BOOLEAN
  OBVIOUS
<1>5. Result(e) \in Results
  BY <1>1, <1>3, <1>4 DEF ServerType, Results, Result, ToDocumentContentResult, Content
<1>6. Good => Genuine(Result(e))
  BY <1>1, <1>2 DEF GoodHistory, Genuine, StoredLines
<1> QED
  BY <1>5, <1>6

\* The editor polls.
LEMMA PollKeeps ==
  ASSUME Inv, NEW e \in Editors, Poll(e), scenario' = scenario
  PROVE  LocalStep(e)
<1> DEFINE q == [source |-> "poll", answer |-> NoAnswer]
<1>1. /\ Shape /\ LocalType(e)
      /\ Good => GoodHistory /\ LocalGood(e) /\ Compared(e)
  BY Known
<1>2. /\ reads' = [reads EXCEPT ![e] = @ \cup {q}] /\ q.answer = NoAnswer
      /\ UNCHANGED <<clientVars, saves, socket, serverVars>> /\ IsRead(q)
  BY DEF Poll, IsRead
<1> HIDE DEF q
<1>3. reads'[e] = reads[e] \cup {q} /\ Around(e)
  BY <1>1, <1>2 DEF Around, Shape, LocalType, clientVars, serverVars
<1> QED
  BY <1>1, <1>2, <1>3, OnTheWay DEF LocalGood, clientVars

\* The server answers with its document.
LEMMA GetContentKeeps ==
  ASSUME Inv, NEW e \in Editors, GetContent(e), scenario' = scenario
  PROVE  LocalStep(e)
<1>1. /\ Shape /\ LocalType(e)
      /\ Good => GoodHistory /\ LocalGood(e) /\ Compared(e)
  BY Known
<1>2. PICK q \in reads[e] :
        /\ reads' = [reads EXCEPT ![e] = (@ \ {q}) \cup {[q EXCEPT !.answer = Result(e)]}]
        /\ q.answer = NoAnswer /\ UNCHANGED <<clientVars, saves, socket, serverVars>>
  BY DEF GetContent
<1> DEFINE n == [q EXCEPT !.answer = Result(e)]
<1>3. IsRead(n) /\ (Good => (n.answer # NoAnswer => Genuine(n.answer)))
  <2>1. /\ q = [source |-> q.source, answer |-> q.answer] /\ q.source \in {"initial", "poll"}
    BY <1>1 DEF LocalType, IsRead
  <2>2. n = [source |-> q.source, answer |-> Result(e)]
    BY <2>1
  <2> QED
    BY <1>2, <2>1, <2>2, ResultIsGenuine DEF IsRead
<1> HIDE DEF n
<1>4. reads'[e] = (reads[e] \ {q}) \cup {n} /\ Around(e)
  <2>1. reads' = [reads EXCEPT ![e] = (@ \ {q}) \cup {n}]
    BY <1>2 DEF n
  <2>2. reads'[e] = (reads[e] \ {q}) \cup {n}
    BY <1>1, <2>1 DEF Shape
  <2>3. \A p \in reads'[e] : IsRead(p)
    BY <1>1, <1>3, <2>2 DEF LocalType
  <2> QED
    BY <1>1, <1>2, <2>1, <2>2, <2>3 DEF Around, Shape, LocalType, clientVars, serverVars
<1> QED
  BY <1>1, <1>2, <1>3, <1>4, OnTheWay DEF LocalGood, clientVars

\* The server publishes an event.
LEMMA NotifyKeeps ==
  ASSUME Inv, NEW e \in Editors, Notify(e), scenario' = scenario
  PROVE  LocalStep(e)
<1> DEFINE n == [socket[e] EXCEPT !.event = FALSE, !.messages = Append(@, Result(e))]
<1>1. /\ Shape /\ LocalType(e)
      /\ Good => GoodHistory /\ LocalGood(e) /\ Compared(e)
  BY Known
<1>2. /\ socket' = [socket EXCEPT ![e] = n]
      /\ UNCHANGED <<clientVars, reads, saves, serverVars>>
  BY <1>1 DEF Notify, Shape
<1>3. n.messages = Append(socket[e].messages, Result(e)) /\ n \in Sockets
  <2> DEFINE ms == Append(socket[e].messages, Result(e))
  <2>1. socket[e] \in Sockets /\ ms \in Seq(Results)
    BY <1>1, ResultIsGenuine DEF LocalType, Sockets
  <2>2. n = [socket[e] EXCEPT !.event = FALSE, !.messages = ms]
    OBVIOUS
  <2> HIDE DEF ms
  <2> QED
    BY <2>1, <2>2 DEF Sockets, ms
<1> HIDE DEF n
<1>4. socket'[e] = n /\ Around(e)
  BY <1>1, <1>2, <1>3 DEF Around, Shape, LocalType, clientVars, serverVars
<1>5. ASSUME Good PROVE \A i \in 1..Len(n.messages) : Genuine(n.messages[i])
  <2>1. socket[e].messages \in Seq(Results) /\ Result(e) \in Results /\ Genuine(Result(e))
    BY <1>1, <1>5, ResultIsGenuine DEF LocalType, Sockets
  <2> QED
    BY <1>1, <1>3, <1>5, <2>1 DEF LocalGood
<1> QED
  BY <1>1, <1>2, <1>4, <1>5, OnTheWay DEF LocalGood, clientVars

\* The editor is opened anew.
LEMMA ReopenKeeps ==
  ASSUME Inv, NEW e \in Editors, Reopen(e), scenario' = scenario
  PROVE  LocalStep(e)
<1> DEFINE r == [InitialEditor EXCEPT !.mishaps = editor[e].mishaps \cap {"raced", "crossed"}]
<1>1. /\ Shape /\ LocalType(e) /\ ServerType /\ Len(history) \in Nat
      /\ Good => GoodHistory /\ LocalGood(e) /\ Compared(e)
  BY Known
<1>2. /\ editor' = [editor EXCEPT ![e] = r]
      /\ reads' = [reads EXCEPT ![e] = FirstReads] /\ socket' = [socket EXCEPT ![e] = FirstSocket]
      /\ saves[e] = NoSave /\ UNCHANGED <<typed, saves, serverVars>>
  BY DEF Reopen
<1>3. /\ IsEditor(r) /\ r.revision = 0 /\ ~r.canWrite /\ ~r.dirty /\ r.text = r.saved
      /\ r.mishaps = editor[e].mishaps \cap Excepted
  <2>1. InitialEditor = [f \in Fields |-> InitialEditor[f]]
    BY DEF InitialEditor, Fields
  <2>2. /\ InitialEditor.revision = 0 /\ InitialEditor.canWrite = FALSE
        /\ InitialEditor.dirty = FALSE /\ InitialEditor.text = {} /\ InitialEditor.saved = {}
        /\ InitialEditor.title = "none"
    BY DEF InitialEditor
  <2>3. r = [f \in Fields |-> r[f]]
    BY <2>1
  <2>4. /\ r.revision = 0 /\ r.canWrite = FALSE /\ r.dirty = FALSE /\ r.text = {}
        /\ r.saved = {} /\ r.title = "none" /\ r.mishaps = editor[e].mishaps \cap {"raced", "crossed"}
    BY <2>1, <2>2 DEF Fields
  <2> HIDE DEF r
  <2>5. r.revision \in Nat /\ r.text \in SUBSET Lines
    BY <2>4
  <2>6. r.canWrite \in BOOLEAN /\ r.dirty \in BOOLEAN
    BY <2>4, Zenon
  <2>7. r.title \in Titles
    BY <2>4 DEF Titles
  <2>8. IsEditor(r)
    BY <2>3, <2>5, <2>6, <2>7 DEF IsEditor
  <2> QED
    BY <2>4, <2>8 DEF Excepted
<1> HIDE DEF r
<1>4. Displays(e, r)
  BY <1>1, <1>2, <1>3 DEF Displays, Shape
<1>5. FirstSocket \in Sockets /\ FirstSocket.messages = <<>>
  <2>1. (IF scenario.mode = "subscription" THEN "opening" ELSE "none")
          \in {"none", "opening"}
    OBVIOUS
  <2>2. <<>> \in Seq(Results)
    OBVIOUS
  <2> QED
    BY <2>1, <2>2 DEF FirstSocket, Sockets
<1>6. \A q \in FirstReads : q.answer = NoAnswer /\ IsRead(q)
  BY DEF FirstReads, IsRead
<1>7. Around(e) /\ reads'[e] = FirstReads /\ socket'[e] = FirstSocket
  BY <1>1, <1>2, <1>5, <1>6 DEF Around, Shape, LocalType, serverVars
<1>8. ASSUME Good PROVE GoodAround(e, r)
  <2>1. GoodEditor(r)
    BY <1>1, <1>3 DEF GoodEditor
  <2>2. GoodSave(saves'[e], r)
    BY <1>2 DEF GoodSave, NoSave
  <2> QED
    BY <1>2, <1>5, <1>6, <1>7, <2>1, <2>2 DEF GoodAround
<1> QED
  BY <1>3, <1>4, <1>7, <1>8, Displayed

\* A genuine answer keeps the editor good, when it crosses no save.
LEMMA AppliedGood ==
  ASSUME Inv, Good, NEW e \in Editors, NEW a \in Results, Genuine(a), NEW source,
         source # "save", saves[e].stage = "none" \/ source = "remote"
  PROVE  LET m == ApplyContentResult(editor[e], a, source)
         IN  GoodEditor(m) /\ GoodSave(saves[e], m)
<1> DEFINE m == ApplyContentResult(editor[e], a, source)
<1> SUFFICES GoodEditor(m) /\ GoodSave(saves[e], m)
  OBVIOUS
<1>1. /\ IsEditor(editor[e]) /\ Len(history) \in Nat /\ GoodEditor(editor[e])
      /\ GoodSave(saves[e], editor[e])
  BY Known DEF LocalType, LocalGood
<1>2. /\ IsEditor(m) /\ m.mishaps = editor[e].mishaps /\ m.canWrite = a.canWrite
      /\ source = "remote" /\ editor[e].dirty =>
           /\ m.text = editor[e].text /\ m.saved = editor[e].saved /\ m.dirty
           /\ m.revision = editor[e].revision
      /\ ~(source = "remote" /\ editor[e].dirty) =>
           /\ m.revision = a.revision /\ ~m.dirty /\ m.text = m.saved /\ m.text = a.text
  BY <1>1, AppliedFields
<1> HIDE DEF m
<1>3. CASE source = "remote" /\ editor[e].dirty
  BY <1>1, <1>2, <1>3 DEF GoodEditor, GoodSave
<1>4. CASE ~(source = "remote" /\ editor[e].dirty)
  <2>1. saves[e].stage = "none"
    BY <1>1, <1>4 DEF GoodSave
  <2>2. /\ m.revision = a.revision /\ ~m.dirty /\ m.text = m.saved /\ m.text = a.text
    BY <1>2, <1>4
  <2> QED
    BY <1>1, <2>1, <2>2 DEF GoodEditor, GoodSave, Genuine
<1> QED
  BY <1>3, <1>4

\* What keeps the fields of an editor that matter keeps it good.
LEMMA SameIsGood ==
  ASSUME NEW b, NEW r, NEW s, r.text = b.text, r.saved = b.saved, r.dirty = b.dirty,
         r.revision = b.revision, r.canWrite = b.canWrite
  PROVE  (GoodEditor(b) => GoodEditor(r)) /\ (GoodSave(s, b) => GoodSave(s, r))
BY DEF GoodEditor, GoodSave

\* An event arrives at an editor.
LEMMA EventKeeps ==
  ASSUME Inv, NEW e \in Editors, Event(e), scenario' = scenario
  PROVE  LocalStep(e)
<1> DEFINE a == Head(socket[e].messages)
           r == ApplyContentResult(editor[e], a, "remote")
           n == [socket[e] EXCEPT !.messages = Tail(@)]
<1>1. /\ Shape /\ LocalType(e)
      /\ Good => GoodHistory /\ LocalGood(e) /\ Compared(e)
  BY Known
<1>2. /\ socket' = [socket EXCEPT ![e] = n] /\ Becomes(e, r)
      /\ UNCHANGED <<typed, reads, saves, serverVars>>
  BY <1>1 DEF Event, Shape
<1>3. /\ socket[e].messages \in Seq(Results) /\ socket[e].messages # <<>> /\ socket[e] \in Sockets
  BY <1>1 DEF Event, LocalType, Sockets
<1>4. /\ a \in Results /\ Tail(socket[e].messages) \in Seq(Results)
      /\ n.messages = Tail(socket[e].messages) /\ n \in Sockets
  BY <1>3 DEF Sockets
<1>5. ASSUME Good
      PROVE  Genuine(a) /\ \A i \in 1..Len(n.messages) : Genuine(n.messages[i])
  <2>1. \A i \in 1..Len(socket[e].messages) : Genuine(socket[e].messages[i])
    BY <1>1, <1>5 DEF LocalGood
  <2>2. a = socket[e].messages[1] /\ 1 \in 1..Len(socket[e].messages)
    BY <1>3
  <2>3. \A i \in 1..Len(n.messages) : /\ n.messages[i] = socket[e].messages[i + 1]
                                    /\ i + 1 \in 1..Len(socket[e].messages)
    BY <1>3, <1>4
  <2> HIDE DEF a, n
  <2> QED
    BY <2>1, <2>2, <2>3
<1> HIDE DEF a, n
<1>6. IsEditor(r) /\ r.mishaps = editor[e].mishaps
  BY <1>1, <1>4, AppliedFields DEF LocalType
<1>7. Around(e) /\ socket'[e] = n
  BY <1>1, <1>2, <1>4 DEF Around, Shape, LocalType, serverVars
<1>8. ASSUME Good PROVE GoodAround(e, r)
  <2>1. GoodEditor(r) /\ GoodSave(saves[e], r)
    BY <1>4, <1>5, <1>8, AppliedGood
  <2> HIDE DEF r
  <2> QED
    BY <1>1, <1>2, <1>5, <1>7, <1>8, <2>1 DEF GoodAround, LocalGood
<1> HIDE DEF r
<1> QED
  BY <1>2, <1>6, <1>7, <1>8, Handled

\* The subscription is acknowledged.
LEMMA ConnectionAckKeeps ==
  ASSUME Inv, NEW e \in Editors, ConnectionAck(e), scenario' = scenario
  PROVE  LocalStep(e)
<1> DEFINE r == OnConnected(editor[e])
           n == [socket[e] EXCEPT !.stage = "acknowledged"]
<1>1. /\ Shape /\ LocalType(e)
      /\ Good => GoodHistory /\ LocalGood(e) /\ Compared(e)
  BY Known
<1>2. /\ socket' = [socket EXCEPT ![e] = n] /\ Becomes(e, r)
      /\ UNCHANGED <<typed, reads, saves, serverVars>>
  BY <1>1 DEF ConnectionAck, Subscription, Shape
<1>3. n \in Sockets /\ n.messages = socket[e].messages
  BY <1>1 DEF LocalType, Sockets
<1>4. /\ IsEditor(r) /\ r.text = editor[e].text /\ r.saved = editor[e].saved
      /\ r.dirty = editor[e].dirty /\ r.revision = editor[e].revision
      /\ r.canWrite = editor[e].canWrite /\ r.mishaps = editor[e].mishaps
  BY <1>1 DEF LocalType, OnConnected, IsEditor, Fields
<1> HIDE DEF n, r
<1>5. Around(e) /\ socket'[e] = n
  BY <1>1, <1>2, <1>3 DEF Around, Shape, LocalType, serverVars
<1>6. ASSUME Good PROVE GoodAround(e, r)
  <2>1. GoodEditor(r) /\ GoodSave(saves[e], r)
    BY <1>1, <1>4, <1>6, SameIsGood DEF LocalGood
  <2> QED
    BY <1>1, <1>2, <1>3, <1>5, <1>6, <2>1 DEF GoodAround, LocalGood
<1> QED
  BY <1>2, <1>4, <1>5, <1>6, Handled

\* The connection of the subscription is lost.
LEMMA DisconnectedKeeps ==
  ASSUME Inv, NEW e \in Editors, Disconnected(e), scenario' = scenario
  PROVE  LocalStep(e)
<1> DEFINE n == [stage |-> "ended", event |-> FALSE, messages |-> <<>>]
<1>1. /\ Shape /\ LocalType(e)
      /\ Good => GoodHistory /\ LocalGood(e) /\ Compared(e)
  BY Known
<1>2. PICK failed \in BOOLEAN :
        /\ socket' = [socket EXCEPT ![e] = n]
        /\ UNCHANGED <<typed, reads, saves, serverVars>>
        /\ Becomes(e, Mishap(IF failed THEN OnError(editor[e]) ELSE OnDisconnected(editor[e]),
                             "offline", TRUE))
  BY DEF Disconnected
<1> DEFINE b == IF failed THEN OnError(editor[e]) ELSE OnDisconnected(editor[e])
           r == Mishap(b, "offline", TRUE)
<1>3. n \in Sockets /\ n.messages = <<>>
  BY DEF Sockets
<1>4. /\ IsEditor(b) /\ b.text = editor[e].text /\ b.saved = editor[e].saved
      /\ b.dirty = editor[e].dirty /\ b.revision = editor[e].revision
      /\ b.canWrite = editor[e].canWrite /\ b.mishaps = editor[e].mishaps
  <2>1. CASE failed
    BY <1>1, <2>1 DEF LocalType, OnError, OnDisconnected, IsEditor, Fields
  <2>2. CASE ~failed
    BY <1>1, <2>2 DEF LocalType, OnError, OnDisconnected, IsEditor, Fields
  <2> QED
    BY <2>1, <2>2
<1> HIDE DEF b
<1>5. /\ IsEditor(r) /\ r.text = b.text /\ r.saved = b.saved /\ r.dirty = b.dirty
      /\ r.revision = b.revision /\ r.canWrite = b.canWrite /\ b.mishaps \subseteq r.mishaps
  BY <1>4 DEF Mishap, IsEditor, Fields
<1>6. Becomes(e, r)
  BY <1>2 DEF b
<1> HIDE DEF n, r
<1>7. Around(e) /\ socket'[e] = n
  BY <1>1, <1>2, <1>3 DEF Around, Shape, LocalType, serverVars
<1>8. ASSUME Good PROVE GoodAround(e, r)
  <2>1. GoodEditor(r) /\ GoodSave(saves[e], r)
    BY <1>1, <1>4, <1>5, <1>8, SameIsGood DEF LocalGood
  <2> QED
    BY <1>1, <1>2, <1>3, <1>7, <1>8, <2>1 DEF GoodAround, LocalGood
<1> QED
  BY <1>4, <1>5, <1>6, <1>7, <1>8, Handled

\* The subscription is opened.
LEMMA ListenKeeps ==
  ASSUME Inv, NEW e \in Editors, Listen(e), scenario' = scenario
  PROVE  LocalStep(e)
<1> DEFINE r == Mishap(editor[e], "missed", Len(history) > 1)
           n == [socket[e] EXCEPT !.stage = "listening"]
<1>1. /\ Shape /\ LocalType(e)
      /\ Good => GoodHistory /\ LocalGood(e) /\ Compared(e)
  BY Known
<1>2. /\ socket' = [socket EXCEPT ![e] = n] /\ editor' = [editor EXCEPT ![e] = r]
      /\ UNCHANGED <<typed, reads, saves, serverVars>>
  BY <1>1 DEF Listen, Subscription, Shape
<1>3. n \in Sockets /\ n.messages = socket[e].messages
  BY <1>1 DEF LocalType, Sockets
<1>4. /\ IsEditor(r) /\ r.text = editor[e].text /\ r.saved = editor[e].saved
      /\ r.dirty = editor[e].dirty /\ r.revision = editor[e].revision
      /\ r.canWrite = editor[e].canWrite /\ editor[e].mishaps \subseteq r.mishaps
  BY <1>1, MishapFields DEF LocalType
<1> HIDE DEF n, r
<1>5. Around(e) /\ socket'[e] = n
  BY <1>1, <1>2, <1>3 DEF Around, Shape, LocalType, serverVars
<1>6. Displays(e, r)
  BY <1>1, <1>2, <1>4 DEF Displays, Shape
<1>7. ASSUME Good PROVE GoodAround(e, r)
  <2>1. GoodEditor(r) /\ GoodSave(saves[e], r)
    BY <1>1, <1>4, <1>7, SameIsGood DEF LocalGood
  <2> QED
    BY <1>1, <1>2, <1>3, <1>5, <1>7, <2>1 DEF GoodAround, LocalGood
<1> QED
  BY <1>4, <1>5, <1>6, <1>7, Displayed

\* An answer is ignored, or applied; the first one while a save is under way is the
\* mishap "crossed".
LEMMA ReadEndsKeeps ==
  ASSUME Inv, NEW e \in Editors, ReadEnds(e), scenario' = scenario
  PROVE  LocalStep(e)
<1>1. /\ Shape /\ LocalType(e)
      /\ Good => GoodHistory /\ LocalGood(e) /\ Compared(e)
  BY Known
<1>2. PICK q \in reads[e] :
        /\ q.answer # NoAnswer /\ reads' = [reads EXCEPT ![e] = @ \ {q}]
        /\ IF q.source = "poll" /\ q.answer.revision < editor[e].revision THEN UNCHANGED editor
           ELSE LET r == Mishap(ApplyContentResult(editor[e], q.answer,
                                  IF q.source = "initial" THEN "initial" ELSE "remote"),
                                "late", q.source = "initial" /\ editor[e].text # {})
                    c == Mishap(r, "crossed", q.source = "initial" /\ saves[e] # NoSave)
                IN  Becomes(e, Mishap(c, "rewound", q.answer.revision < editor[e].revision))
        /\ UNCHANGED <<typed, saves, socket, serverVars>>
  BY DEF ReadEnds
<1>3. q.answer \in Results /\ (Good => Genuine(q.answer))
  BY <1>1, <1>2 DEF LocalType, IsRead, LocalGood
<1>4. Around(e) /\ reads'[e] = reads[e] \ {q}
  BY <1>1, <1>2 DEF Around, Shape, LocalType, serverVars
<1>5. Good => \A p \in reads'[e] : p.answer # NoAnswer => Genuine(p.answer)
  BY <1>1, <1>4 DEF LocalGood
<1>6. CASE q.source = "poll" /\ q.answer.revision < editor[e].revision
  <2>1. UNCHANGED <<editor, saves, socket>>
    BY <1>2, <1>6
  <2> QED
    BY <1>1, <1>4, <1>5, <2>1, OnTheWay DEF LocalGood
<1>7. CASE ~(q.source = "poll" /\ q.answer.revision < editor[e].revision)
  <2> DEFINE source == IF q.source = "initial" THEN "initial" ELSE "remote"
             a == ApplyContentResult(editor[e], q.answer, source)
             l == Mishap(a, "late", q.source = "initial" /\ editor[e].text # {})
             c == Mishap(l, "crossed", q.source = "initial" /\ saves[e] # NoSave)
             r == Mishap(c, "rewound", q.answer.revision < editor[e].revision)
  <2>1. Becomes(e, r)
    BY <1>2, <1>7
  <2>2. IsEditor(a) /\ a.mishaps = editor[e].mishaps
    BY <1>1, <1>3, AppliedFields DEF LocalType
  <2>3. Good /\ (q.source = "initial" => saves[e] = NoSave) => GoodEditor(a) /\ GoodSave(saves[e], a)
    <3>1. source # "save"
      OBVIOUS
    <3>2. (q.source = "initial" => saves[e] = NoSave) => saves[e].stage = "none" \/ source = "remote"
      BY DEF NoSave
    <3> HIDE DEF source
    <3> QED
      BY <1>3, <3>1, <3>2, AppliedGood
  <2> HIDE DEF a
  <2>4. /\ IsEditor(l) /\ l.text = a.text /\ l.saved = a.saved /\ l.dirty = a.dirty
        /\ l.revision = a.revision /\ l.canWrite = a.canWrite /\ a.mishaps \subseteq l.mishaps
    BY <2>2, MishapFields
  <2> HIDE DEF l
  <2>5. /\ IsEditor(c) /\ c.text = l.text /\ c.saved = l.saved /\ c.dirty = l.dirty
        /\ c.revision = l.revision /\ c.canWrite = l.canWrite /\ l.mishaps \subseteq c.mishaps
        /\ q.source = "initial" /\ saves[e] # NoSave => "crossed" \in c.mishaps
    BY <2>4 DEF Mishap, IsEditor, Fields
  <2> HIDE DEF c
  <2>6. /\ IsEditor(r) /\ r.text = c.text /\ r.saved = c.saved /\ r.dirty = c.dirty
        /\ r.revision = c.revision /\ r.canWrite = c.canWrite /\ c.mishaps \subseteq r.mishaps
    BY <2>5, MishapFields
  <2> HIDE DEF r
  <2>7. ASSUME Good, r.mishaps \cap Excepted = {} PROVE GoodAround(e, r)
    <3>1. GoodEditor(a) /\ GoodSave(saves[e], a)
      BY <2>3, <2>5, <2>6, <2>7 DEF Excepted
    <3>2. /\ r.text = a.text /\ r.saved = a.saved /\ r.dirty = a.dirty
          /\ r.revision = a.revision /\ r.canWrite = a.canWrite
      BY <2>4, <2>5, <2>6
    <3>3. GoodEditor(r) /\ GoodSave(saves[e], r)
      BY <3>1, <3>2, SameIsGood
    <3> QED
      BY <1>1, <1>2, <1>5, <2>7, <3>3 DEF GoodAround, LocalGood
  <2>8. editor[e].mishaps \subseteq r.mishaps
    BY <2>2, <2>4, <2>5, <2>6
  <2> QED
    BY <1>4, <2>1, <2>6, <2>7, <2>8, Handled
<1> QED
  BY <1>6, <1>7

\* The first answer, or a poll, fails.
LEMMA ReadFailsKeeps ==
  ASSUME Inv, NEW e \in Editors, ReadFails(e), scenario' = scenario
  PROVE  LocalStep(e)
<1>1. /\ Shape /\ LocalType(e)
      /\ Good => GoodHistory /\ LocalGood(e) /\ Compared(e)
  BY Known
<1> DEFINE t == [editor[e] EXCEPT !.error = TRUE]
           i == [t EXCEPT !.status = "error", !.saveStatus = "error"]
           d == [t EXCEPT !.status = "disconnected"]
           p == Mishap(d, "offline", TRUE)
<1>2. PICK q \in reads[e] :
        /\ reads' = [reads EXCEPT ![e] = @ \ {q}] /\ UNCHANGED <<typed, saves, socket, serverVars>>
        /\ Becomes(e, CASE q.source = "initial" -> i [] q.source = "poll" -> p)
  BY DEF ReadFails
<1>3. q.source \in {"initial", "poll"}
  BY <1>1 DEF LocalType, IsRead
<1>4. PICK r : /\ Becomes(e, r) /\ IsEditor(r) /\ r.text = editor[e].text
               /\ r.saved = editor[e].saved /\ r.dirty = editor[e].dirty
               /\ r.revision = editor[e].revision /\ r.canWrite = editor[e].canWrite
               /\ editor[e].mishaps \subseteq r.mishaps
  <2>1. /\ IsEditor(i) /\ i.text = editor[e].text /\ i.saved = editor[e].saved
        /\ i.dirty = editor[e].dirty /\ i.revision = editor[e].revision
        /\ i.canWrite = editor[e].canWrite /\ i.mishaps = editor[e].mishaps
    BY <1>1 DEF LocalType, IsEditor, Fields
  <2>2. /\ IsEditor(d) /\ d.text = editor[e].text /\ d.saved = editor[e].saved
        /\ d.dirty = editor[e].dirty /\ d.revision = editor[e].revision
        /\ d.canWrite = editor[e].canWrite /\ d.mishaps = editor[e].mishaps
    BY <1>1 DEF LocalType, IsEditor, Fields
  <2> HIDE DEF d
  <2>3. /\ IsEditor(p) /\ p.text = d.text /\ p.saved = d.saved /\ p.dirty = d.dirty
        /\ p.revision = d.revision /\ p.canWrite = d.canWrite /\ d.mishaps \subseteq p.mishaps
    BY <2>2 DEF Mishap, IsEditor, Fields
  <2> HIDE DEF i, p
  <2>4. CASE q.source = "initial"
    BY <1>2, <2>1, <2>4
  <2>5. CASE q.source = "poll"
    BY <1>2, <2>2, <2>3, <2>5
  <2> QED
    BY <1>3, <2>4, <2>5
<1>5. Around(e) /\ reads'[e] = reads[e] \ {q}
  BY <1>1, <1>2 DEF Around, Shape, LocalType, serverVars
<1>6. ASSUME Good PROVE GoodAround(e, r)
  <2>1. GoodEditor(r) /\ GoodSave(saves[e], r)
    BY <1>1, <1>4, <1>6, SameIsGood DEF LocalGood
  <2> QED
    BY <1>1, <1>2, <1>5, <1>6, <2>1 DEF GoodAround, LocalGood
<1> QED
  BY <1>4, <1>5, <1>6, Handled

-----------------------------------------------------------------------------
(* The steps of the server.                                                *)

\* The answer to a save, or the save itself, is lost.
LEMMA LostKeeps ==
  ASSUME Inv, NEW e \in Editors, LoseSave(e) \/ LoseAnswer(e), scenario' = scenario
  PROVE  LocalStep(e)
<1> DEFINE n == [stage |-> "answered", answer |-> "error"]
<1>1. /\ Shape /\ LocalType(e)
      /\ Good => GoodHistory /\ LocalGood(e) /\ Compared(e)
  BY Known
<1>2. /\ saves' = [saves EXCEPT ![e] = n] /\ UNCHANGED <<clientVars, reads, socket, serverVars>>
      /\ saves[e].stage \in {"sent", "answered"}
  BY DEF LoseSave, LoseAnswer, Answered
<1>3. IsSave(n) /\ n.stage = "answered" /\ n.answer = "error"
  BY DEF IsSave
<1> HIDE DEF n
<1>4. Around(e) /\ saves'[e] = n
  BY <1>1, <1>2, <1>3 DEF Around, Shape, LocalType, clientVars, serverVars
<1>5. Displays(e, editor[e])
  BY <1>1, <1>2 DEF Displays, Shape, LocalType, clientVars
<1>6. ASSUME Good PROVE GoodAround(e, editor[e])
  <2>1. GoodSave(n, editor[e])
    BY <1>1, <1>2, <1>3, <1>6 DEF LocalGood, GoodSave
  <2> QED
    BY <1>1, <1>2, <1>3, <1>4, <1>6, <2>1 DEF GoodAround, LocalGood
<1> QED
  BY <1>4, <1>5, <1>6, Displayed

\* The server renames the document.
LEMMA RenameItemKeeps ==
  ASSUME Inv, NEW e \in Editors, RenameItem(e), scenario' = scenario
  PROVE  LocalStep(e)
<1> DEFINE n == [saves[e] EXCEPT !.stage = "named"]
<1>1. /\ Shape /\ LocalType(e) /\ ServerType
      /\ Good => GoodHistory /\ LocalGood(e) /\ Compared(e)
  BY Known
<1>2. /\ saves[e].stage = "sent" /\ saves' = [saves EXCEPT ![e] = n]
      /\ document' = [document EXCEPT !.name = saves[e].title]
      /\ UNCHANGED <<clientVars, reads, socket, history>>
  BY <1>1 DEF RenameItem, Stage, Shape
<1>3. saves[e] \in OpenSaves
  BY <1>1, <1>2 DEF LocalType, IsSave
<1>4. /\ n.stage = "named" /\ n.text = saves[e].text /\ n.base = saves[e].base
      /\ n \in OpenSaves
  BY <1>3 DEF OpenSaves
<1> HIDE DEF n
<1>5. DocumentKept
  BY <1>1, <1>2, <1>3 DEF DocumentKept, ServerType, OpenSaves
<1>6. saves'[e] = n /\ IsSave(n)
  BY <1>1, <1>2, <1>4 DEF Shape, IsSave
<1>7. Others(e) /\ LocalType(e)' /\ Kept(e)
  BY <1>1, <1>2, <1>6 DEF Others, Shape, LocalType, IsRead, IsEditor, Kept, clientVars
<1>8. ASSUME Good PROVE LocalGood(e)' /\ Compared(e)'
  <2>1. GoodSave(n, editor[e])
    BY <1>1, <1>2, <1>4, <1>8 DEF LocalGood, GoodSave
  <2>2. LocalGood(e)'
    BY <1>1, <1>2, <1>6, <1>8, <2>1
       DEF LocalGood, GoodEditor, GoodSave, Genuine, StoredLines, clientVars
  <2> QED
    BY <1>4, <1>6, <2>2 DEF Compared
<1> QED
  BY <1>5, <1>7, <1>8 DEF LocalStep

\* The comparison that two saves pass is the mishap "raced".
LEMMA CompareRevisionKeeps ==
  ASSUME Inv, NEW e \in Editors, CompareRevision(e), scenario' = scenario
  PROVE  LocalStep(e)
<1> DEFINE second == \E d \in Editors \ {e} : saves[d].stage = "compared"
           r == Mishap(editor[e], "raced", second)
           n == IF document.revision # saves[e].base
                THEN [stage |-> "answered", answer |-> "conflict"]
                ELSE [saves[e] EXCEPT !.stage = "compared"]
<1>1. /\ Shape /\ LocalType(e) /\ ServerType
      /\ Good => GoodHistory /\ LocalGood(e) /\ Compared(e)
  BY Known
<1>2. /\ saves[e].stage = "named" /\ saves' = [saves EXCEPT ![e] = n]
      /\ editor' = [editor EXCEPT ![e] = r]
      /\ UNCHANGED <<typed, reads, socket, serverVars>>
  BY <1>1 DEF CompareRevision, Stage, Answered, Shape
<1>3. saves[e] \in OpenSaves
  BY <1>1, <1>2 DEF LocalType, IsSave
<1>4. \/ n.stage = "answered" /\ n.answer = "conflict"
      \/ /\ n.stage = "compared" /\ n.text = saves[e].text /\ n.base = saves[e].base
         /\ n \in OpenSaves /\ document.revision = saves[e].base
  <2>1. CASE document.revision # saves[e].base
    BY <2>1
  <2>2. CASE document.revision = saves[e].base
    BY <1>3, <2>2 DEF OpenSaves
  <2> QED
    BY <2>1, <2>2
<1>5. /\ IsEditor(r) /\ r.text = editor[e].text /\ r.saved = editor[e].saved
      /\ r.dirty = editor[e].dirty /\ r.revision = editor[e].revision
      /\ r.canWrite = editor[e].canWrite /\ editor[e].mishaps \subseteq r.mishaps
      /\ second => "raced" \in r.mishaps
  BY <1>1 DEF LocalType, Mishap, IsEditor, Fields
<1> HIDE DEF n, r
<1>6. saves'[e] = n /\ IsSave(n) /\ editor'[e] = r
  BY <1>1, <1>2, <1>4 DEF Shape, IsSave
<1>7. Others(e) /\ LocalType(e)' /\ Kept(e)
  BY <1>1, <1>2, <1>5, <1>6 DEF Others, Shape, LocalType, IsRead, Kept
<1>8. DocumentKept
  BY <1>1, <1>2 DEF DocumentKept, ServerType, serverVars
<1>9. ASSUME Good, editor'[e].mishaps \cap Excepted = {} PROVE LocalGood(e)' /\ Compared(e)'
  <2>1. GoodEditor(r) /\ GoodSave(saves[e], r)
    BY <1>1, <1>5, <1>9, SameIsGood DEF LocalGood
  <2>2. GoodSave(n, r)
    BY <1>2, <1>4, <2>1 DEF GoodSave
  <2>3. LocalGood(e)'
    BY <1>1, <1>2, <1>6, <1>9, <2>1, <2>2
       DEF LocalGood, GoodEditor, GoodSave, Genuine, StoredLines, serverVars
  <2>4. ~second
    BY <1>5, <1>6, <1>9 DEF Excepted
  <2>5. Compared(e)'
    BY <1>2, <1>4, <1>6, <1>7, <2>4 DEF Compared, Others, serverVars
  <2> QED
    BY <2>3, <2>5
<1> QED
  BY <1>7, <1>8, <1>9 DEF LocalStep

\* The save that is written becomes the next revision, and contains the last one.
LEMMA CommitSaveKeeps ==
  ASSUME Inv, NEW e \in Editors, CommitSave(e), scenario' = scenario
  PROVE  Inv'
<1> DEFINE s == saves[e]
           next == s.base + 1
           revision == Revision(s.text, next)
           result == [Saved(e) EXCEPT !.revision = next]
           n == [stage |-> "answered", answer |-> "ok", result |-> result]
<1>1. /\ Shape /\ ServerType /\ Len(history) \in Nat /\ \A d \in Editors : LocalType(d)
  BY Known DEF Inv, TypeInv
<1>2. /\ s.stage = "compared"
      /\ document' = [document EXCEPT !.content = PlainTextToTiptap(s.text), !.revision = next]
      /\ history' = Append(history, revision) /\ saves' = [saves EXCEPT ![e] = n]
      /\ socket' = [d \in Editors |-> [socket[d] EXCEPT !.event = @ \/ socket[d].stage = "listening"]]
      /\ UNCHANGED <<clientVars, reads>>
  BY DEF CommitSave
<1>3. s \in OpenSaves /\ s.text \in SUBSET Lines /\ s.base \in Nat /\ next \in Nat
  BY <1>1, <1>2 DEF LocalType, IsSave, OpenSaves
<1>4. /\ revision.content = PlainTextToTiptap(s.text) /\ revision.revision = next
      /\ revision \in Revisions
  BY <1>3, ContentType DEF Revision, Revisions
<1>5. /\ result.text = s.text \ scenario.blank /\ result.revision = next /\ result \in Results
  <2>1. (e \in scenario.writers) \in BOOLEAN
    OBVIOUS
  <2>2. TiptapToPlainText(PlainTextToTiptap(s.text)) = s.text \ scenario.blank
    BY RoundTrip
  <2>3. result = [text |-> s.text \ scenario.blank, revision |-> next, title |-> document.name,
                  canWrite |-> (e \in scenario.writers)]
    BY <2>2 DEF Saved, ToDocumentContentResult, Content
  <2> QED
    BY <1>1, <1>3, <2>1, <2>3 DEF Results, ServerType
<1> HIDE DEF revision, result
<1>6. n.stage = "answered" /\ n.answer = "ok" /\ n.result = result /\ IsSave(n)
  BY <1>5 DEF IsSave
<1> HIDE DEF n, next
<1>7. /\ saves' = [d \in Editors |-> saves'[d]] /\ saves'[e] = n
      /\ \A d \in Editors \ {e} : saves'[d] = saves[d]
  BY <1>1, <1>2 DEF Shape
<1>8. /\ socket' = [d \in Editors |-> socket'[d]]
      /\ \A d \in Editors : socket'[d] \in Sockets /\ socket'[d].messages = socket[d].messages
  BY <1>1, <1>2 DEF LocalType, Sockets
<1>9. TypeInv'
  <2>1. Shape'
    BY <1>1, <1>2, <1>7, <1>8 DEF Shape, clientVars
  <2>2. ASSUME NEW d \in Editors PROVE LocalType(d)'
    <3>1. IsSave(saves'[d]) /\ socket'[d] \in Sockets
      BY <1>1, <1>6, <1>7, <1>8 DEF LocalType
    <3> QED
      BY <1>1, <1>2, <3>1 DEF LocalType, clientVars, IsRead, IsEditor
  <2>3. ServerType'
    <3>1. PlainTextToTiptap(s.text) \in Contents
      BY <1>3, ContentType
    <3>2. document' \in [content : Contents, revision : Nat, name : Titles]
      BY <1>1, <1>2, <1>3, <3>1 DEF ServerType, next
    <3>3. history' \in Seq(Revisions)
      BY <1>1, <1>2, <1>4 DEF ServerType
    <3> QED
      BY <3>2, <3>3 DEF ServerType
  <2> QED
    BY <2>1, <2>2, <2>3 DEF TypeInv
<1>10. ASSUME Undisturbed' PROVE Good'
  <2>1. Good
    BY <1>2, <1>10 DEF Undisturbed, Inv, clientVars
  <2>2. /\ GoodHistory /\ \A d \in Editors : LocalGood(d) /\ Compared(d)
        /\ s.base = Len(history) /\ next = Len(history) + 1 /\ Len(history) \in Nat \ {0}
    BY <1>1, <1>2, <2>1 DEF Good, GoodHistory, Compared, next
  <2>3. /\ Len(history') = Len(history) + 1 /\ history'[Len(history) + 1] = revision
        /\ \A i \in 1..Len(history) : history'[i] = history[i]
    BY <1>1, <1>2, <1>4 DEF ServerType
  <2> DEFINE NewLines(i) == TiptapToPlainText(history'[i].content)
             last == Len(history) + 1
  <2>4. /\ \A i \in 1..Len(history) : NewLines(i) = StoredLines(i)
        /\ NewLines(last) = s.text \ scenario.blank
    BY <1>4, <2>3, RoundTrip DEF StoredLines
  <2>5. StoredLines(Len(history)) \subseteq s.text /\ s.text \subseteq editor[e].text
    BY <1>2, <2>2 DEF LocalGood, GoodSave
  <2>6. /\ document'.content = history'[last].content /\ document'.revision = last
    BY <1>1, <1>2, <1>4, <2>2, <2>3 DEF ServerType
  <2> HIDE DEF NewLines
  <2>7. ASSUME NEW i \in 1..last
        PROVE  history'[i].revision = i /\ NewLines(i) \cap scenario.blank = {}
    <3>1. CASE i = last
      BY <1>4, <2>2, <2>3, <2>4, <3>1
    <3>2. CASE i \in 1..Len(history)
      BY <2>2, <2>3, <2>4, <3>2 DEF GoodHistory
    <3> QED
      BY <2>2, <3>1, <3>2
  <2>8. ASSUME NEW i \in 1..last, NEW j \in 1..last, i <= j
        PROVE  NewLines(i) \subseteq NewLines(j)
    <3>1. CASE j \in 1..Len(history)
      BY <2>2, <2>4, <2>8, <3>1 DEF GoodHistory
    <3>2. CASE j = last /\ i \in 1..Len(history)
      <4>1. StoredLines(i) \subseteq StoredLines(Len(history))
        BY <2>2, <3>2 DEF GoodHistory
      <4>2. StoredLines(i) \cap scenario.blank = {}
        BY <2>2, <3>2 DEF GoodHistory
      <4>3. NewLines(i) = StoredLines(i) /\ NewLines(j) = s.text \ scenario.blank
        BY <2>4, <3>2
      <4> QED
        BY <2>5, <4>1, <4>2, <4>3
    <3>3. CASE i = j
      BY <3>3
    <3> QED
      BY <2>2, <2>8, <3>1, <3>2, <3>3
  <2>9. GoodHistory'
    BY <2>2, <2>3, <2>6, <2>7, <2>8 DEF GoodHistory, StoredLines, NewLines
  <2> DEFINE GenuineNow(a) == a.revision \in 1..last /\ a.text = NewLines(a.revision)
  <2>10. ASSUME NEW a, Genuine(a) PROVE GenuineNow(a)
    BY <2>2, <2>4, <2>10 DEF Genuine
  <2>11. ASSUME NEW d \in Editors PROVE LocalGood(d)'
    <3>1. editor' = editor /\ reads' = reads /\ LocalGood(d)
      BY <1>2, <2>2 DEF clientVars
    <3> DEFINE r == editor[d]
               q == saves'[d]
    <3>2. /\ r.revision \in 0..last /\ (r.revision = 0 => ~r.canWrite /\ ~r.dirty)
          /\ (r.revision > 0 => NewLines(r.revision) \subseteq r.text)
          /\ (~r.dirty => r.text = r.saved)
      BY <2>2, <2>4, <3>1 DEF LocalGood, GoodEditor
    <3>3. /\ q.stage # "none" => r.dirty
          /\ q.stage \in {"sent", "named", "compared"} =>
               /\ q.base \in 1..last
               /\ NewLines(q.base) \subseteq q.text /\ q.text \subseteq r.text
          /\ q.stage = "answered" /\ q.answer = "ok" =>
               GenuineNow(q.result) /\ q.result.text \subseteq r.text
      <4>1. CASE d = e
        <5>1. GenuineNow(result)
          BY <1>5, <2>2, <2>4
        <5>2. editor[e].dirty /\ result.text \subseteq editor[e].text
          BY <1>2, <1>5, <2>2, <2>5 DEF LocalGood, GoodSave
        <5> HIDE DEF GenuineNow
        <5> QED
          BY <1>6, <1>7, <4>1, <5>1, <5>2
      <4>2. CASE d # e
        <5>1. q = saves[d] /\ GoodSave(saves[d], r)
          BY <1>7, <3>1, <4>2 DEF LocalGood
        <5> HIDE DEF GenuineNow, q, r
        <5> QED
          BY <2>2, <2>4, <2>10, <5>1 DEF GoodSave
      <4> QED
        BY <4>1, <4>2
    <3>4. /\ \A p \in reads'[d] : p.answer # NoAnswer => GenuineNow(p.answer)
          /\ \A i \in 1..Len(socket'[d].messages) : GenuineNow(socket'[d].messages[i])
      <4> HIDE DEF GenuineNow
      <4> QED
        BY <1>8, <2>10, <3>1 DEF LocalGood
    <3>5. GoodEditor(editor[d])'
      BY <2>3, <3>1, <3>2 DEF GoodEditor, StoredLines, NewLines
    <3>6. GoodSave(saves[d], editor[d])'
      BY <2>3, <3>1, <3>3 DEF GoodSave, Genuine, StoredLines, NewLines
    <3> QED
      BY <2>3, <3>4, <3>5, <3>6 DEF LocalGood, Genuine, StoredLines, NewLines, NoAnswer
  <2>12. ASSUME NEW d \in Editors PROVE Compared(d)'
    BY <1>2, <1>6, <1>7, <2>2 DEF Compared
  <2> QED
    BY <2>9, <2>11, <2>12 DEF Good
<1> QED
  BY <1>9, <1>10 DEF Inv

\* The user renames the document.
LEMMA RenameKeeps ==
  ASSUME Inv, Rename, scenario' = scenario
  PROVE  Inv'
<1>1. /\ document' = [document EXCEPT !.name = "new"] /\ ServerType
      /\ UNCHANGED <<clientVars, reads, saves, socket, history>>
  BY DEF Rename, Inv, TypeInv
<1>2. /\ ServerType' /\ document'.content = document.content
      /\ document'.revision = document.revision
  BY <1>1 DEF ServerType, Titles
<1>3. TypeInv'
  BY <1>1, <1>2 DEF Inv, TypeInv, Shape, LocalType, IsRead, IsEditor, clientVars
<1>4. Undisturbed' => Good'
  BY <1>1, <1>2, ZenonT(30)
     DEF Inv, Undisturbed, Good, GoodHistory, LocalGood, GoodEditor, GoodSave, Genuine,
                    Compared, StoredLines, clientVars
<1> QED
  BY <1>3, <1>4 DEF Inv

-----------------------------------------------------------------------------
(* The invariant and what follows from it.                                 *)

\* The invariant holds initially.
LEMMA InitInv == Init => Inv
<1> SUFFICES ASSUME Init PROVE Inv
  OBVIOUS
<1> USE DEF Init
<1>1. PlainTextToTiptap({}) \in Contents
  BY ContentType
<1>2. FirstSocket \in Sockets /\ FirstSocket.messages = <<>>
  <2>1. (IF scenario.mode = "subscription" THEN "opening" ELSE "none") \in {"none", "opening"}
    OBVIOUS
  <2>2. <<>> \in Seq(Results)
    OBVIOUS
  <2> QED
    BY <2>1, <2>2 DEF FirstSocket, Sockets
<1>3. \A q \in FirstReads : q.answer = NoAnswer /\ IsRead(q)
  BY DEF FirstReads, IsRead
<1>4. IsSave(NoSave) /\ NoSave.stage = "none"
  BY DEF IsSave, NoSave
<1>5. InitialEditor = [f \in Fields |-> InitialEditor[f]]
  BY DEF InitialEditor, Fields
<1>6. /\ InitialEditor.revision = 0 /\ InitialEditor.canWrite = FALSE
      /\ InitialEditor.dirty = FALSE /\ InitialEditor.text = {} /\ InitialEditor.saved = {}
      /\ InitialEditor.title = "none"
  BY DEF InitialEditor
<1>7. IsEditor(InitialEditor)
  <2>1. InitialEditor.canWrite \in BOOLEAN /\ InitialEditor.dirty \in BOOLEAN
    BY <1>6, Zenon
  <2>2. InitialEditor.title \in Titles
    BY <1>6 DEF Titles
  <2> QED
    BY <1>5, <1>6, <2>1, <2>2 DEF IsEditor
<1>8. Shape
  BY DEF Shape
<1>9. ASSUME NEW e \in Editors PROVE LocalType(e)
  <2>1. /\ editor[e] = InitialEditor /\ saves[e] = NoSave /\ reads[e] = FirstReads
        /\ socket[e] = FirstSocket
    OBVIOUS
  <2> QED
    BY <1>2, <1>3, <1>4, <1>7, <2>1 DEF LocalType
<1>10. /\ Revision({}, 1).content = PlainTextToTiptap({}) /\ Revision({}, 1).revision = 1
       /\ Revision({}, 1) \in Revisions
  BY <1>1 DEF Revision, Revisions
<1>11. /\ document.content = PlainTextToTiptap({}) /\ document.revision = 1
       /\ document \in [content : Contents, revision : Nat, name : Titles]
  BY <1>1 DEF Titles
<1>12. history = <<Revision({}, 1)>>
  OBVIOUS
<1>13. /\ Len(history) = 1 /\ history[1] = Revision({}, 1) /\ history \in Seq(Revisions)
  BY <1>10, <1>12
<1>14. StoredLines(1) = {}
  BY <1>10, <1>13, RoundTrip DEF StoredLines
<1>15. GoodHistory
  BY <1>10, <1>11, <1>13, <1>14 DEF GoodHistory
<1>16. ASSUME NEW e \in Editors PROVE LocalGood(e) /\ Compared(e)
  <2>1. /\ editor[e] = InitialEditor /\ saves[e] = NoSave /\ reads[e] = FirstReads
        /\ socket[e] = FirstSocket
    OBVIOUS
  <2>2. GoodEditor(InitialEditor) /\ GoodSave(NoSave, InitialEditor)
    BY <1>4, <1>6, <1>13 DEF GoodEditor, GoodSave
  <2> QED
    BY <1>2, <1>3, <1>4, <2>1, <2>2 DEF LocalGood, Compared
<1> QED
  BY <1>8, <1>9, <1>11, <1>13, <1>15, <1>16 DEF Inv, TypeInv, ServerType, Good

\* Every step preserves the invariant.
LEMMA NextInv == Inv /\ [Next]_<<vars, scenario>> => Inv'
<1> SUFFICES ASSUME Inv, [Next]_<<vars, scenario>> PROVE Inv'
  OBVIOUS
<1>1. CASE UNCHANGED <<vars, scenario>>
  <2>1. TypeInv'
    BY <1>1 DEF vars, clientVars, serverVars, Inv, TypeInv, Shape, ServerType, LocalType, IsEditor,
                IsRead
  <2>2. Undisturbed' => Good'
    BY <1>1, ZenonT(30)
       DEF vars, clientVars, serverVars, Inv, Undisturbed, Good, GoodHistory, LocalGood,
                GoodEditor, GoodSave, Genuine, Compared, StoredLines
  <2> QED
    BY <2>1, <2>2 DEF Inv
<1>2. CASE Rename /\ scenario' = scenario
  BY <1>2, RenameKeeps
<1>3. ASSUME NEW e \in Editors, scenario' = scenario,
             Browser(e) \/ Answer(e) \/ User(e) \/ Poll(e) \/ Fault(e)
      PROVE  Inv'
  <2>1. CASE CommitSave(e)
    BY <1>3, <2>1, CommitSaveKeeps
  <2>2. CASE ~CommitSave(e)
    <3>1. CASE Browser(e)
      BY <1>3, <3>1, TimerFiresKeeps, SaveEndsKeeps, ReadEndsKeeps, EventKeeps,
         ConnectionAckKeeps, LocalStepKeeps DEF Browser
    <3>2. CASE Answer(e)
      BY <1>3, <2>2, <3>2, RenameItemKeeps, CompareRevisionKeeps, GetContentKeeps, ListenKeeps,
         NotifyKeeps, LocalStepKeeps DEF Answer, Serve
    <3>3. CASE User(e)
      BY <1>3, <3>3, TypeKeeps, PressSaveKeeps, ReopenKeeps, LocalStepKeeps DEF User
    <3>4. CASE Poll(e)
      BY <1>3, <3>4, PollKeeps, LocalStepKeeps
    <3>5. CASE Fault(e)
      BY <1>3, <3>5, LostKeeps, ReadFailsKeeps, DisconnectedKeeps, LocalStepKeeps DEF Fault
    <3> QED
      BY <1>3, <3>1, <3>2, <3>3, <3>4, <3>5
  <2> QED
    BY <2>1, <2>2
<1> QED
  BY <1>1, <1>2, <1>3 DEF Next

\* In every behaviour, whatever is displayed, on the way or stored is of its type,
\* and unless saves raced or crossed a first answer, every editor displays at least
\* the revision it names and every save contains the revision it is based on.
THEOREM ContentInvariant == Spec => []Inv
<1>1. Init => Inv
  BY InitInv
<1>2. Inv /\ [Next]_<<vars, scenario>> => Inv'
  BY NextInv
<1> QED
  BY <1>1, <1>2, PTL DEF Spec

\* No save undoes another, however many editors there are, whatever they type and
\* whatever fails, unless the server compares the revisions of two saves before
\* either is written or a first answer crosses a save (update_content,
\* applyContentResult).
THEOREM SavesKeepWhatIsStored == Spec => []NoSaveIsOverwritten
<1>1. Inv => NoSaveIsOverwritten
  <2> SUFFICES ASSUME Inv, Undisturbed PROVE NothingIsLost
    BY DEF NoSaveIsOverwritten, Undisturbed, Excepted
  <2>1. GoodHistory /\ Len(history) \in Nat /\ DOMAIN history = 1..Len(history)
    BY DEF Inv, TypeInv, ServerType, Good
  <2> SUFFICES ASSUME NEW i \in 1..Len(history), i > 1
               PROVE  /\ StoredLines(i - 1) \subseteq StoredLines(i)
                      /\ history[i - 1].revision + 1 = history[i].revision
    BY <2>1 DEF NothingIsLost, StoredLines
  <2>2. i - 1 \in 1..Len(history) /\ i - 1 <= i
    BY <2>1
  <2>3. history[i - 1].revision = i - 1 /\ history[i].revision = i
    BY <2>1, <2>2 DEF GoodHistory
  <2>4. StoredLines(i - 1) \subseteq StoredLines(i)
    BY <2>1, <2>2 DEF GoodHistory
  <2> QED
    BY <2>1, <2>3, <2>4
<1> QED
  BY <1>1, ContentInvariant, PTL

-----------------------------------------------------------------------------
(* What the badge calls saved, and what is unsaved.                        *)

\* A revision with the text, as it was typed or as it is loaded.
Shows(h, n, text) ==
  \E i \in DOMAIN h :
    h[i].revision = n /\ text \in {DOMAIN h[i].content, TiptapToPlainText(h[i].content)}

\* The same, of a text that was saved and not loaded since.
ShowsTyped(h, n, text) == \E i \in DOMAIN h : h[i].revision = n /\ text = DOMAIN h[i].content

\* An answer to a read, or an event, shows a revision as it is loaded.
Answerable(h, a) ==
  /\ a.revision \in 1..Len(h) /\ a.text \in SUBSET Edits
  /\ \E i \in DOMAIN h : h[i].revision = a.revision /\ a.text = TiptapToPlainText(h[i].content)

\* The revisions hold texts that were typed, and the document is the last one.
HistorySync ==
  /\ Len(history) \in Nat \ {0}
  /\ \A i \in DOMAIN history :
       /\ history[i].revision \in 1..Len(history)
       /\ \E text \in SUBSET Edits : history[i].content = PlainTextToTiptap(text)
  /\ document.content = history[Len(history)].content
  /\ document.revision = history[Len(history)].revision

\* No text was typed during a save or before the first answer.
Held(r) == r.mishaps \cap {"overlooked", "late"} = {}

Flags(r) ==
  /\ r.status \in {"loading", "connected", "disconnected", "error"}
  /\ r.saveStatus \in {"idle", "unsaved", "saving", "saved", "conflict", "error"}
  /\ r.conflict \in BOOLEAN /\ r.saving \in BOOLEAN /\ r.timer \in BOOLEAN
  /\ r.fallback \in BOOLEAN /\ r.error \in BOOLEAN

\* An editor without unsaved text displays its revision; one that knows none yet
\* has no text to save.
EditorSync(h, r, stage) ==
  /\ Flags(r) /\ r.text \in SUBSET Edits /\ r.saved \in SUBSET Edits
  /\ r.revision \in 0..Len(h) /\ (r.saving <=> stage # "none")
  /\ r.revision = 0 => ~r.canWrite /\ r.text = {}
  /\ r.dirty => r.text # {}
  /\ ~r.dirty => r.text = r.saved
  /\ r.saveStatus = "saved" => ~r.dirty /\ r.revision > 0
  /\ Held(r) /\ ~r.dirty /\ r.revision > 0 => Shows(h, r.revision, r.text)

\* The text that is being saved is still displayed, and unsaved until the answer
\* is there.
SaveSync(h, r, s) ==
  /\ s.stage \in {"sent", "named", "compared"} =>
       s.base \in 1..Len(h) /\ s.text \in SUBSET Edits /\ (Held(r) => s.text = r.text)
  /\ s.stage = "answered" /\ s.answer = "ok" =>
       Answerable(h, s.result) /\ (Held(r) => ShowsTyped(h, s.result.revision, r.text))
  /\ Held(r) /\ s.stage # "none" => r.dirty

EditorInSync(e) ==
  /\ EditorSync(history, editor[e], saves[e].stage) /\ SaveSync(history, editor[e], saves[e])
  /\ \A q \in reads[e] : q.answer # NoAnswer => Answerable(history, q.answer)
  /\ \A i \in 1..Len(socket[e].messages) : Answerable(history, socket[e].messages[i])

SyncInv ==
  /\ Inv /\ HistorySync
  /\ scenario.maxEdits \in Nat /\ typed \in [Editors -> 0..scenario.maxEdits]
  /\ \A e \in Editors : EditorInSync(e)

\* What is loaded of a revision, and what was typed of it, is stored.
LEMMA ShownIsStored ==
  ASSUME HistorySync, NEW n, NEW text, Shows(history, n, text)
  PROVE  text \subseteq Stored
<1>1. PICK i \in DOMAIN history :
        text \in {DOMAIN history[i].content, TiptapToPlainText(history[i].content)}
  BY DEF Shows
<1>2. PICK t \in SUBSET Edits : history[i].content = PlainTextToTiptap(t)
  BY DEF HistorySync
<1>3. DOMAIN history[i].content = t /\ TiptapToPlainText(history[i].content) \subseteq t
  BY <1>2, RoundTrip DEF PlainTextToTiptap
<1> QED BY <1>1, <1>3 DEF Stored

\* The server answers with a revision.
LEMMA ResultIsAnswerable ==
  ASSUME HistorySync, DOMAIN history = 1..Len(history), NEW e \in Editors
  PROVE  Answerable(history, Result(e))
<1>1. /\ Result(e).revision = document.revision
      /\ Result(e).text = TiptapToPlainText(document.content)
  BY DEF Result, ToDocumentContentResult, Content
<1>2. Len(history) \in DOMAIN history
  BY DEF HistorySync
<1>3. PICK t \in SUBSET Edits : history[Len(history)].content = PlainTextToTiptap(t)
  BY <1>2 DEF HistorySync
<1>4. TiptapToPlainText(document.content) \in SUBSET Edits
  BY <1>3, RoundTrip DEF HistorySync
<1>5. document.revision \in 1..Len(history)
  BY <1>2 DEF HistorySync
<1> QED BY <1>1, <1>2, <1>4, <1>5 DEF HistorySync, Answerable

\* What is shown stays so when the history grows.
LEMMA SyncGrows ==
  ASSUME NEW h, NEW k, Len(h) \in Nat, Len(k) \in Nat, Len(h) <= Len(k),
         DOMAIN h = 1..Len(h), DOMAIN k = 1..Len(k), \A i \in DOMAIN h : k[i] = h[i]
  PROVE  /\ \A a : Answerable(h, a) => Answerable(k, a)
         /\ \A r, stage : EditorSync(h, r, stage) => EditorSync(k, r, stage)
         /\ \A r, s : SaveSync(h, r, s) => SaveSync(k, r, s)
<1>1. \A n, text : (Shows(h, n, text) => Shows(k, n, text))
                   /\ (ShowsTyped(h, n, text) => ShowsTyped(k, n, text))
  BY DEF Shows, ShowsTyped
<1>2. 1..Len(h) \subseteq 1..Len(k) /\ 0..Len(h) \subseteq 0..Len(k)
  OBVIOUS
<1>3. \A a : Answerable(h, a) => Answerable(k, a)
  BY <1>2 DEF Answerable
<1>4. \A r, stage : EditorSync(h, r, stage) => EditorSync(k, r, stage)
  BY <1>1, <1>2 DEF EditorSync
<1>5. \A r, s : SaveSync(h, r, s) => SaveSync(k, r, s)
  BY <1>1, <1>2, <1>3 DEF SaveSync
<1> QED BY <1>3, <1>4, <1>5

\* What is known when the steps of an editor are taken.
LEMMA InSync ==
  ASSUME SyncInv, NEW e \in Editors
  PROVE  /\ Inv /\ HistorySync /\ EditorInSync(e) /\ Shape /\ LocalType(e) /\ ServerType
         /\ Len(history) \in Nat /\ DOMAIN history = 1..Len(history)
         /\ IsEditor(editor[e]) /\ IsSave(saves[e])
<1>1. history \in Seq(Revisions) /\ LocalType(e)
  BY Known DEF SyncInv, ServerType
<1> QED BY <1>1, Known DEF SyncInv, LocalType

-----------------------------------------------------------------------------
(* What the handlers make of an editor that is in sync.                    *)

\* A mishap takes nothing away.
LEMMA MishapSync ==
  ASSUME NEW r, IsEditor(r), NEW name, NEW happened, NEW h, NEW s,
         EditorSync(h, r, s.stage),
         SaveSync(h, r, s) \/ (happened /\ name \in {"overlooked", "late"}
                               /\ \E b : SaveSync(h, b, s))
  PROVE  LET m == Mishap(r, name, happened)
         IN  /\ EditorSync(h, m, s.stage) /\ SaveSync(h, m, s)
             /\ IsEditor(m) /\ m.text = r.text /\ m.status = r.status /\ (Held(m) => Held(r))
<1> DEFINE m == Mishap(r, name, happened)
<1>1. /\ IsEditor(m) /\ r.mishaps \subseteq m.mishaps /\ (happened => name \in m.mishaps)
      /\ \A f \in Fields \ {"mishaps"} : m[f] = r[f]
  BY DEF Mishap, IsEditor, Fields
<1> HIDE DEF m
<1>2. Held(m) => Held(r)
  BY <1>1 DEF Held
<1>3. Flags(m) <=> Flags(r)
  BY <1>1 DEF Flags, Fields
<1>4. EditorSync(h, m, s.stage)
  BY <1>1, <1>2, <1>3 DEF EditorSync, Fields
<1>5. SaveSync(h, m, s)
  <2>1. CASE SaveSync(h, r, s)
    BY <1>1, <1>2, <2>1 DEF SaveSync, Fields
  <2>2. ASSUME happened, name \in {"overlooked", "late"}, NEW b, SaveSync(h, b, s)
        PROVE  SaveSync(h, m, s)
    <3>1. ~Held(m)
      BY <1>1, <2>2 DEF Held
    <3> QED BY <2>2, <3>1 DEF SaveSync
  <2> QED BY <2>1, <2>2
<1> QED BY <1>1, <1>2, <1>4, <1>5 DEF m, Fields

\* Scheduling the autosave changes the timer.
LEMMA AutosaveSync ==
  ASSUME NEW old, NEW r, IsEditor(r), NEW h, NEW s, EditorSync(h, r, s.stage), SaveSync(h, r, s)
  PROVE  LET m == Autosave(old, r)
         IN  /\ EditorSync(h, m, s.stage) /\ SaveSync(h, m, s)
             /\ m.text = r.text /\ m.status = r.status /\ (Held(m) => Held(r))
<1> DEFINE m == Autosave(old, r)
<1>1. /\ \A f \in Fields \ {"timer"} : m[f] = r[f]
      /\ m.timer \in BOOLEAN
  <2> DEFINE due == /\ r.canWrite /\ ~r.conflict /\ r.dirty /\ r.status = "connected"
  <2>1. due \in BOOLEAN /\ r.timer \in BOOLEAN
    BY DEF EditorSync, Flags
  <2>2. m = r \/ m = [r EXCEPT !.timer = due]
    BY DEF Autosave
  <2> HIDE DEF due
  <2> QED BY <2>1, <2>2 DEF IsEditor, Fields
<1> HIDE DEF m
<1>2. Held(m) <=> Held(r)
  BY <1>1 DEF Held, Fields
<1>3. Flags(m)
  BY <1>1 DEF Flags, EditorSync, Fields
<1>4. EditorSync(h, m, s.stage)
  BY <1>1, <1>2, <1>3 DEF EditorSync, Fields
<1>5. SaveSync(h, m, s)
  BY <1>1, <1>2 DEF SaveSync, Fields
<1> QED BY <1>1, <1>2, <1>4, <1>5 DEF m, Fields

\* A revision that comes in is held back, or displayed instead of a text that was
\* saved.
LEMMA AppliedSync ==
  ASSUME NEW r, IsEditor(r), NEW a \in Results, NEW h, Answerable(h, a), NEW source,
         source # "save", NEW s, EditorSync(h, r, s.stage), SaveSync(h, r, s), Len(h) \in Nat
  PROVE  LET m == ApplyContentResult(r, a, source)
         IN  /\ EditorSync(h, m, s.stage) /\ m.mishaps = r.mishaps /\ IsEditor(m)
             /\ source = "remote" \/ ~r.dirty => SaveSync(h, m, s)
             /\ r.dirty /\ source = "remote" => m.text = r.text
<1> DEFINE m == ApplyContentResult(r, a, source)
<1>1. /\ IsEditor(m) /\ m.mishaps = r.mishaps
  BY AppliedFields
<1>2. Answerable(h, a) /\ a.revision \in 1..Len(h) /\ a.text \in SUBSET Edits
      /\ Shows(h, a.revision, a.text) /\ a.canWrite \in BOOLEAN
  BY DEF Answerable, Shows, Results
<1>3. CASE source = "remote" /\ r.dirty
  <2> DEFINE newer == a.revision > r.revision
             held  == r.conflict \/ newer
  <2>1. /\ m.conflict = held /\ m.saveStatus \in {r.saveStatus, "conflict"}
        /\ \A f \in Fields \ {"conflict", "saveStatus", "title", "canWrite"} : m[f] = r[f]
    BY <1>3 DEF ApplyContentResult, IsEditor, Fields
  <2>2. held \in BOOLEAN
    OBVIOUS
  <2> HIDE DEF m, held
  <2>3. Flags(m)
    BY <2>1, <2>2 DEF Flags, EditorSync, Fields
  <2>4. Held(m) <=> Held(r)
    BY <1>1 DEF Held
  <2>5. EditorSync(h, m, s.stage)
    BY <1>3, <2>1, <2>3, <2>4 DEF EditorSync, Fields
  <2>6. SaveSync(h, m, s)
    BY <2>1, <2>4 DEF SaveSync, Fields
  <2> QED BY <1>1, <2>1, <2>5, <2>6 DEF m, Fields
<1>4. CASE ~(source = "remote" /\ r.dirty)
  <2>1. /\ m.revision = a.revision /\ m.status = "connected" /\ m.conflict = FALSE
        /\ m.dirty = FALSE /\ m.text = a.text /\ m.saved = a.text
        /\ m.saveStatus \in {"saved", "idle"}
        /\ \A f \in {"saving", "timer", "fallback", "error"} : m[f] = r[f]
    BY <1>4 DEF ApplyContentResult, IsEditor, Fields
  <2> HIDE DEF m
  <2>2. Flags(m)
    BY <2>1 DEF Flags, EditorSync
  <2>3. Held(m) <=> Held(r)
    BY <1>1 DEF Held
  <2>4. EditorSync(h, m, s.stage)
    BY <1>2, <2>1, <2>2 DEF EditorSync
  <2>5. ASSUME source = "remote" \/ ~r.dirty PROVE SaveSync(h, m, s)
    <3>1. Held(m) => s.stage = "none"
      BY <1>4, <2>3, <2>5 DEF SaveSync
    <3> QED BY <3>1 DEF SaveSync
  <2> QED BY <1>1, <1>4, <2>4, <2>5 DEF m
<1> QED BY <1>3, <1>4

-----------------------------------------------------------------------------
(* The steps, again.                                                       *)

\* What an editor displayed and no revision has is still displayed.
Holds(e) ==
  Held(editor'[e]) /\ editor'[e].status # "loading" =>
    editor[e].text \ Stored \subseteq editor'[e].text

SyncStep(e) ==
  EditorInSync(e)' /\ Holds(e) /\ typed' \in [Editors -> 0..scenario.maxEdits]

\* What is on the way to an editor is answerable.
Coming(h, rs, ms) == /\ \A q \in rs : q.answer # NoAnswer => Answerable(h, q.answer)
                     /\ \A i \in 1..Len(ms) : Answerable(h, ms[i])

\* What is in sync with a history stays so if the history stays.
LEMMA StillInSync ==
  ASSUME NEW e \in Editors, history' = history, scenario' = scenario,
         EditorSync(history, editor'[e], saves'[e].stage),
         SaveSync(history, editor'[e], saves'[e]),
         Coming(history, reads'[e], socket'[e].messages)
  PROVE  EditorInSync(e)'
<1>1. Edits' = Edits
  BY DEF Edits
<1>2. \A a : Answerable(history, a) => Answerable(history, a)'
  BY <1>1 DEF Answerable
<1>3. EditorSync(history, editor[e], saves[e].stage)'
  BY <1>1 DEF EditorSync
<1>4. SaveSync(history, editor[e], saves[e])'
  BY <1>1 DEF SaveSync, Answerable
<1>5. /\ \A q \in reads'[e] : q.answer # NoAnswer => Answerable(history, q.answer)'
      /\ \A i \in 1..Len(socket'[e].messages) : Answerable(history, socket[e].messages[i])'
  BY <1>1 DEF Coming, Answerable
<1> QED BY <1>3, <1>4, <1>5 DEF EditorInSync

\* A handler that makes r of an editor.
LEMMA SyncHandled ==
  ASSUME SyncInv, NEW e \in Editors, NEW r, IsEditor(r), Becomes(e, r),
         history' = history, scenario' = scenario,
         typed' \in [Editors -> 0..scenario.maxEdits],
         EditorSync(history, r, saves'[e].stage), SaveSync(history, r, saves'[e]),
         Coming(history, reads'[e], socket'[e].messages),
         Held(r) /\ r.status # "loading" => editor[e].text \ Stored \subseteq r.text
  PROVE  SyncStep(e)
<1> DEFINE m == Autosave(editor[e], r)
<1>1. editor' = [editor EXCEPT ![e] = m] /\ editor'[e] = m
  BY InSync DEF Becomes, Shape
<1>2. /\ EditorSync(history, m, saves'[e].stage) /\ SaveSync(history, m, saves'[e])
      /\ m.text = r.text /\ m.status = r.status /\ (Held(m) => Held(r))
  BY AutosaveSync
<1> HIDE DEF m
<1>3. EditorInSync(e)'
  BY <1>1, <1>2, StillInSync
<1> QED BY <1>1, <1>2, <1>3 DEF SyncStep, Holds

\* A step that leaves the editor and its save alone.
LEMMA SyncOnTheWay ==
  ASSUME SyncInv, NEW e \in Editors, UNCHANGED <<editor, saves, history, scenario, typed>>,
         Coming(history, reads'[e], socket'[e].messages)
  PROVE  SyncStep(e)
<1>1. EditorInSync(e)'
  BY StillInSync, InSync DEF EditorInSync
<1> QED BY <1>1 DEF SyncStep, Holds, SyncInv

\* What is known of a handler that leaves the text alone.
LEMMA SyncSameText ==
  ASSUME SyncInv, NEW e \in Editors
  PROVE  /\ EditorSync(history, editor[e], saves[e].stage) /\ SaveSync(history, editor[e], saves[e])
         /\ Coming(history, reads[e], socket[e].messages)
         /\ IsEditor(editor[e]) /\ typed \in [Editors -> 0..scenario.maxEdits]
         /\ Len(history) \in Nat /\ Flags(editor[e])
BY InSync DEF EditorInSync, Coming, SyncInv, EditorSync

\* Typing leaves an unsaved text that has all that was there.
LEMMA TypeSync ==
  ASSUME SyncInv, NEW e \in Editors, Type(e), scenario' = scenario
  PROVE  SyncStep(e)
<1> DEFINE new  == <<e, typed[e] + 1>>
           t    == [editor[e] EXCEPT !.text = @ \cup {new}, !.dirty = TRUE,
                                     !.saveStatus = IF @ = "conflict" THEN @ ELSE "unsaved"]
           r    == Mishap(t, "overlooked", saves[e] # NoSave)
<1>1. /\ EditorSync(history, editor[e], saves[e].stage) /\ SaveSync(history, editor[e], saves[e])
      /\ Coming(history, reads[e], socket[e].messages)
      /\ IsEditor(editor[e]) /\ typed \in [Editors -> 0..scenario.maxEdits]
      /\ scenario.maxEdits \in Nat /\ IsSave(saves[e])
  BY SyncSameText, InSync DEF SyncInv
<1>2. new \in Edits /\ new \in Lines /\ typed' \in [Editors -> 0..scenario.maxEdits]
  BY <1>1 DEF Type, Edits, Lines
<1>3. Becomes(e, r) /\ saves' = saves /\ reads' = reads /\ socket' = socket /\ history' = history
      /\ editor[e].canWrite
  BY DEF Type, serverVars
<1> HIDE DEF new
<1>4. /\ IsEditor(t) /\ t.text = editor[e].text \cup {new} /\ t.dirty = TRUE
      /\ t.saveStatus \in {"conflict", "unsaved"}
      /\ \A f \in Fields \ {"text", "dirty", "saveStatus"} : t[f] = editor[e][f]
  BY <1>1, <1>2 DEF IsEditor, Fields
<1> HIDE DEF t
<1>5. Flags(t)
  BY <1>1, <1>4 DEF EditorSync, Flags, Fields
<1>6. EditorSync(history, t, saves[e].stage)
  BY <1>1, <1>2, <1>3, <1>4, <1>5 DEF EditorSync, Fields
<1>7. saves[e] = NoSave => SaveSync(history, t, saves[e])
  BY DEF NoSave, SaveSync
<1>8. /\ EditorSync(history, r, saves[e].stage) /\ SaveSync(history, r, saves[e])
      /\ IsEditor(r) /\ r.text = t.text
  <2> DEFINE busy == saves[e] # NoSave
  <2>1. SaveSync(history, t, saves[e]) \/ (busy /\ "overlooked" \in {"overlooked", "late"}
                                           /\ \E b : SaveSync(history, b, saves[e]))
    BY <1>1, <1>7
  <2> HIDE DEF busy
  <2>2. LET m == Mishap(t, "overlooked", busy)
        IN  /\ EditorSync(history, m, saves[e].stage) /\ SaveSync(history, m, saves[e])
            /\ IsEditor(m) /\ m.text = t.text
    BY <1>4, <1>6, <2>1, MishapSync
  <2> QED BY <2>2 DEF busy
<1> HIDE DEF r
<1> QED BY <1>1, <1>2, <1>3, <1>4, <1>8, SyncHandled

\* The text that is sent is displayed, and there is one only if it is unsaved.
LEMMA SaveNowSync ==
  ASSUME SyncInv, NEW e \in Editors, NEW b, IsEditor(b), SaveNow(e, b), scenario' = scenario,
         UNCHANGED <<reads, socket, serverVars, typed>>, b.timer \in BOOLEAN,
         \A f \in Fields \ {"timer"} : b[f] = editor[e][f]
  PROVE  SyncStep(e)
<1>1. /\ EditorSync(history, editor[e], saves[e].stage) /\ SaveSync(history, editor[e], saves[e])
      /\ Coming(history, reads[e], socket[e].messages) /\ Flags(editor[e])
      /\ typed \in [Editors -> 0..scenario.maxEdits] /\ Len(history) \in Nat /\ Shape
      /\ UNCHANGED <<history, reads, socket, typed>>
  BY SyncSameText, InSync DEF serverVars
<1>2. Flags(b) /\ (Held(b) <=> Held(editor[e]))
  BY <1>1 DEF Flags, Held, Fields
<1>3. EditorSync(history, b, saves[e].stage)
  BY <1>1, <1>2 DEF EditorSync, Fields
<1>4. SaveSync(history, b, saves[e])
  BY <1>1, <1>2 DEF SaveSync, Fields
<1>5. b.text = editor[e].text
  BY DEF Fields
<1>6. CASE Becomes(e, b) /\ UNCHANGED saves
  BY <1>1, <1>3, <1>4, <1>5, <1>6, SyncHandled
<1>7. CASE ~b.dirty /\ b.text = b.saved /\ b.canWrite
           /\ Becomes(e, [b EXCEPT !.saveStatus = "saved"]) /\ UNCHANGED saves
  <2> DEFINE r == [b EXCEPT !.saveStatus = "saved"]
  <2>1. /\ IsEditor(r) /\ r.saveStatus = "saved"
        /\ \A f \in Fields \ {"saveStatus"} : r[f] = b[f]
    BY DEF IsEditor, Fields
  <2> HIDE DEF r
  <2>2. Flags(r) /\ (Held(r) <=> Held(b)) /\ r.text = editor[e].text
    BY <1>2, <1>5, <2>1 DEF Flags, Held, Fields
  <2>3. EditorSync(history, r, saves[e].stage)
    BY <1>3, <1>7, <2>1, <2>2 DEF EditorSync, Fields
  <2>4. SaveSync(history, r, saves[e])
    BY <1>4, <2>1, <2>2 DEF SaveSync, Fields
  <2>5. Becomes(e, r)
    BY <1>7 DEF r
  <2> QED BY <1>1, <1>7, <2>1, <2>2, <2>3, <2>4, <2>5, SyncHandled
<1> DEFINE r == [b EXCEPT !.saving = TRUE, !.saveStatus = "saving", !.error = FALSE]
           q == [stage |-> "sent", text |-> b.text, base |-> b.revision, title |-> b.title]
<1>8. CASE /\ b.canWrite /\ ~(~b.dirty /\ b.text = b.saved)
           /\ Becomes(e, r) /\ saves' = [saves EXCEPT ![e] = q]
  <2>1. /\ IsEditor(r) /\ r.saveStatus = "saving" /\ r.saving = TRUE /\ r.error = FALSE
        /\ \A f \in Fields \ {"saveStatus", "saving", "error"} : r[f] = b[f]
    BY DEF IsEditor, Fields
  <2>2. saves'[e] = q /\ q.stage = "sent" /\ q.text = b.text /\ q.base = b.revision
    BY <1>1, <1>8 DEF Shape
  <2>3. Becomes(e, r)
    BY <1>8
  <2> HIDE DEF r, q
  <2>4. Flags(r) /\ (Held(r) <=> Held(b)) /\ r.text = editor[e].text
    BY <1>2, <1>5, <2>1 DEF Flags, Held, Fields
  <2>5. EditorSync(history, r, q.stage)
    BY <1>3, <2>1, <2>2, <2>4 DEF EditorSync, Fields
  <2>6. b.dirty /\ b.revision \in 1..Len(history) /\ b.text \in SUBSET Edits
    BY <1>1, <1>3, <1>8 DEF EditorSync
  <2>7. SaveSync(history, r, q)
    BY <2>1, <2>2, <2>6 DEF SaveSync, Fields
  <2> QED BY <1>1, <2>1, <2>2, <2>3, <2>4, <2>5, <2>7, SyncHandled
<1> QED BY <1>6, <1>7, <1>8 DEF SaveNow

\* The autosave timer fires.
LEMMA TimerFiresSync ==
  ASSUME SyncInv, NEW e \in Editors, TimerFires(e), scenario' = scenario
  PROVE  SyncStep(e)
<1> DEFINE b == [editor[e] EXCEPT !.timer = FALSE]
<1>1. IsEditor(editor[e])
  BY SyncSameText
<1>2. IsEditor(b) /\ b.timer = FALSE /\ \A f \in Fields \ {"timer"} : b[f] = editor[e][f]
  BY <1>1 DEF IsEditor, Fields
<1>3. SaveNow(e, b) /\ UNCHANGED <<reads, socket, serverVars, typed>>
  BY DEF TimerFires
<1> HIDE DEF b
<1> QED BY <1>2, <1>3, SaveNowSync

\* The user presses save.
LEMMA PressSaveSync ==
  ASSUME SyncInv, NEW e \in Editors, PressSave(e), scenario' = scenario
  PROVE  SyncStep(e)
<1>1. IsEditor(editor[e]) /\ editor[e].timer \in BOOLEAN
  BY SyncSameText DEF Flags
<1> QED BY <1>1, SaveNowSync DEF PressSave

\* The answer to a save makes the displayed text the saved one, as a revision has it.
LEMMA SaveEndsSync ==
  ASSUME SyncInv, NEW e \in Editors, SaveEnds(e), scenario' = scenario
  PROVE  SyncStep(e)
<1> DEFINE b == [editor[e] EXCEPT !.saving = FALSE]
           answer == saves[e].answer
           result == saves[e].result
           applied == ApplyContentResult(b, result, "save")
<1>1. /\ EditorSync(history, editor[e], saves[e].stage) /\ SaveSync(history, editor[e], saves[e])
      /\ Coming(history, reads[e], socket[e].messages) /\ Flags(editor[e])
      /\ typed \in [Editors -> 0..scenario.maxEdits] /\ Len(history) \in Nat /\ Shape
      /\ IsEditor(editor[e]) /\ IsSave(saves[e])
  BY SyncSameText, InSync
<1>2. /\ IsEditor(b) /\ b.saving = FALSE /\ \A f \in Fields \ {"saving"} : b[f] = editor[e][f]
  BY <1>1 DEF IsEditor, Fields
<1>3. /\ saves[e].stage = "answered" /\ saves' = [saves EXCEPT ![e] = NoSave]
      /\ UNCHANGED <<reads, socket, history, typed>>
      /\ Becomes(e, CASE answer = "ok" -> Mishap(applied, "rewound", b.conflict)
                       [] answer = "conflict" -> [b EXCEPT !.conflict = TRUE,
                                                           !.saveStatus = "conflict"]
                       [] answer = "error" -> [b EXCEPT !.saveStatus = "error", !.error = TRUE])
  BY DEF SaveEnds, serverVars
<1>4. saves'[e] = NoSave /\ NoSave.stage = "none" /\ \A r : SaveSync(history, r, NoSave)
  BY <1>1, <1>3 DEF Shape, NoSave, SaveSync
<1> HIDE DEF b
<1>5. Flags(b) /\ (Held(b) <=> Held(editor[e])) /\ b.text = editor[e].text
  BY <1>1, <1>2 DEF Flags, Held, Fields
<1>6. EditorSync(history, b, "none")
  BY <1>1, <1>2, <1>5 DEF EditorSync, Fields
<1>7. CASE answer = "ok"
  <2> DEFINE r == Mishap(applied, "rewound", b.conflict)
  <2>1. result \in Results /\ Answerable(history, result)
        /\ (Held(b) => ShowsTyped(history, result.revision, b.text))
    BY <1>1, <1>3, <1>5, <1>7 DEF IsSave, SaveSync
  <2>2. /\ IsEditor(applied) /\ applied.mishaps = b.mishaps
    BY <1>2, <2>1, AppliedFields
  <2>3. /\ applied.revision = result.revision /\ applied.status = "connected"
        /\ applied.conflict = FALSE /\ applied.dirty = FALSE /\ applied.text = b.text
        /\ applied.saved = b.text /\ applied.saveStatus = "saved"
        /\ \A f \in {"saving", "timer", "fallback", "error"} : applied[f] = b[f]
    BY <1>2, <2>1 DEF ApplyContentResult, IsEditor, Fields
  <2> HIDE DEF applied
  <2>4. Flags(applied) /\ (Held(applied) <=> Held(b))
    BY <1>5, <2>2, <2>3 DEF Flags, Held
  <2>5. applied.revision \in 1..Len(history)
        /\ (Held(applied) => Shows(history, applied.revision, applied.text))
    BY <2>1, <2>3, <2>4 DEF Answerable, Shows, ShowsTyped
  <2>6. EditorSync(history, applied, "none")
    BY <1>1, <1>6, <2>3, <2>4, <2>5 DEF EditorSync
  <2>7. /\ EditorSync(history, r, NoSave.stage) /\ SaveSync(history, r, NoSave)
        /\ IsEditor(r) /\ r.text = applied.text
    <3> DEFINE held == b.conflict
    <3>1. EditorSync(history, applied, NoSave.stage) /\ SaveSync(history, applied, NoSave)
      BY <1>4, <2>6
    <3> HIDE DEF held
    <3>2. LET m == Mishap(applied, "rewound", held)
          IN  /\ EditorSync(history, m, NoSave.stage) /\ SaveSync(history, m, NoSave)
              /\ IsEditor(m) /\ m.text = applied.text
      BY <2>2, <3>1, MishapSync
    <3> QED BY <3>2 DEF held
  <2>8. Becomes(e, r)
    BY <1>3, <1>7
  <2> HIDE DEF r
  <2> QED BY <1>1, <1>3, <1>4, <1>5, <2>3, <2>7, <2>8, SyncHandled
<1>8. ASSUME NEW r, Becomes(e, r), IsEditor(r), r.conflict \in BOOLEAN, r.error \in BOOLEAN,
             r.saveStatus \in {"conflict", "error"},
             \A f \in Fields \ {"conflict", "error", "saveStatus"} : r[f] = b[f]
      PROVE  SyncStep(e)
  <2>1. Flags(r) /\ (Held(r) <=> Held(b)) /\ r.text = editor[e].text
    BY <1>5, <1>8 DEF Flags, Held, Fields
  <2>2. EditorSync(history, r, NoSave.stage) /\ SaveSync(history, r, NoSave)
    BY <1>4, <1>6, <1>8, <2>1 DEF EditorSync, Fields
  <2> QED BY <1>1, <1>3, <1>4, <1>8, <2>1, <2>2, SyncHandled
<1>9. CASE answer = "conflict"
  <2> DEFINE r == [b EXCEPT !.conflict = TRUE, !.saveStatus = "conflict"]
  <2>1. /\ IsEditor(r) /\ r.conflict = TRUE /\ r.error = b.error /\ r.saveStatus = "conflict"
        /\ \A f \in Fields \ {"conflict", "error", "saveStatus"} : r[f] = b[f]
    BY <1>2 DEF IsEditor, Fields
  <2>2. Becomes(e, r)
    BY <1>3, <1>9
  <2> HIDE DEF r
  <2> QED BY <1>5, <1>8, <2>1, <2>2 DEF Flags
<1>10. CASE answer = "error"
  <2> DEFINE r == [b EXCEPT !.saveStatus = "error", !.error = TRUE]
  <2>1. /\ IsEditor(r) /\ r.conflict = b.conflict /\ r.error = TRUE /\ r.saveStatus = "error"
        /\ \A f \in Fields \ {"conflict", "error", "saveStatus"} : r[f] = b[f]
    BY <1>2 DEF IsEditor, Fields
  <2>2. Becomes(e, r)
    BY <1>3, <1>10
  <2> HIDE DEF r
  <2> QED BY <1>5, <1>8, <2>1, <2>2 DEF Flags
<1> QED BY <1>1, <1>3, <1>7, <1>9, <1>10 DEF IsSave

\* The editor polls.
LEMMA PollSync ==
  ASSUME SyncInv, NEW e \in Editors, Poll(e), scenario' = scenario
  PROVE  SyncStep(e)
<1> DEFINE q == [source |-> "poll", answer |-> NoAnswer]
<1>1. Shape /\ Coming(history, reads[e], socket[e].messages)
  BY InSync, SyncSameText
<1>2. /\ reads' = [reads EXCEPT ![e] = @ \cup {q}] /\ q.answer = NoAnswer
      /\ UNCHANGED <<editor, typed, saves, socket, history>>
  BY DEF Poll, clientVars, serverVars
<1> HIDE DEF q
<1>3. reads'[e] = reads[e] \cup {q}
  BY <1>1, <1>2 DEF Shape
<1>4. Coming(history, reads'[e], socket'[e].messages)
  BY <1>1, <1>2, <1>3 DEF Coming
<1> QED BY <1>2, <1>4, SyncOnTheWay

\* The server answers a read.
LEMMA GetContentSync ==
  ASSUME SyncInv, NEW e \in Editors, GetContent(e), scenario' = scenario
  PROVE  SyncStep(e)
<1>1. Shape /\ LocalType(e) /\ Coming(history, reads[e], socket[e].messages)
      /\ Answerable(history, Result(e))
  BY InSync, SyncSameText, ResultIsAnswerable
<1>2. PICK q \in reads[e] :
        /\ reads' = [reads EXCEPT ![e] = (@ \ {q}) \cup {[q EXCEPT !.answer = Result(e)]}]
        /\ UNCHANGED <<editor, typed, saves, socket, history>>
  BY DEF GetContent, clientVars, serverVars
<1> DEFINE n == [q EXCEPT !.answer = Result(e)]
<1>3. n.answer = Result(e)
  BY <1>1, <1>2 DEF LocalType, IsRead
<1>4. reads' = [reads EXCEPT ![e] = (@ \ {q}) \cup {n}]
  BY <1>2
<1> HIDE DEF n
<1>5. reads'[e] = (reads[e] \ {q}) \cup {n}
  BY <1>1, <1>4 DEF Shape
<1>6. Coming(history, reads'[e], socket'[e].messages)
  BY <1>1, <1>2, <1>3, <1>5 DEF Coming
<1> QED BY <1>2, <1>6, SyncOnTheWay

\* The server publishes an event.
LEMMA NotifySync ==
  ASSUME SyncInv, NEW e \in Editors, Notify(e), scenario' = scenario
  PROVE  SyncStep(e)
<1> DEFINE ms == Append(socket[e].messages, Result(e))
<1>1. Shape /\ LocalType(e) /\ Coming(history, reads[e], socket[e].messages)
      /\ Answerable(history, Result(e))
  BY InSync, SyncSameText, ResultIsAnswerable
<1>2. /\ socket' = [socket EXCEPT ![e] = [socket[e] EXCEPT !.event = FALSE, !.messages = ms]]
      /\ UNCHANGED <<editor, typed, saves, reads, history>>
  BY <1>1 DEF Notify, clientVars, serverVars, Shape
<1>3. socket'[e].messages = ms
  BY <1>1, <1>2 DEF LocalType, Sockets, Shape
<1>4. \A i \in 1..Len(ms) : Answerable(history, ms[i])
  <2>1. socket[e].messages \in Seq(Results)
    BY <1>1 DEF LocalType, Sockets
  <2>2. /\ Len(ms) = Len(socket[e].messages) + 1 /\ ms[Len(ms)] = Result(e)
        /\ \A i \in 1..Len(socket[e].messages) : ms[i] = socket[e].messages[i]
        /\ Len(socket[e].messages) \in Nat
    BY <2>1
  <2> HIDE DEF ms
  <2> QED BY <1>1, <2>2 DEF Coming
<1> HIDE DEF ms
<1>5. Coming(history, reads'[e], socket'[e].messages)
  BY <1>1, <1>2, <1>3, <1>4 DEF Coming
<1> QED BY <1>2, <1>5, SyncOnTheWay

\* An editor that is opened anew knows nothing.
LEMMA ReopenSync ==
  ASSUME SyncInv, NEW e \in Editors, Reopen(e), scenario' = scenario
  PROVE  SyncStep(e)
<1> DEFINE r == [InitialEditor EXCEPT !.mishaps = editor[e].mishaps \cap {"raced", "crossed"}]
<1>1. Shape /\ typed \in [Editors -> 0..scenario.maxEdits] /\ Len(history) \in Nat
  BY InSync, SyncSameText
<1>2. /\ editor' = [editor EXCEPT ![e] = r]
      /\ reads' = [reads EXCEPT ![e] = FirstReads] /\ socket' = [socket EXCEPT ![e] = FirstSocket]
      /\ saves[e] = NoSave /\ UNCHANGED <<typed, saves, history>>
  BY DEF Reopen, serverVars
<1>3. /\ r.status = "loading" /\ r.saveStatus = "idle" /\ r.conflict = FALSE
      /\ r.canWrite = FALSE /\ r.revision = 0 /\ r.text = {} /\ r.saved = {} /\ r.dirty = FALSE
      /\ r.saving = FALSE /\ r.timer = FALSE /\ r.fallback = FALSE /\ r.error = FALSE
  BY DEF InitialEditor
<1>4. editor'[e] = r /\ saves'[e] = NoSave /\ reads'[e] = FirstReads /\ socket'[e] = FirstSocket
  BY <1>1, <1>2 DEF Shape
<1> HIDE DEF r
<1>5. NoSave.stage = "none" /\ SaveSync(history, r, NoSave)
  BY DEF NoSave, SaveSync
<1>6. Flags(r)
  BY <1>3 DEF Flags
<1>7. EditorSync(history, r, NoSave.stage)
  BY <1>1, <1>3, <1>5, <1>6 DEF EditorSync
<1>8. FirstSocket.messages = <<>> /\ Len(<<>>) = 0 /\ \A q \in FirstReads : q.answer = NoAnswer
  BY DEF FirstSocket, FirstReads
<1>9. Coming(history, FirstReads, FirstSocket.messages)
  BY <1>8 DEF Coming
<1>10. EditorInSync(e)'
  BY <1>2, <1>4, <1>5, <1>7, <1>9, StillInSync
<1> QED BY <1>1, <1>2, <1>3, <1>4, <1>10 DEF SyncStep, Holds

\* A revision that comes in: an unsaved text is still displayed, unless it is older
\* than the first answer.
LEMMA IncomingHolds ==
  ASSUME SyncInv, NEW e \in Editors, NEW a \in Results, Answerable(history, a),
         NEW source \in {"initial", "remote"}
  PROVE  LET m == ApplyContentResult(editor[e], a, source)
         IN  /\ IsEditor(m) /\ EditorSync(history, m, saves[e].stage)
             /\ m.mishaps = editor[e].mishaps
             /\ source = "remote" \/ editor[e].text = {} =>
                  /\ SaveSync(history, m, saves[e])
                  /\ Held(m) => editor[e].text \ Stored \subseteq m.text
<1> DEFINE m == ApplyContentResult(editor[e], a, source)
<1>1. /\ EditorSync(history, editor[e], saves[e].stage) /\ SaveSync(history, editor[e], saves[e])
      /\ IsEditor(editor[e]) /\ Len(history) \in Nat
  BY SyncSameText
<1>2. source # "save"
  OBVIOUS
<1>3. /\ EditorSync(history, m, saves[e].stage) /\ m.mishaps = editor[e].mishaps /\ IsEditor(m)
      /\ source = "remote" \/ ~editor[e].dirty => SaveSync(history, m, saves[e])
      /\ editor[e].dirty /\ source = "remote" => m.text = editor[e].text
  BY <1>1, <1>2, AppliedSync
<1> HIDE DEF m
<1>4. ASSUME source = "remote" \/ editor[e].text = {}
      PROVE  /\ SaveSync(history, m, saves[e])
             /\ Held(m) => editor[e].text \ Stored \subseteq m.text
  <2>1. editor[e].dirty => source = "remote"
    BY <1>1, <1>4 DEF EditorSync
  <2>2. ASSUME Held(m), ~editor[e].dirty PROVE editor[e].text \subseteq Stored
    <3>1. CASE editor[e].revision = 0
      BY <1>1, <3>1 DEF EditorSync
    <3>2. CASE editor[e].revision > 0
      <4>1. Shows(history, editor[e].revision, editor[e].text)
        BY <1>1, <1>3, <2>2, <3>2 DEF EditorSync, Held
      <4> QED BY <4>1, ShownIsStored DEF SyncInv
    <3> QED BY <1>1, <3>1, <3>2 DEF EditorSync
  <2> QED BY <1>3, <2>1, <2>2
<1> QED BY <1>3, <1>4 DEF m

\* An event arrives at an editor.
LEMMA EventSync ==
  ASSUME SyncInv, NEW e \in Editors, Event(e), scenario' = scenario
  PROVE  SyncStep(e)
<1> DEFINE a  == Head(socket[e].messages)
           r  == ApplyContentResult(editor[e], a, "remote")
           ms == Tail(socket[e].messages)
<1>1. /\ Shape /\ LocalType(e) /\ Coming(history, reads[e], socket[e].messages)
      /\ typed \in [Editors -> 0..scenario.maxEdits]
  BY InSync, SyncSameText
<1>2. /\ socket' = [socket EXCEPT ![e] = [socket[e] EXCEPT !.messages = ms]] /\ Becomes(e, r)
      /\ UNCHANGED <<typed, reads, saves, history>>
  BY <1>1 DEF Event, Shape, serverVars
<1>3. socket[e].messages \in Seq(Results) /\ socket[e].messages # <<>>
  BY <1>1 DEF Event, LocalType, Sockets
<1>4. /\ a \in Results /\ Answerable(history, a)
  <2>1. a = socket[e].messages[1] /\ 1 \in 1..Len(socket[e].messages) /\ a \in Results
    BY <1>3
  <2> QED BY <1>1, <2>1 DEF Coming
<1>5. \A i \in 1..Len(ms) : Answerable(history, ms[i])
  <2>1. \A i \in 1..Len(ms) : ms[i] = socket[e].messages[i + 1] /\ i + 1 \in 1..Len(socket[e].messages)
    BY <1>3
  <2> HIDE DEF ms
  <2> QED BY <1>1, <2>1 DEF Coming
<1>6. socket'[e].messages = ms
  BY <1>1, <1>2 DEF LocalType, Sockets, Shape
<1> HIDE DEF a, ms
<1>7. Coming(history, reads'[e], socket'[e].messages)
  BY <1>1, <1>2, <1>5, <1>6 DEF Coming
<1>8. /\ IsEditor(r) /\ EditorSync(history, r, saves[e].stage) /\ SaveSync(history, r, saves[e])
      /\ Held(r) => editor[e].text \ Stored \subseteq r.text
  BY <1>4, IncomingHolds
<1> HIDE DEF r
<1> QED BY <1>1, <1>2, <1>7, <1>8, SyncHandled

\* An answer to a read arrives.
LEMMA ReadEndsSync ==
  ASSUME SyncInv, NEW e \in Editors, ReadEnds(e), scenario' = scenario
  PROVE  SyncStep(e)
<1>1. /\ Shape /\ LocalType(e) /\ Coming(history, reads[e], socket[e].messages)
      /\ typed \in [Editors -> 0..scenario.maxEdits]
  BY InSync, SyncSameText
<1>2. PICK q \in reads[e] :
        /\ q.answer # NoAnswer /\ reads' = [reads EXCEPT ![e] = @ \ {q}]
        /\ IF q.source = "poll" /\ q.answer.revision < editor[e].revision THEN UNCHANGED editor
           ELSE LET r == Mishap(ApplyContentResult(editor[e], q.answer,
                                  IF q.source = "initial" THEN "initial" ELSE "remote"),
                                "late", q.source = "initial" /\ editor[e].text # {})
                    c == Mishap(r, "crossed", q.source = "initial" /\ saves[e] # NoSave)
                IN  Becomes(e, Mishap(c, "rewound", q.answer.revision < editor[e].revision))
        /\ UNCHANGED <<typed, saves, socket, history>>
  BY DEF ReadEnds, serverVars
<1>3. q.answer \in Results /\ Answerable(history, q.answer)
  BY <1>1, <1>2 DEF LocalType, IsRead, Coming
<1>4. reads'[e] = reads[e] \ {q}
  BY <1>1, <1>2 DEF Shape
<1>5. Coming(history, reads'[e], socket'[e].messages)
  BY <1>1, <1>2, <1>4 DEF Coming
<1>6. CASE q.source = "poll" /\ q.answer.revision < editor[e].revision
  BY <1>2, <1>5, <1>6, SyncOnTheWay
<1>7. CASE ~(q.source = "poll" /\ q.answer.revision < editor[e].revision)
  <2> DEFINE source == IF q.source = "initial" THEN "initial" ELSE "remote"
             late == q.source = "initial" /\ editor[e].text # {}
             crossed == q.source = "initial" /\ saves[e] # NoSave
             rewound == q.answer.revision < editor[e].revision
             a == ApplyContentResult(editor[e], q.answer, source)
             l == Mishap(a, "late", late)
             c == Mishap(l, "crossed", crossed)
             r == Mishap(c, "rewound", rewound)
  <2>1. Becomes(e, r)
    BY <1>2, <1>7
  <2>2. source \in {"initial", "remote"} /\ (late \/ source = "remote" \/ editor[e].text = {})
    OBVIOUS
  <2>3. SaveSync(history, editor[e], saves[e])
    BY SyncSameText
  <2> HIDE DEF source, late, crossed, rewound
  <2>4. /\ IsEditor(a) /\ EditorSync(history, a, saves[e].stage)
        /\ ~late => /\ SaveSync(history, a, saves[e])
                    /\ Held(a) => editor[e].text \ Stored \subseteq a.text
    BY <1>3, <2>2, IncomingHolds
  <2> HIDE DEF a
  <2>5. /\ EditorSync(history, l, saves[e].stage) /\ SaveSync(history, l, saves[e])
        /\ IsEditor(l) /\ l.text = a.text /\ (Held(l) => Held(a))
    <3>1. "late" \in {"overlooked", "late"} /\ \E b : SaveSync(history, b, saves[e])
      BY <2>3
    <3>2. SaveSync(history, a, saves[e]) \/ late
      BY <2>4
    <3> QED BY <2>4, <3>1, <3>2, MishapSync
  <2>6. Held(l) => ~late
    BY <2>4 DEF Held, Mishap, IsEditor, Fields
  <2> HIDE DEF l
  <2>7. /\ EditorSync(history, c, saves[e].stage) /\ SaveSync(history, c, saves[e])
        /\ IsEditor(c) /\ c.text = l.text /\ (Held(c) => Held(l))
    BY <2>5, MishapSync
  <2> HIDE DEF c
  <2>8. /\ EditorSync(history, r, saves[e].stage) /\ SaveSync(history, r, saves[e])
        /\ IsEditor(r) /\ r.text = c.text /\ (Held(r) => Held(c))
    BY <2>7, MishapSync
  <2> HIDE DEF r
  <2>9. Held(r) => editor[e].text \ Stored \subseteq r.text
    BY <2>4, <2>5, <2>6, <2>7, <2>8
  <2> QED BY <1>1, <1>2, <1>5, <2>1, <2>8, <2>9, SyncHandled
<1> QED BY <1>6, <1>7

\* The status and the notices change, and nothing else.
LEMMA SyncStatus ==
  ASSUME SyncInv, NEW e \in Editors, NEW r, Becomes(e, r), IsEditor(r), Flags(r),
         r.saving = editor[e].saving, r.saveStatus \in {editor[e].saveStatus, "error"},
         editor[e].mishaps \subseteq r.mishaps,
         \A f \in {"revision", "canWrite", "text", "saved", "dirty"} : r[f] = editor[e][f],
         UNCHANGED <<typed, saves, history, scenario>>,
         Coming(history, reads'[e], socket'[e].messages)
  PROVE  SyncStep(e)
<1>1. /\ EditorSync(history, editor[e], saves[e].stage) /\ SaveSync(history, editor[e], saves[e])
      /\ IsEditor(editor[e]) /\ typed \in [Editors -> 0..scenario.maxEdits]
  BY SyncSameText
<1>2. Held(r) => Held(editor[e])
  BY DEF Held
<1>3. EditorSync(history, r, saves[e].stage)
  BY <1>1, <1>2 DEF EditorSync
<1>4. SaveSync(history, r, saves[e])
  BY <1>1, <1>2 DEF SaveSync
<1> QED BY <1>1, <1>3, <1>4, SyncHandled

\* Messages of the subscription stay what they are when only its stage changes.
LEMMA StageSync ==
  ASSUME SyncInv, NEW e \in Editors, NEW stage, Subscription(e, stage), reads' = reads
  PROVE  Coming(history, reads'[e], socket'[e].messages)
<1>1. /\ Shape /\ LocalType(e) /\ Coming(history, reads[e], socket[e].messages)
  BY InSync, SyncSameText
<1>2. socket'[e].messages = socket[e].messages
  BY <1>1 DEF Subscription, Shape, LocalType, Sockets
<1> QED BY <1>1, <1>2

\* The subscription is acknowledged.
LEMMA ConnectionAckSync ==
  ASSUME SyncInv, NEW e \in Editors, ConnectionAck(e), scenario' = scenario
  PROVE  SyncStep(e)
<1> DEFINE r == OnConnected(editor[e])
<1>1. /\ Flags(editor[e]) /\ IsEditor(editor[e])
  BY SyncSameText
<1>2. /\ IsEditor(r) /\ r.fallback = FALSE /\ r.status = "connected"
      /\ \A f \in Fields \ {"fallback", "status"} : r[f] = editor[e][f]
  BY <1>1 DEF OnConnected, IsEditor, Fields
<1>3. Becomes(e, r) /\ Subscription(e, "acknowledged") /\ UNCHANGED <<typed, saves, history, reads>>
  BY DEF ConnectionAck, serverVars
<1> HIDE DEF r
<1>4. Flags(r)
  BY <1>1, <1>2 DEF Flags, Fields
<1>5. Coming(history, reads'[e], socket'[e].messages)
  BY <1>3, StageSync
<1>6. /\ r.saving = editor[e].saving /\ r.saveStatus \in {editor[e].saveStatus, "error"}
      /\ editor[e].mishaps \subseteq r.mishaps
      /\ \A f \in {"revision", "canWrite", "text", "saved", "dirty"} : r[f] = editor[e][f]
  BY <1>2 DEF Fields
<1> QED BY <1>2, <1>3, <1>4, <1>5, <1>6, SyncStatus

\* The subscription ends.
LEMMA DisconnectedSync ==
  ASSUME SyncInv, NEW e \in Editors, Disconnected(e), scenario' = scenario
  PROVE  SyncStep(e)
<1> DEFINE n == [stage |-> "ended", event |-> FALSE, messages |-> <<>>]
<1>1. /\ Flags(editor[e]) /\ IsEditor(editor[e]) /\ Shape
      /\ Coming(history, reads[e], socket[e].messages)
  BY SyncSameText, InSync
<1>2. PICK failed \in BOOLEAN :
        /\ socket' = [socket EXCEPT ![e] = n]
        /\ UNCHANGED <<typed, reads, saves, history>>
        /\ Becomes(e, Mishap(IF failed THEN OnError(editor[e]) ELSE OnDisconnected(editor[e]),
                             "offline", TRUE))
  BY DEF Disconnected, serverVars
<1> DEFINE b == IF failed THEN OnError(editor[e]) ELSE OnDisconnected(editor[e])
           r == Mishap(b, "offline", TRUE)
<1>3. socket'[e] = n /\ n.messages = <<>> /\ Len(<<>>) = 0
  BY <1>1, <1>2 DEF Shape
<1>4. /\ IsEditor(b) /\ b.fallback = TRUE /\ b.error \in {TRUE, editor[e].error}
      /\ b.status \in {"error", "disconnected"}
      /\ \A f \in Fields \ {"fallback", "status", "error"} : b[f] = editor[e][f]
  <2>1. CASE failed
    BY <1>1, <2>1 DEF OnError, OnDisconnected, IsEditor, Fields
  <2>2. CASE ~failed
    BY <1>1, <2>2 DEF OnDisconnected, IsEditor, Fields
  <2> QED BY <2>1, <2>2
<1> HIDE DEF b
<1>5. IsEditor(r) /\ b.mishaps \subseteq r.mishaps /\ \A f \in Fields \ {"mishaps"} : r[f] = b[f]
  BY <1>4 DEF Mishap, IsEditor, Fields
<1>6. Becomes(e, r)
  BY <1>2 DEF b
<1> HIDE DEF n, r
<1>7. Flags(r)
  BY <1>1, <1>4, <1>5 DEF Flags, Fields
<1>8. Coming(history, reads'[e], socket'[e].messages)
  BY <1>1, <1>2, <1>3 DEF Coming
<1>9. /\ r.saving = editor[e].saving /\ r.saveStatus \in {editor[e].saveStatus, "error"}
      /\ editor[e].mishaps \subseteq r.mishaps
      /\ \A f \in {"revision", "canWrite", "text", "saved", "dirty"} : r[f] = editor[e][f]
  BY <1>4, <1>5 DEF Fields
<1> QED BY <1>2, <1>5, <1>6, <1>7, <1>8, <1>9, SyncStatus

\* A read fails.
LEMMA ReadFailsSync ==
  ASSUME SyncInv, NEW e \in Editors, ReadFails(e), scenario' = scenario
  PROVE  SyncStep(e)
<1>1. /\ Flags(editor[e]) /\ IsEditor(editor[e]) /\ Shape /\ LocalType(e)
      /\ Coming(history, reads[e], socket[e].messages)
  BY SyncSameText, InSync
<1> DEFINE t == [editor[e] EXCEPT !.error = TRUE]
           i == [t EXCEPT !.status = "error", !.saveStatus = "error"]
           d == [t EXCEPT !.status = "disconnected"]
           p == Mishap(d, "offline", TRUE)
<1>2. PICK q \in reads[e] :
        /\ reads' = [reads EXCEPT ![e] = @ \ {q}] /\ UNCHANGED <<typed, saves, socket, history>>
        /\ Becomes(e, CASE q.source = "initial" -> i [] q.source = "poll" -> p)
  BY DEF ReadFails, serverVars
<1>3. q.source \in {"initial", "poll"}
  BY <1>1 DEF LocalType, IsRead
<1>4. ASSUME NEW r, r = i \/ r = p
      PROVE  /\ IsEditor(r) /\ r.error = TRUE /\ r.status \in {"error", "disconnected"}
             /\ r.saveStatus \in {editor[e].saveStatus, "error"}
             /\ editor[e].mishaps \subseteq r.mishaps
             /\ \A f \in Fields \ {"error", "status", "saveStatus", "mishaps"} : r[f] = editor[e][f]
  <2>1. CASE r = i
    BY <1>1, <2>1 DEF IsEditor, Fields
  <2>2. CASE r = p
    <3>1. /\ IsEditor(d) /\ d.error = TRUE /\ d.status = "disconnected"
          /\ \A f \in Fields \ {"error", "status"} : d[f] = editor[e][f]
      BY <1>1 DEF IsEditor, Fields
    <3> HIDE DEF d
    <3>2. IsEditor(p) /\ d.mishaps \subseteq p.mishaps /\ \A f \in Fields \ {"mishaps"} : p[f] = d[f]
      BY <3>1 DEF Mishap, IsEditor, Fields
    <3> HIDE DEF p
    <3> QED BY <2>2, <3>1, <3>2 DEF Fields
  <2> QED BY <1>4, <2>1, <2>2
<1>5. PICK r : Becomes(e, r) /\ (r = i \/ r = p)
  BY <1>2, <1>3
<1> HIDE DEF i, p
<1>6. /\ IsEditor(r) /\ r.error = TRUE /\ r.status \in {"error", "disconnected"}
      /\ r.saveStatus \in {editor[e].saveStatus, "error"}
      /\ editor[e].mishaps \subseteq r.mishaps
      /\ \A f \in Fields \ {"error", "status", "saveStatus", "mishaps"} : r[f] = editor[e][f]
  BY <1>4, <1>5
<1>7. Flags(r)
  BY <1>1, <1>6 DEF Flags, Fields
<1>8. reads'[e] = reads[e] \ {q}
  BY <1>1, <1>2 DEF Shape
<1>9. Coming(history, reads'[e], socket'[e].messages)
  BY <1>1, <1>2, <1>8 DEF Coming
<1>10. r.saving = editor[e].saving
       /\ \A f \in {"revision", "canWrite", "text", "saved", "dirty"} : r[f] = editor[e][f]
  BY <1>6 DEF Fields
<1> QED BY <1>2, <1>5, <1>6, <1>7, <1>9, <1>10, SyncStatus

\* A step that only records a mishap of an editor that takes part in nothing else.
LEMMA SyncMishap ==
  ASSUME SyncInv, NEW e \in Editors, NEW name, NEW happened,
         editor' = [editor EXCEPT ![e] = Mishap(@, name, happened)],
         UNCHANGED <<typed, history, scenario>>,
         saves'[e].stage = "none" <=> saves[e].stage = "none",
         \A r : SaveSync(history, r, saves[e]) => SaveSync(history, r, saves'[e]),
         Coming(history, reads'[e], socket'[e].messages)
  PROVE  SyncStep(e)
<1> DEFINE m == Mishap(editor[e], name, happened)
<1>1. /\ EditorSync(history, editor[e], saves[e].stage) /\ SaveSync(history, editor[e], saves[e])
      /\ IsEditor(editor[e]) /\ typed \in [Editors -> 0..scenario.maxEdits] /\ Shape
  BY SyncSameText, InSync
<1>2. editor'[e] = m
  BY <1>1 DEF Shape
<1>3. /\ EditorSync(history, m, saves[e].stage) /\ SaveSync(history, m, saves[e])
      /\ m.text = editor[e].text
  BY <1>1, MishapSync, ZenonT(30)
<1> HIDE DEF m
<1>4. EditorSync(history, m, saves'[e].stage)
  BY <1>3 DEF EditorSync
<1>5. EditorInSync(e)'
  BY <1>2, <1>3, <1>4, StillInSync
<1> QED BY <1>1, <1>2, <1>3, <1>5 DEF SyncStep, Holds

\* The server registers the queue of the subscriber.
LEMMA ListenSync ==
  ASSUME SyncInv, NEW e \in Editors, Listen(e), scenario' = scenario
  PROVE  SyncStep(e)
<1>1. /\ Subscription(e, "listening") /\ UNCHANGED <<typed, reads, saves, history>>
      /\ editor' = [editor EXCEPT ![e] = Mishap(@, "missed", Len(history) > 1)]
  BY DEF Listen, serverVars
<1>2. Coming(history, reads'[e], socket'[e].messages)
  BY <1>1, StageSync
<1> QED BY <1>1, <1>2, SyncMishap

\* A save that the server has at another stage.
LEMMA StagedSync ==
  ASSUME SyncInv, NEW e \in Editors, NEW h, NEW stage \in {"named", "compared"},
         saves[e].stage \in {"sent", "named"}
  PROVE  LET s == [saves[e] EXCEPT !.stage = stage]
         IN  s.stage = stage /\ \A r : SaveSync(h, r, saves[e]) => SaveSync(h, r, s)
<1> DEFINE s == [saves[e] EXCEPT !.stage = stage]
<1>1. saves[e] \in OpenSaves
  BY InSync DEF IsSave
<1>2. s.stage = stage /\ s.text = saves[e].text /\ s.base = saves[e].base
  BY <1>1 DEF OpenSaves
<1> HIDE DEF s
<1>3. \A r : SaveSync(h, r, saves[e]) => SaveSync(h, r, s)
  BY <1>2 DEF SaveSync
<1> QED BY <1>2, <1>3 DEF s

\* A save that is refused or lost.
LEMMA RefusedSync ==
  ASSUME SyncInv, NEW e \in Editors, NEW h, NEW answer \in {"conflict", "error"},
         saves[e].stage # "none"
  PROVE  LET s == [stage |-> "answered", answer |-> answer]
         IN  s.stage = "answered" /\ \A r : SaveSync(h, r, saves[e]) => SaveSync(h, r, s)
<1> DEFINE s == [stage |-> "answered", answer |-> answer]
<1>1. s.stage = "answered" /\ s.answer # "ok"
  OBVIOUS
<1> HIDE DEF s
<1>2. \A r : SaveSync(h, r, saves[e]) => SaveSync(h, r, s)
  BY <1>1 DEF SaveSync
<1> QED BY <1>1, <1>2 DEF s

\* The document is renamed.
LEMMA RenameItemSync ==
  ASSUME SyncInv, NEW e \in Editors, RenameItem(e), scenario' = scenario
  PROVE  SyncStep(e)
<1> DEFINE s == [saves[e] EXCEPT !.stage = "named"]
<1>1. Shape /\ Coming(history, reads[e], socket[e].messages)
      /\ typed \in [Editors -> 0..scenario.maxEdits]
      /\ EditorSync(history, editor[e], saves[e].stage) /\ SaveSync(history, editor[e], saves[e])
  BY SyncSameText, InSync
<1>2. /\ saves[e].stage = "sent" /\ UNCHANGED <<editor, typed, reads, socket, history>>
      /\ saves'[e] = s
  BY <1>1 DEF RenameItem, Stage, clientVars, Shape
<1>3. s.stage = "named" /\ \A r : SaveSync(history, r, saves[e]) => SaveSync(history, r, s)
  BY <1>2, StagedSync
<1> HIDE DEF s
<1>4. EditorSync(history, editor[e], s.stage) /\ SaveSync(history, editor[e], s)
  BY <1>1, <1>2, <1>3 DEF EditorSync
<1>5. EditorInSync(e)'
  BY <1>1, <1>2, <1>4, StillInSync
<1> QED BY <1>1, <1>2, <1>5 DEF SyncStep, Holds

\* The server compares revisions.
LEMMA CompareRevisionSync ==
  ASSUME SyncInv, NEW e \in Editors, CompareRevision(e), scenario' = scenario
  PROVE  SyncStep(e)
<1>1. Shape /\ Coming(history, reads[e], socket[e].messages)
  BY SyncSameText, InSync
<1>2. /\ saves[e].stage = "named" /\ UNCHANGED <<typed, reads, socket, history>>
      /\ editor' = [editor EXCEPT ![e] =
           Mishap(@, "raced", \E d \in Editors \ {e} : saves[d].stage = "compared")]
      /\ \/ saves'[e] = [stage |-> "answered", answer |-> "conflict"]
         \/ saves'[e] = [saves[e] EXCEPT !.stage = "compared"]
  BY <1>1 DEF CompareRevision, Stage, Answered, Shape, serverVars
<1>3. saves'[e].stage # "none" /\ \A r : SaveSync(history, r, saves[e]) => SaveSync(history, r, saves'[e])
  <2>1. CASE saves'[e] = [stage |-> "answered", answer |-> "conflict"]
    BY <1>2, <2>1, RefusedSync
  <2>2. CASE saves'[e] = [saves[e] EXCEPT !.stage = "compared"]
    <3>1. LET s == [saves[e] EXCEPT !.stage = "compared"]
          IN  s.stage = "compared" /\ \A r : SaveSync(history, r, saves[e]) => SaveSync(history, r, s)
      BY <1>2, StagedSync
    <3> QED BY <2>2, <3>1
  <2> QED BY <1>2, <2>1, <2>2
<1> DEFINE raced == \E d \in Editors \ {e} : saves[d].stage = "compared"
<1>4. editor' = [editor EXCEPT ![e] = Mishap(@, "raced", raced)]
  BY <1>2
<1> HIDE DEF raced
<1>5. saves'[e].stage = "none" <=> saves[e].stage = "none"
  BY <1>2, <1>3
<1>6. Coming(history, reads'[e], socket'[e].messages) /\ UNCHANGED <<typed, history, scenario>>
  BY <1>1, <1>2
<1> QED BY <1>3, <1>4, <1>5, <1>6, SyncMishap

\* A save, or the answer to it, is lost.
LEMMA LostSync ==
  ASSUME SyncInv, NEW e \in Editors, LoseSave(e) \/ LoseAnswer(e), scenario' = scenario
  PROVE  SyncStep(e)
<1> DEFINE s == [stage |-> "answered", answer |-> "error"]
<1>1. Shape /\ Coming(history, reads[e], socket[e].messages)
      /\ typed \in [Editors -> 0..scenario.maxEdits]
      /\ EditorSync(history, editor[e], saves[e].stage) /\ SaveSync(history, editor[e], saves[e])
  BY SyncSameText, InSync
<1>2. /\ saves[e].stage \in {"sent", "answered"}
      /\ UNCHANGED <<editor, typed, reads, socket, history>> /\ saves'[e] = s
  BY <1>1 DEF LoseSave, LoseAnswer, Answered, Shape, clientVars, serverVars
<1>3. s.stage = "answered" /\ \A r : SaveSync(history, r, saves[e]) => SaveSync(history, r, s)
  BY <1>2, RefusedSync
<1> HIDE DEF s
<1>4. EditorSync(history, editor[e], s.stage) /\ SaveSync(history, editor[e], s)
  BY <1>1, <1>2, <1>3 DEF EditorSync
<1>5. EditorInSync(e)'
  BY <1>1, <1>2, <1>4, StillInSync
<1> QED BY <1>1, <1>2, <1>5 DEF SyncStep, Holds

-----------------------------------------------------------------------------
(* The history grows.                                                      *)

\* A save becomes the last revision, and is answered with it.
LEMMA CommitSaveSync ==
  ASSUME SyncInv, NEW e \in Editors, CommitSave(e), scenario' = scenario
  PROVE  HistorySync' /\ typed' = typed /\ \A d \in Editors : EditorInSync(d)' /\ Holds(d)
<1> DEFINE next == saves[e].base + 1
           text == saves[e].text
           x == Revision(text, next)
           k == Append(history, x)
           result == [Saved(e) EXCEPT !.revision = next]
           s == [stage |-> "answered", answer |-> "ok", result |-> result]
<1>1. /\ Shape /\ HistorySync /\ Len(history) \in Nat /\ DOMAIN history = 1..Len(history)
      /\ saves[e].stage = "compared" /\ ServerType /\ saves[e] \in OpenSaves
  BY InSync DEF CommitSave, IsSave
<1>2. /\ document' = [document EXCEPT !.content = PlainTextToTiptap(text), !.revision = next]
      /\ history' = k /\ saves' = [saves EXCEPT ![e] = s]
      /\ socket' = [d \in Editors |->
                      [socket[d] EXCEPT !.event = @ \/ socket[d].stage = "listening"]]
      /\ UNCHANGED <<editor, typed, reads>>
  BY DEF CommitSave, clientVars
<1>3. saves[e].base \in 1..Len(history) /\ text \in SUBSET Edits
      /\ (Held(editor[e]) => text = editor[e].text)
  BY <1>1, SyncSameText DEF SaveSync
<1>4. /\ Len(k) = Len(history) + 1 /\ k[Len(k)] = x /\ DOMAIN k = 1..Len(k)
      /\ \A i \in 1..Len(history) : k[i] = history[i]
  <2> HIDE DEF x
  <2>1. history \in Seq(Revisions)
    BY <1>1 DEF ServerType
  <2> QED BY <1>1, <2>1
<1>5. x.content = PlainTextToTiptap(text) /\ x.revision = next
  BY DEF Revision
<1>6. document'.content = PlainTextToTiptap(text) /\ document'.revision = next
  BY <1>1, <1>2 DEF ServerType
<1>7. Edits' = Edits /\ \A t : PlainTextToTiptap(t)' = PlainTextToTiptap(t)
  BY DEF Edits, PlainTextToTiptap
<1>8. /\ Result(e) \in Results
      /\ result.revision = next /\ result.text = TiptapToPlainText(PlainTextToTiptap(text))
  BY <1>1, ResultIsGenuine DEF Saved, Result, ToDocumentContentResult, Content, SyncInv
<1>9. s.stage = "answered" /\ s.answer = "ok" /\ s.result = result
  OBVIOUS
<1> HIDE DEF k, x, result, s
<1>10. HistorySync'
  <2>1. \A i \in DOMAIN k :
          /\ k[i].revision \in 1..Len(k)
          /\ \E t \in SUBSET Edits : k[i].content = PlainTextToTiptap(t)
    <3> SUFFICES ASSUME NEW i \in DOMAIN k
                 PROVE  /\ k[i].revision \in 1..Len(k)
                        /\ \E t \in SUBSET Edits : k[i].content = PlainTextToTiptap(t)
      OBVIOUS
    <3>1. CASE i = Len(k)
      BY <1>1, <1>3, <1>4, <1>5, <3>1
    <3>2. CASE i \in DOMAIN history
      BY <1>1, <1>4, <3>2 DEF HistorySync
    <3> QED BY <1>1, <1>4, <3>1, <3>2
  <2>2. Len(k) \in Nat \ {0}
    BY <1>1, <1>4
  <2> QED BY <1>2, <1>4, <1>5, <1>6, <1>7, <2>1, <2>2 DEF HistorySync
<1>11. Answerable(k, result) /\ (Held(editor[e]) => ShowsTyped(k, result.revision, editor[e].text))
  <2>1. result.text \in SUBSET Edits
    BY <1>3, <1>8, RoundTrip
  <2>2. Len(k) \in DOMAIN k /\ result.revision \in 1..Len(k)
    BY <1>1, <1>3, <1>4, <1>8
  <2>3. DOMAIN x.content = text
    BY <1>5 DEF PlainTextToTiptap
  <2> QED BY <1>3, <1>4, <1>5, <1>8, <2>1, <2>2, <2>3 DEF Answerable, ShowsTyped
<1>12. ASSUME NEW d \in Editors PROVE EditorInSync(d)'
  <2>1. /\ EditorSync(history, editor[d], saves[d].stage)
        /\ SaveSync(history, editor[d], saves[d]) /\ Coming(history, reads[d], socket[d].messages)
        /\ socket[d] \in Sockets
    BY SyncSameText, InSync DEF LocalType
  <2>2. socket'[d].messages = socket[d].messages
    BY <1>2, <2>1 DEF Sockets
  <2>3. /\ \A a : Answerable(history, a) => Answerable(k, a)
        /\ \A r, stage : EditorSync(history, r, stage) => EditorSync(k, r, stage)
        /\ \A r, t : SaveSync(history, r, t) => SaveSync(k, r, t)
    <3>1. Len(k) \in Nat /\ Len(history) <= Len(k)
      BY <1>1, <1>4
    <3> QED BY <1>1, <1>4, <3>1, SyncGrows
  <2>4. Coming(k, reads[d], socket[d].messages)
    BY <2>1, <2>3 DEF Coming
  <2>5. EditorSync(k, editor[d], saves'[d].stage) /\ SaveSync(k, editor[d], saves'[d])
    <3>1. CASE d = e
      <4>1. saves'[e] = s
        BY <1>1, <1>2 DEF Shape
      <4>2. EditorSync(k, editor[e], s.stage)
        BY <1>1, <1>9, <2>1, <2>3, <3>1 DEF EditorSync
      <4>3. SaveSync(k, editor[e], s)
        BY <1>1, <1>9, <1>11, <2>1, <3>1 DEF SaveSync
      <4> QED BY <3>1, <4>1, <4>2, <4>3
    <3>2. CASE d # e
      BY <1>1, <1>2, <2>1, <2>3, <3>2 DEF Shape
    <3> QED BY <3>1, <3>2
  <2>6. EditorSync(history, editor[d], saves[d].stage)'
    BY <1>2, <1>7, <2>5 DEF EditorSync
  <2>7. SaveSync(history, editor[d], saves[d])'
    BY <1>2, <1>7, <2>5 DEF SaveSync, Answerable
  <2>8. /\ \A q \in reads'[d] : q.answer # NoAnswer => Answerable(history, q.answer)'
        /\ \A i \in 1..Len(socket'[d].messages) : Answerable(history, socket[d].messages[i])'
    BY <1>2, <1>7, <2>2, <2>4, ZenonT(30) DEF Coming, Answerable
  <2> QED BY <2>6, <2>7, <2>8 DEF EditorInSync
<1> QED BY <1>2, <1>10, <1>12 DEF Holds

\* Initially there is nothing to save and nothing on the way.
LEMMA SyncStarts ==
  ASSUME Init, Inv PROVE SyncInv
<1>1. scenario.maxEdits \in Nat /\ typed = [e \in Editors |-> 0]
  BY ScenariosAssumption DEF Init
<1>2. /\ history = <<Revision({}, 1)>> /\ document.content = PlainTextToTiptap({})
      /\ document.revision = 1
  BY DEF Init
<1>3. Len(history) = 1 /\ DOMAIN history = {1} /\ history[1] = Revision({}, 1)
  <2> DEFINE x == Revision({}, 1)
  <2>1. history = <<x>>
    BY <1>2
  <2> HIDE DEF x
  <2>2. Len(history) = 1 /\ DOMAIN history = 1..1 /\ history[1] = x
    BY <2>1
  <2> QED BY <2>2 DEF x
<1>4. Revision({}, 1).content = PlainTextToTiptap({}) /\ Revision({}, 1).revision = 1
  BY DEF Revision
<1>5. HistorySync
  BY <1>2, <1>3, <1>4 DEF HistorySync
<1>6. ASSUME NEW e \in Editors PROVE EditorInSync(e)
  <2> DEFINE r == InitialEditor
  <2>1. /\ editor[e] = r /\ saves[e] = NoSave /\ reads[e] = FirstReads /\ socket[e] = FirstSocket
    BY DEF Init
  <2>2. /\ r.status = "loading" /\ r.saveStatus = "idle" /\ r.conflict = FALSE
        /\ r.canWrite = FALSE /\ r.revision = 0 /\ r.text = {} /\ r.saved = {} /\ r.dirty = FALSE
        /\ r.saving = FALSE /\ r.timer = FALSE /\ r.fallback = FALSE /\ r.error = FALSE
    BY DEF InitialEditor
  <2> HIDE DEF r
  <2>3. NoSave.stage = "none" /\ SaveSync(history, r, NoSave)
    BY DEF NoSave, SaveSync
  <2>4. Flags(r)
    BY <2>2 DEF Flags
  <2>5. EditorSync(history, r, NoSave.stage)
    BY <1>3, <2>2, <2>3, <2>4 DEF EditorSync
  <2>6. FirstSocket.messages = <<>> /\ Len(<<>>) = 0 /\ \A q \in FirstReads : q.answer = NoAnswer
    BY DEF FirstSocket, FirstReads
  <2> QED BY <2>1, <2>3, <2>5, <2>6 DEF EditorInSync
<1> QED BY <1>1, <1>5, <1>6 DEF SyncInv

\* A step that is not a commit concerns one editor, or none.
LEMMA OneEditorSteps ==
  ASSUME SyncInv, NEW e \in Editors, scenario' = scenario, ~CommitSave(e),
         Browser(e) \/ Answer(e) \/ User(e) \/ Poll(e) \/ Fault(e)
  PROVE  LocalStep(e) /\ SyncStep(e)
<1>1. Inv
  BY DEF SyncInv
<1>2. CASE Browser(e)
  BY <1>1, <1>2, TimerFiresKeeps, SaveEndsKeeps, ReadEndsKeeps, EventKeeps, ConnectionAckKeeps,
     TimerFiresSync, SaveEndsSync, ReadEndsSync, EventSync, ConnectionAckSync DEF Browser
<1>3. CASE Answer(e)
  BY <1>1, <1>3, RenameItemKeeps, CompareRevisionKeeps, GetContentKeeps, ListenKeeps, NotifyKeeps,
     RenameItemSync, CompareRevisionSync, GetContentSync, ListenSync, NotifySync DEF Answer, Serve
<1>4. CASE User(e)
  BY <1>1, <1>4, TypeKeeps, PressSaveKeeps, ReopenKeeps, TypeSync, PressSaveSync, ReopenSync
     DEF User
<1>5. CASE Poll(e)
  BY <1>1, <1>5, PollKeeps, PollSync
<1>6. CASE Fault(e)
  BY <1>1, <1>6, LostKeeps, ReadFailsKeeps, DisconnectedKeeps, LostSync, ReadFailsSync,
     DisconnectedSync DEF Fault
<1> QED BY <1>2, <1>3, <1>4, <1>5, <1>6

\* What the other editors have stays in sync, and displayed.
LEMMA OthersInSync ==
  ASSUME SyncInv, NEW d \in Editors, UNCHANGED <<history, scenario>>,
         editor'[d] = editor[d], saves'[d] = saves[d], reads'[d] = reads[d], socket'[d] = socket[d]
  PROVE  EditorInSync(d)' /\ Holds(d)
<1>1. EditorInSync(d)'
  BY SyncSameText, StillInSync
<1> QED BY <1>1 DEF Holds

\* Every step preserves the invariant, and the unsaved text.
LEMMA SyncNext ==
  ASSUME SyncInv, [Next]_<<vars, scenario>>
  PROVE  SyncInv' /\ \A e \in Editors : Holds(e)
<1>1. Inv'
  BY NextInv DEF SyncInv
<1>2. ASSUME UNCHANGED scenario, UNCHANGED history, document'.content = document.content,
             document'.revision = document.revision
      PROVE  HistorySync'
  <2>1. Edits' = Edits /\ \A t : PlainTextToTiptap(t)' = PlainTextToTiptap(t)
    BY <1>2 DEF Edits, PlainTextToTiptap
  <2> QED BY <1>2, <2>1 DEF SyncInv, HistorySync
<1>3. CASE UNCHANGED <<vars, scenario>>
  <2>1. /\ UNCHANGED <<history, scenario, typed, document, editor, saves, reads, socket>>
    BY <1>3 DEF vars, clientVars, serverVars
  <2>2. \A e \in Editors : EditorInSync(e)' /\ Holds(e)
    BY <2>1, OthersInSync
  <2> QED BY <1>1, <1>2, <2>1, <2>2 DEF SyncInv
<1>4. CASE Rename /\ scenario' = scenario
  <2>1. UNCHANGED <<history, scenario, typed, editor, saves, reads, socket>>
        /\ document'.content = document.content /\ document'.revision = document.revision
    BY <1>4, Known DEF Rename, clientVars, ServerType, SyncInv, Inv, TypeInv
  <2>2. \A e \in Editors : EditorInSync(e)' /\ Holds(e)
    BY <2>1, OthersInSync
  <2> QED BY <1>1, <1>2, <2>1, <2>2 DEF SyncInv
<1>5. ASSUME NEW e \in Editors, scenario' = scenario, CommitSave(e)
      PROVE  SyncInv' /\ \A d \in Editors : Holds(d)
  BY <1>1, <1>5, CommitSaveSync DEF SyncInv
<1>6. ASSUME NEW e \in Editors, scenario' = scenario, ~CommitSave(e),
             Browser(e) \/ Answer(e) \/ User(e) \/ Poll(e) \/ Fault(e)
      PROVE  SyncInv' /\ \A d \in Editors : Holds(d)
  <2>1. LocalStep(e) /\ SyncStep(e)
    BY <1>6, OneEditorSteps
  <2>2. ASSUME NEW d \in Editors \ {e} PROVE EditorInSync(d)' /\ Holds(d)
    BY <2>1, <2>2, OthersInSync DEF LocalStep, Others, DocumentKept
  <2>3. HistorySync'
    BY <1>2, <2>1 DEF LocalStep, DocumentKept
  <2> QED BY <1>1, <1>6, <2>1, <2>2, <2>3 DEF SyncInv, SyncStep
<1> QED BY <1>3, <1>4, <1>5, <1>6 DEF Next

\* In every behaviour, all that is displayed, on its way to an editor or being saved
\* is a stored revision, or is known to be unsaved, unless it was typed during a save
\* or before the first answer (applyContentResult, saveNow).
THEOREM SyncInvariant == Spec => []SyncInv
<1>1. Init => SyncInv
  BY InitInv, SyncStarts
<1>2. SyncInv /\ [Next]_<<vars, scenario>> => SyncInv'
  BY SyncNext
<1> QED BY <1>1, <1>2, PTL DEF Spec

\* Every part of the hook's state and of the server's is of its type, and an editor
\* is saving exactly while its save is under way.
THEOREM ContentTypeCorrect == Spec => []TypeOK
<1>1. SyncInv => TypeOK
  <2> SUFFICES ASSUME SyncInv PROVE TypeOK
    OBVIOUS
  <2>1. ASSUME NEW e \in Editors
        PROVE  LET r == editor[e]
               IN  /\ r.status \in {"loading", "connected", "disconnected", "error"}
                   /\ r.saveStatus \in {"idle", "unsaved", "saving", "saved", "conflict", "error"}
                   /\ r.text \subseteq Edits /\ r.saved \subseteq Edits
                   /\ r.revision \in 0..Len(history)
                   /\ {r.conflict, r.canWrite, r.dirty, r.saving, r.timer, r.fallback, r.error}
                        \subseteq BOOLEAN
                   /\ saves[e].stage \in {"none", "sent", "named", "compared", "answered"}
                   /\ r.saving <=> saves[e].stage # "none"
    <3>1. /\ EditorSync(history, editor[e], saves[e].stage) /\ IsEditor(editor[e])
          /\ Flags(editor[e]) /\ IsSave(saves[e])
      BY SyncSameText, InSync
    <3> QED BY <3>1 DEF EditorSync, IsEditor, Flags, IsSave
  <2>2. DOMAIN document.content \subseteq Edits /\ document.revision <= Len(history)
    <3>1. DOMAIN history = 1..Len(history) /\ Len(history) \in Nat
      BY DEF SyncInv, Inv, TypeInv, ServerType
    <3>2. Len(history) \in DOMAIN history /\ HistorySync
      BY <3>1 DEF SyncInv, HistorySync
    <3>3. PICK t \in SUBSET Edits : history[Len(history)].content = PlainTextToTiptap(t)
      BY <3>2 DEF HistorySync
    <3> QED BY <3>1, <3>2, <3>3 DEF HistorySync, PlainTextToTiptap
  <2> QED BY <2>1, <2>2 DEF TypeOK, SyncInv
<1> QED BY <1>1, SyncInvariant, PTL

\* The badge calls saved only what is stored, as the text of the revision that the
\* editor names, however saves, polls and events are interleaved and lost
\* (applyContentResult, saveNow).
THEOREM SavedIsStored == Spec => []SavedMeansStored
<1>1. SyncInv => SavedMeansStored
  <2> SUFFICES ASSUME SyncInv, NEW e \in Editors, editor[e].saveStatus = "saved",
                      editor[e].mishaps \cap {"overlooked", "late"} = {}
               PROVE  Shows(history, editor[e].revision, editor[e].text)
    BY DEF SavedMeansStored, Shows
  <2>1. EditorSync(history, editor[e], saves[e].stage)
    BY SyncSameText
  <2> QED BY <2>1 DEF EditorSync, Held
<1> QED BY <1>1, SyncInvariant, PTL

\* No step takes unsaved text from the view that was typed neither during a save nor
\* before the first answer (applyContentResult).
THEOREM UnsavedTextStays == Spec => UnsavedTextIsHeld
<1> DEFINE Shown == \A e \in Editors :
             editor'[e].mishaps \cap {"overlooked", "late"} = {} /\ editor'[e].status # "loading"
             => editor[e].text \ Stored \subseteq editor'[e].text
<1>1. SyncInv /\ [Next]_<<vars, scenario>> => [Shown]_vars
  BY SyncNext DEF Holds, Held
<1> QED BY <1>1, SyncInvariant, PTL DEF Spec, UnsavedTextIsHeld
=============================================================================
