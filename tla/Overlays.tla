------------------------------- MODULE Overlays -------------------------------
(***************************************************************************)
(* Menus, dialogs and the keyboard focus: shared/components/Dropdown and   *)
(* shared/components/Modal, as the page of a folder uses them.             *)
(*                                                                         *)
(* Every menu keeps for itself whether it is open; the page knows which    *)
(* dialog is open. A step is an event with all that React and the browser  *)
(* do at once: the handlers, the new elements, the effects. The timeout    *)
(* that moves the focus into a dialog is a step of its own; several of     *)
(* one dialog are due at the same time and count as one.                   *)
(***************************************************************************)
EXTENDS Integers, Sequences, FiniteSets

CONSTANTS Rows,    \* the rows of the page
          Actions, \* [Rows -> Seq(Dialogs)]: what the menu of a row offers
          MaxBusy, \* bound: dialogs with a request under way
          MaxTimers \* bound: dialogs that are to take the focus

Dialogs == {"create", "rename", "move", "share", "delete"}

ASSUME OverlaysAssumption ==
  /\ "user" \notin Rows /\ Actions \in [Rows -> Seq(Dialogs \ {"create"})]
  /\ MaxBusy \in Nat /\ MaxTimers \in Nat

VARIABLES
  page,      \* what is displayed
  focus,     \* the element with the focus
  previous,  \* the element that had it before the open dialog
  overflow,  \* whether the page behind can be scrolled
  saved,     \* what it was before the open dialog
  timers,    \* dialogs that are to take the focus
  strayed    \* history: whether the focus left the open dialog from its background

overlayVars == <<page, focus, previous, overflow, saved, timers, strayed>>

-----------------------------------------------------------------------------
(* Elements.                                                               *)

Body       == <<"body">>
New        == <<"new">>                \* the button to create an item
Trigger(m) == <<"trigger", m>>
Menu(m)    == <<"menu", m>>            \* its content beside the items
Entry(m, k) == <<"item", m, k>>
Dialog     == <<"dialog">>             \* its content beside the controls
Control(c) == <<"control", c>>

UserEntries == <<"profile", "settings", "logout">>
Entries(m)  == IF m = "user" THEN UserEntries ELSE Actions[m]

\* The controls of a dialog in their order.
Controls(p) ==
  CASE p.dialog = "none"                 -> <<>>
    [] p.dialog \in {"create", "rename"} -> <<"close", "name", "cancel", "submit">>
    [] p.dialog = "move"                 -> <<"close", "target", "cancel", "submit">>
    [] p.dialog = "delete"               -> <<"close", "cancel", "submit">>
    [] p.form = "alone"                  -> <<"close", "email", "permission", "submit", "cancel">>
    [] p.form = "shared"                 -> <<"close", "email", "permission", "submit",
                                              "row", "remove", "cancel">>

\* Those that are disabled while a request of the dialog is under way, and while
\* there is no target to move to.
Disabled(p, c) ==
  \/ p.dialog \in p.busy /\ c \in {"cancel", "submit", "row", "remove"}
  \/ p.form = "loading" /\ c = "target"
  \/ p.form \in {"loading", "empty"} /\ c = "submit"

\* getFocusableElements: the positions of those that are enabled, the first and the
\* last of them.
Focusable(p) == {k \in DOMAIN Controls(p) : ~Disabled(p, Controls(p)[k])}
First(p) == Controls(p)[CHOOSE k \in Focusable(p) : \A j \in Focusable(p) : k <= j]
Last(p)  == Controls(p)[CHOOSE k \in Focusable(p) : \A j \in Focusable(p) : j <= k]
Enabled(p) == {Controls(p)[k] : k \in Focusable(p)}

\* getMenuItems.
MenuItems(p, m) == {k \in DOMAIN Entries(m) : ~(Entries(m)[k] = "logout" /\ p.leaving)}

Triggers(p) == {Trigger(m) : m \in p.rows \cup {"user"}}
InMenu(p, m) == {Menu(m)} \cup {Entry(m, k) : k \in MenuItems(p, m)}

\* What Tab can come to outside of a dialog, and what is in it.
Outside(p) == {Body, New} \cup Triggers(p)
              \cup ((UNION {InMenu(p, m) : m \in p.menus}) \ {Menu(m) : m \in p.menus})
Inside(p)  == IF p.dialog = "none" THEN {}
              ELSE {Dialog} \cup {Control(Controls(p)[k]) : k \in DOMAIN Controls(p)}

Takes(p) == {Body, New} \cup Triggers(p) \cup (UNION {InMenu(p, m) : m \in p.menus})
            \cup (IF p.dialog = "none" THEN {}
                  ELSE {Dialog} \cup {Control(c) : c \in Enabled(p)})

\* An element that is taken away loses the focus; one that is disabled may.
Keeps(p, f) == IF f \in Takes(p) THEN {f} ELSE IF f \in Inside(p) THEN {f, Body} ELSE {Body}

Focused(p, e, f) == IF e \in Takes(p) THEN e ELSE f

-----------------------------------------------------------------------------
(* The effects.                                                            *)

\* The field that takes the focus when its dialog is displayed.
AutoFocus(p, f) ==
  IF p.dialog \in {"create", "rename"} /\ p.dialog # page.dialog THEN Control("name") ELSE f

\* A menu that was opened focuses its first item.
FirstItem(p, f) ==
  IF p.menus \subseteq page.menus THEN f
  ELSE LET m == CHOOSE x \in p.menus : x \notin page.menus
       IN  IF MenuItems(p, m) = {} THEN f ELSE Entry(m, 1)

\* The effect of the open dialog depends on a function that every rendering of
\* the page makes anew: it is cleaned up and runs again. It remembers the focus and
\* the scrolling, and gives them back.
Effects(p, rendered, f) ==
  LET reruns  == rendered \/ p.dialog # page.dialog
      cleans  == reruns /\ page.dialog # "none"
      scrolls == IF cleans THEN saved ELSE overflow
      returned == IF cleans THEN Focused(p, previous, f) ELSE f
  IN  /\ focus' = FirstItem(p, returned)
      /\ IF reruns /\ p.dialog # "none"
         THEN /\ previous' = returned /\ saved' = scrolls /\ overflow' = "hidden"
              /\ timers' = timers \cup {p.dialog}
         ELSE /\ overflow' = scrolls
              /\ IF p.dialog = "none" THEN previous' = Body /\ saved' = "visible"
                 ELSE UNCHANGED <<previous, saved>>
              /\ UNCHANGED timers

\* The page becomes p, and f would keep the focus.
Displays(p, rendered, f) ==
  /\ page' = p /\ Cardinality(p.busy) <= MaxBusy
  /\ \E kept \in Keeps(p, f) : Effects(p, rendered, AutoFocus(p, kept))
  /\ Cardinality(timers') <= MaxTimers
  /\ strayed' = (strayed /\ p.dialog = page.dialog)

\* The timeout of a dialog. Nothing is focused for one that is closed.
TimerFires(d) ==
  /\ d \in timers
  /\ timers' = timers \ {d}
  /\ IF page.dialog = d THEN focus' = Control(First(page)) /\ strayed' = FALSE
     ELSE UNCHANGED <<focus, strayed>>
  /\ UNCHANGED <<page, previous, overflow, saved>>

-----------------------------------------------------------------------------
(* What elements do when they are pressed.                                 *)

Opened(p, d) ==
  {[p EXCEPT !.dialog = d, !.form = form] :
     form \in CASE d = "move" -> {"loading"} [] d = "share" -> {"alone", "shared"}
                [] OTHER -> {"filled"}}

ClosedPage(p) == [p EXCEPT !.dialog = "none", !.form = "filled"]

ToggleMenu(p, m) == [p EXCEPT !.menus = IF m \in @ THEN @ \ {m} ELSE @ \cup {m}]
OpenMenu(p, m)   == [p EXCEPT !.menus = @ \cup {m}]

\* DropdownItem: an item does what it is for, and closes the menu.
Select(p, m, k) ==
  LET q == [p EXCEPT !.menus = @ \ {m}]
  IN  CASE Entries(m)[k] \in Dialogs  -> Opened(q, Entries(m)[k])
        [] Entries(m)[k] = "logout"   -> {[q EXCEPT !.leaving = TRUE]}
        [] OTHER                      -> {}          \* a link to another page

Submitted(p) == {[p EXCEPT !.busy = @ \cup {p.dialog}]}

\* The page after e was pressed; by Enter, a field submits its form.
Pressed(p, e, byKey) ==
  CASE e = New -> Opened(p, "create")
    [] \E m \in p.rows \cup {"user"} : e = Trigger(m) ->
         LET m == e[2] IN {IF byKey THEN OpenMenu(p, m) ELSE ToggleMenu(p, m)}
    [] \E m \in p.menus : e \in InMenu(p, m) \ {Menu(m)} -> Select(p, e[2], e[3])
    [] e \in {Control("close"), Control("cancel")} -> {ClosedPage(p)}
    [] e = Control("submit") \/ (e \in {Control("name"), Control("email")} /\ byKey
                                 /\ "submit" \in Enabled(p)) -> Submitted(p)
    [] e \in {Control("row"), Control("remove")} /\ ~byKey -> Submitted(p)
    [] OTHER -> {p}

\* The page is rendered when its hooks change or its dialog is set; a menu renders
\* itself.
Renders(p, e) ==
  \/ p.dialog # page.dialog \/ p.busy # page.busy
  \/ e = New \/ (e[1] = "item" /\ Entries(e[2])[e[3]] \in Dialogs)

-----------------------------------------------------------------------------
(* Events of the user.                                                     *)

\* Enter or space.
PressEnter ==
  /\ focus \in Takes(page)
  /\ \E p \in Pressed(page, focus, TRUE) : Displays(p, Renders(p, focus), focus)

\* A click: menus close that it is not in, and the element takes the focus. An open
\* dialog covers the page.
Click(e) ==
  LET p == [page EXCEPT !.menus = {m \in @ : e \in {Trigger(m)} \cup InMenu(page, m)}]
  IN  /\ e \in Takes(page) \ {Body}
      /\ page.dialog # "none" => e \in Inside(page)
      /\ \E q \in Pressed(p, e, FALSE) : Displays(q, Renders(q, e), e)

\* Beside everything, or on what covers the page.
ClickBeside ==
  LET p == [page EXCEPT !.menus = {}]
  IN  Displays(IF page.dialog = "none" THEN p ELSE ClosedPage(p), FALSE, Body)

\* Every menu that is open and the dialog listen; a menu focuses its trigger.
PressEscape ==
  \E f \in IF page.menus = {} THEN {focus} ELSE {Trigger(m) : m \in page.menus} :
    Displays(ClosedPage([page EXCEPT !.menus = {}]), FALSE, f)

\* Where the browser goes with Tab from the position at of a dialog.
Neighbour(at, shift) ==
  LET there == {k \in Focusable(page) : IF shift THEN k < at ELSE k > at}
      nearest == {k \in there : \A j \in there : IF shift THEN j <= k ELSE j >= k}
  IN  IF there = {} THEN Outside(page) ELSE {Control(Controls(page)[k]) : k \in nearest}

Position == IF focus = Dialog THEN 0
            ELSE CHOOSE k \in DOMAIN Controls(page) : focus = Control(Controls(page)[k])

\* Mistake: only the way forward is trapped.
TabsForwardOnly(shift) ==
  IF ~shift /\ focus = Control(Last(page)) THEN {Control(First(page))}
  ELSE Neighbour(Position, shift)

\* handleKeyDown of a dialog: Tab goes round.
TabsTo(shift) ==
  IF shift /\ focus = Control(First(page)) THEN {Control(Last(page))}
  ELSE IF ~shift /\ focus = Control(Last(page)) THEN {Control(First(page))}
  ELSE Neighbour(Position, shift)

PressTab(shift) ==
  /\ IF focus \in Inside(page)
     THEN /\ focus' \in TabsTo(shift)
          /\ strayed' = (strayed \/ (focus = Dialog /\ focus' \notin Inside(page)))
     ELSE /\ focus' \in Outside(page) \cup {Control(c) : c \in Enabled(page)}
          /\ UNCHANGED strayed
  /\ UNCHANGED <<page, previous, overflow, saved, timers>>

\* handleKeyDown of a menu: the arrows go round, Home and End to the ends. Beside the
\* items, the arrow up goes to the last but one.
MenuKey(m, key) ==
  LET n == Cardinality(MenuItems(page, m))
      at == IF focus = Menu(m) THEN 0 ELSE focus[3]
      to == CASE key = "down" -> (at % n) + 1
              [] key = "up"   -> ((at - 2 + n) % n) + 1
              [] key = "home" -> 1
              [] key = "end"  -> n
  IN  /\ m \in page.menus /\ focus \in InMenu(page, m) /\ n > 0
      /\ focus' = Entry(m, to)
      /\ UNCHANGED <<page, previous, overflow, saved, timers, strayed>>

\* On the trigger, the arrow down opens.
TriggerKey(m) ==
  focus = Trigger(m) /\ focus \in Takes(page) /\ Displays(OpenMenu(page, m), FALSE, focus)

\* A target is chosen: only the dialog is rendered.
ChooseTarget ==
  /\ page.form = "empty" /\ focus = Control("target")
  /\ Displays([page EXCEPT !.form = "filled"], FALSE, focus)

-----------------------------------------------------------------------------
(* The page is rendered for other reasons.                                 *)

\* Rows come and go with a listing; a menu goes with its row.
WithRows(p, rows) == [p EXCEPT !.rows = rows, !.menus = @ \cap (rows \cup {"user"})]

ListingEnds(rows) == Displays(WithRows(page, rows), TRUE, focus)

TargetsEnd ==
  /\ page.form = "loading"
  /\ Displays([page EXCEPT !.form = "empty"], TRUE, focus)

\* Collaborators are displayed when they were loaded or changed.
CollaboratorsEnd(form) ==
  /\ page.dialog = "share"
  /\ Displays([page EXCEPT !.form = form], TRUE, focus)

\* A request is answered; one that was carried out closes the dialog that is open,
\* unless it was about collaborators.
MutationEnds(d, ok, rows) ==
  LET p == WithRows([page EXCEPT !.busy = @ \ {d}], rows)
  IN  /\ d \in page.busy
      /\ Displays(IF ok /\ d # "share" THEN ClosedPage(p) ELSE p, TRUE, focus)

-----------------------------------------------------------------------------
OverlayInit ==
  /\ page = [rows |-> Rows, menus |-> {}, dialog |-> "none", form |-> "filled", busy |-> {},
             leaving |-> FALSE]
  /\ focus = Body /\ previous = Body
  /\ overflow = "visible" /\ saved = "visible"
  /\ timers = {} /\ strayed = FALSE

UserStep ==
  \/ PressEnter \/ PressEscape \/ ClickBeside \/ ChooseTarget
  \/ \E shift \in BOOLEAN : PressTab(shift)
  \/ \E e \in Takes(page) : Click(e)
  \/ \E m \in Rows \cup {"user"} : TriggerKey(m) \/ \E key \in {"down", "up", "home", "end"} : MenuKey(m, key)

OverlayNext ==
  \/ UserStep
  \/ \E d \in Dialogs : TimerFires(d)
  \/ \E rows \in SUBSET Rows :
       ListingEnds(rows) \/ \E d \in Dialogs, ok \in BOOLEAN : MutationEnds(d, ok, rows)
  \/ TargetsEnd
  \/ \E form \in {"alone", "shared"} : CollaboratorsEnd(form)

OverlaySpec == OverlayInit /\ [][OverlayNext]_overlayVars

-----------------------------------------------------------------------------
(* Properties.                                                             *)

FocusStaysInDialog ==
  page.dialog # "none" /\ page.dialog \notin timers /\ ~strayed => focus \in Inside(page)

PageScrollsAgain == overflow = (IF page.dialog = "none" THEN "visible" ELSE "hidden")

\* An open dialog has the focus once its timeout has run, whatever is disabled, taken
\* away or rendered meanwhile, unless Shift and Tab were pressed on its background
\* ("interactive descendants that should participate in the focus trap",
\* getFocusableElements). The page behind can be scrolled exactly while no dialog is
\* open, however often the effect was cleaned up and run again (originalOverflow).
DialogHoldsThePage == FocusStaysInDialog /\ PageScrollsAgain
=============================================================================
