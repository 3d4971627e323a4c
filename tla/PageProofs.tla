------------------------------ MODULE PageProofs ------------------------------
(***************************************************************************)
(* Proofs about what a page does by itself, whatever it displays of the    *)
(* workspace or of a document: its session (AuthSession), and the dialogs  *)
(* and menus over it (Overlays). The two have no variable in common and    *)
(* each has its specification.                                             *)
(*                                                                         *)
(* The session: what a page displays about its user is what is stored, and *)
(* signing out lasts, for any number of tabs, users, forms and             *)
(* submissions. The invariant SessionInv says which requests a page can    *)
(* have under way together, and what each of them knows.                   *)
(*                                                                         *)
(* The dialogs: an open one keeps the focus and the scrolling of the page, *)
(* for any rows, any menus and any number of requests under way. The focus *)
(* may be on a control that a request disables: then the page is rendered, *)
(* and a timeout of the dialog is due. So the invariant HoldInv says that  *)
(* with no timeout due the focus is on what Tab can go on from (On), and   *)
(* that what the dialog remembers of the scrolling is what it was before,  *)
(* however often its effect ran (saved).                                   *)
(***************************************************************************)
EXTENDS AuthSession, Overlays, FiniteSetTheorems, TLAPS

-----------------------------------------------------------------------------
(* The session of a page.                                                  *)

Faults  == {"fullName", "email", "password", "confirmPassword", "acceptedTerms"}
Mishaps == {"elsewhere", "overtaken", "unloaded"}

Pages ==
  [path : Paths \cup {"blank"}, user : Users \cup {Nobody}, initialized : BOOLEAN,
   loading : BOOLEAN, error : BOOLEAN, invalid : SUBSET Faults, next : Paths \cup {""},
   mishaps : SUBSET Mishaps]

Kinds    == {"refresh", "cleanup", "signIn", "signUp", "signOut"}
Requests == [kind : Kinds, token : Tokens]

Typed ==
  /\ tab \in [Tabs -> Pages] /\ requests \in [Tabs -> SUBSET Requests]
  /\ storage \in Tokens \cup {NoToken}
  /\ submits \in 0..MaxSubmits /\ signedOut \subseteq Tabs

\* The requests the provider waits for.
Foreground(t) == {q \in requests[t] : q.kind # "cleanup"}

\* runAuthRequest: loading is set as long as the one request is under way.
OneRequest(t) ==
  /\ tab[t].loading <=> Foreground(t) # {}
  /\ \A p, q \in Foreground(t) : p = q

\* A page that waits displays nobody, and one that displays somebody started.
WaitingShowsNobody(t) ==
  /\ tab[t].loading => tab[t].user = Nobody
  /\ tab[t].user # Nobody => tab[t].initialized

\* A page that restores its session does nothing else, with the stored token.
Restoring(t) ==
  \A q \in requests[t] :
    q.kind = "refresh" => /\ requests[t] = {q} /\ ~tab[t].initialized
                          /\ "elsewhere" \notin tab[t].mishaps => q.token = storage

\* A session that begins before the cleanup of an older one ended is overtaken.
CleaningUp(t) ==
  \A q \in requests[t] :
    q.kind = "cleanup" /\ tab[t].user # Nobody => "overtaken" \in tab[t].mishaps

FreshTokens(t) ==
  \A q \in requests[t] : q.kind \in {"signIn", "signUp"} => ~q.token.stale

\* A page of a user who signed out restores no session, and the token is gone
\* or will be with the answer.
Departed(t) ==
  t \in signedOut /\ "unloaded" \notin tab[t].mishaps =>
    /\ tab[t].user = Nobody
    /\ \A q \in requests[t] : q.kind # "refresh"
    /\ storage = NoToken \/ \E q \in requests[t] : q.kind = "signOut"

\* SessionIsStored for one tab.
Stored(t) ==
  tab[t].user # Nobody /\ tab[t].mishaps \cap {"elsewhere", "overtaken"} = {} =>
    storage = [owner |-> tab[t].user, stale |-> FALSE]

TabInv(t) ==
  /\ OneRequest(t) /\ WaitingShowsNobody(t) /\ Restoring(t) /\ CleaningUp(t)
  /\ FreshTokens(t) /\ Departed(t) /\ Stored(t)

SessionInv == Typed /\ \A t \in Tabs : TabInv(t)

-----------------------------------------------------------------------------
(* Rendering and the other operators on pages.                             *)

\* No token is none.
LEMMA TokensAreNotNone == NoToken \notin Tokens
BY SessionAssumption DEF NoToken, Tokens

\* A page that is loaded anew is a page.
LEMMA BlankType == \A p \in Paths : [Blank EXCEPT !.path = p] \in Pages
BY DEF Blank, Pages, Paths, AuthRoutes, ProtectedRoutes, Faults

\* Rendering changes nothing but the page that is loaded next.
LEMMA RenderedKeeps ==
  ASSUME NEW r \in Pages
  PROVE  /\ Rendered(r) \in Pages
         /\ Rendered(r).user = r.user /\ Rendered(r).initialized = r.initialized
         /\ Rendered(r).loading = r.loading /\ Rendered(r).mishaps = r.mishaps
<1>1. Target(r) = r.path \/ Target(r) \in Paths
  BY DEF Target, DefaultRoute, Paths, AuthRoutes, ProtectedRoutes
<1>2. CASE Target(r) = r.path
  BY <1>2 DEF Rendered
<1>3. CASE Target(r) # r.path /\ Target(r) \in Paths
  BY <1>3 DEF Rendered, Pages
<1>4. QED BY <1>1, <1>2, <1>3

\* What the pages of all tabs are after a change of the one of tab t.
LEMMA BecomesType ==
  ASSUME Typed, NEW t \in Tabs, NEW r \in Pages, Becomes(t, r)
  PROVE  /\ tab' \in [Tabs -> Pages]
         /\ tab'[t].user = r.user /\ tab'[t].initialized = r.initialized
         /\ tab'[t].loading = r.loading /\ tab'[t].mishaps = r.mishaps
         /\ \A d \in Tabs \ {t} : tab'[d] = tab[d]
<1>1. tab' = [tab EXCEPT ![t] = Rendered(r)]
  BY DEF Becomes
<1>2. tab'[t] = Rendered(r) /\ \A d \in Tabs \ {t} : tab'[d] = tab[d]
  BY <1>1 DEF Typed
<1>3. QED BY <1>1, <1>2, RenderedKeeps DEF Typed

\* The same when the token is replaced: the other tabs keep all but the history.
LEMMA StoreType ==
  ASSUME Typed, NEW t \in Tabs, NEW r \in Pages, NEW token, Store(t, token, r)
  PROVE  /\ storage' = token /\ tab' \in [Tabs -> Pages]
         /\ tab'[t].user = r.user /\ tab'[t].initialized = r.initialized
         /\ tab'[t].loading = r.loading /\ tab'[t].mishaps = r.mishaps
         /\ \A d \in Tabs \ {t} :
              /\ tab'[d].user = tab[d].user /\ tab'[d].initialized = tab[d].initialized
              /\ tab'[d].loading = tab[d].loading
              /\ tab'[d].mishaps = IF token # storage THEN tab[d].mishaps \cup {"elsewhere"}
                                   ELSE tab[d].mishaps
<1>1. tab' = [d \in Tabs |-> IF d = t THEN Rendered(r)
                             ELSE Mishap(tab[d], "elsewhere", token # storage)]
  BY DEF Store
<1>2. tab'[t] = Rendered(r)
  BY <1>1
<1>3. \A d \in Tabs \ {t} : tab'[d] = Mishap(tab[d], "elsewhere", token # storage)
  BY <1>1
<1>4. \A d \in Tabs \ {t} :
        /\ tab'[d] \in Pages
        /\ tab'[d].user = tab[d].user /\ tab'[d].initialized = tab[d].initialized
        /\ tab'[d].loading = tab[d].loading
        /\ tab'[d].mishaps = IF token # storage THEN tab[d].mishaps \cup {"elsewhere"}
                             ELSE tab[d].mishaps
  <2> TAKE d \in Tabs \ {t}
  <2>1. tab[d] \in Pages
    BY DEF Typed
  <2>2. tab'[d] = IF token # storage
                  THEN [tab[d] EXCEPT !.mishaps = tab[d].mishaps \cup {"elsewhere"}]
                  ELSE [tab[d] EXCEPT !.mishaps = tab[d].mishaps]
    BY <1>3 DEF Mishap
  <2>3. CASE token # storage
    <3> DEFINE more == tab[d].mishaps \cup {"elsewhere"}
    <3>1. more \in SUBSET Mishaps
      BY <2>1 DEF Pages, Mishaps
    <3>2. tab'[d] = [tab[d] EXCEPT !.mishaps = more]
      BY <2>2, <2>3
    <3> HIDE DEF more
    <3>3. tab'[d] \in Pages /\ tab'[d].mishaps = more /\ tab'[d].user = tab[d].user
          /\ tab'[d].initialized = tab[d].initialized /\ tab'[d].loading = tab[d].loading
      BY <2>1, <3>1, <3>2 DEF Pages
    <3>4. QED BY <2>3, <3>3 DEF more
  <2>4. CASE token = storage
    <3>1. tab'[d] = tab[d]
      BY <2>1, <2>2, <2>4 DEF Pages
    <3>2. QED BY <2>1, <2>4, <3>1
  <2>5. QED BY <2>3, <2>4
<1>5. storage' = token
  BY DEF Store
<1>6. tab' \in [Tabs -> Pages]
  <2>1. DOMAIN tab' = Tabs /\ \A d \in Tabs : tab'[d] \in Pages
    BY <1>1, <1>2, <1>4, RenderedKeeps
  <2>2. QED BY <2>1, <1>1
<1>7. QED BY <1>2, <1>4, <1>5, <1>6, RenderedKeeps

-----------------------------------------------------------------------------
(* A step of one tab.                                                      *)

\* What a step of tab t may do to the others: replace the token, which they
\* note, by the one of a session that begins or by none.
LEMMA OtherTabs ==
  ASSUME SessionInv, NEW t \in Tabs, NEW d \in Tabs \ {t},
         tab'[d].user = tab[d].user, tab'[d].initialized = tab[d].initialized,
         tab'[d].loading = tab[d].loading,
         tab'[d].mishaps = IF storage' # storage THEN tab[d].mishaps \cup {"elsewhere"}
                           ELSE tab[d].mishaps,
         requests'[d] = requests[d],
         d \in signedOut' => d \in signedOut /\ (storage' = storage \/ storage' = NoToken)
  PROVE  TabInv(d)'
<1>1. TabInv(d)
  BY DEF SessionInv
<1>2. (OneRequest(d) /\ WaitingShowsNobody(d) /\ FreshTokens(d))'
  BY <1>1 DEF TabInv, OneRequest, WaitingShowsNobody, FreshTokens, Foreground
<1>3. CleaningUp(d)'
  BY <1>1 DEF TabInv, CleaningUp
<1>4. Restoring(d)' /\ Stored(d)'
  <2>1. CASE storage' = storage
    BY <1>1, <2>1 DEF TabInv, Restoring, Stored
  <2>2. CASE storage' # storage
    <3>1. "elsewhere" \in tab'[d].mishaps
      BY <2>2
    <3>2. QED BY <1>1, <3>1 DEF TabInv, Restoring, Stored
  <2>3. QED BY <2>1, <2>2
<1>5. Departed(d)'
  BY <1>1 DEF TabInv, Departed
<1>6. QED BY <1>2, <1>3, <1>4, <1>5 DEF TabInv

\* A page is loaded.
LEMMA LoadKeepsInv ==
  ASSUME SessionInv, NEW t \in Tabs, Load(t)
  PROVE  SessionInv'
<1> DEFINE opened == [Blank EXCEPT !.path = tab[t].next, !.mishaps = NextMishaps(t)]
<1>1. tab[t] \in Pages /\ tab[t].next \in Paths
  BY DEF SessionInv, Typed, Pages, Load
<1>2. NextMishaps(t) \in SUBSET Mishaps
  BY DEF NextMishaps, Mishaps
<1>3. /\ opened \in Pages /\ opened.user = Nobody /\ ~opened.initialized /\ ~opened.loading
      /\ opened.mishaps = NextMishaps(t)
  BY <1>1, <1>2 DEF Pages, Blank
<1> HIDE DEF opened
<1>4. CASE storage = NoToken
  <2>1. Becomes(t, RequestSucceeds(opened, Nobody)) /\ requests' = [requests EXCEPT ![t] = {}]
    BY <1>4 DEF Load, opened
  <2>2. /\ RequestSucceeds(opened, Nobody) \in Pages
        /\ RequestSucceeds(opened, Nobody).user = Nobody
        /\ ~RequestSucceeds(opened, Nobody).loading
        /\ RequestSucceeds(opened, Nobody).mishaps = opened.mishaps
    BY <1>3 DEF RequestSucceeds, Pages
  <2>3. /\ tab' \in [Tabs -> Pages] /\ tab'[t].user = Nobody /\ ~tab'[t].loading
        /\ \A d \in Tabs \ {t} : tab'[d] = tab[d]
    BY <2>1, <2>2, BecomesType DEF SessionInv
  <2>4. /\ requests'[t] = {} /\ \A d \in Tabs \ {t} : requests'[d] = requests[d]
        /\ requests' \in [Tabs -> SUBSET Requests]
    BY <2>1 DEF SessionInv, Typed
  <2>5. storage' = storage /\ submits' = submits /\ signedOut' = signedOut
    BY DEF Load
  <2>6. TabInv(t)'
    BY <1>4, <2>3, <2>4, <2>5
       DEF TabInv, OneRequest, WaitingShowsNobody, Restoring, CleaningUp, FreshTokens,
           Departed, Stored, Foreground
  <2>7. \A d \in Tabs \ {t} : TabInv(d)'
    BY <2>3, <2>4, <2>5, OtherTabs
  <2>8. QED BY <2>3, <2>4, <2>5, <2>6, <2>7 DEF SessionInv, Typed
<1>5. CASE storage # NoToken
  <2>1. Becomes(t, RequestStarts(opened)) /\ requests' = [requests EXCEPT ![t] = {Refresh}]
    BY <1>5 DEF Load, opened
  <2>2. /\ RequestStarts(opened) \in Pages
        /\ RequestStarts(opened).user = Nobody
        /\ RequestStarts(opened).loading /\ ~RequestStarts(opened).initialized
        /\ RequestStarts(opened).mishaps = NextMishaps(t)
    BY <1>3 DEF RequestStarts, Pages
  <2>3. /\ tab' \in [Tabs -> Pages] /\ tab'[t].user = Nobody /\ tab'[t].loading
        /\ ~tab'[t].initialized /\ tab'[t].mishaps = NextMishaps(t)
        /\ \A d \in Tabs \ {t} : tab'[d] = tab[d]
    BY <2>1, <2>2, BecomesType DEF SessionInv
  <2>4. Refresh \in Requests /\ Refresh.kind = "refresh" /\ Refresh.token = storage
    BY <1>5 DEF Refresh, Requests, Kinds, SessionInv, Typed
  <2>5. /\ requests'[t] = {Refresh} /\ \A d \in Tabs \ {t} : requests'[d] = requests[d]
        /\ requests' \in [Tabs -> SUBSET Requests]
    BY <2>1, <2>4 DEF SessionInv, Typed
  <2>6. storage' = storage /\ submits' = submits /\ signedOut' = signedOut
    BY DEF Load
  <2>7. (OneRequest(t) /\ WaitingShowsNobody(t) /\ Restoring(t) /\ CleaningUp(t)
         /\ FreshTokens(t) /\ Stored(t))'
    BY <2>3, <2>4, <2>5, <2>6
       DEF OneRequest, WaitingShowsNobody, Restoring, CleaningUp, FreshTokens, Stored,
           Foreground
  <2>8. Departed(t)'
    \* The token is still there, so the answer to the sign-out is missing.
    <3>1. t \in signedOut => "unloaded" \in NextMishaps(t)
      BY <1>5 DEF SessionInv, TabInv, Departed, NextMishaps
    <3>2. QED BY <2>3, <2>6, <3>1 DEF Departed
  <2>9. \A d \in Tabs \ {t} : TabInv(d)'
    BY <2>3, <2>5, <2>6, OtherTabs
  <2>10. TabInv(t)'
    BY <2>7, <2>8 DEF TabInv
  <2>11. QED BY <2>3, <2>5, <2>6, <2>9, <2>10 DEF SessionInv, Typed
<1>6. QED BY <1>4, <1>5

\* The requests of a tab without the one of its foreground.
LEMMA ForegroundEnds ==
  ASSUME SessionInv, NEW t \in Tabs, NEW q \in Foreground(t)
  PROVE  /\ q \in requests[t] /\ tab[t].user = Nobody
         /\ \A p \in requests[t] \ {q} : p.kind = "cleanup"
<1>1. OneRequest(t) /\ WaitingShowsNobody(t)
  BY DEF SessionInv, TabInv
<1>2. QED BY <1>1 DEF OneRequest, WaitingShowsNobody, Foreground

\* The server grants no stale token.
LEMMA GrantedIsFresh ==
  ASSUME NEW q \in Requests, TRUE \in Outcomes(q)
  PROVE  q.token = [owner |-> q.token.owner, stale |-> FALSE] /\ q.token.owner \in Users
<1>1. q.token \in Tokens /\ ~q.token.stale
  BY DEF Outcomes, Requests
<1>2. QED BY <1>1 DEF Tokens

\* A request for new tokens ends.
LEMMA RefreshEndsKeepsInv ==
  ASSUME SessionInv, NEW t \in Tabs, RefreshEnds(t)
  PROVE  SessionInv'
<1>0. PICK q \in requests[t] : \E ok \in Outcomes(q) :
        /\ q.kind = "refresh"
        /\ IF ok
           THEN Becomes(t, RequestSucceeds(tab[t], q.token.owner)) /\ Done(t, q)
           ELSE /\ Becomes(t, [RequestFails(tab[t]) EXCEPT !.user = Nobody])
                /\ requests' = [requests EXCEPT ![t] = (@ \ {q}) \cup SignOutRequest("cleanup")]
        /\ UNCHANGED <<storage, submits, signedOut>>
  BY DEF RefreshEnds
<1>1. PICK ok \in Outcomes(q) :
        /\ q.kind = "refresh"
        /\ IF ok
           THEN Becomes(t, RequestSucceeds(tab[t], q.token.owner)) /\ Done(t, q)
           ELSE /\ Becomes(t, [RequestFails(tab[t]) EXCEPT !.user = Nobody])
                /\ requests' = [requests EXCEPT ![t] = (@ \ {q}) \cup SignOutRequest("cleanup")]
        /\ UNCHANGED <<storage, submits, signedOut>>
  BY <1>0
<1>2. q \in Requests /\ tab[t] \in Pages /\ TabInv(t) /\ q \in Foreground(t)
  BY <1>1 DEF SessionInv, Typed, Foreground
<1>3. requests[t] = {q} /\ ("elsewhere" \notin tab[t].mishaps => q.token = storage)
  BY <1>1, <1>2 DEF TabInv, Restoring
<1>4. t \in signedOut => "unloaded" \in tab[t].mishaps
  BY <1>1, <1>2 DEF TabInv, Departed
<1>5. storage' = storage /\ submits' = submits /\ signedOut' = signedOut
  BY <1>1
<1>6. CASE ok = TRUE
  <2> DEFINE r == RequestSucceeds(tab[t], q.token.owner)
  <2>1. q.token = [owner |-> q.token.owner, stale |-> FALSE] /\ q.token.owner \in Users
    BY <1>2, <1>6, GrantedIsFresh
  <2>2. /\ r \in Pages /\ r.user = q.token.owner /\ r.initialized /\ ~r.loading
        /\ r.mishaps = tab[t].mishaps
    BY <1>2, <2>1 DEF RequestSucceeds, Pages
  <2>3. Becomes(t, r) /\ requests' = [requests EXCEPT ![t] = @ \ {q}]
    BY <1>1, <1>6 DEF Done
  <2> HIDE DEF r
  <2>4. /\ tab' \in [Tabs -> Pages] /\ tab'[t].user = q.token.owner /\ tab'[t].initialized
        /\ ~tab'[t].loading /\ tab'[t].mishaps = tab[t].mishaps
        /\ \A d \in Tabs \ {t} : tab'[d] = tab[d]
    BY <2>2, <2>3, BecomesType DEF SessionInv
  <2>5. /\ requests'[t] = {} /\ \A d \in Tabs \ {t} : requests'[d] = requests[d]
        /\ requests' \in [Tabs -> SUBSET Requests]
    BY <1>3, <2>3 DEF SessionInv, Typed
  <2>6. TabInv(t)'
    BY <1>3, <1>4, <1>5, <2>1, <2>4, <2>5
       DEF TabInv, OneRequest, WaitingShowsNobody, Restoring, CleaningUp, FreshTokens,
           Departed, Stored, Foreground
  <2>7. \A d \in Tabs \ {t} : TabInv(d)'
    BY <1>5, <2>4, <2>5, OtherTabs
  <2>8. QED BY <1>5, <2>4, <2>5, <2>6, <2>7 DEF SessionInv, Typed
<1>7. CASE ok = FALSE
  <2> DEFINE r == [RequestFails(tab[t]) EXCEPT !.user = Nobody]
  <2>1. /\ r \in Pages /\ r.user = Nobody /\ ~r.loading /\ r.mishaps = tab[t].mishaps
    BY <1>2 DEF RequestFails, Pages
  <2>2. Becomes(t, r)
        /\ requests' = [requests EXCEPT ![t] = (@ \ {q}) \cup SignOutRequest("cleanup")]
    BY <1>1, <1>7
  <2> HIDE DEF r
  <2>3. /\ tab' \in [Tabs -> Pages] /\ tab'[t].user = Nobody
        /\ ~tab'[t].loading /\ tab'[t].mishaps = tab[t].mishaps
        /\ \A d \in Tabs \ {t} : tab'[d] = tab[d]
    BY <2>1, <2>2, BecomesType DEF SessionInv
  <2>4. /\ SignOutRequest("cleanup") \subseteq Requests
        /\ \A p \in SignOutRequest("cleanup") : p.kind = "cleanup"
    BY DEF SignOutRequest, Requests, Kinds, SessionInv, Typed
  <2>5. /\ requests'[t] = SignOutRequest("cleanup")
        /\ \A d \in Tabs \ {t} : requests'[d] = requests[d]
        /\ requests' \in [Tabs -> SUBSET Requests]
    BY <1>3, <2>2, <2>4 DEF SessionInv, Typed
  <2>6. TabInv(t)'
    BY <1>4, <1>5, <2>3, <2>4, <2>5
       DEF TabInv, OneRequest, WaitingShowsNobody, Restoring, CleaningUp, FreshTokens,
           Departed, Stored, Foreground
  <2>7. \A d \in Tabs \ {t} : TabInv(d)'
    BY <1>5, <2>3, <2>5, OtherTabs
  <2>8. QED BY <1>5, <2>3, <2>5, <2>6, <2>7 DEF SessionInv, Typed
<1>8. ok \in BOOLEAN
  BY DEF Outcomes
<1>9. QED BY <1>6, <1>7, <1>8

\* A request that ends the session elsewhere ends.
LEMMA CleanupEndsKeepsInv ==
  ASSUME SessionInv, NEW t \in Tabs, CleanupEnds(t)
  PROVE  SessionInv'
<1>1. PICK q \in requests[t] :
        /\ q.kind = "cleanup" /\ Done(t, q) /\ Store(t, NoToken, tab[t])
        /\ UNCHANGED <<submits, signedOut>>
  BY DEF CleanupEnds
<1>2. tab[t] \in Pages /\ TabInv(t)
  BY DEF SessionInv, Typed
<1>3. /\ storage' = NoToken /\ tab' \in [Tabs -> Pages]
      /\ tab'[t].user = tab[t].user /\ tab'[t].initialized = tab[t].initialized
      /\ tab'[t].loading = tab[t].loading /\ tab'[t].mishaps = tab[t].mishaps
      /\ \A d \in Tabs \ {t} :
           /\ tab'[d].user = tab[d].user /\ tab'[d].initialized = tab[d].initialized
           /\ tab'[d].loading = tab[d].loading
           /\ tab'[d].mishaps = IF storage' # storage THEN tab[d].mishaps \cup {"elsewhere"}
                                ELSE tab[d].mishaps
  <2>1. Store(t, NoToken, tab[t]) /\ Typed
    BY <1>1 DEF SessionInv
  <2>2. storage' = NoToken
    BY <2>1 DEF Store
  <2> DEFINE r == tab[t]
  <2>3. r \in Pages /\ Store(t, NoToken, r)
    BY <1>2, <2>1
  <2> HIDE DEF r
  <2>4. /\ tab' \in [Tabs -> Pages]
        /\ tab'[t].user = r.user /\ tab'[t].initialized = r.initialized
        /\ tab'[t].loading = r.loading /\ tab'[t].mishaps = r.mishaps
        /\ \A d \in Tabs \ {t} :
             /\ tab'[d].user = tab[d].user /\ tab'[d].initialized = tab[d].initialized
             /\ tab'[d].loading = tab[d].loading
             /\ tab'[d].mishaps = IF NoToken # storage THEN tab[d].mishaps \cup {"elsewhere"}
                                  ELSE tab[d].mishaps
    BY <2>1, <2>3, StoreType
  <2>5. QED BY <2>2, <2>4 DEF r
<1>4. /\ requests' = [requests EXCEPT ![t] = @ \ {q}]
      /\ submits' = submits /\ signedOut' = signedOut
  BY <1>1 DEF Done
<1>5. /\ requests'[t] = requests[t] \ {q}
      /\ \A d \in Tabs \ {t} : requests'[d] = requests[d]
      /\ requests' \in [Tabs -> SUBSET Requests]
  BY <1>4 DEF SessionInv, Typed
<1>6. (OneRequest(t) /\ WaitingShowsNobody(t) /\ CleaningUp(t) /\ FreshTokens(t))'
  <2>1. Foreground(t)' = Foreground(t)
    BY <1>1, <1>5 DEF Foreground
  <2>2. QED BY <1>2, <1>3, <1>5, <2>1
            DEF TabInv, OneRequest, WaitingShowsNobody, CleaningUp, FreshTokens
<1>7. Restoring(t)'
  \* A page that cleans up restores nothing.
  <2>1. \A p \in requests[t] : p.kind # "refresh"
    BY <1>1, <1>2 DEF TabInv, Restoring
  <2>2. QED BY <1>5, <2>1 DEF Restoring
<1>8. (Departed(t) /\ Stored(t))'
  BY <1>1, <1>2, <1>3, <1>4, <1>5 DEF TabInv, Departed, Stored, CleaningUp
<1>9. TabInv(t)'
  BY <1>6, <1>7, <1>8 DEF TabInv
<1>10. \A d \in Tabs \ {t} : TabInv(d)'
  BY <1>3, <1>4, <1>5, OtherTabs
<1>11. QED BY <1>3, <1>4, <1>5, <1>9, <1>10 DEF SessionInv, Typed

-----------------------------------------------------------------------------
(* The forms and the menu of the user.                                     *)

\* A step after which page and requests of the other tabs are the same.
LEMMA OnlyThisTab ==
  ASSUME SessionInv, NEW t \in Tabs, Typed', TabInv(t)',
         \A d \in Tabs \ {t} : tab'[d] = tab[d] /\ requests'[d] = requests[d],
         storage' = storage, signedOut' \subseteq signedOut \cup {t}
  PROVE  SessionInv'
<1>1. \A d \in Tabs \ {t} : TabInv(d)'
  BY OtherTabs
<1>2. QED BY <1>1 DEF SessionInv

\* A form is submitted.
LEMMA SubmitKeepsInv ==
  ASSUME SessionInv, NEW t \in Tabs, NEW kind \in {"signIn", "signUp"}, NEW u \in Users,
         NEW invalid \in SUBSET Faults, ~tab[t].loading, Submit(t, kind, u, invalid)
  PROVE  SessionInv'
<1>1. tab[t] \in Pages /\ TabInv(t) /\ tab \in [Tabs -> Pages]
      /\ requests \in [Tabs -> SUBSET Requests]
  BY DEF SessionInv, Typed
<1>2. storage' = storage /\ signedOut' = signedOut /\ submits' \in 0..MaxSubmits
  BY SessionAssumption DEF Submit, SessionInv, Typed
<1>3. CASE invalid # {}
  <2>1. tab' = [tab EXCEPT ![t].invalid = invalid] /\ requests' = requests
    BY <1>3 DEF Submit
  <2>2. /\ tab'[t] = [tab[t] EXCEPT !.invalid = invalid]
        /\ \A d \in Tabs \ {t} : tab'[d] = tab[d]
    BY <1>1, <2>1
  <2>3. tab' \in [Tabs -> Pages] /\ tab'[t].user = tab[t].user
        /\ tab'[t].loading = tab[t].loading /\ tab'[t].initialized = tab[t].initialized
        /\ tab'[t].mishaps = tab[t].mishaps
    <3>1. tab'[t] \in Pages
      BY <1>1, <2>2 DEF Pages
    <3>2. tab' \in [Tabs -> Pages]
      BY <1>1, <2>1, <3>1
    <3>3. QED BY <1>1, <2>2, <3>2 DEF Pages
  <2>4. TabInv(t)'
    BY <1>1, <1>2, <2>1, <2>3
       DEF TabInv, OneRequest, WaitingShowsNobody, Restoring, CleaningUp, FreshTokens,
           Departed, Stored, Foreground
  <2>5. Typed'
    BY <1>1, <1>2, <2>1, <2>3 DEF SessionInv, Typed
  <2>6. QED BY <1>2, <2>1, <2>2, <2>4, <2>5, OnlyThisTab
<1>4. CASE invalid = {}
  <2> DEFINE r == [RequestStarts(tab[t]) EXCEPT !.invalid = {}]
             q == Submission(kind, u)
  <2>1. /\ r \in Pages /\ r.user = tab[t].user /\ r.initialized = tab[t].initialized
        /\ r.loading /\ r.mishaps = tab[t].mishaps
    BY <1>1 DEF RequestStarts, Pages
  <2>2. Becomes(t, r) /\ requests' = [requests EXCEPT ![t] = @ \cup {q}]
    BY <1>4 DEF Submit
  <2>3. q \in Requests /\ q.kind = kind /\ ~q.token.stale
    BY DEF Submission, Requests, Kinds, Tokens
  <2>4. tab[t].user = Nobody
    \* The form is shown to nobody else, and who is signed in started.
    BY <1>1 DEF Submit, ShowsForm, Target, TabInv, WaitingShowsNobody, RouteOf, AuthRoutes,
                DefaultRoute, ProtectedRoutes
  <2> HIDE DEF r, q
  <2>5. /\ tab' \in [Tabs -> Pages] /\ tab'[t].user = Nobody
        /\ tab'[t].initialized = tab[t].initialized
        /\ tab'[t].loading /\ tab'[t].mishaps = tab[t].mishaps
        /\ \A d \in Tabs \ {t} : tab'[d] = tab[d]
    BY <2>1, <2>2, <2>4, BecomesType DEF SessionInv
  <2>6. /\ requests'[t] = requests[t] \cup {q}
        /\ \A d \in Tabs \ {t} : requests'[d] = requests[d]
        /\ requests' \in [Tabs -> SUBSET Requests]
    BY <1>1, <2>2, <2>3
  <2>7. \A p \in requests[t] : p.kind = "cleanup"
    BY <1>1 DEF TabInv, OneRequest, Foreground
  <2>8. TabInv(t)'
    BY <1>1, <1>2, <2>3, <2>5, <2>6, <2>7
       DEF TabInv, OneRequest, WaitingShowsNobody, Restoring, CleaningUp, FreshTokens,
           Departed, Stored, Foreground
  <2>9. Typed'
    BY <1>2, <2>5, <2>6 DEF SessionInv, Typed
  <2>10. QED BY <1>2, <2>5, <2>6, <2>8, <2>9, OnlyThisTab
<1>5. QED BY <1>3, <1>4

\* The validation finds known faults.
LEMMA FaultsOfForms ==
  \A f \in Forms : ValidateSignInForm(f) \subseteq Faults /\ ValidateSignUpForm(f) \subseteq Faults
BY DEF ValidateSignInForm, ValidateSignUpForm, ValidateEmail, ValidatePassword, Faults

\* A sign-in or sign-up is answered.
LEMMA SubmitEndsKeepsInv ==
  ASSUME SessionInv, NEW t \in Tabs, SubmitEnds(t)
  PROVE  SessionInv'
<1>1. PICK q \in requests[t] : \E ok \in Outcomes(q) :
        /\ q.kind \in {"signIn", "signUp"}
        /\ Done(t, q)
        /\ IF ok
           THEN Store(t, q.token, Mishap([RequestSucceeds(tab[t], q.token.owner)
                                            EXCEPT !.next = DefaultRoute],
                                         "overtaken", \E p \in requests[t] : p.kind = "cleanup"))
           ELSE Becomes(t, RequestFails(tab[t])) /\ UNCHANGED storage
        /\ signedOut' = IF ok THEN {} ELSE signedOut
        /\ UNCHANGED submits
  BY DEF SubmitEnds
<1>2. q \in Requests /\ tab[t] \in Pages /\ TabInv(t) /\ q \in Foreground(t)
  BY <1>1 DEF SessionInv, Typed, Foreground
<1>3. /\ requests' = [requests EXCEPT ![t] = @ \ {q}]
      /\ requests'[t] = requests[t] \ {q}
      /\ \A d \in Tabs \ {t} : requests'[d] = requests[d]
      /\ requests' \in [Tabs -> SUBSET Requests]
      /\ submits' = submits
  BY <1>1 DEF Done, SessionInv, Typed
<1>4. tab[t].user = Nobody /\ \A p \in requests[t] \ {q} : p.kind = "cleanup"
  BY <1>2, ForegroundEnds
<1>5. PICK ok \in Outcomes(q) :
        /\ IF ok
           THEN Store(t, q.token, Mishap([RequestSucceeds(tab[t], q.token.owner)
                                            EXCEPT !.next = DefaultRoute],
                                         "overtaken", \E p \in requests[t] : p.kind = "cleanup"))
           ELSE Becomes(t, RequestFails(tab[t])) /\ UNCHANGED storage
        /\ signedOut' = IF ok THEN {} ELSE signedOut
  BY <1>1
<1>6. CASE ok = TRUE
  <2> DEFINE s == [RequestSucceeds(tab[t], q.token.owner) EXCEPT !.next = DefaultRoute]
             r == Mishap(s, "overtaken", \E p \in requests[t] : p.kind = "cleanup")
  <2>1. q.token = [owner |-> q.token.owner, stale |-> FALSE] /\ q.token.owner \in Users
    BY <1>2, <1>6, GrantedIsFresh
  <2>2. /\ s \in Pages /\ s.user = q.token.owner /\ s.initialized /\ ~s.loading
        /\ s.mishaps = tab[t].mishaps
    BY <1>2, <2>1 DEF RequestSucceeds, Pages, DefaultRoute, Paths, ProtectedRoutes
  <2> HIDE DEF s
  <2>3. /\ r \in Pages /\ r.user = q.token.owner /\ r.initialized /\ ~r.loading
        /\ (\E p \in requests[t] : p.kind = "cleanup") => "overtaken" \in r.mishaps
    BY <2>2 DEF Mishap, Pages, Mishaps
  <2>4. Store(t, q.token, r) /\ signedOut' = {} /\ Typed
    BY <1>5, <1>6 DEF s, SessionInv
  <2> HIDE DEF r
  <2>5. storage' = q.token
    BY <2>4 DEF Store
  <2>6. /\ tab' \in [Tabs -> Pages]
        /\ tab'[t].user = q.token.owner /\ tab'[t].initialized /\ ~tab'[t].loading
        /\ tab'[t].mishaps = r.mishaps
        /\ \A d \in Tabs \ {t} :
             /\ tab'[d].user = tab[d].user /\ tab'[d].initialized = tab[d].initialized
             /\ tab'[d].loading = tab[d].loading
             /\ tab'[d].mishaps = IF storage' # storage THEN tab[d].mishaps \cup {"elsewhere"}
                                  ELSE tab[d].mishaps
    <3>1. r.user = q.token.owner /\ r.initialized = TRUE /\ r.loading = FALSE
      BY <2>3 DEF Pages
    <3> DEFINE token == q.token
    <3>2. Store(t, token, r) /\ storage' = token /\ Typed
      BY <2>4, <2>5
    <3> HIDE DEF token
    <3>3. QED BY <2>3, <3>1, <3>2, StoreType
  <2>7. (OneRequest(t) /\ WaitingShowsNobody(t) /\ CleaningUp(t) /\ Departed(t))'
    BY <1>3, <1>4, <2>3, <2>4, <2>6
       DEF OneRequest, WaitingShowsNobody, CleaningUp, Departed, Foreground
  <2>8. (Restoring(t) /\ FreshTokens(t) /\ Stored(t))'
    BY <1>3, <1>4, <2>1, <2>5, <2>6 DEF Restoring, FreshTokens, Stored
  <2>9. TabInv(t)'
    BY <2>7, <2>8 DEF TabInv
  <2>10. \A d \in Tabs \ {t} : TabInv(d)'
    BY <1>3, <2>4, <2>6, OtherTabs
  <2>11. QED BY <1>2, <1>3, <2>4, <2>5, <2>6, <2>9, <2>10 DEF SessionInv, Typed, Requests
<1>7. CASE ok = FALSE
  <2>1. /\ RequestFails(tab[t]) \in Pages /\ RequestFails(tab[t]).user = Nobody
        /\ ~RequestFails(tab[t]).loading
        /\ RequestFails(tab[t]).mishaps = tab[t].mishaps
    BY <1>2, <1>4 DEF RequestFails, Pages
  <2>2. Becomes(t, RequestFails(tab[t])) /\ storage' = storage /\ signedOut' = signedOut
    BY <1>5, <1>7
  <2>3. /\ tab' \in [Tabs -> Pages] /\ tab'[t].user = Nobody /\ ~tab'[t].loading
        /\ tab'[t].mishaps = tab[t].mishaps /\ \A d \in Tabs \ {t} : tab'[d] = tab[d]
    BY <2>1, <2>2, BecomesType DEF SessionInv
  <2>4. (OneRequest(t) /\ WaitingShowsNobody(t) /\ Restoring(t) /\ CleaningUp(t)
         /\ FreshTokens(t) /\ Stored(t))'
    BY <1>3, <1>4, <2>3
       DEF OneRequest, WaitingShowsNobody, Restoring, CleaningUp, FreshTokens, Stored,
           Foreground
  <2>5. Departed(t)'
    BY <1>1, <1>2, <1>3, <1>4, <2>2, <2>3 DEF TabInv, Departed
  <2>6. Typed'
    BY <1>3, <2>2, <2>3 DEF SessionInv, Typed
  <2>7. TabInv(t)'
    BY <2>4, <2>5 DEF TabInv
  <2>8. QED BY <1>3, <2>2, <2>3, <2>6, <2>7, OnlyThisTab
<1>8. ok \in BOOLEAN
  BY DEF Outcomes
<1>9. QED BY <1>6, <1>7, <1>8

\* The user signs out.
LEMMA SignOutKeepsInv ==
  ASSUME SessionInv, NEW t \in Tabs, SignOut(t)
  PROVE  SessionInv'
<1> DEFINE s == [RequestStarts(tab[t]) EXCEPT !.user = Nobody]
           r == IF storage = NoToken THEN [s EXCEPT !.loading = FALSE] ELSE s
<1>1. tab[t] \in Pages /\ TabInv(t) /\ tab[t].user # Nobody
  BY DEF SessionInv, Typed, SignOut, ShowsApp
<1>2. ~tab[t].loading /\ tab[t].initialized
  BY <1>1 DEF TabInv, WaitingShowsNobody
<1>3. /\ Becomes(t, r)
      /\ requests' = [requests EXCEPT ![t] = @ \cup SignOutRequest("signOut")]
      /\ signedOut' = signedOut \cup {t} /\ storage' = storage /\ submits' = submits
  BY DEF SignOut
<1>4. /\ s \in Pages /\ s.user = Nobody /\ s.loading /\ s.initialized
      /\ s.mishaps = tab[t].mishaps
  BY <1>1, <1>2 DEF RequestStarts, Pages
<1> HIDE DEF s
<1>5. /\ r \in Pages /\ r.user = Nobody /\ r.loading = (storage # NoToken) /\ r.initialized
      /\ r.mishaps = tab[t].mishaps
  <2>1. CASE storage = NoToken
    BY <1>4, <2>1 DEF Pages
  <2>2. CASE storage # NoToken
    BY <1>4, <2>2 DEF Pages
  <2>3. QED BY <2>1, <2>2
<1> HIDE DEF r
<1>6. /\ tab' \in [Tabs -> Pages] /\ tab'[t].user = Nobody
      /\ tab'[t].loading = (storage # NoToken) /\ tab'[t].mishaps = tab[t].mishaps
      /\ \A d \in Tabs \ {t} : tab'[d] = tab[d]
  BY <1>3, <1>5, BecomesType DEF SessionInv
<1>7. /\ SignOutRequest("signOut") \subseteq Requests
      /\ \A p \in SignOutRequest("signOut") : p.kind = "signOut"
      /\ \A p, q \in SignOutRequest("signOut") : p = q
      /\ SignOutRequest("signOut") = {} <=> storage = NoToken
  <2>1. storage \in Tokens \cup {NoToken}
    BY DEF SessionInv, Typed
  <2>2. CASE storage = NoToken
    BY <2>2 DEF SignOutRequest
  <2>3. CASE storage # NoToken
    <3>1. SignOutRequest("signOut") = {[kind |-> "signOut", token |-> storage]}
      BY <2>3 DEF SignOutRequest
    <3>2. [kind |-> "signOut", token |-> storage] \in Requests
      BY <2>1, <2>3 DEF Requests, Kinds
    <3>3. QED BY <2>3, <3>1, <3>2
  <2>4. QED BY <2>2, <2>3
<1>8. /\ requests'[t] = requests[t] \cup SignOutRequest("signOut")
      /\ \A d \in Tabs \ {t} : requests'[d] = requests[d]
      /\ requests' \in [Tabs -> SUBSET Requests]
  BY <1>3, <1>7 DEF SessionInv, Typed
<1>9. \A p \in requests[t] : p.kind = "cleanup"
  BY <1>1, <1>2 DEF TabInv, OneRequest, Foreground
<1>10. OneRequest(t)'
  <2>1. Foreground(t)' = SignOutRequest("signOut")
    BY <1>7, <1>8, <1>9 DEF Foreground
  <2>2. QED BY <1>6, <1>7, <2>1 DEF OneRequest
<1>11. (WaitingShowsNobody(t) /\ Restoring(t) /\ CleaningUp(t) /\ FreshTokens(t) /\ Stored(t))'
  BY <1>6, <1>7, <1>8, <1>9
     DEF WaitingShowsNobody, Restoring, CleaningUp, FreshTokens, Stored
<1>12. Departed(t)'
  BY <1>3, <1>6, <1>7, <1>8, <1>9 DEF Departed
<1>13. Typed'
  BY <1>3, <1>6, <1>8 DEF SessionInv, Typed
<1>14. TabInv(t)'
  BY <1>10, <1>11, <1>12 DEF TabInv
<1>15. QED BY <1>3, <1>6, <1>8, <1>13, <1>14, OnlyThisTab

\* The request of a sign-out ends.
LEMMA SignOutEndsKeepsInv ==
  ASSUME SessionInv, NEW t \in Tabs, SignOutEnds(t)
  PROVE  SessionInv'
<1>1. PICK q \in requests[t] : \E ok \in Outcomes(q) :
        /\ q.kind = "signOut" /\ Done(t, q)
        /\ Store(t, NoToken, [tab[t] EXCEPT !.loading = FALSE, !.error = ~ok, !.next = "/sign-in"])
        /\ UNCHANGED <<submits, signedOut>>
  BY DEF SignOutEnds
<1>2. PICK ok \in Outcomes(q) :
        Store(t, NoToken, [tab[t] EXCEPT !.loading = FALSE, !.error = ~ok, !.next = "/sign-in"])
  BY <1>1
<1> DEFINE r == [tab[t] EXCEPT !.loading = FALSE, !.error = ~ok, !.next = "/sign-in"]
<1>3. q \in Requests /\ tab[t] \in Pages /\ TabInv(t) /\ q \in Foreground(t)
  BY <1>1 DEF SessionInv, Typed, Foreground
<1>4. /\ requests' = [requests EXCEPT ![t] = @ \ {q}]
      /\ requests'[t] = requests[t] \ {q}
      /\ \A d \in Tabs \ {t} : requests'[d] = requests[d]
      /\ requests' \in [Tabs -> SUBSET Requests]
      /\ submits' = submits /\ signedOut' = signedOut
  BY <1>1 DEF Done, SessionInv, Typed
<1>5. tab[t].user = Nobody /\ \A p \in requests[t] \ {q} : p.kind = "cleanup"
  BY <1>3, ForegroundEnds
<1>6. /\ r \in Pages /\ r.user = Nobody /\ r.initialized = tab[t].initialized
      /\ r.loading = FALSE /\ r.mishaps = tab[t].mishaps
  <2>1. ok \in BOOLEAN
    BY DEF Outcomes
  <2>2. QED BY <1>3, <1>5, <2>1 DEF Pages, Paths, AuthRoutes
<1>7. Store(t, NoToken, r) /\ Typed
  BY <1>2 DEF SessionInv
<1> HIDE DEF r
<1>8. storage' = NoToken
  BY <1>7 DEF Store
<1>9. /\ tab' \in [Tabs -> Pages]
      /\ tab'[t].user = Nobody /\ tab'[t].loading = FALSE
      /\ tab'[t].mishaps = tab[t].mishaps
      /\ \A d \in Tabs \ {t} :
           /\ tab'[d].user = tab[d].user /\ tab'[d].initialized = tab[d].initialized
           /\ tab'[d].loading = tab[d].loading
           /\ tab'[d].mishaps = IF storage' # storage THEN tab[d].mishaps \cup {"elsewhere"}
                                ELSE tab[d].mishaps
  BY <1>6, <1>7, <1>8, StoreType
<1>10. (OneRequest(t) /\ WaitingShowsNobody(t) /\ Restoring(t) /\ CleaningUp(t)
        /\ FreshTokens(t) /\ Stored(t))'
  BY <1>4, <1>5, <1>9
     DEF OneRequest, WaitingShowsNobody, Restoring, CleaningUp, FreshTokens, Stored,
         Foreground
<1>11. Departed(t)'
  BY <1>4, <1>5, <1>8, <1>9 DEF Departed
<1>12. TabInv(t)'
  BY <1>10, <1>11 DEF TabInv
<1>13. \A d \in Tabs \ {t} : TabInv(d)'
  BY <1>4, <1>8, <1>9, OtherTabs
<1>14. QED BY <1>4, <1>8, <1>9, <1>12, <1>13 DEF SessionInv, Typed

\* The user goes to another page.
LEMMA VisitKeepsInv ==
  ASSUME SessionInv, NEW t \in Tabs, NEW path \in Paths, Visit(t, path)
  PROVE  SessionInv'
<1>1. tab[t] \in Pages /\ TabInv(t) /\ tab \in [Tabs -> Pages]
  BY DEF SessionInv, Typed
<1>2. /\ tab' = [tab EXCEPT ![t].next = path] /\ requests' = requests
      /\ storage' = storage /\ submits' = submits /\ signedOut' = signedOut
  BY DEF Visit
<1>3. /\ tab'[t] = [tab[t] EXCEPT !.next = path]
      /\ \A d \in Tabs \ {t} : tab'[d] = tab[d]
  BY <1>1, <1>2
<1>4. tab'[t] \in Pages /\ tab'[t].user = tab[t].user /\ tab'[t].loading = tab[t].loading
      /\ tab'[t].initialized = tab[t].initialized /\ tab'[t].mishaps = tab[t].mishaps
  BY <1>1, <1>3 DEF Pages
<1>5. tab' \in [Tabs -> Pages]
  BY <1>1, <1>2, <1>4
<1>6. TabInv(t)'
  BY <1>1, <1>2, <1>4
     DEF TabInv, OneRequest, WaitingShowsNobody, Restoring, CleaningUp, FreshTokens,
         Departed, Stored, Foreground
<1>7. Typed'
  BY <1>2, <1>5 DEF SessionInv, Typed
<1>8. QED BY <1>2, <1>3, <1>6, <1>7, OnlyThisTab

-----------------------------------------------------------------------------
(* The theorems.                                                           *)

\* The invariant holds initially.
LEMMA InitSession == Init => SessionInv
<1> SUFFICES ASSUME Init
             PROVE  SessionInv
  OBVIOUS
<1>1. \A t \in Tabs :
        /\ tab[t] \in Pages /\ tab[t].user = Nobody /\ tab[t].loading = FALSE
        /\ requests[t] = {}
  <2> TAKE t \in Tabs
  <2>1. PICK p \in {"/workspace", "/sign-in"} : tab[t] = [Blank EXCEPT !.next = p]
    BY DEF Init
  <2>2. p \in Paths
    BY DEF Paths, AuthRoutes, ProtectedRoutes
  <2>3. QED BY <2>1, <2>2 DEF Init, Blank, Pages
<1>2. tab \in [Tabs -> Pages]
  BY <1>1 DEF Init
<1>3. Typed
  BY <1>2, SessionAssumption DEF Init, Typed
<1>4. \A t \in Tabs : TabInv(t)
  BY <1>1 DEF Init, TabInv, OneRequest, WaitingShowsNobody, Restoring, CleaningUp,
              FreshTokens, Departed, Stored, Foreground
<1>5. QED BY <1>3, <1>4 DEF SessionInv

\* Every step preserves the invariant.
LEMMA NextKeepsInv == SessionInv /\ [Next]_vars => SessionInv'
<1> SUFFICES ASSUME SessionInv, [Next]_vars
             PROVE  SessionInv'
  OBVIOUS
<1>1. ASSUME NEW t \in Tabs, Load(t)
      PROVE  SessionInv'
  BY <1>1, LoadKeepsInv
<1>2. ASSUME NEW t \in Tabs, Answer(t)
      PROVE  SessionInv'
  BY <1>2, RefreshEndsKeepsInv, CleanupEndsKeepsInv, SubmitEndsKeepsInv, SignOutEndsKeepsInv
     DEF Answer
<1>3. ASSUME NEW t \in Tabs, User(t)
      PROVE  SessionInv'
  <2>1. CASE SubmitSignIn(t)
    <3>1. PICK u \in Users, f \in Forms : Submit(t, "signIn", u, ValidateSignInForm(f))
      BY <2>1 DEF SubmitSignIn
    <3>2. ValidateSignInForm(f) \in SUBSET Faults /\ ~tab[t].loading
      BY <2>1, FaultsOfForms DEF SubmitSignIn
    <3>3. QED BY <3>1, <3>2, SubmitKeepsInv
  <2>2. CASE SubmitSignUp(t)
    <3>1. PICK u \in Users, f \in Forms : Submit(t, "signUp", u, ValidateSignUpForm(f))
      BY <2>2 DEF SubmitSignUp
    <3>2. ValidateSignUpForm(f) \in SUBSET Faults /\ ~tab[t].loading
      BY <2>2, FaultsOfForms DEF SubmitSignUp
    <3>3. QED BY <3>1, <3>2, SubmitKeepsInv
  <2>3. CASE SignOut(t)
    BY <2>3, SignOutKeepsInv
  <2>4. CASE \E p \in Paths : Visit(t, p)
    BY <2>4, VisitKeepsInv
  <2>5. QED BY <1>3, <2>1, <2>2, <2>3, <2>4 DEF User
<1>4. CASE UNCHANGED vars
  BY <1>4 DEF vars, SessionInv, Typed, TabInv, OneRequest, WaitingShowsNobody, Restoring,
              CleaningUp, FreshTokens, Departed, Stored, Foreground
<1>5. QED BY <1>1, <1>2, <1>3, <1>4 DEF Next

\* The invariant implies type correctness.
LEMMA InvMeansTypeOK == SessionInv => TypeOK
<1> SUFFICES ASSUME SessionInv
             PROVE  TypeOK
  OBVIOUS
<1>1. ASSUME NEW t \in Tabs
      PROVE  Cardinality(Foreground(t)) <= 1
  <2>1. CASE Foreground(t) = {}
    BY <2>1, FS_EmptySet
  <2>2. CASE Foreground(t) # {}
    <3>1. PICK q : q \in Foreground(t)
      BY <2>2
    <3>2. Foreground(t) = {q}
      BY <3>1 DEF SessionInv, TabInv, OneRequest
    <3>3. QED BY <3>2, FS_Singleton
  <2>3. QED BY <2>1, <2>2
<1>2. ASSUME NEW t \in Tabs
      PROVE  /\ tab[t].path \in Paths \cup {"blank"} /\ tab[t].next \in Paths \cup {""}
             /\ tab[t].user \in Users \cup {Nobody}
             /\ {tab[t].initialized, tab[t].loading, tab[t].error} \subseteq BOOLEAN
             /\ \A q \in requests[t] : q.token \in Tokens
  <2>1. tab[t] \in Pages /\ requests[t] \subseteq Requests
    BY DEF SessionInv, Typed
  <2>2. tab[t].initialized \in BOOLEAN /\ tab[t].loading \in BOOLEAN /\ tab[t].error \in BOOLEAN
    BY <2>1 DEF Pages
  <2>3. QED BY <2>1, <2>2 DEF Pages, Requests
<1>3. ASSUME NEW t \in Tabs
      PROVE  tab[t].loading <=> \E q \in requests[t] : q.kind # "cleanup"
  BY DEF SessionInv, TabInv, OneRequest, Foreground
<1>4. QED BY <1>1, <1>2, <1>3 DEF TypeOK, SessionInv, Typed, Foreground

\* The invariant holds in every reachable state.
THEOREM SessionInvariant == Spec => []SessionInv
BY InitSession, NextKeepsInv, PTL DEF Spec

\* The provider of a page is loading exactly as long as it waits for an answer,
\* and it waits for one at most (runAuthRequest, useAuth.ts).
THEOREM SessionTypeCorrect == Spec => []TypeOK
BY SessionInvariant, InvMeansTypeOK, PTL

\* Who a page displays as signed in owns the stored token, unless another tab or
\* the cleanup of an older session replaced it (useAuth.ts, authService.ts).
THEOREM DisplayedUserOwnsTheToken == Spec => []SessionIsStored
<1>1. SessionInv => SessionIsStored
  BY DEF SessionInv, TabInv, Stored, SessionIsStored
<1>2. QED BY <1>1, SessionInvariant, PTL

\* Signing out lasts, whatever requests fail, unless the page was replaced before
\* the answer (signOut of useAuth.ts, clearStoredToken of authService.ts).
THEOREM SigningOutLasts == Spec => []SignedOutStaysOut
<1>1. SessionInv => SignedOutStaysOut
  BY DEF SessionInv, Typed, TabInv, Departed, SignedOutStaysOut
<1>2. QED BY <1>1, SessionInvariant, PTL

-----------------------------------------------------------------------------
(* An open dialog, and the page behind it.                                 *)

PageRecords ==
  [rows : SUBSET Rows, menus : SUBSET (Rows \cup {"user"}), dialog : Dialogs \cup {"none"},
   form : {"filled", "loading", "empty", "alone", "shared"}, busy : SUBSET Dialogs,
   leaving : BOOLEAN]

\* The form that is displayed is one of the open dialog.
FormFits(p) == /\ p.form \in {"alone", "shared"} <=> p.dialog = "share"
               /\ p.form \in {"loading", "empty"} => p.dialog = "move"

IsPage(p) == p \in PageRecords /\ FormFits(p)

\* f is the background of the dialog of p or one of its controls that is not disabled.
On(p, f) == f = Dialog \/ f \in {Control(c) : c \in Enabled(p)}

FocusHeld == page.dialog # "none" /\ page.dialog \notin timers /\ ~strayed => On(page, focus)

HoldInv == IsPage(page) /\ PageScrollsAgain /\ saved = "visible" /\ FocusHeld

\* The first and the last of the enabled controls are among them.
LEMMA ControlsGoRound ==
  ASSUME NEW p, IsPage(p), p.dialog # "none"
  PROVE  First(p) \in Enabled(p) /\ Last(p) \in Enabled(p) /\ Focusable(p) \subseteq 1..7
<1>1. Len(Controls(p)) \in 1..7 /\ Controls(p)[1] = "close" /\ DOMAIN Controls(p) = 1..Len(Controls(p))
  <2>. p.dialog # "share" => p.form # "alone" /\ p.form # "shared"
    BY DEF IsPage, FormFits
  <2>1. CASE p.dialog \in {"create", "rename"}
    <3>1. Controls(p) = <<"close", "name", "cancel", "submit">>
      BY <2>1 DEF Controls
    <3> QED BY <3>1
  <2>2. CASE p.dialog = "move"
    <3>1. Controls(p) = <<"close", "target", "cancel", "submit">>
      BY <2>2 DEF Controls
    <3> QED BY <3>1
  <2>3. CASE p.dialog = "delete"
    <3>1. Controls(p) = <<"close", "cancel", "submit">>
      BY <2>3 DEF Controls
    <3> QED BY <3>1
  <2>4. CASE p.dialog = "share" /\ p.form = "alone"
    BY <2>4 DEF Controls
  <2>5. CASE p.dialog = "share" /\ p.form = "shared"
    BY <2>5 DEF Controls
  <2> QED BY <2>1, <2>2, <2>3, <2>4, <2>5 DEF IsPage, PageRecords, FormFits, Dialogs
<1>2. 1 \in Focusable(p) /\ Focusable(p) \subseteq 1..7
  BY <1>1 DEF Focusable, Disabled
<1>3. \E k \in Focusable(p) : \A j \in Focusable(p) : k <= j
  BY <1>2
<1>4. \E k \in Focusable(p) : \A j \in Focusable(p) : j <= k
  <2> DEFINE S == Focusable(p)
  <2> HIDE DEF S
  <2>1. S \subseteq 1..7 /\ 1 \in S
    BY <1>2 DEF S
  <2>2. \E k \in S : \A j \in S : j <= k
    <3>1. CASE 7 \in S BY <3>1, <2>1
    <3>2. CASE 7 \notin S /\ 6 \in S BY <3>2, <2>1
    <3>3. CASE S \subseteq 1..5 /\ 5 \in S BY <3>3, <2>1
    <3>4. CASE S \subseteq 1..4 /\ 4 \in S BY <3>4, <2>1
    <3>5. CASE S \subseteq 1..3 BY <3>5, <2>1
    <3> QED BY <2>1, <3>1, <3>2, <3>3, <3>4, <3>5
  <2> QED BY <2>2 DEF S
<1>5. (CHOOSE k \in Focusable(p) : \A j \in Focusable(p) : k <= j) \in Focusable(p)
  BY <1>3
<1>6. (CHOOSE k \in Focusable(p) : \A j \in Focusable(p) : j <= k) \in Focusable(p)
  BY <1>4
<1> QED BY <1>2, <1>5, <1>6 DEF First, Last, Enabled

\* What the focus may be on in a dialog belongs to it, and can take the focus.
LEMMA OnIsInside ==
  ASSUME NEW p, p.dialog # "none", NEW f, On(p, f)
  PROVE  f \in Inside(p) /\ f \in Takes(p)
<1>1. CASE f = Dialog
  BY <1>1 DEF Inside, Takes
<1>2. ASSUME NEW c \in Enabled(p), f = Control(c) PROVE f \in Inside(p) /\ f \in Takes(p)
  <2>1. \E k \in DOMAIN Controls(p) : c = Controls(p)[k]
    BY DEF Enabled, Focusable
  <2> QED BY <1>2, <2>1 DEF Inside, Takes
<1> QED BY <1>1, <1>2 DEF On

\* What belongs to a dialog is none of a menu, and not the button to create an item.
LEMMA InsideIsApart ==
  ASSUME NEW p, NEW f, f \in Inside(p)
  PROVE  f = Dialog \/ \E c : f = Control(c)
  BY DEF Inside

\* Elements of different sorts are different.
LEMMA ControlsAreApart ==
  ASSUME NEW f, f = Dialog \/ \E c : f = Control(c)
  PROVE  /\ f # New /\ f # Body /\ \A m : f # Trigger(m) /\ f # Menu(m)
         /\ \A m, k : f # Entry(m, k)
         /\ f[1] # "item"
  BY DEF Dialog, Control, New, Body, Trigger, Menu, Entry

-----------------------------------------------------------------------------
(* Rendering.                                                              *)

\* Whatever is displayed next, a dialog that stays open without a rendering keeps the
\* focus if the event left it there, and one that is rendered will take it.
LEMMA DisplayHolds ==
  ASSUME HoldInv, NEW p, IsPage(p), NEW rendered \in BOOLEAN, NEW f, Displays(p, rendered, f),
         p.dialog # "none" /\ p.dialog = page.dialog /\ ~rendered /\ On(page, focus) =>
           On(p, f) /\ p.menus \subseteq page.menus
  PROVE  HoldInv'
<1> DEFINE reruns == rendered \/ p.dialog # page.dialog
           cleans == reruns /\ page.dialog # "none"
<1>1. page' = p /\ strayed' = (strayed /\ p.dialog = page.dialog)
  BY DEF Displays
<1>2. PICK kept \in Keeps(p, f) : Effects(p, rendered, AutoFocus(p, kept))
  BY DEF Displays
<1> DEFINE g == AutoFocus(p, kept)
           returned == IF cleans THEN Focused(p, previous, g) ELSE g
           scrolls == IF cleans THEN saved ELSE overflow
<1>3. /\ focus' = FirstItem(p, returned)
      /\ IF reruns /\ p.dialog # "none"
         THEN saved' = scrolls /\ overflow' = "hidden" /\ timers' = timers \cup {p.dialog}
         ELSE /\ overflow' = scrolls
              /\ IF p.dialog = "none" THEN saved' = "visible" ELSE saved' = saved
              /\ timers' = timers
  BY <1>2 DEF Effects
<1>4. reruns /\ p.dialog # "none" => scrolls = "visible"
  BY DEF HoldInv, PageScrollsAgain
<1>5. saved' = "visible"
  BY <1>3, <1>4 DEF HoldInv
<1>6. PageScrollsAgain'
  BY <1>1, <1>3 DEF HoldInv, PageScrollsAgain
<1>7. FocusHeld'
  <2> SUFFICES ASSUME p.dialog # "none", p.dialog \notin timers', ~strayed'
               PROVE  On(p, focus')
    BY <1>1 DEF FocusHeld
  <2>1. ~reruns /\ timers' = timers
    BY <1>3
  <2>2. ~rendered /\ p.dialog = page.dialog /\ ~strayed /\ p.dialog \notin timers
    BY <1>1, <2>1
  <2>3. On(p, f) /\ p.menus \subseteq page.menus
    BY <2>2 DEF HoldInv, FocusHeld
  <2>4. kept = f
    BY <2>3, OnIsInside DEF Keeps
  <2>5. returned = f
    BY <2>1, <2>2, <2>4 DEF AutoFocus
  <2>6. focus' = f
    BY <1>3, <2>3, <2>5 DEF FirstItem
  <2> QED BY <2>3, <2>6
<1> QED BY <1>1, <1>5, <1>6, <1>7 DEF HoldInv

\* The pages that events lead to are pages.
LEMMA PagesRemain ==
  ASSUME NEW p, IsPage(p)
  PROVE  /\ \A M \in SUBSET p.menus : IsPage([p EXCEPT !.menus = M])
         /\ \A m \in Rows \cup {"user"} : IsPage(ToggleMenu(p, m)) /\ IsPage(OpenMenu(p, m))
         /\ IsPage(ClosedPage(p))
         /\ \A d \in Dialogs : \A q \in Opened(p, d) : IsPage(q)
         /\ p.dialog # "none" => \A q \in Submitted(p) : IsPage(q)
         /\ IsPage([p EXCEPT !.leaving = TRUE])
         /\ \A rows \in SUBSET Rows : IsPage(WithRows(p, rows))
         /\ \A d : IsPage([p EXCEPT !.busy = @ \ {d}])
<1>1. \A M \in SUBSET p.menus : IsPage([p EXCEPT !.menus = M])
  BY DEF IsPage, PageRecords, FormFits
<1>2. \A m \in Rows \cup {"user"} : IsPage(ToggleMenu(p, m)) /\ IsPage(OpenMenu(p, m))
  BY DEF IsPage, PageRecords, FormFits, ToggleMenu, OpenMenu
<1>3. IsPage(ClosedPage(p))
  BY DEF IsPage, PageRecords, FormFits, ClosedPage, Dialogs
<1>4. ASSUME NEW d \in Dialogs, NEW q \in Opened(p, d) PROVE IsPage(q)
  <2>1. PICK form \in {"filled", "loading", "alone", "shared"} :
          /\ q = [p EXCEPT !.dialog = d, !.form = form]
          /\ form \in {"alone", "shared"} <=> d = "share"
          /\ form = "loading" => d = "move"
    BY DEF Opened, Dialogs
  <2> QED BY <2>1 DEF IsPage, PageRecords, FormFits
<1>5. p.dialog # "none" => \A q \in Submitted(p) : IsPage(q)
  BY DEF IsPage, PageRecords, FormFits, Submitted
<1>6. IsPage([p EXCEPT !.leaving = TRUE])
  BY DEF IsPage, PageRecords, FormFits
<1>7. \A rows \in SUBSET Rows : IsPage(WithRows(p, rows))
  BY DEF IsPage, PageRecords, FormFits, WithRows
<1>8. \A d : IsPage([p EXCEPT !.busy = @ \ {d}])
  BY DEF IsPage, PageRecords, FormFits
<1> QED BY <1>1, <1>2, <1>3, <1>4, <1>5, <1>6, <1>7, <1>8

-----------------------------------------------------------------------------
(* Pressing.                                                               *)

\* What Tab can go on from depends on the dialog, its form and its requests.
LEMMA SameControls ==
  ASSUME NEW p, NEW q, q.dialog = p.dialog, q.form = p.form, q.busy = p.busy, NEW f, On(p, f)
  PROVE  On(q, f)
<1>1. Controls(q) = Controls(p)
  BY DEF Controls
<1>2. \A c : Disabled(q, c) <=> Disabled(p, c)
  BY DEF Disabled
<1> QED BY <1>1, <1>2 DEF On, Enabled, Focusable

\* What a click in a dialog can come to.
LEMMA InsideTakes ==
  ASSUME NEW p, p.dialog # "none", NEW f, f \in Inside(p), f \in Takes(p)
  PROVE  On(p, f)
<1>1. /\ f # New /\ f # Body /\ \A m : f # Trigger(m) /\ f # Menu(m)
      /\ \A m, k : f # Entry(m, k)
  BY InsideIsApart, ControlsAreApart
<1> QED BY <1>1 DEF Takes, On, Triggers, InMenu

\* What becomes of the page when e is pressed.
Opens(p, e, q)   == \/ e = New /\ q \in Opened(p, "create")
                    \/ \E m \in p.rows \cup {"user"} :
                         e = Trigger(m) /\ q \in {ToggleMenu(p, m), OpenMenu(p, m)}
Selects(p, e, q) == \E m \in p.menus : \E k \in MenuItems(p, m) : e = Entry(m, k) /\ q \in Select(p, m, k)
Submits(p, e, q) == (\E c : e = Control(c)) /\ q \in Submitted(p)

\* Each element does one thing.
LEMMA Pressing ==
  ASSUME NEW p, NEW e, NEW byKey \in BOOLEAN, NEW q \in Pressed(p, e, byKey)
  PROVE  Opens(p, e, q) \/ Selects(p, e, q) \/ Submits(p, e, q) \/ q = ClosedPage(p) \/ q = p
<1>1. CASE e = New
  <2>1. /\ \A m : e # Trigger(m) /\ e # Menu(m)
        /\ \A m, k : e # Entry(m, k)
        /\ \A c : e # Control(c)
    BY <1>1 DEF New, Trigger, Menu, Entry, Control
  <2>2. Pressed(p, e, byKey) = Opened(p, "create")
    BY <1>1, <2>1 DEF Pressed, InMenu
  <2> QED BY <1>1, <2>2 DEF Opens
<1>2. ASSUME NEW m \in p.rows \cup {"user"}, e = Trigger(m)
      PROVE  Opens(p, e, q)
  <2>1. /\ e # New /\ \A n : e # Menu(n)
        /\ \A n, k : e # Entry(n, k)
        /\ \A c : e # Control(c)
        /\ e[2] = m
    BY <1>2 DEF New, Trigger, Menu, Entry, Control
  <2>2. Pressed(p, e, byKey) = {IF byKey THEN OpenMenu(p, m) ELSE ToggleMenu(p, m)}
    BY <1>2, <2>1 DEF Pressed, InMenu
  <2> QED BY <1>2, <2>2 DEF Opens
<1>3. ASSUME NEW m \in p.menus, NEW k \in MenuItems(p, m), e = Entry(m, k)
      PROVE  Selects(p, e, q)
  <2>1. /\ e # New /\ \A n : e # Trigger(n) /\ e # Menu(n)
        /\ \A c : e # Control(c)
        /\ e[2] = m /\ e[3] = k
    BY <1>3 DEF New, Trigger, Menu, Entry, Control
  <2>2. e \in InMenu(p, m) \ {Menu(m)}
    BY <1>3, <2>1 DEF InMenu
  <2>3. Pressed(p, e, byKey) = Select(p, m, k)
    BY <1>3, <2>1, <2>2 DEF Pressed
  <2> QED BY <1>3, <2>3 DEF Selects
<1>4. CASE /\ e # New /\ \A m \in p.rows \cup {"user"} : e # Trigger(m)
           /\ \A m \in p.menus : \A k \in MenuItems(p, m) : e # Entry(m, k)
  <2>1. \A m \in p.menus : e \notin InMenu(p, m) \ {Menu(m)}
    BY <1>4 DEF InMenu
  <2>2. CASE e \in {Control("close"), Control("cancel")}
    <3>1. e \notin {Control("submit"), Control("name"), Control("email"), Control("row"), Control("remove")}
      BY <2>2 DEF Control
    <3>2. Pressed(p, e, byKey) = {ClosedPage(p)}
      BY <1>4, <2>1, <2>2, <3>1 DEF Pressed
    <3> QED BY <3>2
  <2>3. CASE e \notin {Control("close"), Control("cancel")}
    <3>1. e \in {Control("row"), Control("remove")} =>
            e \notin {Control("submit"), Control("name"), Control("email")}
      BY DEF Control
    <3>2. \/ Pressed(p, e, byKey) = Submitted(p) /\ \E c : e = Control(c)
          \/ Pressed(p, e, byKey) = {p}
      BY <1>4, <2>1, <2>3, <3>1 DEF Pressed
    <3> QED BY <3>2 DEF Submits
  <2> QED BY <2>2, <2>3
<1> QED BY <1>1, <1>2, <1>3, <1>4

\* Whatever is pressed, what is displayed is a page.
LEMMA PressedIsPage ==
  ASSUME NEW p, IsPage(p), NEW e, (\E c : e = Control(c)) => p.dialog # "none",
         NEW byKey \in BOOLEAN, NEW q \in Pressed(p, e, byKey)
  PROVE  IsPage(q)
<1>1. CASE Opens(p, e, q)
  <2>1. p.rows \subseteq Rows
    BY DEF IsPage, PageRecords
  <2> QED BY <1>1, <2>1, PagesRemain DEF Opens, Dialogs
<1>2. CASE Selects(p, e, q)
  <2>1. PICK m \in p.menus : \E k \in MenuItems(p, m) : q \in Select(p, m, k)
    BY <1>2 DEF Selects
  <2>2. PICK k \in MenuItems(p, m) : q \in Select(p, m, k)
    BY <2>1
  <2> DEFINE r == [p EXCEPT !.menus = @ \ {m}]
             entry == Entries(m)[k]
  <2>3. IsPage(r)
    <3>1. p.menus \ {m} \in SUBSET p.menus /\ r = [p EXCEPT !.menus = p.menus \ {m}]
      OBVIOUS
    <3> QED BY <3>1, PagesRemain
  <2>4. Select(p, m, k) = CASE entry \in Dialogs -> Opened(r, entry)
                            [] entry = "logout"  -> {[r EXCEPT !.leaving = TRUE]}
                            [] OTHER             -> {}
    BY DEF Select
  <2> HIDE DEF r, entry
  <2>5. CASE entry \in Dialogs
    <3>1. entry # "logout"
      BY <2>5 DEF Dialogs
    <3> QED BY <2>2, <2>3, <2>4, <2>5, <3>1, PagesRemain
  <2>6. CASE entry \notin Dialogs
    <3>1. q = [r EXCEPT !.leaving = TRUE]
      BY <2>2, <2>4, <2>6
    <3> QED BY <2>3, <3>1, PagesRemain
  <2> QED BY <2>5, <2>6
<1>3. CASE Submits(p, e, q)
  BY <1>3, PagesRemain DEF Submits
<1>4. q \in {ClosedPage(p), p} => IsPage(q)
  BY PagesRemain
<1>5. Opens(p, e, q) \/ Selects(p, e, q) \/ Submits(p, e, q) \/ q = ClosedPage(p) \/ q = p
  BY Pressing
<1> QED BY <1>1, <1>2, <1>3, <1>4, <1>5

\* Whatever is pressed in a dialog, without a rendering everything stays.
LEMMA PressedInside ==
  ASSUME NEW p, NEW e, e = Dialog \/ \E c : e = Control(c),
         p \in PageRecords, NEW byKey \in BOOLEAN, NEW q \in Pressed(p, e, byKey), q.dialog # "none"
  PROVE  q.dialog = p.dialog /\ q.form = p.form /\ q.menus = p.menus
<1>1. ~Opens(p, e, q) /\ ~Selects(p, e, q)
  BY ControlsAreApart DEF Opens, Selects
<1>2. Submits(p, e, q) => q.dialog = p.dialog /\ q.form = p.form /\ q.menus = p.menus
  BY DEF Submits, Submitted, PageRecords
<1>3. q # ClosedPage(p)
  BY DEF ClosedPage, PageRecords
<1> QED BY <1>1, <1>2, <1>3, Pressing

-----------------------------------------------------------------------------
(* The events.                                                             *)

\* What is rendered is said.
LEMMA RendersSays ==
  ASSUME NEW p, NEW e
  PROVE  /\ Renders(p, e) \in BOOLEAN
         /\ ~Renders(p, e) => p.dialog = page.dialog /\ p.busy = page.busy
  BY DEF Renders

\* An element that takes the focus is none of a dialog, unless one is open.
LEMMA TakesOpen ==
  ASSUME NEW p, NEW e \in Takes(p), \E c : e = Control(c)
  PROVE  p.dialog # "none"
<1>1. /\ e # New /\ e # Body /\ \A m : e # Trigger(m) /\ e # Menu(m)
      /\ \A m, k : e # Entry(m, k)
  BY ControlsAreApart
<1> QED BY <1>1 DEF Takes, Triggers, InMenu

\* Enter or space: the focus is in the dialog, and the page behind hears nothing.
LEMMA EnterHolds ==
  ASSUME HoldInv, PressEnter PROVE HoldInv'
<1>1. PICK p \in Pressed(page, focus, TRUE) : Displays(p, Renders(p, focus), focus)
  BY DEF PressEnter
<1>2. focus \in Takes(page)
  BY DEF PressEnter
<1>3. IsPage(p)
  BY <1>1, <1>2, TakesOpen, PressedIsPage DEF HoldInv
<1>4. ASSUME p.dialog # "none", ~Renders(p, focus), On(page, focus)
      PROVE  On(p, focus) /\ p.menus \subseteq page.menus
  <2>1. focus = Dialog \/ \E c : focus = Control(c)
    BY <1>4 DEF On
  <2>2. page \in PageRecords
    BY DEF HoldInv, IsPage
  <2>3. p.dialog = page.dialog /\ p.form = page.form /\ p.menus = page.menus
    BY <1>1, <1>4, <2>1, <2>2, PressedInside
  <2> QED BY <1>4, <2>3, RendersSays, SameControls
<1> QED BY <1>1, <1>3, <1>4, RendersSays, DisplayHolds

\* A click: an open dialog covers everything else.
LEMMA ClickHolds ==
  ASSUME HoldInv, NEW e, Click(e) PROVE HoldInv'
<1> DEFINE M == {m \in page.menus : e \in {Trigger(m)} \cup InMenu(page, m)}
           p == [page EXCEPT !.menus = {m \in @ : e \in {Trigger(m)} \cup InMenu(page, m)}]
<1>1. /\ e \in Takes(page)
      /\ page.dialog # "none" => e \in Inside(page)
      /\ \E q \in Pressed(p, e, FALSE) : Displays(q, Renders(q, e), e)
  BY DEF Click
<1>2. PICK q \in Pressed(p, e, FALSE) : Displays(q, Renders(q, e), e)
  BY <1>1
<1>3. page \in PageRecords /\ IsPage(page)
  BY DEF HoldInv, IsPage
<1>4. p = [page EXCEPT !.menus = M] /\ M \in SUBSET page.menus
  BY <1>3 DEF PageRecords
<1>5. IsPage(p) /\ p.dialog = page.dialog /\ p.form = page.form /\ p.menus = M
  BY <1>3, <1>4, PagesRemain DEF PageRecords
<1> HIDE DEF p, M
<1>6. IsPage(q)
  BY <1>1, <1>5, TakesOpen, PressedIsPage
<1>7. ASSUME q.dialog # "none", q.dialog = page.dialog, ~Renders(q, e)
      PROVE  On(q, e) /\ q.menus \subseteq page.menus
  <2>1. On(page, e)
    BY <1>1, <1>7, InsideTakes
  <2>2. e = Dialog \/ \E c : e = Control(c)
    BY <2>1 DEF On
  <2>3. q.dialog = p.dialog /\ q.form = p.form /\ q.menus = p.menus
    BY <1>5, <1>7, <2>2, PressedInside DEF IsPage
  <2>4. On(q, e)
    BY <1>5, <1>7, <2>1, <2>3, RendersSays, SameControls
  <2> QED BY <1>4, <1>5, <2>3, <2>4
<1> QED BY <1>2, <1>6, <1>7, RendersSays, DisplayHolds

\* Escape and clicks beside close the dialog.
LEMMA ClosingHolds ==
  ASSUME HoldInv, PressEscape \/ ClickBeside PROVE HoldInv'
<1> DEFINE p == [page EXCEPT !.menus = {}]
<1>1. IsPage(page) /\ page \in PageRecords
  BY DEF HoldInv, IsPage
<1>2. IsPage(p) /\ IsPage(ClosedPage(p))
  BY <1>1, PagesRemain
<1>3. ClosedPage(p).dialog = "none" /\ p.dialog = page.dialog
  BY <1>1 DEF ClosedPage, PageRecords
<1> HIDE DEF p
<1>4. \E f, q : /\ Displays(q, FALSE, f) /\ IsPage(q) /\ q.dialog = "none"
  <2>1. CASE PressEscape
    BY <2>1, <1>2, <1>3 DEF PressEscape, p
  <2>2. CASE ClickBeside
    BY <2>2, <1>2, <1>3 DEF ClickBeside, p
  <2> QED BY <2>1, <2>2
<1> QED BY <1>4, DisplayHolds

\* Tab goes round in the dialog, unless its background has the focus.
LEMMA TabHolds ==
  ASSUME HoldInv, NEW shift \in BOOLEAN, PressTab(shift) PROVE HoldInv'
<1>1. UNCHANGED <<page, overflow, saved, timers>>
  BY DEF PressTab
<1>2. FocusHeld'
  <2> SUFFICES ASSUME page.dialog # "none", page.dialog \notin timers, ~strayed'
               PROVE  On(page, focus')
    BY <1>1 DEF FocusHeld, On, Enabled, Focusable
  <2>1. IsPage(page)
    BY DEF HoldInv
  <2>2. ~strayed
    BY DEF PressTab
  <2>3. On(page, focus) /\ focus \in Inside(page)
    BY <2>2, OnIsInside DEF HoldInv, FocusHeld
  <2>4. focus' \in TabsTo(shift) /\ ~(focus = Dialog /\ focus' \notin Inside(page))
    BY <2>3 DEF PressTab
  <2>5. CASE focus' \in {Control(First(page)), Control(Last(page))}
    BY <2>1, <2>5, ControlsGoRound DEF On
  <2>6. ASSUME focus' \in Neighbour(Position, shift),
               ~(shift /\ focus = Control(First(page))), ~(~shift /\ focus = Control(Last(page)))
        PROVE  On(page, focus')
    <3> DEFINE there == {k \in Focusable(page) : IF shift THEN k < Position ELSE k > Position}
    <3>1. CASE \E k \in Focusable(page) : focus' = Control(Controls(page)[k])
      BY <3>1 DEF On, Enabled
    <3>2. CASE there = {} /\ focus' \in Outside(page)
      <4>1. focus' \notin {Control(c) : c \in Enabled(page)} /\ focus' \notin Inside(page)
        <5>1. ASSUME focus' = Dialog \/ \E c : focus' = Control(c) PROVE FALSE
          <6>1. /\ focus' # New /\ focus' # Body /\ \A m : focus' # Trigger(m) /\ focus' # Menu(m)
                /\ \A m, k : focus' # Entry(m, k)
            BY <5>1, ControlsAreApart
          <6> QED BY <6>1, <3>2 DEF Outside, Triggers, InMenu
        <5> QED BY <5>1, InsideIsApart
      <4>2. focus # Dialog
        BY <4>1, <2>4
      <4>3. PICK c \in Enabled(page) : focus = Control(c)
        BY <4>2, <2>3 DEF On
      <4> DEFINE at == Position
      <4>4. at \in DOMAIN Controls(page) /\ Controls(page)[at] = c
        <5>1. \E k \in DOMAIN Controls(page) : focus = Control(Controls(page)[k])
          BY <4>3 DEF Enabled, Focusable
        <5>2. at \in DOMAIN Controls(page) /\ focus = Control(Controls(page)[at])
          BY <4>2, <5>1 DEF Position
        <5> QED BY <4>3, <5>2 DEF Control
      <4>5. at \in Focusable(page)
        BY <4>3, <4>4 DEF Enabled, Focusable
      <4>6. Focusable(page) \subseteq 1..7
        BY <2>1, ControlsGoRound
      <4>7. \A k \in Focusable(page) : IF shift THEN at <= k ELSE k <= at
        BY <3>2, <4>5, <4>6
      <4> HIDE DEF at
      <4>8. CASE shift
        <5>1. (CHOOSE k \in Focusable(page) : \A j \in Focusable(page) : k <= j) = at
          BY <4>5, <4>6, <4>7, <4>8
        <5> QED BY <2>6, <4>3, <4>4, <4>8, <5>1 DEF First
      <4>9. CASE ~shift
        <5>1. (CHOOSE k \in Focusable(page) : \A j \in Focusable(page) : j <= k) = at
          BY <4>5, <4>6, <4>7, <4>9
        <5> QED BY <2>6, <4>3, <4>4, <4>9, <5>1 DEF Last
      <4> QED BY <4>8, <4>9
    <3> QED BY <2>6, <3>1, <3>2 DEF Neighbour
  <2> QED BY <2>4, <2>5, <2>6 DEF TabsTo
<1> QED BY <1>1, <1>2 DEF HoldInv, PageScrollsAgain

\* Keys of menus do nothing in a dialog.
LEMMA MenuKeysHold ==
  ASSUME HoldInv, NEW m \in Rows \cup {"user"},
         TriggerKey(m) \/ \E key \in {"down", "up", "home", "end"} : MenuKey(m, key)
  PROVE  HoldInv'
<1>1. ASSUME On(page, focus) PROVE focus # Trigger(m) /\ focus \notin InMenu(page, m)
  BY <1>1, ControlsAreApart DEF On, InMenu
<1>2. CASE TriggerKey(m)
  BY <1>1, <1>2, PagesRemain, DisplayHolds DEF TriggerKey, HoldInv
<1>3. ASSUME NEW key, MenuKey(m, key) PROVE HoldInv'
  BY <1>1, <1>3 DEF MenuKey, HoldInv, PageScrollsAgain, FocusHeld
<1> QED BY <1>2, <1>3

\* The timeout of the open dialog focuses its first control that is not disabled.
LEMMA TimerHolds ==
  ASSUME HoldInv, NEW d, TimerFires(d) PROVE HoldInv'
<1>1. UNCHANGED <<page, overflow, saved>> /\ timers' = timers \ {d}
  BY DEF TimerFires
<1>2. FocusHeld'
  <2> SUFFICES ASSUME page.dialog # "none", page.dialog \notin timers', ~strayed'
               PROVE  On(page, focus')
    BY <1>1 DEF FocusHeld, On, Enabled, Focusable
  <2>1. CASE page.dialog = d
    BY <2>1, ControlsGoRound DEF TimerFires, HoldInv, On
  <2>2. CASE page.dialog # d
    BY <2>2, <1>1 DEF TimerFires, HoldInv, FocusHeld
  <2> QED BY <2>1, <2>2
<1> QED BY <1>1, <1>2 DEF HoldInv, PageScrollsAgain

\* Choosing a target enables what it was needed for.
LEMMA ChoiceHolds ==
  ASSUME HoldInv, ChooseTarget PROVE HoldInv'
<1> DEFINE p == [page EXCEPT !.form = "filled"]
<1>1. Displays(p, FALSE, focus) /\ page.form = "empty"
  BY DEF ChooseTarget
<1>2. IsPage(page) /\ page \in PageRecords
  BY DEF HoldInv, IsPage
<1>3. p.dialog = "move" /\ page.dialog = "move" /\ p.menus = page.menus /\ p.form = "filled"
      /\ p.busy = page.busy
  BY <1>1, <1>2 DEF IsPage, FormFits, PageRecords
<1>4. IsPage(p)
  BY <1>1, <1>2, <1>3 DEF IsPage, FormFits, PageRecords
<1> HIDE DEF p
<1>5. Controls(p) = Controls(page)
  <2>1. Controls(p) = <<"close", "target", "cancel", "submit">>
    BY <1>3 DEF Controls
  <2>2. Controls(page) = <<"close", "target", "cancel", "submit">>
    BY <1>1, <1>3 DEF Controls
  <2> QED BY <2>1, <2>2
<1>6. \A c : Disabled(p, c) => Disabled(page, c)
  BY <1>1, <1>3 DEF Disabled
<1>7. On(page, focus) => On(p, focus)
  BY <1>5, <1>6 DEF On, Enabled, Focusable
<1> QED BY <1>1, <1>3, <1>4, <1>7, DisplayHolds

\* What is rendered will take the focus.
LEMMA AnswersHold ==
  ASSUME HoldInv,
         \/ TargetsEnd \/ \E form \in {"alone", "shared"} : CollaboratorsEnd(form)
         \/ \E rows \in SUBSET Rows :
              ListingEnds(rows) \/ \E d \in Dialogs, ok \in BOOLEAN : MutationEnds(d, ok, rows)
  PROVE  HoldInv'
<1>1. IsPage(page) /\ page \in PageRecords
  BY DEF HoldInv, IsPage
<1>2. ASSUME NEW p, IsPage(p), Displays(p, TRUE, focus) PROVE HoldInv'
  BY <1>2, DisplayHolds
<1>3. CASE TargetsEnd
  <2>1. IsPage([page EXCEPT !.form = "empty"])
    BY <1>1, <1>3 DEF TargetsEnd, IsPage, PageRecords, FormFits
  <2> QED BY <1>2, <1>3, <2>1 DEF TargetsEnd
<1>4. ASSUME NEW form \in {"alone", "shared"}, CollaboratorsEnd(form) PROVE HoldInv'
  <2>1. IsPage([page EXCEPT !.form = form])
    BY <1>1, <1>4 DEF CollaboratorsEnd, IsPage, PageRecords, FormFits
  <2> QED BY <1>2, <1>4, <2>1 DEF CollaboratorsEnd
<1>5. ASSUME NEW rows \in SUBSET Rows, ListingEnds(rows) PROVE HoldInv'
  BY <1>1, <1>2, <1>5, PagesRemain DEF ListingEnds
<1>6. ASSUME NEW rows \in SUBSET Rows, NEW d \in Dialogs, NEW ok \in BOOLEAN, MutationEnds(d, ok, rows)
      PROVE  HoldInv'
  <2> DEFINE b == [page EXCEPT !.busy = @ \ {d}]
             p == WithRows(b, rows)
  <2>1. IsPage(b)
    BY <1>1, PagesRemain
  <2> HIDE DEF b
  <2>2. IsPage(p)
    BY <2>1, PagesRemain
  <2>3. IsPage(ClosedPage(p))
    BY <2>2, PagesRemain
  <2>4. Displays(IF ok /\ d # "share" THEN ClosedPage(p) ELSE p, TRUE, focus)
    BY <1>6 DEF MutationEnds, b
  <2> HIDE DEF p
  <2> QED BY <1>2, <2>2, <2>3, <2>4
<1> QED BY <1>3, <1>4, <1>5, <1>6

-----------------------------------------------------------------------------
(* The theorems.                                                           *)

\* The invariant holds at first, with no dialog open.
LEMMA HoldStarts ==
  ASSUME OverlayInit PROVE HoldInv
  BY DEF OverlayInit, HoldInv, IsPage, PageRecords, FormFits, PageScrollsAgain, FocusHeld, Dialogs

\* Every step keeps it.
LEMMA HoldKept ==
  ASSUME HoldInv, [OverlayNext]_overlayVars PROVE HoldInv'
<1>1. CASE PressEnter
  BY <1>1, EnterHolds
<1>2. CASE PressEscape \/ ClickBeside
  BY <1>2, ClosingHolds
<1>3. CASE ChooseTarget
  BY <1>3, ChoiceHolds
<1>4. ASSUME NEW shift \in BOOLEAN, PressTab(shift) PROVE HoldInv'
  BY <1>4, TabHolds
<1>5. ASSUME NEW e \in Takes(page), Click(e) PROVE HoldInv'
  BY <1>5, ClickHolds
<1>6. ASSUME NEW m \in Rows \cup {"user"},
             TriggerKey(m) \/ \E key \in {"down", "up", "home", "end"} : MenuKey(m, key)
      PROVE  HoldInv'
  BY <1>6, MenuKeysHold
<1>7. ASSUME NEW d \in Dialogs, TimerFires(d) PROVE HoldInv'
  BY <1>7, TimerHolds
<1>8. CASE \/ TargetsEnd \/ \E form \in {"alone", "shared"} : CollaboratorsEnd(form)
           \/ \E rows \in SUBSET Rows :
                ListingEnds(rows) \/ \E d \in Dialogs, ok \in BOOLEAN : MutationEnds(d, ok, rows)
  BY <1>8, AnswersHold
<1>9. CASE UNCHANGED overlayVars
  BY <1>9 DEF overlayVars, HoldInv, PageScrollsAgain, FocusHeld, On, Enabled, Focusable
<1>10. UserStep => HoldInv'
  BY <1>1, <1>2, <1>3, <1>4, <1>5, <1>6 DEF UserStep
<1> QED BY <1>7, <1>8, <1>9, <1>10 DEF OverlayNext

\* Without a timeout due, the focus is on what Tab can go on from, and the scrolling that
\* will be given back is that of a page without dialogs (ModalContent's effect).
THEOREM HoldInvariant == OverlaySpec => []HoldInv
  BY HoldStarts, HoldKept, PTL DEF OverlaySpec

\* An open dialog has the focus once its timeout has run, unless Shift and Tab were
\* pressed on its background, and the page behind can be scrolled exactly while none
\* is open (handleKeyDown and the effect of ModalContent).
THEOREM DialogsHoldThePage == OverlaySpec => []DialogHoldsThePage
<1>1. HoldInv => DialogHoldsThePage
  BY OnIsInside DEF HoldInv, FocusHeld, DialogHoldsThePage, FocusStaysInDialog
<1> QED BY <1>1, HoldInvariant, PTL
==============================================================================
