----------------------------- MODULE AuthSession -----------------------------
(***************************************************************************)
(* The session of the browser: features/auth/hooks/useAuth.ts (the         *)
(* provider), services/authService.ts and the clients it calls, the token  *)
(* in localStorage, and what app/routes/AppRouter.tsx makes of them.       *)
(*                                                                         *)
(* A tab holds a page. Its state is lost when another page is loaded in    *)
(* the tab, and with it the requests under way; until the other page is    *)
(* there, the old one keeps running. The token is shared by the tabs. Each *)
(* page restores the session of the stored token when it starts.           *)
(*                                                                         *)
(* The server checks the token a request was sent with: its answer depends *)
(* on nothing else.                                                        *)
(***************************************************************************)
EXTENDS Integers, FiniteSets

CONSTANTS Tabs, Users,
          Forms,         \* the forms a user may submit, see SignUpForms
          InitialTokens, \* what may be stored at first
          MaxSubmits     \* bound: forms submitted

Nobody  == "nobody"
NoToken == [owner |-> Nobody, stale |-> FALSE]
Tokens  == [owner : Users, stale : BOOLEAN]

AuthRoutes      == {"/sign-in", "/sign-up"}
ProtectedRoutes == {"/workspace", "/profile", "/settings"}
DefaultRoute    == "/workspace"

\* A path that is no route stands for any other one.
Paths == AuthRoutes \cup ProtectedRoutes \cup {"/elsewhere"}

SignUpForms == [fullName : {"", "name"}, email : {"", "bad", "good"},
                password : {"", "short", "long"}, repeated : BOOLEAN, accepted : BOOLEAN]

ASSUME SessionAssumption ==
  /\ Nobody \notin Users /\ InitialTokens \subseteq Tokens \cup {NoToken}
  /\ Forms \subseteq SignUpForms /\ MaxSubmits \in Nat

VARIABLES tab,       \* the provider's state, with the page and the next one
          requests,  \* the requests of every tab that are under way
          storage,   \* the stored token
          submits,   \* forms submitted so far
          signedOut  \* history: the tabs that signed out since anybody signed in

vars == <<tab, requests, storage, submits, signedOut>>

\* mishaps is history no code keeps: what happened to a page after which it need
\* not behave as the properties say, each possible in the code as it stands.
\*   elsewhere  another tab changed the stored token
\*   overtaken  a session began before the cleanup of an older one was answered
\*   unloaded   a page of the tab was replaced before its sign-out was answered
Blank == [path |-> "blank", user |-> Nobody, initialized |-> FALSE, loading |-> FALSE,
          error |-> FALSE, invalid |-> {}, next |-> "", mishaps |-> {}]

Init ==
  /\ tab \in [Tabs -> {[Blank EXCEPT !.next = p] : p \in {"/workspace", "/sign-in"}}]
  /\ requests = [t \in Tabs |-> {}]
  /\ storage \in InitialTokens
  /\ submits = 0 /\ signedOut = {}

-----------------------------------------------------------------------------
(* The router.                                                             *)

\* An unknown path shows the default route.
RouteOf(path) == IF path \in AuthRoutes \cup ProtectedRoutes THEN path ELSE DefaultRoute

Target(r) ==
  CASE RouteOf(r.path) \in AuthRoutes /\ r.initialized /\ r.user # Nobody -> DefaultRoute
    [] RouteOf(r.path) \in ProtectedRoutes /\ r.initialized /\ r.user = Nobody -> "/sign-in"
    [] OTHER -> r.path

\* Rendering a redirection starts to load another page.
Rendered(r) == IF Target(r) = r.path THEN r ELSE [r EXCEPT !.next = Target(r)]

Becomes(t, r) == tab' = [tab EXCEPT ![t] = Rendered(r)]

ShowsForm(r) == RouteOf(r.path) \in AuthRoutes /\ Target(r) = r.path
ShowsApp(r)  == RouteOf(r.path) \in ProtectedRoutes /\ r.initialized /\ r.user # Nobody

-----------------------------------------------------------------------------
(* The provider and its requests.                                          *)

\* runAuthRequest.
RequestStarts(r)      == [r EXCEPT !.loading = TRUE, !.error = FALSE]
RequestSucceeds(r, u) == [r EXCEPT !.user = u, !.loading = FALSE, !.initialized = TRUE]
RequestFails(r)       == [r EXCEPT !.error = TRUE, !.loading = FALSE, !.initialized = TRUE]

\* getCurrentUser, sent with the token of the moment.
Refresh == [kind |-> "refresh", token |-> storage]

\* authClient.signOut is sent if there is a token.
SignOutRequest(kind) == IF storage = NoToken THEN {} ELSE {[kind |-> kind, token |-> storage]}

Submission(kind, u) == [kind |-> kind, token |-> [owner |-> u, stale |-> FALSE]]

Done(t, q) == requests' = [requests EXCEPT ![t] = @ \ {q}]

\* Whether a request is granted: the server refuses stale tokens, and every
\* request may fail on the way.
Outcomes(q) == {FALSE} \cup (IF q.token.stale THEN {} ELSE {TRUE})

Mishap(r, name, happened) == [r EXCEPT !.mishaps = IF happened THEN @ \cup {name} ELSE @]

\* A token is stored or cleared by tab t, whose state becomes r.
Store(t, token, r) ==
  /\ storage' = token
  /\ tab' = [d \in Tabs |-> IF d = t THEN Rendered(r)
                            ELSE Mishap(tab[d], "elsewhere", token # storage)]

NextMishaps(t) == (tab[t].mishaps \cap {"unloaded"})
                  \cup {"unloaded" : q \in {p \in requests[t] : p.kind = "signOut"}}

\* Mistake: the requests of the page before are taken over.
LoadKeeping(t) ==
  /\ tab[t].next # ""
  /\ LET page == [Blank EXCEPT !.path = tab[t].next]
     IN  IF storage = NoToken
         THEN Becomes(t, RequestSucceeds(page, Nobody)) /\ UNCHANGED requests
         ELSE /\ Becomes(t, RequestStarts(page))
              /\ requests' = [requests EXCEPT ![t] = @ \cup {Refresh}]
  /\ UNCHANGED <<storage, submits, signedOut>>

\* Another page replaces the one of a tab, and restores the stored session.
\* Without a token there is nobody, at once.
Load(t) ==
  /\ tab[t].next # ""
  /\ LET page == [Blank EXCEPT !.path = tab[t].next,
                               !.mishaps = NextMishaps(t)]
     IN  IF storage = NoToken
         THEN Becomes(t, RequestSucceeds(page, Nobody)) /\ requests' = [requests EXCEPT ![t] = {}]
         ELSE /\ Becomes(t, RequestStarts(page))
              /\ requests' = [requests EXCEPT ![t] = {Refresh}]
  /\ UNCHANGED <<storage, submits, signedOut>>

\* Mistake: a restoration that failed leaves the provider uninitialized.
RefreshEndsSilently(t) ==
  \E q \in requests[t] : \E ok \in Outcomes(q) :
    /\ q.kind = "refresh"
    /\ Done(t, q)
    /\ Becomes(t, IF ok THEN RequestSucceeds(tab[t], q.token.owner)
                  ELSE [tab[t] EXCEPT !.error = TRUE, !.loading = FALSE])
    /\ UNCHANGED <<storage, submits, signedOut>>

\* A session that cannot be restored is signed out, in the background.
RefreshEnds(t) ==
  \E q \in requests[t] : \E ok \in Outcomes(q) :
    /\ q.kind = "refresh"
    /\ IF ok
       THEN Becomes(t, RequestSucceeds(tab[t], q.token.owner)) /\ Done(t, q)
       ELSE /\ Becomes(t, [RequestFails(tab[t]) EXCEPT !.user = Nobody])
            /\ requests' = [requests EXCEPT ![t] = (@ \ {q}) \cup SignOutRequest("cleanup")]
    /\ UNCHANGED <<storage, submits, signedOut>>

\* resetApplicationState follows the answer, whatever it is.
CleanupEnds(t) ==
  \E q \in requests[t] :
    /\ q.kind = "cleanup"
    /\ Done(t, q)
    /\ Store(t, NoToken, tab[t])
    /\ UNCHANGED <<submits, signedOut>>

-----------------------------------------------------------------------------
(* Signing in and up.                                                      *)

ValidateEmail(email)       == IF email = "good" THEN {} ELSE {"email"}
ValidatePassword(password) == IF password = "long" THEN {} ELSE {"password"}

ValidateSignInForm(f) == ValidateEmail(f.email) \cup ValidatePassword(f.password)

ValidateSignUpForm(f) ==
  ValidateSignInForm(f) \cup (IF f.fullName = "" THEN {"fullName"} ELSE {})
  \cup (IF f.repeated /\ f.password # "" THEN {} ELSE {"confirmPassword"})
  \cup (IF f.accepted THEN {} ELSE {"acceptedTerms"})

\* A form with errors is shown with them and not sent.
Submit(t, kind, u, invalid) ==
  /\ ShowsForm(tab[t])
  /\ submits < MaxSubmits /\ submits' = submits + 1
  /\ IF invalid # {}
     THEN tab' = [tab EXCEPT ![t].invalid = invalid] /\ UNCHANGED requests
     ELSE /\ Becomes(t, [RequestStarts(tab[t]) EXCEPT !.invalid = {}])
          /\ requests' = [requests EXCEPT ![t] = @ \cup {Submission(kind, u)}]
  /\ UNCHANGED <<storage, signedOut>>

\* The form of a page, with anything in its fields; its button is disabled while the
\* provider is loading.
SubmitSignIn(t) ==
  /\ tab[t].path = "/sign-in" /\ ~tab[t].loading
  /\ \E u \in Users, f \in Forms : Submit(t, "signIn", u, ValidateSignInForm(f))

SubmitSignUp(t) ==
  /\ tab[t].path = "/sign-up" /\ ~tab[t].loading
  /\ \E u \in Users, f \in Forms : Submit(t, "signUp", u, ValidateSignUpForm(f))

\* Mistake: the token is not kept.
SubmitEndsUnstored(t) ==
  \E q \in requests[t] : \E ok \in Outcomes(q) :
    /\ q.kind \in {"signIn", "signUp"}
    /\ Done(t, q)
    /\ Becomes(t, IF ok THEN [RequestSucceeds(tab[t], q.token.owner) EXCEPT !.next = DefaultRoute]
                  ELSE RequestFails(tab[t]))
    /\ UNCHANGED <<storage, submits, signedOut>>

\* The new token is stored and the landing page is opened.
SubmitEnds(t) ==
  \E q \in requests[t] : \E ok \in Outcomes(q) :
    /\ q.kind \in {"signIn", "signUp"}
    /\ Done(t, q)
    /\ IF ok
       THEN Store(t, q.token, Mishap([RequestSucceeds(tab[t], q.token.owner)
                                        EXCEPT !.next = DefaultRoute],
                                     "overtaken", \E p \in requests[t] : p.kind = "cleanup"))
       ELSE Becomes(t, RequestFails(tab[t])) /\ UNCHANGED storage
    /\ signedOut' = IF ok THEN {} ELSE signedOut
    /\ UNCHANGED submits

-----------------------------------------------------------------------------
(* Signing out.                                                            *)

\* The user is gone at once; the stored token is cleared after the answer, or
\* now if there is no token to sign out.
SignOut(t) ==
  /\ ShowsApp(tab[t])
  /\ LET r == [RequestStarts(tab[t]) EXCEPT !.user = Nobody]
     IN  Becomes(t, IF storage = NoToken THEN [r EXCEPT !.loading = FALSE] ELSE r)
  /\ requests' = [requests EXCEPT ![t] = @ \cup SignOutRequest("signOut")]
  /\ signedOut' = signedOut \cup {t}
  /\ UNCHANGED <<storage, submits>>

\* Mistake: the token stays if the request failed.
SignOutEndsOnSuccess(t) ==
  \E q \in requests[t] : \E ok \in Outcomes(q) :
    /\ q.kind = "signOut"
    /\ Done(t, q)
    /\ Becomes(t, [tab[t] EXCEPT !.loading = FALSE, !.error = ~ok, !.next = "/sign-in"])
    /\ storage' = IF ok THEN NoToken ELSE storage
    /\ UNCHANGED <<submits, signedOut>>

SignOutEnds(t) ==
  \E q \in requests[t] : \E ok \in Outcomes(q) :
    /\ q.kind = "signOut"
    /\ Done(t, q)
    /\ Store(t, NoToken, [tab[t] EXCEPT !.loading = FALSE, !.error = ~ok, !.next = "/sign-in"])
    /\ UNCHANGED <<submits, signedOut>>

\* The user follows a link of the page.
Visit(t, path) ==
  /\ tab[t].next = ""
  /\ \/ ShowsApp(tab[t]) /\ path \in {"/profile", "/settings", "/elsewhere"}
     \/ ShowsForm(tab[t]) /\ path \in AuthRoutes \ {tab[t].path}
  /\ tab' = [tab EXCEPT ![t].next = path]
  /\ UNCHANGED <<requests, storage, submits, signedOut>>

-----------------------------------------------------------------------------
Answer(t) == RefreshEnds(t) \/ CleanupEnds(t) \/ SubmitEnds(t) \/ SignOutEnds(t)

User(t) == SubmitSignIn(t) \/ SubmitSignUp(t) \/ SignOut(t) \/ \E p \in Paths : Visit(t, p)

Next == \E t \in Tabs : Load(t) \/ Answer(t) \/ User(t)

Spec == Init /\ [][Next]_vars

\* Pages are loaded and requests are answered, or fail.
FairSpec == Spec /\ \A t \in Tabs : WF_vars(Load(t)) /\ WF_vars(Answer(t))
-----------------------------------------------------------------------------
(* Properties.                                                             *)

\* The provider is loading as long as it has a request under way that is not in
\* the background, and it has no other one: the requests of a page end with it.
TypeOK ==
  /\ \A t \in Tabs :
       /\ tab[t].path \in Paths \cup {"blank"} /\ tab[t].next \in Paths \cup {""}
       /\ tab[t].user \in Users \cup {Nobody}
       /\ {tab[t].initialized, tab[t].loading, tab[t].error} \subseteq BOOLEAN
       /\ tab[t].loading <=> \E q \in requests[t] : q.kind # "cleanup"
       /\ Cardinality({q \in requests[t] : q.kind # "cleanup"}) <= 1
       /\ \A q \in requests[t] : q.token \in Tokens
  /\ storage \in Tokens \cup {NoToken}
  /\ submits \in 0..MaxSubmits /\ signedOut \subseteq Tabs

\* Who a tab displays as signed in is who the server takes its requests for, and
\* who it will be after a reload ("Currently authenticated user", UseAuthResult),
\* unless another tab or the cleanup of an older session changed the token.
SessionIsStored ==
  \A t \in Tabs : tab[t].user # Nobody /\ tab[t].mishaps \cap {"elsewhere", "overtaken"} = {} =>
    storage = [owner |-> tab[t].user, stale |-> FALSE]

\* A user who signed out is not signed in again without doing so, whatever
\* requests fail, unless the page was replaced before the answer came. That is not
\* rare: the router redirects as soon as there is no user, before the token is
\* cleared, although AppUserMenuProps says "Clears the current session before
\* redirecting to sign in".
SignedOutStaysOut ==
  \A t \in signedOut : "unloaded" \notin tab[t].mishaps => tab[t].user = Nobody

\* A page that is there to stay: the session is restored, nothing is under way
\* that the user waits for, and what the route promises is displayed.
Settled(r) == r.next = "" /\ r.initialized /\ ~r.loading /\ (ShowsForm(r) \/ ShowsApp(r))

\* The restoration of a session the server honours ends, as the error or the user
\* of the page tells.
RestorationEnds(t, granted) ==
  \E q \in requests[t] \ requests'[t] :
    /\ q.kind = "refresh" /\ ~q.token.stale
    /\ IF granted THEN tab'[t].user = q.token.owner ELSE tab'[t].error

\* The known loop: the restoration fails on a page of the application, the form is
\* loaded before the cleanup cleared the token, the restoration succeeds there and
\* the application is loaded again.
Alternates(t) ==
  []<><<RestorationEnds(t, FALSE)>>_vars /\ []<><<RestorationEnds(t, TRUE)>>_vars

\* The user leaves a form before the session is restored.
Wanders(t) == tab[t].loading /\ \E p \in Paths : Visit(t, p)

\* A tab settles again and again, on a form with nobody signed in or in the
\* application with somebody: no restoration is waited for without end, and redirects
\* end (AppRouter.tsx, useAuth.ts), with two exceptions: restorations that fail and
\* succeed in turn, again and again, which redirect for ever, and a user who
\* keeps going from form to form without waiting.
PagesSettle ==
  \A t \in Tabs : []<>Settled(tab[t]) \/ Alternates(t) \/ []<><<Wanders(t)>>_vars
=============================================================================
