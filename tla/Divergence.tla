----------------------------- MODULE Divergence -----------------------------
(***************************************************************************)
(* The divergence detection of an editor, composed with the editors: hook  *)
(* collaboration/hooks/useDivergenceStatus.ts, the requests it makes with  *)
(* services/collaborationClient.ts, and what the server answers            *)
(* (compare_document_hash).                                                *)
(*                                                                         *)
(* A timer compares the displayed text and its version with the server's   *)
(* now and then; a manual resync replaces them. The answer to a request    *)
(* may come late and in another order than the requests were made: the     *)
(* hook applies whatever arrives. A hash stands for its text.              *)
(***************************************************************************)
EXTENDS EditorSession

VARIABLES divergence,  \* the displayed state, the last request's hash and version,
                       \* and whether the state answers an earlier request, which
                       \* no code keeps
          checks       \* the requests under way and their answers

allVars == <<vars, divergence, checks>>

InitialDivergence == [state |-> "in_sync", last |-> <<>>, late |-> FALSE]

DInit ==
  /\ Init
  /\ divergence = [e \in Editors |-> InitialDivergence]
  /\ checks = [e \in Editors |-> {}]

Enabled(r) == r.status = "connected" /\ r.slot = <<>>

\* A rendering that finds the detection disabled resets it; requests under way
\* stay under way.
ResetDisabled ==
  divergence' = [e \in Editors |-> IF Enabled(editor'[e]) THEN divergence[e]
                                   ELSE InitialDivergence]

\* Steps of the editors that are none of the detection's own.
SessionStep ==
  /\ Next
  /\ \A e \in Editors : Len(resync'[e]) = 1 => resync'[e] = resync[e]
  /\ ResetDisabled
  /\ UNCHANGED checks

Steady == AnnouncementsAwaited /\ RenderingsAwaited

\* The button is shown when something is wrong, and disabled while it works.
OffersResync(d) == d.state \in {"divergence_detected", "error"}

AskServerText(e) ==
  /\ Steady /\ OffersResync(divergence[e]) /\ AskResync(e)
  /\ divergence' = [divergence EXCEPT ![e].state = "resyncing"]
  /\ UNCHANGED checks

ReplaceByServerText(e) ==
  /\ Steady /\ Resync(e)
  /\ divergence' = [divergence EXCEPT
       ![e] = [state |-> "in_sync", late |-> FALSE,
               last  |-> <<[hash |-> resync[e][2].text, version |-> resync[e][2].version]>>]]
  /\ UNCHANGED checks

Question(e) == [hash |-> editor[e].latest, version |-> editor[e].version]

\* The timer fires. Nothing is asked while operations are counted as pending, and
\* not the question that was asked last.
CheckNow(e) ==
  /\ Steady
  /\ Enabled(editor[e]) /\ editor[e].metrics.pending = 0
  /\ divergence[e].last # <<Question(e)>>
  /\ Cardinality(checks[e]) < scenario.maxChecks
  /\ divergence' = [divergence EXCEPT
       ![e].state = IF @ = "divergence_detected" THEN @ ELSE "checking",
       ![e].last  = <<Question(e)>>]
  /\ checks' = [checks EXCEPT ![e] = @ \cup {[question |-> Question(e), answer |-> "none"]}]
  /\ UNCHANGED vars

\* Mistake: the texts are not compared.
CompareVersions(q) == IF q.version = Version THEN "in_sync" ELSE "divergence_detected"

Compare(q) ==
  IF q.hash = Text /\ q.version = Version THEN "in_sync" ELSE "divergence_detected"

\* The server compares with what it has when the request reaches it.
AnswerCheck(e) ==
  \E c \in checks[e] :
    /\ c.answer = "none"
    /\ checks' = [checks EXCEPT ![e] =
                    (@ \ {c}) \cup {[c EXCEPT !.answer = Compare(c.question)]}]
    /\ UNCHANGED <<vars, divergence>>

\* Mistake: a failure is not shown.
FailCheckSilently(e) ==
  /\ \E c \in checks[e] :
       /\ c.answer = "none"
       /\ checks' = [checks EXCEPT ![e] = @ \ {c}]
  /\ UNCHANGED <<vars, divergence>>

FailCheck(e) ==
  /\ \E c \in checks[e] :
       /\ c.answer = "none"
       /\ checks' = [checks EXCEPT ![e] = (@ \ {c}) \cup {[c EXCEPT !.answer = "error"]}]
  /\ UNCHANGED <<vars, divergence>>

\* The request for the server's text fails: nothing is replaced.
FailResync(e) ==
  /\ Steady /\ resync[e] = <<"asked">>
  /\ resync' = [resync EXCEPT ![e] = <<"done">>]
  /\ divergence' = [divergence EXCEPT ![e].state = "error"]
  /\ UNCHANGED <<clientVars, serverVars, typed, closes, checks>>

\* An answer arrives and is displayed, whatever happened since it was asked for.
ReceiveAnswer(e) ==
  /\ Steady
  /\ \E c \in checks[e] :
       /\ c.answer # "none"
       /\ divergence' = [divergence EXCEPT ![e].state = c.answer,
                                                ![e].late = <<c.question>> # divergence[e].last]
       /\ checks' = [checks EXCEPT ![e] = @ \ {c}]
  /\ UNCHANGED vars

Detection(e) == \/ AskServerText(e) \/ ReplaceByServerText(e) \/ CheckNow(e)
                \/ AnswerCheck(e) \/ FailCheck(e) \/ FailResync(e) \/ ReceiveAnswer(e)

DNext == (SessionStep \/ \E e \in scenario.open : Detection(e)) /\ UNCHANGED scenario

DSpec == DInit /\ [][DNext]_<<allVars, scenario>>

\* As long as an editor is connected, its timer fires again and again, and
\* every request is answered.
DFairSpec ==
  /\ DSpec /\ Fairness
  /\ \A e \in Editors : WF_allVars(CheckNow(e)) /\ WF_allVars(AnswerCheck(e) \/ FailCheck(e))
                       /\ WF_allVars(ReceiveAnswer(e))
-----------------------------------------------------------------------------
(* Properties.                                                             *)

\* The badge never waits for nothing: while it says that it is checking, or that
\* the text is being replaced, a request is under way whose end will change it,
\* whatever else was asked, answered or reset meanwhile (the states of
\* DivergenceStatus, useDivergenceStatus).
BadgeWaitsForAnAnswer ==
  \A e \in Editors :
    /\ divergence[e].state = "checking" => checks[e] # {}
    /\ divergence[e].state = "resyncing" => resync[e] \notin {<<>>, <<"done">>}

\* The detection has nothing more to do: its timer would ask what it asked last.
Settled(e) == /\ Quiet(e) /\ Enabled(editor[e]) /\ checks[e] = {} /\ resync[e] # <<"asked">>
              /\ divergence[e].last = <<Question(e)>>

\* The detection can be relied on: the displayed answer is one to the last
\* question, and the server has told this editor of all it accepted.
Reliable(e) == ~divergence[e].late /\ editor[e].mishaps \cap {"untold", "rewound"} = {}

\* Once all is quiet and the timer has nothing left to ask, the badge tells the
\* truth, whatever mishap took the view off the document: it reports a
\* divergence if the view differs from the server's text, and no divergence if
\* it does not ("Clients periodically compare their hash and version with the
\* server snapshot", README.md of the backend).
SettledBadgeIsRight ==
  \A e \in Editors : Settled(e) /\ Reliable(e) =>
    /\ divergence[e].state = "in_sync" => surface[e].doc = Text
    /\ divergence[e].state = "divergence_detected" => surface[e].doc # Text

\* A view that stays different from the server's text is noticed: while all is
\* quiet, the badge comes to report it, or the view becomes right again.
DivergenceNoticed ==
  \A e \in Editors :
    (Quiet(e) /\ Enabled(editor[e]) /\ scenario.maxChecks > 0 /\ surface[e].doc # Text)
      ~> \/ divergence[e].state \in {"divergence_detected", "error"}
         \/ surface[e].doc = Text \/ ~Quiet(e) \/ ~Reliable(e)
=============================================================================
