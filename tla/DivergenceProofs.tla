-------------------------- MODULE DivergenceProofs ---------------------------
(***************************************************************************)
(* Proofs about the divergence detection composed with the editors, for    *)
(* every set of editors, every scenario and any number of requests under   *)
(* way: that its badge never waits for nothing, and that it tells the      *)
(* truth once there is nothing left to ask. What the editors promise is    *)
(* shown to hold with resyncs too.                                         *)
(*                                                                         *)
(* That a badge is right takes three facts about the editor it belongs to: *)
(* the text the hook hashes is the displayed one (ShownInv); of each       *)
(* version it does not know yet it is about to be told, so that a quiet    *)
(* editor knows the last one (ToldInv); and a text handed out with a       *)
(* version is the text of that version (ServedInv). And it takes that an   *)
(* answer can only become wrong for a version that is not the last one any *)
(* more, whenever it arrives (BadgeInv).                                   *)
(*                                                                         *)
(* What editors display is proved from there on, with resyncs and without: *)
(* the text of the version an editor knows with its own pending operations *)
(* applied, unless one of the mishaps happened to it; and the server's     *)
(* text, with metrics that add up, once nothing is on its way.             *)
(*                                                                         *)
(* A user may look at a view that is not rendered yet: the invariant is    *)
(* about the text that will be displayed once it is (Displayed), which the *)
(* pending operations lead to from the server's text (Agrees). A remote    *)
(* operation and the pending one are transformed over each other, and the  *)
(* text is the same whichever comes first (TransformsCommute).             *)
(*                                                                         *)
(* An acknowledgement makes the operation in flight part of the server's   *)
(* text without any transformation: that is right because what the editor  *)
(* has made of it, transforming it over each remote operation, is what the *)
(* server makes of it, transforming it over each accepted one (InStep).    *)
(* That takes that what an editor is told of a version is what is stored   *)
(* of it (ServerInv), that it is told of each once (OnceInv), that an      *)
(* operation is not taken for an earlier one (NewerInv), and one operation *)
(* in flight (FlightInv). Until the first snapshot nothing is displayed    *)
(* (Blank).                                                                *)
(***************************************************************************)
EXTENDS Divergence, EditorSessionProofs

-----------------------------------------------------------------------------
(* What the hook takes for the displayed text is the displayed text.       *)

ShownInv == \A e \in Editors : editor[e].fresh \/ editor[e].latest = surface[e].doc

\* So it is initially, no snapshot having arrived.
LEMMA ShownStarts ==
  ASSUME Init PROVE ShownInv
  BY DEF Init, InitialEditor, ShownInv

\* Whatever changes the displayed text, the hook takes over.
LEMMA ShownKept ==
  ASSUME Typed, Bounded, ShownInv, SessionNext
  PROVE  ShownInv'
<1>1. CASE UNCHANGED clientVars
  BY <1>1 DEF ShownInv, clientVars
<1>2. ASSUME NEW a \in Editors, NEW e \in Editors, Tell(a, e) PROVE ShownInv'
  <2>1. editor'[e].fresh = editor[e].fresh /\ editor'[e].latest = editor[e].latest
        /\ \A x \in Editors \ {e} : editor'[x] = editor[x]
    BY <1>2, TellEffect DEF Becomes, SameBut, Fields
  <2> QED BY <1>2, <2>1 DEF ShownInv, Tell
<1>3. ASSUME NEW e \in Editors, EditorStep(e), ~UNCHANGED clientVars PROVE ShownInv'
  <2>1. \A x \in Editors \ {e} : editor'[x] = editor[x]
    BY <1>3, OthersStay
  <2>2. editor[e].fresh \/ editor[e].latest = surface[e].doc
    BY DEF ShownInv
  <2> DEFINE Shown == editor'[e].fresh \/ editor'[e].latest = surface'[e].doc
             Others == \A x \in Editors \ {e} : surface'[x] = surface[x]
  <2>3. CASE Render(e)
    <3>1. Shown /\ Others
      BY <2>2, <2>3, RenderEffect
    <3> QED BY <2>1, <3>1 DEF ShownInv
  <2>4. CASE Type(e)
    <3>1. Shown /\ Others
      BY <2>4, TypeEffect
    <3> QED BY <2>1, <3>1 DEF ShownInv
  <2>5. CASE Leave(e)
    <3>1. /\ editor'[e].latest = <<>> /\ surface' = [surface EXCEPT ![e] = InitialSurface]
          /\ DOMAIN surface = Editors
      BY <2>5, LeaveEffect DEF Typed
    <3>2. Shown /\ Others
      BY <3>1 DEF InitialSurface
    <3> QED BY <2>1, <3>2 DEF ShownInv
  <2>6. CASE ~Render(e) /\ ~Type(e) /\ ~Leave(e)
    <3>1. UNCHANGED surface
      BY <1>3, <2>6 DEF EditorStep, Browser, Server, User, World, LoseResync, Mount,
         LoadMetadata, Connect, Opened, Deliver, Resync, ServeJoin, Refuse, AcknowledgeNoOp,
         Accept, AcceptStraggler, AnswerResync, AskResync, Closed, Grant, clientVars
    <3>2. editor'[e].fresh \/ (editor'[e].fresh = editor[e].fresh /\ editor'[e].latest = editor[e].latest)
      <4>1. CASE Mount(e) \/ LoadMetadata(e) \/ Connect(e)
        BY <4>1, MountEffect DEF Becomes, SameBut, Fields
      <4>2. CASE Opened(e) \/ Closed(e)
        BY <4>2, OpenedEffect, ClosedEffect DEF Becomes, SameBut, Fields
      <4>3. CASE Deliver(e)
        BY <4>3, DeliverEffect
      <4>4. CASE Resync(e)
        BY <4>4, ResyncEffect
      <4>5. CASE AcceptStraggler(e)
        BY <4>5, UntoldEffect DEF Becomes, SameBut, Fields
      <4>6. CASE ServeJoin(e) \/ Refuse(e) \/ AcknowledgeNoOp(e)
        BY <4>6, ReplyEffect DEF Becomes, SameBut, Fields
      <4>7. CASE Accept(e)
        BY <4>7, ReceivedEffect DEF Accept, Receive, Becomes, SameBut, Fields
      <4> QED BY <1>3, <2>6, <4>1, <4>2, <4>3, <4>4, <4>5, <4>6, <4>7
              DEF EditorStep, Browser, Server, User, World, AnswerResync, AskResync, Grant,
                  LoseResync
    <3> QED BY <2>1, <2>2, <3>1, <3>2 DEF ShownInv
  <2> QED BY <2>3, <2>4, <2>5, <2>6
<1> QED BY <1>1, <1>2, <1>3 DEF SessionNext, Announce, EndAnnouncement, vars

-----------------------------------------------------------------------------
(* A registered editor is told of every version.                           *)

\* The versions that are announced, and of which e is to be told yet.
News(e) == {v \in 1..Version : \E a \in Editors : /\ announcing[a].version = v
                                                  /\ e \notin announcing[a].told}

\* Of each version from b + 1 to n that is not among the news a message after
\* the i-th tells.
Complete(in, i, b, n, news) ==
  \A v \in (b + 1)..n :
    v \in news \/ \E j \in DOMAIN in : j > i /\ in[j].kind # "error" /\ in[j].version >= v

\* An editor at version b gets to know all versions up to n, and so it does
\* after each snapshot, which may take it back.
Informed(in, b, n, news) ==
  /\ Complete(in, 0, b, n, news)
  /\ \A i \in DOMAIN in : in[i].kind = "snapshot" => Complete(in, i, in[i].version, n, news)

ToldInv ==
  \A e \in joined : editor[e].mishaps \cap {"untold", "rewound"} = {} =>
    Informed(editor[e].inbox, editor[e].version, Version, News(e))

\* An editor that knows more, or is announced more, stays informed.
LEMMA InformedMore ==
  ASSUME NEW in, NEW b \in Nat, NEW n \in Nat, NEW news, Informed(in, b, n, news),
         NEW c \in Nat, b <= c, NEW m \in Nat, NEW more, news \subseteq more,
         \A v \in (n + 1)..m : v \in more,
         \A i \in DOMAIN in : in[i].kind = "snapshot" => in[i].version \in Nat
  PROVE  Informed(in, c, m, more)
<1>1. ASSUME NEW i, NEW d \in Nat, NEW f \in Nat, d <= f, Complete(in, i, d, n, news)
      PROVE  Complete(in, i, f, m, more)
  <2> SUFFICES ASSUME NEW v \in (f + 1)..m, v \notin more
               PROVE  \E j \in DOMAIN in : j > i /\ in[j].kind # "error" /\ in[j].version >= v
    BY DEF Complete
  <2>1. v \in (d + 1)..n /\ v \notin news
    BY <1>1
  <2> QED BY <1>1, <2>1 DEF Complete
<1> QED BY <1>1 DEF Informed

\* The first message is handled.
LEMMA InformedTail ==
  ASSUME NEW in \in Seq(Answers), in # <<>>, NEW b \in Nat, NEW n \in Nat, NEW news,
         Informed(in, b, n, news), NEW m, m = Head(in), NEW c \in Nat,
         m.kind = "snapshot" => c = m.version,
         m.kind = "error" => c = b,
         m.kind \notin {"snapshot", "error"} => c = Greater(b, m.version)
  PROVE  Informed(Tail(in), c, n, news)
<1> DEFINE t == Tail(in)
<1>1. \A i \in DOMAIN t : i + 1 \in DOMAIN in /\ t[i] = in[i + 1] /\ i \in Nat
  BY TailKnown
<1>2. /\ DOMAIN in = 1..Len(in) /\ Len(in) \in Nat /\ DOMAIN t = 1..(Len(in) - 1)
      /\ 1 \in DOMAIN in /\ in[1] = m /\ m \in Answers
  BY HeadKnown
<1>3. m.kind # "error" => m.version \in Nat
  BY <1>2, AnswerKinds
<1> HIDE DEF t
<1>4. ASSUME NEW i \in Nat, NEW d, Complete(in, i + 1, d, n, news)
      PROVE  Complete(t, i, d, n, news)
  <2> SUFFICES ASSUME NEW v \in (d + 1)..n, v \notin news
               PROVE  \E j \in DOMAIN t : j > i /\ t[j].kind # "error" /\ t[j].version >= v
    BY DEF Complete
  <2>1. PICK j \in DOMAIN in : j > i + 1 /\ in[j].kind # "error" /\ in[j].version >= v
    BY <1>4 DEF Complete
  <2>2. j - 1 \in DOMAIN t /\ j - 1 > i /\ (j - 1) + 1 = j
    BY <1>2, <2>1
  <2>3. t[j - 1] = in[j]
    BY <1>1, <2>2
  <2> QED BY <2>1, <2>2, <2>3
<1>5. Complete(t, 0, c, n, news)
  <2>1. CASE m.kind = "snapshot"
    <3>1. Complete(in, 0 + 1, c, n, news)
      BY <1>2, <2>1 DEF Informed
    <3> QED BY <1>4, <3>1
  <2>2. CASE m.kind # "snapshot"
    <3>1. Complete(in, 0 + 1, c, n, news)
      <4> SUFFICES ASSUME NEW v \in (c + 1)..n, v \notin news
                   PROVE  \E j \in DOMAIN in : j > 0 + 1 /\ in[j].kind # "error" /\ in[j].version >= v
        BY DEF Complete
      <4>1. b <= c /\ (m.kind # "error" => m.version <= c)
        BY <1>3, <2>2 DEF Greater
      <4>2. v \in (b + 1)..n /\ v > c
        BY <4>1
      <4>3. PICK j \in DOMAIN in : j > 0 /\ in[j].kind # "error" /\ in[j].version >= v
        BY <4>2 DEF Informed, Complete
      <4>4. j # 1
        BY <1>2, <1>3, <4>1, <4>2, <4>3
      <4> QED BY <1>2, <4>3, <4>4
    <3> QED BY <1>4, <3>1
  <2> QED BY <2>1, <2>2
<1>6. ASSUME NEW i \in DOMAIN t, t[i].kind = "snapshot" PROVE Complete(t, i, t[i].version, n, news)
  <2>1. Complete(in, i + 1, in[i + 1].version, n, news) /\ i \in Nat
    BY <1>1, <1>6 DEF Informed
  <2> QED BY <1>1, <1>4, <1>6, <2>1
<1> QED BY <1>5, <1>6 DEF Informed, t

\* A message that is no snapshot arrives: what it tells need not be announced.
LEMMA InformedAppend ==
  ASSUME NEW in \in Seq(Answers), NEW b \in Nat, NEW n \in Nat, NEW news, Informed(in, b, n, news),
         NEW m \in Answers, m.kind # "snapshot", NEW rest,
         \A v \in news : v \in rest \/ (m.kind # "error" /\ v = m.version /\ v \in Nat)
  PROVE  Informed(Append(in, m), b, n, rest)
<1> DEFINE t == Append(in, m)
<1>1. /\ DOMAIN in = 1..Len(in) /\ Len(in) \in Nat /\ DOMAIN t = 1..(Len(in) + 1)
      /\ \A i \in DOMAIN in : t[i] = in[i]
      /\ t[Len(in) + 1] = m
  OBVIOUS
<1> HIDE DEF t
<1>2. ASSUME NEW i \in 0..Len(in), NEW d, Complete(in, i, d, n, news)
      PROVE  Complete(t, i, d, n, rest)
  <2> SUFFICES ASSUME NEW v \in (d + 1)..n, v \notin rest
               PROVE  \E j \in DOMAIN t : j > i /\ t[j].kind # "error" /\ t[j].version >= v
    BY DEF Complete
  <2>1. CASE v \in news
    <3>1. m.kind # "error" /\ m.version >= v
      BY <2>1
    <3>2. Len(in) + 1 \in DOMAIN t /\ Len(in) + 1 > i
      BY <1>1
    <3> QED BY <1>1, <3>1, <3>2
  <2>2. CASE v \notin news
    <3>1. PICK j \in DOMAIN in : j > i /\ in[j].kind # "error" /\ in[j].version >= v
      BY <1>2, <2>2 DEF Complete
    <3>2. j \in DOMAIN t /\ t[j] = in[j]
      BY <1>1
    <3> QED BY <3>1, <3>2
  <2> QED BY <2>1, <2>2
<1>3. Complete(t, 0, b, n, rest)
  BY <1>1, <1>2 DEF Informed
<1>4. ASSUME NEW i \in DOMAIN t, t[i].kind = "snapshot" PROVE Complete(t, i, t[i].version, n, rest)
  <2>1. i \in DOMAIN in /\ t[i] = in[i]
    BY <1>1, <1>4
  <2> QED BY <1>1, <1>2, <1>4, <2>1 DEF Informed
<1> QED BY <1>3, <1>4 DEF Informed, t

\* A snapshot of the last version tells all.
LEMMA InformedBySnapshot ==
  ASSUME NEW in \in Seq(Answers), NEW b \in Nat, NEW n \in Nat, NEW news,
         NEW m \in Snapshots, m.version = n
  PROVE  Informed(Append(in, m), b, n, news)
<1> DEFINE t == Append(in, m)
<1>1. /\ DOMAIN in = 1..Len(in) /\ Len(in) \in Nat /\ DOMAIN t = 1..(Len(in) + 1)
      /\ t[Len(in) + 1] = m /\ m.kind = "snapshot"
  BY DEF Snapshots
<1> HIDE DEF t
<1>2. ASSUME NEW i \in 0..Len(in), NEW d PROVE Complete(t, i, d, n, news)
  <2>1. Len(in) + 1 \in DOMAIN t /\ Len(in) + 1 > i
    BY <1>1
  <2>2. \A v \in (d + 1)..n : t[Len(in) + 1].kind # "error" /\ t[Len(in) + 1].version >= v
    BY <1>1
  <2> QED BY <2>1, <2>2 DEF Complete
<1>3. Complete(t, Len(in) + 1, m.version, n, news)
  BY DEF Complete
<1> QED BY <1>1, <1>2, <1>3 DEF Informed, t

\* What is announced stays announced to whom it was not told, and what is
\* accepted is announced to all who are registered but a straggler's author.
LEMMA NewsKept ==
  ASSUME Typed, Bounded, NEW e \in Editors, NEW x \in joined, x \in joined',
         \/ EditorStep(e) /\ ~(x = e /\ AcceptStraggler(e))
         \/ EndAnnouncement(e)
         \/ (\E a \in Editors : Tell(a, e)) /\ x # e
  PROVE  News(x) \subseteq News(x)' /\ \A v \in (Version + 1)..Len(log') : v \in News(x)'
<1>0. /\ Version \in Nat /\ x \in Editors
      /\ announcing \in [Editors -> [version : Nat, told : SUBSET Editors]]
  BY LogFacts
<1> DEFINE N == Len(log')
<1>1. News(x)' = {v \in 1..N : \E a \in Editors : /\ announcing'[a].version = v
                                                 /\ x \notin announcing'[a].told}
  BY DEF News, Version
<1>2. ASSUME NEW b \in Editors, \A a \in Editors \ {b} : announcing'[a] = announcing[a],
             \/ announcing[b] = NoAnnouncement \/ x \in announcing[b].told
             \/ announcing'[b].version = announcing[b].version /\ x \notin announcing'[b].told,
             N \in Nat, Version <= N
      PROVE  News(x) \subseteq News(x)'
  <2> SUFFICES ASSUME NEW v \in News(x)
               PROVE  v \in 1..N /\ \E a \in Editors : /\ announcing'[a].version = v
                                                      /\ x \notin announcing'[a].told
    BY <1>1
  <2>1. v \in 1..Version
    BY DEF News
  <2>2. PICK a \in Editors : announcing[a].version = v /\ x \notin announcing[a].told
    BY DEF News
  <2>3. announcing[a] # NoAnnouncement
    BY <2>1, <2>2 DEF NoAnnouncement
  <2>4. announcing'[a].version = v /\ x \notin announcing'[a].told
    BY <1>2, <2>2, <2>3
  <2> QED BY <1>0, <1>2, <2>1, <2>4
<1>3. ASSUME NEW m \in OpMsgs(e), m.base <= Version, NEW told \in SUBSET Editors, x \notin told,
             announcing[e] = NoAnnouncement, Append2Log(e, m, told)
      PROVE  News(x) \subseteq News(x)' /\ \A v \in (Version + 1)..N : v \in News(x)'
  <2>1. /\ N = Version + 1
        /\ \A a \in Editors \ {e} : announcing'[a] = announcing[a]
        /\ announcing'[e] = [version |-> Version + 1, told |-> told]
    BY <1>3, AppendEffect
  <2>2. News(x) \subseteq News(x)'
    BY <1>0, <1>2, <1>3, <2>1
  <2>3. announcing'[e].version = Version + 1 /\ x \notin announcing'[e].told
    BY <1>3, <2>1
  <2>4. \A v \in (Version + 1)..N : v = Version + 1 /\ v \in 1..N
    BY <1>0, <2>1
  <2> QED BY <1>1, <2>2, <2>3, <2>4
<1>4. CASE Accept(e)
  <2>1. {} \in SUBSET Editors
    OBVIOUS
  <2>2. announcing[e] = NoAnnouncement
    BY <1>4 DEF Accept
  <2> QED BY <1>3, <1>4, <2>1, <2>2, AcceptEffect
<1>5. CASE AcceptStraggler(e) /\ x # e
  <2>1. {e} \in SUBSET Editors /\ x \notin {e}
    BY <1>5
  <2>2. announcing[e] = NoAnnouncement
    BY <1>5 DEF AcceptStraggler
  <2>3. CASE Append2Log(e, Head(stragglers[e]), {e})
    BY <1>3, <1>5, <2>1, <2>2, <2>3, StragglerEffect
  <2>4. CASE UNCHANGED <<log, texts, announcing>>
    <3>1. N = Version
      BY <2>4 DEF Version
    <3>2. News(x)' = News(x)
      BY <1>1, <2>4, <3>1 DEF News
    <3> QED BY <1>0, <3>1, <3>2
  <2> QED BY <1>5, <2>3, <2>4, StragglerEffect
<1>6. CASE Closed(e) \/ Leave(e)
  <2>1. UNCHANGED log
    BY <1>6 DEF Closed, Leave
  <2>2. x # e
    BY <1>6, AbandonEffect
  <2>3. /\ \A a \in Editors \ {e} : announcing'[a] = announcing[a]
        /\ announcing'[e].version = announcing[e].version
        /\ announcing'[e].told \subseteq announcing[e].told \cup {e}
    BY <1>6, AbandonEffect
  <2>4. N = Version
    BY <2>1 DEF Version
  <2>5. News(x) \subseteq News(x)'
    BY <1>0, <1>2, <2>2, <2>3, <2>4
  <2> QED BY <1>0, <2>4, <2>5
<1>7. CASE EditorStep(e) /\ ~Accept(e) /\ ~AcceptStraggler(e) /\ ~Closed(e) /\ ~Leave(e)
  <2>1. UNCHANGED <<announcing, log>>
    BY <1>7 DEF EditorStep, Browser, Server, User, World, Render, LoseResync, Mount,
       LoadMetadata, Connect, Opened, Deliver, Resync, ServeJoin, Refuse, AcknowledgeNoOp,
       AnswerResync, Type, AskResync, Grant, serverVars
  <2>2. N = Version
    BY <2>1 DEF Version
  <2> QED BY <1>0, <1>1, <2>1, <2>2 DEF News
<1>8. CASE EndAnnouncement(e)
  <2>1. UNCHANGED log /\ x \in announcing[e].told
        /\ \A a \in Editors \ {e} : announcing'[a] = announcing[a]
    BY <1>0, <1>8 DEF EndAnnouncement
  <2>2. N = Version
    BY <2>1 DEF Version
  <2> QED BY <1>0, <1>2, <2>1, <2>2
<1>9. ASSUME NEW a \in Editors, Tell(a, e), x # e
      PROVE  News(x) \subseteq News(x)' /\ \A v \in (Version + 1)..N : v \in News(x)'
  <2>1. /\ UNCHANGED log
        /\ announcing' = [announcing EXCEPT ![a].told = @ \cup {e}]
    BY <1>9 DEF Tell
  <2>2. /\ announcing'[a].version = announcing[a].version
        /\ announcing'[a].told = announcing[a].told \cup {e}
        /\ \A b \in Editors \ {a} : announcing'[b] = announcing[b]
    BY <1>0, <2>1
  <2>3. N = Version
    BY <2>1 DEF Version
  <2>4. News(x) \subseteq News(x)'
    BY <1>0, <1>2, <1>9, <2>2, <2>3
  <2> QED BY <1>0, <2>3, <2>4
<1> QED BY <1>4, <1>5, <1>6, <1>7, <1>8, <1>9

\* What an editor is told is announced to it no more.
LEMMA NewsTold ==
  ASSUME Typed, Bounded, NEW a \in Editors, NEW e \in Editors, Tell(a, e)
  PROVE  /\ \A v \in News(e) : v \in News(e)' \/ v = announcing[a].version
         /\ Len(log') = Version
<1>0. announcing \in [Editors -> [version : Nat, told : SUBSET Editors]]
  BY LogFacts
<1>1. log' = log /\ announcing' = [announcing EXCEPT ![a].told = @ \cup {e}]
  BY DEF Tell
<1>2. \A b \in Editors \ {a} : announcing'[b] = announcing[b]
  BY <1>0, <1>1
<1>3. News(e)' = {v \in 1..Len(log') : \E b \in Editors : /\ announcing'[b].version = v
                                                        /\ e \notin announcing'[b].told}
  BY DEF News, Version
<1>4. Len(log') = Version
  BY <1>1 DEF Version
<1> QED BY <1>2, <1>3, <1>4 DEF News

\* Nobody is registered initially.
LEMMA ToldStarts ==
  ASSUME Init PROVE ToldInv
  BY DEF Init, ToldInv

\* The facts about an editor that the lemmas on messages need.
LEMMA InboxFacts ==
  ASSUME Typed, NEW e \in Editors
  PROVE  /\ editor[e].inbox \in Seq(Answers) /\ editor[e].version \in Nat /\ Version \in Nat
         /\ \A i \in DOMAIN editor[e].inbox :
              editor[e].inbox[i].kind = "snapshot" => editor[e].inbox[i].version \in Nat
<1> DEFINE in == editor[e].inbox
<1>1. in \in Seq(Answers) /\ editor[e].version \in Nat /\ Version \in Nat
  BY EditorFacts
<1>2. \A i \in DOMAIN in : in[i] \in Answers
  BY <1>1
<1> HIDE DEF in
<1>3. \A i \in DOMAIN in : in[i].kind = "snapshot" => in[i].version \in Nat
  <2> SUFFICES ASSUME NEW i \in DOMAIN in, in[i].kind = "snapshot" PROVE in[i].version \in Nat
    OBVIOUS
  <2> DEFINE m == in[i]
  <2>1. m \in Answers /\ m.kind = "snapshot"
    BY <1>2
  <2> HIDE DEF m
  <2>2. m.version \in Nat
    BY <2>1, AnswerKinds
  <2> QED BY <2>2 DEF m
<1> QED BY <1>1, <1>3 DEF in

\* The steps of an editor that is registered after them.
LEMMA OwnTold ==
  ASSUME Typed, Bounded, ToldInv, NEW e \in joined', e \in Editors, SessionNext,
         EditorStep(e), editor'[e].mishaps \cap {"untold", "rewound"} = {}
  PROVE  Informed(editor'[e].inbox, editor'[e].version, Len(log'), News(e)')
<1> DEFINE in   == editor[e].inbox
           b    == editor[e].version
           news == News(e)
           more == News(e)'
           s    == editor'[e]
           n    == Version
           k    == Len(log')
<1>1. /\ in \in Seq(Answers) /\ b \in Nat /\ n \in Nat
      /\ \A i \in DOMAIN in : in[i].kind = "snapshot" => in[i].version \in Nat
  BY InboxFacts
<1>2. k \in Nat /\ n <= k
  BY LogGrows
<1>3. ~Closed(e) /\ ~Leave(e)
  BY AbandonEffect
<1>4. CASE ServeJoin(e)
  <2> DEFINE m == SnapshotMsg(Version, Text, role[e])
  <2>1. m \in Snapshots /\ m.version = n /\ editor' = Send(Received(editor, e), e, m)
    BY <1>4, ServerMessages DEF ServeJoin, SnapshotMsg
  <2>2. editor[e].upstream # <<>> /\ UNCHANGED log
    BY <1>4 DEF ServeJoin, Receive
  <2> HIDE DEF m
  <2>3. m \in Answers
    BY <2>1 DEF Answers
  <2>4. s.inbox = Append(in, m) /\ s.version = b
    BY <2>1, <2>2, <2>3, AnswerEffect DEF Becomes, SameBut, Fields
  <2>5. k = n
    BY <2>2 DEF Version
  <2> HIDE DEF in, b, news, more, s, n, k
  <2>6. Informed(Append(in, m), b, n, more)
    BY <1>1, <2>1, InformedBySnapshot
  <2> QED BY <2>4, <2>5, <2>6 DEF s, k, more
<1>5. CASE ~ServeJoin(e)
  <2>1. e \in joined
    BY <1>3, <1>5 DEF EditorStep, Browser, Server, User, World, Render, LoseResync, Mount,
       LoadMetadata, Connect, Opened, Deliver, Resync, ServeJoin, Refuse, AcknowledgeNoOp,
       Accept, AcceptStraggler, AnswerResync, Type, AskResync, Grant, serverVars
  <2>2. ~AcceptStraggler(e)
    BY <2>1, UntoldEffect
  <2>3. news \subseteq more /\ \A v \in (n + 1)..k : v \in more
    BY <2>1, <2>2, NewsKept
  <2>4. editor[e].mishaps \cap {"untold", "rewound"} = {} => Informed(in, b, n, news)
    BY <2>1 DEF ToldInv
  <2>5. CASE Deliver(e)
    <3> DEFINE m == Head(in)
    <3>1. /\ in # <<>> /\ m \in Answers /\ s.inbox = Tail(in) /\ s.version \in Nat
          /\ m.kind = "snapshot" => s.version = m.version
          /\ m.kind \in {"ack", "broadcast_op"} => s.version = Greater(b, m.version)
          /\ m.kind = "error" => s.version = b
          /\ editor[e].mishaps \subseteq s.mishaps
      <4>1. m.kind = "error" => s.version = b
        BY <2>5, DeliverEffect DEF SameBut, Fields
      <4>2. s.version \in Nat
        BY <2>5, DeliverEffect DEF Becomes, EditorStates
      <4> QED BY <2>5, <4>1, <4>2, DeliverEffect
    <3>2. m.kind \in {"snapshot", "ack", "broadcast_op", "error"}
      BY <3>1, AnswerKinds
    <3>3. UNCHANGED log
      BY <2>5 DEF Deliver, serverVars
    <3>4. k = n
      BY <3>3 DEF Version
    <3>5. Informed(in, b, n, news)
      BY <2>4, <3>1
    <3> DEFINE c == s.version
               rest == Tail(in)
    <3>6. c \in Nat /\ s.inbox = rest
      BY <3>1
    <3> HIDE DEF in, b, news, more, s, n, k, m, c
    <3>7. Informed(rest, c, n, news)
      BY <1>1, <3>1, <3>2, <3>5, <3>6, InformedTail DEF m, c
    <3>8. rest \in Seq(Answers)
      BY <1>1, <3>1
    <3>9. \A i \in DOMAIN rest : rest[i].kind = "snapshot" => rest[i].version \in Nat
      <4>1. \A i \in DOMAIN rest : i + 1 \in DOMAIN in /\ rest[i] = in[i + 1]
        BY <1>1, <3>1, TailKnown
      <4> HIDE DEF rest
      <4> QED BY <1>1, <4>1
    <3> HIDE DEF rest
    <3>10. c <= c
      BY <3>6
    <3>11. Informed(rest, c, k, more)
      BY <1>1, <1>2, <2>3, <3>6, <3>7, <3>9, <3>10, InformedMore
    <3> QED BY <3>6, <3>11 DEF s, c, k, more
  <2>6. CASE Refuse(e) \/ AcknowledgeNoOp(e)
    <3>1. PICK m \in Answers : s.inbox = Append(in, m) /\ m.kind # "snapshot"
      BY <1>5, <2>6, ReplyEffect
    <3>2. s.version = b /\ s.mishaps = editor[e].mishaps
      BY <2>6, ReplyEffect DEF Becomes, SameBut, Fields
    <3>3. UNCHANGED log
      BY <2>6 DEF Refuse, AcknowledgeNoOp, serverVars
    <3>4. k = n
      BY <3>3 DEF Version
    <3>5. Informed(in, b, n, news)
      BY <2>4, <3>2
    <3> HIDE DEF in, b, news, more, s, n, k
    <3>6. Informed(Append(in, m), b, n, more)
      BY <1>1, <2>3, <3>1, <3>5, InformedAppend
    <3> QED BY <3>1, <3>2, <3>4, <3>6 DEF s, k, more
  <2>7. CASE ~Deliver(e) /\ ~Refuse(e) /\ ~AcknowledgeNoOp(e)
    <3>1. /\ s.inbox = in /\ s.version \in Nat /\ b <= s.version
          /\ editor[e].mishaps \cap {"untold", "rewound"} = {}
      <4>1. CASE Mount(e) \/ LoadMetadata(e) \/ Connect(e)
        BY <1>1, <4>1, MountEffect DEF Becomes, SameBut, Fields
      <4>2. CASE Opened(e)
        BY <1>1, <4>2, OpenedEffect DEF Becomes, SameBut, Fields
      <4>3. CASE Render(e)
        BY <1>1, <4>3, RenderEffect DEF Becomes, SameBut, Fields
      <4>4. CASE Resync(e)
        <5>1. PICK r \in Served :
                /\ Becomes(e, Fields \ {"socket", "status", "metadata", "upstream", "inbox"})
                /\ s.version = r.version /\ editor[e].mishaps \subseteq s.mishaps
                /\ r.version < b => "rewound" \in s.mishaps
          BY <4>4, ResyncEffect
        <5>2. s.inbox = in
          BY <5>1 DEF Becomes, SameBut, Fields
        <5>3. r.version \in Nat
          BY DEF Served
        <5> QED BY <1>1, <5>1, <5>2, <5>3
      <4>5. CASE Accept(e)
        BY <1>1, <4>5, ReceivedEffect DEF Accept, Receive, Becomes, SameBut, Fields
      <4>6. CASE Type(e)
        BY <1>1, <4>6, TypeEffect DEF Becomes, SameBut, Fields
      <4>7. CASE AnswerResync(e) \/ AskResync(e) \/ Grant(e) \/ LoseResync(e)
        BY <1>1, <4>7 DEF AnswerResync, AskResync, Grant, LoseResync, clientVars
      <4> QED BY <1>3, <1>5, <2>2, <2>7, <4>1, <4>2, <4>3, <4>4, <4>5, <4>6, <4>7
              DEF EditorStep, Browser, Server, User, World
    <3>2. Informed(in, b, n, news)
      BY <2>4, <3>1
    <3> DEFINE c == s.version
    <3>3. c \in Nat /\ b <= c
      BY <3>1
    <3> HIDE DEF in, b, news, more, s, n, k, c
    <3>4. Informed(in, c, k, more)
      BY <1>1, <1>2, <2>3, <3>2, <3>3, InformedMore
    <3> QED BY <3>1, <3>4 DEF s, c, k, more
  <2> QED BY <2>5, <2>6, <2>7
<1> QED BY <1>4, <1>5

\* Every step leaves the registered editors informed.
LEMMA ToldKept ==
  ASSUME Typed, Bounded, ToldInv, SessionNext
  PROVE  ToldInv'
<1> SUFFICES ASSUME NEW x \in joined', editor'[x].mishaps \cap {"untold", "rewound"} = {}
             PROVE  Informed(editor'[x].inbox, editor'[x].version, Len(log'), News(x)')
  BY DEF ToldInv, Version
<1>0. x \in Editors /\ Len(log') \in Nat
  BY ServerStaysTyped, LogGrows
<1>1. CASE UNCHANGED vars
  BY <1>1 DEF ToldInv, vars, clientVars, serverVars, Version, News
<1>2. ASSUME NEW e \in Editors,
             EditorStep(e) \/ (\E a \in Editors : Tell(a, e)) \/ EndAnnouncement(e)
      PROVE  Informed(editor'[x].inbox, editor'[x].version, Len(log'), News(x)')
  <2> DEFINE in   == editor[x].inbox
             b    == editor[x].version
             news == News(x)
             more == News(x)'
             k    == Len(log')
  <2>1. /\ in \in Seq(Answers) /\ b \in Nat /\ Version \in Nat
        /\ \A i \in DOMAIN in : in[i].kind = "snapshot" => in[i].version \in Nat
    BY <1>0, InboxFacts
  <2>2. CASE x # e \/ EndAnnouncement(e)
    <3>1. editor'[x] = editor[x]
      <4>1. CASE x # e
        BY <1>0, <1>2, <4>1, OthersStay
      <4>2. CASE EndAnnouncement(e)
        BY <4>2 DEF EndAnnouncement, clientVars
      <4> QED BY <2>2, <4>1, <4>2
    <3>2. x \in joined
      <4>1. CASE ServeJoin(e)
        <5>1. joined' = joined \cup {e}
          BY <4>1 DEF ServeJoin
        <5>2. ~EndAnnouncement(e) \/ x \in joined
          BY DEF EndAnnouncement
        <5> QED BY <2>2, <5>1, <5>2
      <4>2. CASE Closed(e) \/ Leave(e)
        BY <4>2, AbandonEffect
      <4>3. CASE ~ServeJoin(e) /\ ~Closed(e) /\ ~Leave(e)
        BY <1>2, <4>3 DEF EditorStep, Browser, Server, User, World, Render, LoseResync, Mount,
           LoadMetadata, Connect, Opened, Deliver, Resync, Refuse, AcknowledgeNoOp,
           Accept, AcceptStraggler, AnswerResync, Type, AskResync, Grant, serverVars, Tell,
           EndAnnouncement
      <4> QED BY <4>1, <4>2, <4>3
    <3>3. news \subseteq more /\ \A v \in (Version + 1)..k : v \in more
      BY <1>2, <2>2, <3>2, NewsKept
    <3>4. Informed(in, b, Version, news)
      BY <3>1, <3>2 DEF ToldInv
    <3>5. b <= b /\ k \in Nat
      BY <1>0, <2>1
    <3> HIDE DEF in, b, news, more, k
    <3>6. Informed(in, b, k, more)
      BY <2>1, <3>3, <3>4, <3>5, InformedMore
    <3> QED BY <3>1, <3>6 DEF in, b, more, k
  <2>3. CASE x = e /\ EditorStep(e)
    BY <1>2, <2>3, OwnTold
  <2>4. ASSUME NEW a \in Editors, Tell(a, e), x = e
        PROVE  Informed(editor'[x].inbox, editor'[x].version, Len(log'), News(x)')
    <3>1. PICK m \in Answers : /\ editor'[e].inbox = Append(in, m)
                              /\ m.kind \in {"ack", "broadcast_op"}
                              /\ m.version = announcing[a].version
      BY <2>4, TellEffect
    <3>2. editor'[e].version = b /\ editor'[e].mishaps = editor[e].mishaps
          /\ m.version \in Nat
      <4>1. announcing[a].version \in 1..Version
        BY <2>4, TellEffect
      <4> QED BY <2>1, <2>4, <3>1, <4>1, TellEffect DEF Becomes, SameBut, Fields
    <3>3. e \in joined
      BY <2>4 DEF Tell
    <3>4. Informed(in, b, Version, news)
      BY <2>4, <3>2, <3>3 DEF ToldInv
    <3>5. k = Version /\ \A v \in news : v \in more \/ v = m.version
      BY <2>4, <3>1, NewsTold
    <3> HIDE DEF in, b, news, more, k
    <3>6. Informed(Append(in, m), b, Version, more)
      BY <2>1, <3>1, <3>2, <3>4, <3>5, InformedAppend
    <3> QED BY <2>4, <3>1, <3>2, <3>5, <3>6 DEF more, k
  <2> QED BY <1>2, <2>2, <2>3, <2>4
<1>3. UNCHANGED vars \/ \E e \in Editors :
        EditorStep(e) \/ (\E a \in Editors : Tell(a, e)) \/ EndAnnouncement(e)
  BY DEF SessionNext, Announce
<1> QED BY <1>1, <1>2, <1>3

-----------------------------------------------------------------------------
(* The detection.                                                          *)

\* The server's text is handed out with the version it has.
ServedInv ==
  \A e \in Editors : \A s \in Served : resync[e] = <<"asked", s>> => texts[s.version + 1] = s.text

Questions == [hash : Texts, version : Nat]
Verdicts  == {"in_sync", "divergence_detected", "error"}
Checks    == [question : Questions, answer : {"none"} \cup Verdicts]
Badges    == [state : Verdicts \cup {"checking", "resyncing"},
              last : {<<>>} \cup {<<q>> : q \in Questions}, late : BOOLEAN]

DetectionTyped ==
  divergence \in [Editors -> Badges] /\ checks \in [Editors -> SUBSET Checks]

\* The answer a was the right one to the question q when the server gave it, and
\* can have become wrong only for a version that is not the last any more.
Right(q, a) ==
  /\ q.version <= Version
  /\ a = "in_sync" => texts[q.version + 1] = q.hash
  /\ a = "divergence_detected" => q.version < Version \/ texts[q.version + 1] # q.hash

\* Unless a late answer is displayed, the badge answers the last question, or
\* that question is under way.
Badge(d, cs) ==
  /\ \A c \in cs : Right(c.question, c.answer)
  /\ ~d.late => \A q \in Questions : d.last = <<q>> =>
       Right(q, d.state) \/ \E c \in cs : c.question = q

BadgeInv == \A e \in Editors : Badge(divergence[e], checks[e])

DetectionInv == /\ SessionInv /\ ShownInv /\ ToldInv /\ ServedInv
                /\ DetectionTyped /\ BadgeInv /\ BadgeWaitsForAnAnswer

\* Versions and texts that a question may be about stay what they are.
LEMMA TextsStay ==
  ASSUME Typed, Bounded, SessionNext
  PROVE  /\ Version \in Nat /\ Len(log') \in Nat /\ Version <= Len(log')
         /\ \A v \in 0..Version : texts'[v + 1] = texts[v + 1]
         /\ Version' = Len(log')
  BY LogFacts, LogGrows DEF Version

\* A text that was handed out stays the one of its version.
LEMMA ServedKept ==
  ASSUME Typed, Bounded, ServedInv, SessionNext
  PROVE  ServedInv'
<1> SUFFICES ASSUME NEW e \in Editors, NEW s \in Served, resync'[e] = <<"asked", s>>
             PROVE  texts'[s.version + 1] = s.text
  BY DEF ServedInv
<1>1. /\ Version \in Nat /\ \A v \in 0..Version : texts'[v + 1] = texts[v + 1]
  BY TextsStay
<1>2. CASE resync'[e] = resync[e]
  <2>1. s.version \in Nat /\ s.version <= Version
    BY <1>2 DEF Bounded, Served
  <2> QED BY <1>1, <1>2, <2>1 DEF ServedInv
<1>3. CASE resync'[e] \in {<<"asked">>, <<"done">>}
  <2>1. Len(<<"asked", s>>) = 2 /\ Len(<<"asked">>) = 1 /\ Len(<<"done">>) = 1
    OBVIOUS
  <2> QED BY <1>3, <2>1
<1>4. CASE resync'[e] = <<"asked", [version |-> Version, text |-> Text, canWrite |-> role[e]]>>
  <2>1. s = [version |-> Version, text |-> Text, canWrite |-> role[e]]
    BY <1>4
  <2> QED BY <1>1, <2>1 DEF Text
<1> QED BY <1>2, <1>3, <1>4, ResyncUpdates

\* What was right stays right while the document grows.
LEMMA RightStays ==
  ASSUME Typed, Bounded, SessionNext, NEW q \in Questions, NEW a, Right(q, a)
  PROVE  Right(q, a)'
<1>1. /\ Version \in Nat /\ Version' \in Nat /\ Version <= Version'
      /\ \A v \in 0..Version : texts'[v + 1] = texts[v + 1]
  BY TextsStay
<1>2. q.version \in 0..Version
  BY <1>1 DEF Right, Questions
<1> QED BY <1>1, <1>2 DEF Right

\* A badge stays right while the document grows.
LEMMA BadgeStays ==
  ASSUME Typed, Bounded, SessionNext, NEW d, NEW cs \in SUBSET Checks, Badge(d, cs)
  PROVE  Badge(d, cs)'
<1>1. \A c \in cs : c.question \in Questions
  BY DEF Checks
<1> QED BY <1>1, RightStays DEF Badge

\* Every step of the detection is, for the editors, one of theirs or none.
LEMMA DNextIsSessionNext ==
  ASSUME Typed, [DNext]_<<allVars, scenario>>
  PROVE  SessionNext
<1>1. scenario.open \subseteq Editors
  BY EditorsAssumption DEF Typed
<1>2. CASE SessionStep
  BY <1>2, NextIsSessionNext DEF SessionStep
<1>3. ASSUME NEW e \in Editors, Detection(e), UNCHANGED scenario PROVE SessionNext
  <2>1. CASE AskServerText(e)
    BY <1>3, <2>1 DEF AskServerText, SessionNext, EditorStep, User
  <2>2. CASE ReplaceByServerText(e)
    BY <1>3, <2>2 DEF ReplaceByServerText, SessionNext, EditorStep, Browser
  <2>3. CASE FailResync(e)
    BY <1>3, <2>3 DEF FailResync, SessionNext, EditorStep, LoseResync
  <2>4. CASE CheckNow(e) \/ AnswerCheck(e) \/ FailCheck(e) \/ ReceiveAnswer(e)
    BY <1>3, <2>4 DEF CheckNow, AnswerCheck, FailCheck, ReceiveAnswer, SessionNext
  <2> QED BY <1>3, <2>1, <2>2, <2>3, <2>4 DEF Detection
<1>4. CASE UNCHANGED <<allVars, scenario>>
  BY <1>4 DEF allVars, SessionNext
<1> QED BY <1>1, <1>2, <1>3, <1>4 DEF DNext

\* What the types say about one editor's badge and requests.
LEMMA CheckFacts ==
  ASSUME DetectionTyped, NEW e \in Editors
  PROVE  /\ DOMAIN divergence = Editors /\ DOMAIN checks = Editors
         /\ divergence[e] \in Badges /\ DOMAIN divergence[e] = {"state", "last", "late"}
         /\ checks[e] \in SUBSET Checks
         /\ divergence = [divergence EXCEPT ![e] = divergence[e]]
         /\ checks = [checks EXCEPT ![e] = checks[e]]
<1>1. /\ DOMAIN divergence = Editors /\ DOMAIN checks = Editors
      /\ divergence[e] \in Badges /\ checks[e] \in SUBSET Checks
  BY DEF DetectionTyped
<1>2. DOMAIN divergence[e] = {"state", "last", "late"}
  BY <1>1 DEF Badges
<1>3. divergence = [divergence EXCEPT ![e] = divergence[e]]
  BY DEF DetectionTyped
<1>4. checks = [checks EXCEPT ![e] = checks[e]]
  BY DEF DetectionTyped
<1> QED BY <1>1, <1>2, <1>3, <1>4

\* The server's answer to a question.
LEMMA CompareRight ==
  ASSUME Typed, NEW q \in Questions, q.version <= Version
  PROVE  Right(q, Compare(q)) /\ Compare(q) \in Verdicts
<1>1. Version \in Nat /\ q.version \in Nat
  BY LogFacts DEF Questions
<1> QED BY <1>1 DEF Right, Compare, Text, Verdicts

\* The badge of editor e and its requests become d and cs.
Shows(e, d, cs) ==
  /\ divergence' = [divergence EXCEPT ![e] = d]
  /\ checks' = [checks EXCEPT ![e] = cs]

\* The badge d says that it waits only while there is something to wait for.
Waits(d, cs, request) ==
  /\ d.state = "checking" => cs # {}
  /\ d.state = "resyncing" => request \notin {<<>>, <<"done">>}

Detected(e) == \E d \in Badges : \E cs \in SUBSET Checks :
                 Shows(e, d, cs) /\ Badge(d, cs) /\ Waits(d, cs, resync'[e])

\* The user asks for the server's text, or the request for it fails.
LEMMA RequestDetected ==
  ASSUME DetectionInv, NEW e \in Editors, AskServerText(e) \/ FailResync(e)
  PROVE  Detected(e)
<1> DEFINE r == divergence[e]
           w == IF AskServerText(e) THEN "resyncing" ELSE "error"
           d == [r EXCEPT !.state = w]
           cs == checks[e]
<1>1. /\ r \in Badges /\ DOMAIN r = {"state", "last", "late"} /\ cs \in SUBSET Checks
      /\ DOMAIN divergence = Editors /\ DOMAIN checks = Editors
  BY CheckFacts DEF DetectionInv
<1>2. Badge(r, cs) /\ (r.state = "checking" => cs # {})
  BY DEF DetectionInv, BadgeInv, BadgeWaitsForAnAnswer
<1>3. w \in {"resyncing", "error"}
  OBVIOUS
<1>4. checks' = checks /\ divergence' = [divergence EXCEPT ![e].state = w]
  BY DEF AskServerText, FailResync
<1>5. w = "resyncing" => resync'[e] \notin {<<>>, <<"done">>}
  <2>1. DOMAIN resync = Editors
    BY DEF DetectionInv, SessionInv, Typed
  <2>2. w = "resyncing" => resync'[e] = <<"asked">>
    BY <2>1 DEF AskServerText, AskResync
  <2>3. Len(<<"asked">>) = 1 /\ Len(<<>>) = 0 /\ <<"asked">>[1] = "asked" /\ <<"done">>[1] = "done"
    OBVIOUS
  <2> QED BY <2>2, <2>3
<1> HIDE DEF r, cs, w
<1>6. d \in Badges /\ d.state = w /\ d.last = r.last /\ d.late = r.late
  BY <1>1, <1>3 DEF Badges, Verdicts
<1>7. Shows(e, d, cs)
  <2>1. checks = [checks EXCEPT ![e] = cs]
    BY CheckFacts DEF DetectionInv, cs
  <2>2. divergence' = [divergence EXCEPT ![e] = d]
    BY <1>1, <1>4 DEF r
  <2> QED BY <1>4, <2>1, <2>2 DEF Shows
<1> HIDE DEF d
<1>8. Badge(d, cs)
  <2>1. \A q \in Questions : Right(q, r.state) => Right(q, w)
    BY <1>3 DEF Right
  <2> QED BY <1>2, <1>6, <2>1 DEF Badge
<1>9. Waits(d, cs, resync'[e])
  BY <1>3, <1>5, <1>6 DEF Waits
<1> QED BY <1>1, <1>6, <1>7, <1>8, <1>9 DEF Detected

\* The server's text replaces the displayed one.
LEMMA ReplacementDetected ==
  ASSUME DetectionInv, NEW e \in Editors, ReplaceByServerText(e)
  PROVE  Detected(e)
<1> DEFINE cs == checks[e]
<1>1. /\ cs \in SUBSET Checks /\ DOMAIN divergence = Editors /\ DOMAIN checks = Editors
  BY CheckFacts DEF DetectionInv
<1>2. PICK s \in Served : resync[e] = <<"asked", s>>
  BY ResyncEffect DEF DetectionInv, SessionInv, ReplaceByServerText
<1> DEFINE q == [hash |-> s.text, version |-> s.version]
           d == [state |-> "in_sync", late |-> FALSE, last |-> <<q>>]
<1>3. resync[e][2] = s
  BY <1>2
<1>4. Shows(e, d, cs)
  <2>1. checks = [checks EXCEPT ![e] = cs]
    BY CheckFacts DEF DetectionInv
  <2>2. divergence' = [divergence EXCEPT ![e] = d]
    BY <1>1, <1>3 DEF ReplaceByServerText
  <2> HIDE DEF d, cs
  <2> QED BY <2>1, <2>2 DEF ReplaceByServerText, Shows
<1>5. q \in Questions
  BY DEF Questions, Served
<1>6. Right(q, "in_sync")
  <2>1. s.version <= Version /\ texts[s.version + 1] = s.text
    BY <1>2 DEF DetectionInv, SessionInv, Bounded, ServedInv
  <2> QED BY <2>1 DEF Right
<1>7. \A c \in cs : Right(c.question, c.answer)
  BY DEF DetectionInv, BadgeInv, Badge
<1> HIDE DEF q, cs
<1>8. d \in Badges
  BY <1>5 DEF Badges, Verdicts
<1>9. Badge(d, cs)
  <2>1. \A p \in Questions : <<q>> = <<p>> => p = q
    OBVIOUS
  <2> QED BY <1>6, <1>7, <2>1 DEF Badge
<1>10. Waits(d, cs, resync'[e])
  BY DEF Waits
<1> QED BY <1>1, <1>4, <1>8, <1>9, <1>10 DEF Detected

\* The timer fires.
LEMMA QuestionDetected ==
  ASSUME DetectionInv, NEW e \in Editors, CheckNow(e)
  PROVE  Detected(e)
<1> DEFINE r == divergence[e]
           q == Question(e)
           w == IF r.state = "divergence_detected" THEN r.state ELSE "checking"
           d == [r EXCEPT !.state = w, !.last = <<q>>]
           new == [question |-> q, answer |-> "none"]
           old == checks[e]
           cs == old \cup {new}
<1>1. /\ r \in Badges /\ DOMAIN r = {"state", "last", "late"} /\ old \in SUBSET Checks
      /\ DOMAIN divergence = Editors /\ DOMAIN checks = Editors
  BY CheckFacts DEF DetectionInv
<1>2. /\ \A c \in old : Right(c.question, c.answer)
      /\ r.state = "resyncing" => resync[e] \notin {<<>>, <<"done">>}
  BY DEF DetectionInv, BadgeInv, Badge, BadgeWaitsForAnAnswer
<1>3. resync' = resync
  BY DEF CheckNow, vars, userVars
<1>4. q \in Questions /\ q.version <= Version
  <2>1. editor[e].latest \in Texts /\ editor[e].version \in Nat
    BY EditorFacts DEF EditorStates, DetectionInv, SessionInv
  <2> QED BY <2>1 DEF Question, Questions, DetectionInv, SessionInv, Bounded, Known
<1>5. Shows(e, d, cs)
  BY <1>1 DEF CheckNow, Shows
<1> HIDE DEF q
<1>6. new \in Checks /\ Right(new.question, new.answer) /\ new.question = q
  BY <1>4 DEF Checks, Right
<1> HIDE DEF new, old
<1>7. cs \in SUBSET Checks /\ (\A c \in cs : Right(c.question, c.answer)) /\ new \in cs
  BY <1>1, <1>2, <1>6
<1>8. w \in {"divergence_detected", "checking"}
  OBVIOUS
<1> HIDE DEF r, w, cs
<1>9. d \in Badges /\ d.state = w /\ d.last = <<q>>
  BY <1>1, <1>4, <1>8 DEF Badges, Verdicts
<1> HIDE DEF d
<1>10. Badge(d, cs)
  <2>1. \A p \in Questions : <<q>> = <<p>> => p = q
    OBVIOUS
  <2> QED BY <1>6, <1>7, <1>9, <2>1 DEF Badge
<1>11. Waits(d, cs, resync'[e])
  BY <1>7, <1>8, <1>9 DEF Waits
<1> QED BY <1>5, <1>7, <1>9, <1>10, <1>11 DEF Detected

\* The server answers, or the request fails.
LEMMA AnswerDetected ==
  ASSUME DetectionInv, NEW e \in Editors, AnswerCheck(e) \/ FailCheck(e)
  PROVE  Detected(e)
<1> DEFINE d == divergence[e]
           old == checks[e]
<1>1. /\ d \in Badges /\ old \in SUBSET Checks
      /\ DOMAIN divergence = Editors /\ DOMAIN checks = Editors
  BY CheckFacts DEF DetectionInv
<1>2. Badge(d, old) /\ Waits(d, old, resync[e])
  BY DEF DetectionInv, BadgeInv, BadgeWaitsForAnAnswer, Waits
<1>3. resync' = resync /\ divergence' = divergence
  BY DEF AnswerCheck, FailCheck, vars, userVars
<1>4. PICK c \in old : \E a \in {Compare(c.question), "error"} :
        checks' = [checks EXCEPT ![e] = (@ \ {c}) \cup {[c EXCEPT !.answer = a]}]
  BY DEF AnswerCheck, FailCheck
<1>5. PICK a \in {Compare(c.question), "error"} :
         checks' = [checks EXCEPT ![e] = (@ \ {c}) \cup {[c EXCEPT !.answer = a]}]
  BY <1>4
<1> DEFINE n == [c EXCEPT !.answer = a]
           cs == (old \ {c}) \cup {n}
<1>6. Shows(e, d, cs)
  <2>1. divergence = [divergence EXCEPT ![e] = d]
    BY CheckFacts DEF DetectionInv
  <2>2. checks' = [checks EXCEPT ![e] = cs]
    BY <1>1, <1>5
  <2> HIDE DEF d, cs
  <2> QED BY <1>3, <2>1, <2>2 DEF Shows
<1>7. c \in Checks /\ c.question \in Questions /\ Right(c.question, c.answer)
  BY <1>1, <1>2 DEF Checks, Badge
<1>8. a \in Verdicts /\ Right(c.question, a)
  <2>1. c.question.version <= Version
    BY <1>7 DEF Right
  <2>2. Right(c.question, Compare(c.question)) /\ Compare(c.question) \in Verdicts
    BY <1>7, <2>1, CompareRight DEF DetectionInv, SessionInv
  <2>3. Right(c.question, "error") /\ "error" \in Verdicts
    BY <2>1 DEF Right, Verdicts
  <2> QED BY <2>2, <2>3
<1>9. n \in Checks /\ n.question = c.question /\ n.answer = a
  BY <1>7, <1>8 DEF Checks
<1> HIDE DEF n, d, old
<1>10. Badge(d, cs)
  <2>1. \A x \in cs : Right(x.question, x.answer)
    BY <1>2, <1>8, <1>9 DEF Badge
  <2>2. \A q : (\E x \in old : x.question = q) => \E x \in cs : x.question = q
    BY <1>9
  <2> HIDE DEF cs
  <2> QED BY <1>2, <2>1, <2>2 DEF Badge
<1>11. cs # {} /\ cs \in SUBSET Checks
  BY <1>1, <1>9
<1> HIDE DEF cs
<1>12. Waits(d, cs, resync'[e])
  BY <1>2, <1>3, <1>11 DEF Waits
<1> QED BY <1>1, <1>6, <1>10, <1>11, <1>12 DEF Detected, d

\* An answer is displayed.
LEMMA DisplayDetected ==
  ASSUME DetectionInv, NEW e \in Editors, ReceiveAnswer(e)
  PROVE  Detected(e)
<1> DEFINE r == divergence[e]
           old == checks[e]
<1>1. /\ r \in Badges /\ DOMAIN r = {"state", "last", "late"} /\ old \in SUBSET Checks
      /\ DOMAIN divergence = Editors /\ DOMAIN checks = Editors
  BY CheckFacts DEF DetectionInv
<1>2. \A c \in old : Right(c.question, c.answer)
  BY DEF DetectionInv, BadgeInv, Badge
<1>3. PICK c \in old :
        /\ c.answer # "none"
        /\ divergence' = [divergence EXCEPT ![e].state = c.answer,
                                            ![e].late = <<c.question>> # divergence[e].last]
        /\ checks' = [checks EXCEPT ![e] = @ \ {c}]
  BY DEF ReceiveAnswer
<1> DEFINE late == <<c.question>> # r.last
           w == c.answer
           d == [r EXCEPT !.state = w, !.late = late]
           cs == old \ {c}
<1>4. Shows(e, d, cs)
  BY <1>1, <1>3 DEF Shows
<1>5. w \in Verdicts /\ Right(c.question, w)
  BY <1>1, <1>2, <1>3 DEF Checks
<1>6. late \in BOOLEAN
  OBVIOUS
<1>7. ~late => r.last = <<c.question>>
  OBVIOUS
<1> HIDE DEF r, old, late, w
<1>8. d \in Badges /\ d.state = w /\ d.last = r.last /\ d.late = late
  BY <1>1, <1>5, <1>6 DEF Badges
<1> HIDE DEF d
<1>9. Badge(d, cs)
  <2>1. \A q : <<c.question>> = <<q>> => q = c.question
    OBVIOUS
  <2> QED BY <1>2, <1>5, <1>7, <1>8, <2>1 DEF Badge
<1>10. Waits(d, cs, resync'[e])
  BY <1>5, <1>8 DEF Waits, Verdicts
<1> QED BY <1>1, <1>4, <1>8, <1>9, <1>10 DEF Detected

\* Every step of the detection leaves its editor a right badge.
LEMMA DetectionDetected ==
  ASSUME DetectionInv, NEW e \in Editors, Detection(e)
  PROVE  Detected(e)
  BY RequestDetected, ReplacementDetected, QuestionDetected, AnswerDetected, DisplayDetected
     DEF Detection

\* The steps of the detection leave the other editors' requests alone.
LEMMA OthersNotAsked ==
  ASSUME Typed, NEW e \in Editors, Detection(e), NEW x \in Editors, x # e
  PROVE  resync'[x] = resync[x]
<1>1. DOMAIN resync = Editors
  BY DEF Typed
<1>2. UNCHANGED resync \/ \E s : resync' = [resync EXCEPT ![e] = s]
  BY DEF Detection, AskServerText, AskResync, ReplaceByServerText, Resync, FailResync, CheckNow,
     AnswerCheck, FailCheck, ReceiveAnswer, vars, userVars
<1> QED BY <1>1, <1>2

\* What a step leaves of a request for the server's text.
LEMMA RequestKept ==
  ASSUME Typed, SessionNext, NEW x \in Editors, Len(resync'[x]) = 1 => resync'[x] = resync[x],
         resync[x] \notin {<<>>, <<"done">>}
  PROVE  resync'[x] \notin {<<>>, <<"done">>}
<1> DEFINE s == [version |-> Version, text |-> Text, canWrite |-> role[x]]
<1>1. Len(<<"asked">>) = 1 /\ Len(<<"done">>) = 1 /\ Len(<<>>) = 0 /\ Len(<<"asked", s>>) = 2
  OBVIOUS
<1> HIDE DEF s
<1>2. resync'[x] = resync[x] \/ resync'[x] \in {<<"asked">>, <<"done">>} \/ resync'[x] = <<"asked", s>>
  BY ResyncUpdates DEF s
<1>3. CASE resync'[x] = resync[x]
  BY <1>3
<1>4. CASE resync'[x] \in {<<"asked">>, <<"done">>}
  BY <1>1, <1>4
<1>5. CASE resync'[x] = <<"asked", s>>
  BY <1>1, <1>5
<1> QED BY <1>2, <1>3, <1>4, <1>5

\* After the step each editor's badge and requests are right as things were, and
\* the badge waits only while there is something to wait for.
Shown(x) == \E d \in Badges : \E cs \in SUBSET Checks :
              /\ divergence'[x] = d /\ checks'[x] = cs
              /\ Badge(d, cs) /\ Waits(d, cs, resync'[x])

\* What was right before the step is right after it.
LEMMA BadgesKept ==
  ASSUME DetectionInv, SessionNext, \A x \in Editors : Shown(x)
  PROVE  BadgeInv' /\ BadgeWaitsForAnAnswer'
<1>1. BadgeWaitsForAnAnswer'
  BY DEF BadgeWaitsForAnAnswer, Shown, Waits
<1>2. ASSUME NEW x \in Editors
      PROVE  /\ \A c \in checks'[x] : Right(c.question, c.answer)'
             /\ ~divergence'[x].late => \A q \in Questions : divergence'[x].last = <<q>> =>
                  (\E s : s = divergence'[x].state /\ Right(q, s)') \/ \E c \in checks'[x] : c.question = q
  <2>1. PICK d \in Badges, cs \in SUBSET Checks :
          divergence'[x] = d /\ checks'[x] = cs /\ Badge(d, cs)
    BY <1>2 DEF Shown
  <2>2. Badge(d, cs)'
    BY <2>1, BadgeStays DEF DetectionInv, SessionInv
  <2> QED BY <2>1, <2>2 DEF Badge
<1>3. BadgeInv'
  BY <1>2 DEF BadgeInv, Badge, Right
<1> QED BY <1>1, <1>3

\* A rendering that finds the detection disabled, or none.
LEMMA ResetKeepsBadges ==
  ASSUME DetectionInv, SessionNext, checks' = checks,
         divergence' = [x \in Editors |-> divergence'[x]],
         \A x \in Editors : /\ divergence'[x] \in {divergence[x], InitialDivergence}
                            /\ Len(resync'[x]) = 1 => resync'[x] = resync[x]
  PROVE  DetectionTyped' /\ \A x \in Editors : Shown(x)
<1>1. \A x \in Editors : divergence'[x] \in Badges /\ checks[x] \in SUBSET Checks
  <2>1. InitialDivergence \in Badges
    BY DEF InitialDivergence, Badges, Verdicts
  <2> QED BY <2>1, CheckFacts DEF DetectionInv
<1>2. DetectionTyped'
  BY <1>1 DEF DetectionTyped, DetectionInv
<1>3. ASSUME NEW x \in Editors
      PROVE  Badge(divergence'[x], checks[x]) /\ Waits(divergence'[x], checks[x], resync'[x])
  <2>1. Badge(divergence[x], checks[x]) /\ Waits(divergence[x], checks[x], resync[x])
    BY DEF DetectionInv, BadgeInv, BadgeWaitsForAnAnswer, Waits
  <2>2. CASE divergence'[x] = InitialDivergence
    <3>1. \A q : <<>> # <<q>>
      <4>1. \A q : Len(<<q>>) = 1
        OBVIOUS
      <4>2. Len(<<>>) = 0
        OBVIOUS
      <4> QED BY <4>1, <4>2
    <3>2. /\ \A q : divergence'[x].last # <<q>>
          /\ divergence'[x].state = "in_sync"
      BY <2>2, <3>1 DEF InitialDivergence
    <3> QED BY <2>1, <3>2 DEF Badge, Waits
  <2>3. CASE divergence'[x] = divergence[x]
    <3>1. resync[x] \notin {<<>>, <<"done">>} => resync'[x] \notin {<<>>, <<"done">>}
      BY RequestKept DEF DetectionInv, SessionInv
    <3> QED BY <2>1, <2>3, <3>1 DEF Waits
  <2> QED BY <2>2, <2>3
<1> QED BY <1>1, <1>2, <1>3 DEF Shown

\* A step of the detection.
LEMMA DetectionKeepsBadges ==
  ASSUME DetectionInv, SessionNext, NEW e \in Editors, Detection(e)
  PROVE  DetectionTyped' /\ \A x \in Editors : Shown(x)
<1>1. PICK d \in Badges, cs \in SUBSET Checks :
        Shows(e, d, cs) /\ Badge(d, cs) /\ Waits(d, cs, resync'[e])
  BY DetectionDetected DEF Detected
<1>2. DetectionTyped'
  BY <1>1 DEF DetectionInv, DetectionTyped, Shows
<1>3. divergence'[e] = d /\ checks'[e] = cs
  BY <1>1, CheckFacts DEF DetectionInv, Shows
<1>4. ASSUME NEW x \in Editors, x # e
      PROVE  /\ divergence[x] \in Badges /\ checks[x] \in SUBSET Checks
             /\ divergence'[x] = divergence[x] /\ checks'[x] = checks[x]
             /\ Badge(divergence[x], checks[x])
             /\ Waits(divergence[x], checks[x], resync'[x])
  <2>1. divergence'[x] = divergence[x] /\ checks'[x] = checks[x]
    BY <1>1, <1>4, CheckFacts DEF DetectionInv, Shows
  <2>2. resync'[x] = resync[x]
    BY <1>4, OthersNotAsked DEF DetectionInv, SessionInv
  <2>3. /\ Badge(divergence[x], checks[x])
        /\ Waits(divergence[x], checks[x], resync[x])
    BY DEF DetectionInv, BadgeInv, BadgeWaitsForAnAnswer, Waits
  <2> QED BY <2>1, <2>2, <2>3, CheckFacts DEF DetectionInv
<1> QED BY <1>1, <1>2, <1>3, <1>4 DEF Shown

\* Every step preserves the invariant.
LEMMA DetectionInvKept ==
  ASSUME DetectionInv, [DNext]_<<allVars, scenario>>
  PROVE  DetectionInv'
<1>1. SessionNext
  BY DNextIsSessionNext DEF DetectionInv, SessionInv
<1>2. SessionInv' /\ ShownInv' /\ ToldInv' /\ ServedInv'
  BY <1>1, SessionInvKept, ShownKept, ToldKept, ServedKept DEF DetectionInv, SessionInv
<1>3. DetectionTyped' /\ \A x \in Editors : Shown(x)
  <2>1. CASE UNCHANGED <<allVars, scenario>>
    <3>1. checks' = checks /\ divergence' = divergence /\ resync' = resync
      BY <2>1 DEF allVars, vars, userVars
    <3>2. divergence' = [x \in Editors |-> divergence'[x]]
      BY <3>1 DEF DetectionInv, DetectionTyped
    <3> QED BY <1>1, <3>1, <3>2, ResetKeepsBadges
  <2>2. CASE SessionStep
    <3>1. divergence' = [e \in Editors |-> IF Enabled(editor'[e]) THEN divergence[e]
                                           ELSE InitialDivergence]
      BY <2>2 DEF SessionStep, ResetDisabled
    <3>2. /\ divergence' = [x \in Editors |-> divergence'[x]]
          /\ \A x \in Editors : divergence'[x] \in {divergence[x], InitialDivergence}
      BY <3>1
    <3>3. /\ checks' = checks
          /\ \A x \in Editors : Len(resync'[x]) = 1 => resync'[x] = resync[x]
      BY <2>2 DEF SessionStep
    <3> QED BY <1>1, <3>2, <3>3, ResetKeepsBadges
  <2>3. ASSUME NEW e \in scenario.open, Detection(e)
        PROVE  DetectionTyped' /\ \A x \in Editors : Shown(x)
    <3>1. e \in Editors
      BY EditorsAssumption DEF DetectionInv, SessionInv, Typed
    <3> QED BY <1>1, <2>3, <3>1, DetectionKeepsBadges
  <2> QED BY <2>1, <2>2, <2>3 DEF DNext
<1>4. BadgeInv' /\ BadgeWaitsForAnAnswer'
  BY <1>1, <1>3, BadgesKept
<1> QED BY <1>2, <1>3, <1>4 DEF DetectionInv

\* The invariant holds initially.
LEMMA DetectionInvStarts ==
  ASSUME DInit PROVE DetectionInv
<1>1. Init
  BY DEF DInit
<1>2. SessionInv /\ ShownInv /\ ToldInv
  BY <1>1, SessionInvStarts, ShownStarts, ToldStarts
<1>3. \A q : <<>> # <<q>>
  <2>1. \A q : Len(<<q>>) = 1
    OBVIOUS
  <2>2. Len(<<>>) = 0
    OBVIOUS
  <2> QED BY <2>1, <2>2
<1>4. ServedInv
  <2>1. \A s : Len(<<"asked", s>>) = 2
    OBVIOUS
  <2>2. Len(<<>>) = 0
    OBVIOUS
  <2> QED BY <1>1, <2>1, <2>2 DEF Init, ServedInv
<1>5. InitialDivergence \in Badges
  BY DEF InitialDivergence, Badges, Verdicts
<1>6. DetectionTyped
  BY <1>5 DEF DInit, DetectionTyped
<1>7. BadgeInv /\ BadgeWaitsForAnAnswer
  BY <1>3 DEF DInit, InitialDivergence, BadgeInv, Badge, BadgeWaitsForAnAnswer
<1> QED BY <1>2, <1>4, <1>6, <1>7 DEF DetectionInv

\* A quiet editor that was told everything knows the last version.
LEMMA QuietKnowsAll ==
  ASSUME Typed, Bounded, ToldInv, NEW e \in Editors, Quiet(e),
         editor[e].mishaps \cap {"untold", "rewound"} = {}
  PROVE  editor[e].version = Version
<1> DEFINE b == editor[e].version
<1>1. /\ e \in joined /\ editor[e].inbox = <<>>
      /\ \A a \in Editors : announcing[a] = NoAnnouncement
  BY DEF Quiet
<1>2. Version \in Nat /\ b \in Nat /\ b <= Version
  BY LogFacts, EditorFacts DEF Bounded, Known
<1>3. News(e) = {}
  <2>1. NoAnnouncement.version = 0
    BY DEF NoAnnouncement
  <2> QED BY <1>1, <1>2, <2>1 DEF News
<1>4. DOMAIN editor[e].inbox = {}
  BY <1>1
<1>5. Informed(editor[e].inbox, b, Version, News(e))
  BY <1>1 DEF ToldInv
<1>6. \A v \in (b + 1)..Version : FALSE
  BY <1>3, <1>4, <1>5 DEF Informed, Complete
<1>7. ~(b < Version)
  <2>1. b < Version => Version \in (b + 1)..Version
    BY <1>2
  <2> QED BY <1>6, <2>1
<1> QED BY <1>2, <1>7

\* The invariant implies that a settled badge tells the truth.
LEMMA DetectionMeans ==
  ASSUME DetectionInv
  PROVE  SettledBadgeIsRight
<1> SUFFICES ASSUME NEW e \in Editors, Settled(e), Reliable(e)
             PROVE  /\ divergence[e].state = "in_sync" => surface[e].doc = Text
                    /\ divergence[e].state = "divergence_detected" => surface[e].doc # Text
  BY DEF SettledBadgeIsRight
<1> DEFINE q == Question(e)
<1>1. q.version = Version /\ q.hash = editor[e].latest
  <2>1. editor[e].version = Version
    BY QuietKnowsAll DEF DetectionInv, SessionInv, Settled, Reliable
  <2> QED BY <2>1 DEF Question
<1>2. editor[e].latest = surface[e].doc
  BY DEF DetectionInv, ShownInv, Settled, Quiet, RenderingDue
<1>3. q \in Questions
  <2>1. editor[e].latest \in Texts /\ editor[e].version \in Nat
    BY EditorFacts DEF EditorStates, DetectionInv, SessionInv
  <2> QED BY <2>1 DEF Question, Questions
<1>4. Right(q, divergence[e].state)
  <2>1. Badge(divergence[e], checks[e]) /\ checks[e] = {} /\ ~divergence[e].late
        /\ divergence[e].last = <<q>>
    BY DEF DetectionInv, BadgeInv, Settled, Reliable
  <2> HIDE DEF q
  <2> QED BY <1>3, <2>1 DEF Badge
<1>5. Version \in Nat
  BY LogFacts DEF DetectionInv, SessionInv
<1> HIDE DEF q
<1> QED BY <1>1, <1>2, <1>4, <1>5 DEF Right, Text

-----------------------------------------------------------------------------
(* The theorems.                                                           *)

\* Every reachable state of the editors with their divergence detection satisfies
\* the invariant above: the editors' part of it, that they are told of every
\* version, and that a badge answers the question it belongs to.
THEOREM DetectionInvariant == DSpec => []DetectionInv
<1>1. DInit => DetectionInv
  BY DetectionInvStarts
<1>2. DetectionInv /\ [DNext]_<<allVars, scenario>> => DetectionInv'
  BY DetectionInvKept
<1> QED BY <1>1, <1>2, PTL DEF DSpec

\* With the detection at work the editors' state and the server's keep their types,
\* and nobody knows of a version that the server does not have.
THEOREM DetectionTypeCorrect == DSpec => []TypeOK
<1>1. DetectionInv => TypeOK
  BY TypedMeans DEF DetectionInv, SessionInv
<1> QED BY <1>1, DetectionInvariant, PTL

\* The badge of the divergence status never says that it is checking, or that the
\* text is being replaced, when no request is under way that will change it
\* (useDivergenceStatus.ts), in whatever order requests end and the hook resets.
THEOREM BadgeNeverStuck == DSpec => []BadgeWaitsForAnAnswer
<1>1. DetectionInv => BadgeWaitsForAnAnswer
  BY DEF DetectionInv
<1> QED BY <1>1, DetectionInvariant, PTL

\* Once an editor is quiet and its timer has nothing left to ask, the badge tells
\* the truth about the displayed text, whatever took the view off the document,
\* as long as the displayed answer is one to the last question and the server
\* told the editor of what it accepted (useDivergenceStatus.ts,
\* compare_document_hash).
THEOREM SettledBadgesTellTheTruth == DSpec => []SettledBadgeIsRight
<1>1. DetectionInv => SettledBadgeIsRight
  BY DetectionMeans
<1> QED BY <1>1, DetectionInvariant, PTL

\* With resyncs at any time an editor still has at most one operation under way,
\* as long as no snapshot made it forget one (sendNextQueuedOperation).
THEOREM OneAtATimeWithResyncs == DSpec => []OneOperationInFlight
<1>1. DetectionInv => OneOperationInFlight
  BY FlightMeans DEF DetectionInv, SessionInv
<1> QED BY <1>1, DetectionInvariant, PTL

\* Resyncs do not change the order in which an editor's operations are accepted.
THEOREM TypedOrderKeptWithResyncs == DSpec => []AcceptedInTypedOrder
<1>1. DetectionInv => AcceptedInTypedOrder
  BY OrderMeans DEF DetectionInv, SessionInv
<1> QED BY <1>1, DetectionInvariant, PTL

-----------------------------------------------------------------------------
(* The text that pending operations lead to.                               *)

\* The pending operations make doc of text, one after the other, and each of them
\* lies within the text it is applied to.
Leads(text, pending, doc) ==
  \E f : /\ f[0] = text /\ f[Len(pending)] = doc
         /\ \A i \in 1..Len(pending) : /\ f[i] = ApplyOperation(f[i - 1], pending[i].op)
                                       /\ InBounds(pending[i].op, Len(f[i - 1]))

\* Nothing leads nowhere.
LEMMA NothingLeads ==
  ASSUME NEW text
  PROVE  Leads(text, <<>>, text)
<1> DEFINE f == [i \in {0} |-> text]
<1>1. f[0] = text /\ Len(<<>>) = 0
  OBVIOUS
<1> HIDE DEF f
<1>2. QED
  BY <1>1 DEF Leads

\* One operation leads to what it makes of the text.
LEMMA OneLeads ==
  ASSUME NEW text, NEW q, NEW doc
  PROVE  Leads(text, <<q>>, doc) <=> InBounds(q.op, Len(text)) /\ doc = ApplyOperation(text, q.op)
<1>1. Len(<<q>>) = 1 /\ <<q>>[1] = q /\ 1..1 = {1}
  OBVIOUS
<1>2. ASSUME Leads(text, <<q>>, doc)
      PROVE  InBounds(q.op, Len(text)) /\ doc = ApplyOperation(text, q.op)
  <2>1. PICK f : /\ f[0] = text /\ f[1] = doc
                 /\ f[1] = ApplyOperation(f[1 - 1], q.op) /\ InBounds(q.op, Len(f[1 - 1]))
    BY <1>1, <1>2 DEF Leads
  <2>2. 1 - 1 = 0
    OBVIOUS
  <2>3. QED
    BY <2>1, <2>2
<1>3. ASSUME InBounds(q.op, Len(text)), doc = ApplyOperation(text, q.op)
      PROVE  Leads(text, <<q>>, doc)
  <2> DEFINE f == [i \in {0, 1} |-> IF i = 0 THEN text ELSE doc]
  <2>1. f[0] = text /\ f[1] = doc /\ 1 - 1 = 0
    OBVIOUS
  <2> HIDE DEF f
  <2>2. \A i \in {1} : /\ f[i] = ApplyOperation(f[i - 1], <<q>>[i].op)
                       /\ InBounds(<<q>>[i].op, Len(f[i - 1]))
    BY <2>1, <1>1, <1>3
  <2>3. QED
    BY <2>1, <2>2, <1>1 DEF Leads
<1>4. QED
  BY <1>2, <1>3

\* What operations lead to leads on.
LEMMA LeadsOn ==
  ASSUME NEW S, NEW p \in Seq(S), NEW q \in Seq(S), NEW text, NEW mid, NEW doc,
         Leads(text, p, mid), Leads(mid, q, doc)
  PROVE  Leads(text, p \o q, doc)
<1> DEFINE m == Len(p)
           n == Len(q)
<1>1. m \in Nat /\ n \in Nat /\ Len(p \o q) = m + n
  OBVIOUS
<1>2. PICK f : /\ f[0] = text /\ f[m] = mid
               /\ \A i \in 1..m : /\ f[i] = ApplyOperation(f[i - 1], p[i].op)
                                  /\ InBounds(p[i].op, Len(f[i - 1]))
  BY DEF Leads
<1>3. PICK g : /\ g[0] = mid /\ g[n] = doc
               /\ \A i \in 1..n : /\ g[i] = ApplyOperation(g[i - 1], q[i].op)
                                  /\ InBounds(q[i].op, Len(g[i - 1]))
  BY DEF Leads
<1> DEFINE h == [i \in 0..(m + n) |-> IF i <= m THEN f[i] ELSE g[i - m]]
<1>4. /\ \A i \in 0..m : h[i] = f[i]
      /\ \A i \in 1..n : h[m + i] = g[i]
  BY <1>1
<1>5. \A i \in 1..m : (p \o q)[i] = p[i]
  OBVIOUS
<1>6. \A i \in 1..n : (p \o q)[m + i] = q[i]
  OBVIOUS
<1> HIDE DEF h, m, n
<1>7. h[0] = text
  BY <1>1, <1>2, <1>4
<1>8. h[m + n] = doc
  <2>1. CASE n = 0
    BY <2>1, <1>1, <1>2, <1>3, <1>4
  <2>2. CASE n # 0
    BY <2>2, <1>1, <1>3, <1>4
  <2>3. QED
    BY <2>1, <2>2
<1>9. ASSUME NEW i \in 1..(m + n)
      PROVE  /\ h[i] = ApplyOperation(h[i - 1], (p \o q)[i].op)
             /\ InBounds((p \o q)[i].op, Len(h[i - 1]))
  <2>1. CASE i <= m
    <3>1. i \in 1..m /\ i \in 0..m /\ i - 1 \in 0..m
      BY <2>1, <1>1
    <3>2. QED
      BY <3>1, <1>2, <1>4, <1>5
  <2>2. CASE i > m
    <3> DEFINE j == i - m
    <3>1. j \in 1..n /\ i = m + j /\ i - 1 = m + (j - 1)
      BY <2>2, <1>1
    <3> HIDE DEF j
    <3>2. h[i - 1] = g[j - 1]
      <4>1. CASE j = 1
        <5>1. i - 1 = m /\ j - 1 = 0 /\ m \in 0..m
          BY <4>1, <3>1, <1>1
        <5>2. QED
          BY <5>1, <1>2, <1>3, <1>4
      <4>2. CASE j # 1
        <5>1. j - 1 \in 1..n
          BY <4>2, <3>1, <1>1
        <5>2. QED
          BY <5>1, <3>1, <1>4
      <4>3. QED
        BY <4>1, <4>2
    <3>3. h[i] = g[j] /\ (p \o q)[i] = q[j]
      BY <3>1, <1>4, <1>6
    <3>4. QED
      BY <3>1, <3>2, <3>3, <1>3
  <2>3. QED
    BY <2>1, <2>2, <1>1
<1>10. QED
  BY <1>1, <1>7, <1>8, <1>9 DEF Leads

\* The first operation is accepted as it is: the others lead on from what it
\* makes of the text.
LEMMA LeadsFromSecond ==
  ASSUME NEW S, NEW p \in Seq(S), NEW q \in S, NEW text, NEW doc, Leads(text, <<q>> \o p, doc)
  PROVE  Leads(ApplyOperation(text, q.op), p, doc)
<1> DEFINE n == Len(p)
           s == <<q>> \o p
<1>1. n \in Nat /\ Len(s) = n + 1 /\ s[1] = q
  OBVIOUS
<1>2. \A i \in 1..n : s[i + 1] = p[i]
  OBVIOUS
<1>3. PICK f : /\ f[0] = text /\ f[Len(s)] = doc
               /\ \A i \in 1..Len(s) : /\ f[i] = ApplyOperation(f[i - 1], s[i].op)
                                       /\ InBounds(s[i].op, Len(f[i - 1]))
  BY DEF Leads
<1> HIDE DEF s, n
<1> DEFINE g == [i \in 0..n |-> f[i + 1]]
<1>4. \A i \in 0..n : g[i] = f[i + 1]
  OBVIOUS
<1> HIDE DEF g
<1>5. g[0] = ApplyOperation(text, q.op)
  <2>1. 0 \in 0..n /\ 1 \in 1..Len(s) /\ 0 + 1 = 1 /\ 1 - 1 = 0
    BY <1>1
  <2>2. QED
    BY <2>1, <1>1, <1>3, <1>4
<1>6. g[n] = doc
  BY <1>1, <1>3, <1>4
<1>7. ASSUME NEW i \in 1..n
      PROVE  g[i] = ApplyOperation(g[i - 1], p[i].op) /\ InBounds(p[i].op, Len(g[i - 1]))
  <2>1. i \in 0..n /\ i - 1 \in 0..n /\ (i - 1) + 1 = i /\ (i + 1) - 1 = i /\ i + 1 \in 1..Len(s)
    BY <1>1
  <2>2. QED
    BY <2>1, <1>2, <1>3, <1>4
<1>8. QED
  BY <1>5, <1>6, <1>7 DEF Leads, n

\* Pending operations lead to the text after the transaction they are.
LEMMA LeadsMeans ==
  ASSUME NEW S, NEW p \in Seq(S), NEW text, NEW doc, Leads(text, p, doc)
  PROVE  doc = AfterTransaction(text, p)
<1> DEFINE n == Len(p)
           Body(f) == [i \in 0..n |-> IF i = 0 THEN text ELSE ApplyOperation(f[i - 1], p[i].op)]
           after == CHOOSE f : f = Body(f)
<1>1. n \in Nat
  OBVIOUS
<1>2. AfterTransaction(text, p) = after[n]
  BY DEF AfterTransaction
<1>3. PICK f : /\ f[0] = text /\ f[n] = doc
               /\ \A i \in 1..n : f[i] = ApplyOperation(f[i - 1], p[i].op)
  BY DEF Leads
<1> HIDE DEF n
<1> DEFINE g == [i \in 0..n |-> f[i]]
<1>4. g = Body(g)
  <2>1. \A i \in 0..n : g[i] = IF i = 0 THEN text ELSE ApplyOperation(g[i - 1], p[i].op)
    <3>1. ASSUME NEW i \in 0..n
          PROVE  g[i] = IF i = 0 THEN text ELSE ApplyOperation(g[i - 1], p[i].op)
      <4>1. CASE i = 0
        BY <4>1, <1>3
      <4>2. CASE i # 0
        <5>1. i \in 1..n /\ i - 1 \in 0..n
          BY <4>2, <1>1
        <5>2. QED
          BY <5>1, <4>2, <1>3
      <4>3. QED
        BY <4>1, <4>2
    <3>2. QED
      BY <3>1
  <2>2. g = [i \in 0..n |-> g[i]]
    OBVIOUS
  <2> HIDE DEF g
  <2>3. QED
    BY <2>1, <2>2
<1>5. after = Body(after)
  <2>1. \E h : h = Body(h)
    BY <1>4
  <2> HIDE DEF Body
  <2>2. QED
    BY <2>1
<1> HIDE DEF after, g
<1> DEFINE T == {i \in 0..n : after[i] = f[i]}
<1>6. 0 \in T
  BY <1>1, <1>3, <1>5
<1>7. \A i \in 0..n : i < n /\ i \in T => i + 1 \in T
  <2>1. ASSUME NEW i \in 0..n, i < n, i \in T
        PROVE  i + 1 \in T
    <3>1. i + 1 \in 0..n /\ i + 1 \in 1..n /\ (i + 1) - 1 = i /\ i + 1 # 0
      BY <2>1, <1>1
    <3>2. after[i + 1] = ApplyOperation(after[i], p[i + 1].op)
      BY <3>1, <1>5
    <3>3. f[i + 1] = ApplyOperation(f[i], p[i + 1].op)
      BY <3>1, <1>3
    <3>4. QED
      BY <3>1, <3>2, <3>3, <2>1
  <2>2. QED
    BY <2>1
<1>8. n \in T
  <2> HIDE DEF T
  <2>1. 0..n \subseteq T
    BY <1>1, <1>6, <1>7, IntervalInduction
  <2>2. QED
    BY <2>1, <1>1
<1>9. QED
  BY <1>2, <1>3, <1>8

-----------------------------------------------------------------------------
(* The transformation over a history, from its first version on.           *)

\* Over no version.
LEMMA HistoryOfNone ==
  ASSUME NEW op, NEW id, NEW l, NEW base \in Nat
  PROVE  TransformOverHistory(op, id, l, base, base) = op
<1> DEFINE R == {<<base, op>>}
<1>1. \A v \in (base + 1)..base : \A x :
        <<v - 1, x>> \in R => <<v, TransformOverVersion(x, id, l, v)>> \in R
  OBVIOUS
<1>2. <<base, op>> \in R
  OBVIOUS
<1> HIDE DEF R
<1>3. <<base, TransformOverHistory(op, id, l, base, base)>> \in R
  BY <1>1, <1>2, HistoryInduction
<1>4. QED
  BY <1>3 DEF R

\* Over one version more.
LEMMA HistoryOneMore ==
  ASSUME NEW op, NEW id, NEW l, NEW base \in Nat, NEW top \in Nat, base <= top
  PROVE  TransformOverHistory(op, id, l, base, top + 1)
           = TransformOverVersion(TransformOverHistory(op, id, l, base, top), id, l, top + 1)
BY HistoryStep

\* Over the first version, and then over the others.
LEMMA HistoryPeel ==
  ASSUME NEW op, NEW id, NEW l, NEW base \in Nat, NEW top \in Nat, base < top
  PROVE  TransformOverHistory(op, id, l, base, top)
           = TransformOverHistory(TransformOverVersion(op, id, l, base + 1), id, l, base + 1, top)
<1> DEFINE first == TransformOverVersion(op, id, l, base + 1)
           b == base + 1
           R == {<<v, TransformOverHistory(op, id, l, base, v)>> : v \in b..top}
<1>1. b \in Nat /\ b <= top /\ base <= base
  OBVIOUS
<1>2. <<b, first>> \in R
  <2>1. TransformOverHistory(op, id, l, base, base + 1) = first
    BY HistoryOneMore, HistoryOfNone
  <2>2. QED
    BY <2>1, <1>1
<1>3. ASSUME NEW v \in (b + 1)..top, NEW x, <<v - 1, x>> \in R
      PROVE  <<v, TransformOverVersion(x, id, l, v)>> \in R
  <2>1. x = TransformOverHistory(op, id, l, base, v - 1)
    BY <1>3
  <2>2. v - 1 \in Nat /\ base <= v - 1 /\ (v - 1) + 1 = v /\ v \in b..top
    BY <1>1
  <2>3. TransformOverHistory(op, id, l, base, v) = TransformOverVersion(x, id, l, v)
    <3> DEFINE u == v - 1
    <3>1. u \in Nat /\ base <= u /\ u + 1 = v
      BY <2>2
    <3> HIDE DEF u
    <3>2. TransformOverHistory(op, id, l, base, u + 1)
            = TransformOverVersion(TransformOverHistory(op, id, l, base, u), id, l, u + 1)
      BY <3>1, HistoryOneMore
    <3>3. QED
      BY <3>1, <3>2, <2>1 DEF u
  <2>4. QED
    BY <2>2, <2>3
<1> HIDE DEF R, first, b
<1>4. <<top, TransformOverHistory(first, id, l, b, top)>> \in R
  BY <1>1, <1>2, <1>3, HistoryInduction
<1>5. QED
  BY <1>4 DEF R, first, b

-----------------------------------------------------------------------------
(* What a step does, and whom it leaves alone.                             *)

\* A step that concerns editor e: its own, or what the server tells it.
StepOf(e) == EditorStep(e) \/ (\E a \in Editors : Tell(a, e)) \/ EndAnnouncement(e)

\* Every step concerns one editor.
LEMMA StepCases ==
  ASSUME SessionNext
  PROVE  UNCHANGED vars \/ \E e \in Editors : StepOf(e)
  BY DEF SessionNext, Announce, StepOf

\* What a step that concerns e leaves alone of x.
Left(x) == /\ editor'[x] = editor[x] /\ surface'[x] = surface[x]
           /\ stragglers'[x] = stragglers[x] /\ typed'[x] = typed[x]
           /\ resync'[x] = resync[x] /\ (x \in joined' <=> x \in joined)

\* The other editors are left alone.
LEMMA OthersLeft ==
  ASSUME Typed, Bounded, NEW e \in Editors, StepOf(e), NEW x \in Editors \ {e}
  PROVE  Left(x)
<1>1. editor'[x] = editor[x]
  BY OthersStay DEF StepOf
<1>2. /\ DOMAIN stragglers = Editors /\ DOMAIN typed = Editors /\ DOMAIN resync = Editors
      /\ DOMAIN surface = Editors
  BY DEF Typed
<1>3. CASE Closed(e) \/ Leave(e)
  <2>1. stragglers'[x] = stragglers[x] /\ joined' = joined \ {e}
    BY <1>2, <1>3, AbandonEffect
  <2>2. surface'[x] = surface[x] /\ typed'[x] = typed[x] /\ resync'[x] = resync[x]
    BY <1>2, <1>3 DEF Closed, Leave, userVars
  <2> QED BY <1>1, <2>1, <2>2 DEF Left
<1>4. CASE EditorStep(e) /\ ~Closed(e) /\ ~Leave(e)
  <2>1. /\ surface'[x] = surface[x] /\ stragglers'[x] = stragglers[x] /\ typed'[x] = typed[x]
        /\ (x \in joined' <=> x \in joined)
    <3>1. CASE Type(e)
      BY <1>2, <3>1 DEF Type, serverVars
    <3>2. CASE Render(e)
      BY <1>2, <3>2 DEF Render, serverVars, userVars
    <3>3. CASE AcceptStraggler(e)
      BY <1>2, <3>3 DEF AcceptStraggler, userVars
    <3>4. CASE ~Type(e) /\ ~Render(e) /\ ~AcceptStraggler(e)
      BY <1>2, <1>4, <3>4 DEF EditorStep, Browser, Server, User, World, LoseResync, Mount,
         LoadMetadata, Connect, Opened, Deliver, Resync, ServeJoin, Refuse, AcknowledgeNoOp,
         Accept, AnswerResync, AskResync, Grant, serverVars, userVars, clientVars
    <3> QED BY <3>1, <3>2, <3>3, <3>4
  <2>2. resync'[x] = resync[x]
    BY <1>2, <1>4 DEF EditorStep, Browser, Server, User, World, LoseResync, Mount,
       LoadMetadata, Connect, Opened, Deliver, Resync, ServeJoin, Refuse, AcknowledgeNoOp,
       Accept, AcceptStraggler, AnswerResync, AskResync, Grant, Type, Render, userVars
  <2> QED BY <1>1, <2>1, <2>2 DEF Left
<1>5. CASE (\E a \in Editors : Tell(a, e)) \/ EndAnnouncement(e)
  BY <1>1, <1>5 DEF Tell, EndAnnouncement, userVars, clientVars, Left
<1> QED BY <1>3, <1>4, <1>5 DEF StepOf

-----------------------------------------------------------------------------
(* What the server keeps, announces and tells.                             *)

\* The texts are what the accepted operations make of each other.
Replays(l, ts) == \A v \in 1..Len(l) : ts[v + 1] = ApplyOperation(ts[v], l[v].op)

\* An author announces an operation of its own.
OwnAnnouncements ==
  \A a \in Editors : announcing[a] # NoAnnouncement => log[announcing[a].version].id.client = a

\* What editor e is told of a version is what is stored of it.
Stored(l, ts, e, m) ==
  /\ m.kind = "snapshot" => m.text = ts[m.version + 1]
  /\ m.kind = "broadcast_op" =>
       /\ m.version \in 1..Len(l) /\ m.id.client # e
       /\ m.id = l[m.version].id /\ m.op = l[m.version].op

InboxStored == \A e \in Editors : \A i \in DOMAIN editor[e].inbox :
                 Stored(log, texts, e, editor[e].inbox[i])

ServerInv == Replays(log, texts) /\ OwnAnnouncements /\ InboxStored

\* An operation is appended to the log with the text it makes.
LEMMA AppendReplays ==
  ASSUME Typed, NEW e \in Editors, NEW m \in OpMsgs(e), m.base <= Version,
         NEW told \in SUBSET Editors, Append2Log(e, m, told), Replays(log, texts)
  PROVE  /\ Replays(log', texts')
         /\ log'[Version + 1] = [id |-> m.id, op |-> Transformed(m)]
<1> DEFINE op == Transformed(m)
           row == [id |-> m.id, op |-> op]
           t == ApplyOperation(Text, op)
           n == Version
<1>1. n \in Nat /\ Len(texts) = n + 1 /\ log \in Seq(Entries) /\ texts \in Seq(Texts) /\ n = Len(log)
  BY LogFacts DEF Version
<1>2. log' = Append(log, row) /\ texts' = Append(texts, t)
  BY DEF Append2Log
<1>3. t = ApplyOperation(texts[n + 1], row.op)
  BY DEF Text
<1> HIDE DEF row, t, n
<1>4. /\ Len(log') = n + 1 /\ log'[n + 1] = row
      /\ \A v \in 1..n : log'[v] = log[v]
      /\ texts'[n + 2] = t /\ \A v \in 1..(n + 1) : texts'[v] = texts[v]
  BY <1>1, <1>2
<1>5. ASSUME NEW v \in 1..(n + 1)
      PROVE  texts'[v + 1] = ApplyOperation(texts'[v], log'[v].op)
  <2>1. CASE v = n + 1
    <3>1. v + 1 = n + 2 /\ v \in 1..(n + 1)
      BY <1>1, <2>1
    <3> QED BY <1>3, <1>4, <2>1, <3>1
  <2>2. CASE v # n + 1
    <3>1. v \in 1..n /\ v + 1 \in 1..(n + 1)
      BY <1>1, <2>2
    <3> QED BY <1>1, <1>4, <3>1 DEF Replays
  <2> QED BY <2>1, <2>2
<1> QED BY <1>4, <1>5 DEF Replays, row, n

\* What becomes of the announcement of editor x: none, the same told to more, or a
\* new one of the last version.
Announces(x) ==
  \/ announcing'[x] = NoAnnouncement
  \/ /\ announcing[x] # NoAnnouncement
     /\ announcing'[x].version = announcing[x].version
     /\ announcing[x].told \subseteq announcing'[x].told
  \/ /\ Len(log') = Version + 1 /\ announcing'[x].version = Version + 1
     /\ log'[Version + 1].id.client = x
     /\ x \in announcing'[x].told \/ Accept(x)

\* Every step leaves announcements, ends, or makes them.
LEMMA AnnouncementSteps ==
  ASSUME Typed, Bounded, NEW e \in Editors, StepOf(e), NEW x \in Editors
  PROVE  Announces(x)
<1>0. announcing \in [Editors -> [version : Nat, told : SUBSET Editors]]
  BY LogFacts
<1>1. ASSUME announcing'[x] = announcing[x] PROVE Announces(x)
  BY <1>1 DEF Announces
<1>2. ASSUME NEW m \in OpMsgs(e), m.base <= Version, NEW told \in SUBSET Editors,
             e \in told \/ Accept(e), Append2Log(e, m, told)
      PROVE  Announces(x)
  <2>1. /\ Len(log') = Version + 1 /\ log'[Version + 1].id = m.id
        /\ announcing'[e] = [version |-> Version + 1, told |-> told]
        /\ x # e => announcing'[x] = announcing[x]
    BY <1>2, AppendEffect
  <2>2. m.id.client = e
    BY DEF OpMsgs
  <2>3. announcing'[e].version = Version + 1 /\ announcing'[e].told = told
    BY <2>1
  <2>4. CASE x = e
    BY <1>2, <2>1, <2>2, <2>3, <2>4 DEF Announces
  <2> QED BY <1>1, <2>1, <2>4
<1>3. CASE Accept(e)
  <2>1. {} \in SUBSET Editors
    OBVIOUS
  <2> QED BY <1>2, <1>3, <2>1, AcceptEffect
<1>4. CASE AcceptStraggler(e)
  <2>1. {e} \in SUBSET Editors /\ e \in {e}
    OBVIOUS
  <2>2. CASE Append2Log(e, Head(stragglers[e]), {e})
    BY <1>2, <1>4, <2>1, <2>2, StragglerEffect
  <2>3. CASE UNCHANGED <<log, texts, announcing>>
    BY <1>1, <2>3
  <2> QED BY <1>4, <2>2, <2>3, StragglerEffect
<1>5. CASE Closed(e) \/ Leave(e)
  <2>1. \/ announcing[e] = NoAnnouncement /\ announcing' = [announcing EXCEPT ![e].told = announcing[e].told]
        \/ announcing[e] # NoAnnouncement
             /\ announcing' = [announcing EXCEPT ![e].told = announcing[e].told \cup {e}]
    BY <1>5 DEF Closed, Leave, Abandon
  <2>2. /\ announcing'[x].version = announcing[x].version
        /\ announcing[x].told \subseteq announcing'[x].told
        /\ announcing[x] = NoAnnouncement => announcing'[x] = announcing[x]
    BY <1>0, <2>1
  <2> QED BY <2>2 DEF Announces
<1>6. CASE EditorStep(e) /\ ~Accept(e) /\ ~AcceptStraggler(e) /\ ~Closed(e) /\ ~Leave(e)
  <2>1. UNCHANGED announcing
    BY <1>6 DEF EditorStep, Browser, Server, User, World, Render, LoseResync, Mount,
       LoadMetadata, Connect, Opened, Deliver, Resync, ServeJoin, Refuse, AcknowledgeNoOp,
       AnswerResync, Type, AskResync, Grant, serverVars
  <2> QED BY <1>1, <2>1
<1>7. ASSUME NEW a \in Editors, Tell(a, e)
      PROVE  Announces(x)
  <2>1. announcing' = [announcing EXCEPT ![a].told = @ \cup {e}] /\ announcing[a] # NoAnnouncement
    BY <1>7 DEF Tell
  <2>2. /\ announcing'[a].version = announcing[a].version
        /\ announcing'[a].told = announcing[a].told \cup {e}
        /\ x # a => announcing'[x] = announcing[x]
    BY <1>0, <2>1
  <2> QED BY <1>1, <2>1, <2>2 DEF Announces
<1>8. CASE EndAnnouncement(e)
  <2>1. announcing' = [announcing EXCEPT ![e] = NoAnnouncement]
    BY <1>8 DEF EndAnnouncement
  <2>2. x = e => announcing'[x] = NoAnnouncement
    BY <1>0, <2>1
  <2>3. x # e => announcing'[x] = announcing[x]
    BY <1>0, <2>1
  <2>4. CASE x = e
    BY <2>2, <2>4 DEF Announces
  <2> QED BY <1>1, <2>3, <2>4
<1> QED BY <1>3, <1>4, <1>5, <1>6, <1>7, <1>8 DEF StepOf

\* The texts stay what the accepted operations make of each other.
LEMMA ReplaysKept ==
  ASSUME Typed, Bounded, NEW e \in Editors, StepOf(e), Replays(log, texts)
  PROVE  Replays(log', texts')
<1>1. CASE Accept(e)
  <2>1. {} \in SUBSET Editors
    OBVIOUS
  <2> QED BY <1>1, <2>1, AcceptEffect, AppendReplays
<1>2. CASE UNCHANGED <<log, texts>>
  BY <1>2
<1>3. CASE AcceptStraggler(e)
  <2>1. {e} \in SUBSET Editors
    OBVIOUS
  <2>2. CASE Append2Log(e, Head(stragglers[e]), {e})
    BY <1>3, <2>1, <2>2, StragglerEffect, AppendReplays
  <2> QED BY <1>2, <1>3, <2>2, StragglerEffect
<1>4. CASE EditorStep(e) /\ ~Accept(e) /\ ~AcceptStraggler(e)
  <2>1. UNCHANGED <<log, texts>>
    BY <1>4 DEF EditorStep, Browser, Server, User, World, Render, LoseResync, Mount,
       LoadMetadata, Connect, Opened, Deliver, Resync, ServeJoin, Refuse, AcknowledgeNoOp,
       AnswerResync, Type, AskResync, Closed, Leave, Grant, serverVars
  <2> QED BY <1>2, <2>1
<1>5. CASE (\E a \in Editors : Tell(a, e)) \/ EndAnnouncement(e)
  BY <1>2, <1>5 DEF Tell, EndAnnouncement
<1> QED BY <1>1, <1>3, <1>4, <1>5 DEF StepOf

\* The log grows at its end.
LEMMA LogStays ==
  ASSUME Typed, Bounded, SessionNext
  PROVE  /\ Version \in Nat /\ Len(log) = Version /\ Len(log') \in Nat /\ Version <= Len(log')
         /\ \A v \in 1..Version : log'[v] = log[v]
         /\ \A v \in 0..Version : texts'[v + 1] = texts[v + 1]
  BY LogGrows, LogFacts DEF Version

\* A step that concerns an editor is a step.
LEMMA StepIsNext ==
  ASSUME NEW e \in Editors, StepOf(e), UNCHANGED scenario
  PROVE  SessionNext
  BY DEF StepOf, SessionNext, Announce

\* Authors announce operations of their own.
LEMMA OwnAnnouncementsKept ==
  ASSUME Typed, Bounded, SessionNext, NEW e \in Editors, StepOf(e), OwnAnnouncements
  PROVE  OwnAnnouncements'
<1> SUFFICES ASSUME NEW a \in Editors, announcing'[a] # NoAnnouncement
             PROVE  log'[announcing'[a].version].id.client = a
  BY DEF OwnAnnouncements
<1>1. Announces(a)
  BY AnnouncementSteps
<1>2. CASE announcing[a] # NoAnnouncement /\ announcing'[a].version = announcing[a].version
  <2>1. announcing[a].version \in 1..Version
    BY <1>2, ServerMessages
  <2> QED BY <1>2, <2>1, LogStays DEF OwnAnnouncements
<1> QED BY <1>1, <1>2 DEF Announces

\* A new message for editor e.
NewFor(e, m) ==
  \/ ServeJoin(e) /\ m = SnapshotMsg(Version, Text, role[e])
  \/ Refuse(e) /\ m = ReadOnlyMsg
  \/ AcknowledgeNoOp(e) /\ m = AckMsg(Head(editor[e].upstream).id, Version)
  \/ Tell(e, e) /\ m = AckMsg(log[announcing[e].version].id, announcing[e].version)
  \/ \E a \in Editors \ {e} :
       LET n == announcing[a].version
       IN  Tell(a, e) /\ m = BroadcastMsg(log[n].id, n, log[n].op)

\* What becomes of the messages for an editor.
InboxStep(e) ==
  LET in == editor[e].inbox
  IN  \/ editor'[e].inbox = in /\ ~Deliver(e)
      \/ editor'[e].inbox = <<>> /\ (Closed(e) \/ Leave(e))
      \/ editor'[e].inbox = Tail(in) /\ in # <<>> /\ Deliver(e)
      \/ \E m \in Answers : editor'[e].inbox = Append(in, m) /\ NewFor(e, m)

\* An editor's messages are handled in order, lost, or one is sent.
LEMMA InboxSteps ==
  ASSUME Typed, Bounded, NEW e \in Editors, StepOf(e)
  PROVE  InboxStep(e)
<1> DEFINE in == editor[e].inbox
           in2 == editor'[e].inbox
<1>1. CASE Closed(e)
  BY <1>1, ClosedEffect DEF InboxStep
<1>2. CASE Leave(e)
  BY <1>2, LeaveEffect DEF InboxStep
<1>3. CASE Deliver(e)
  <2>1. in2 = Tail(in) /\ in # <<>>
    BY <1>3, DeliverEffect
  <2> QED BY <1>3, <2>1 DEF InboxStep
<1>4. ASSUME NEW m \in Answers, in2 = Append(in, m), NewFor(e, m)
      PROVE  InboxStep(e)
  BY <1>4 DEF InboxStep
<1>5. CASE ServeJoin(e)
  <2> DEFINE m == SnapshotMsg(Version, Text, role[e])
  <2>1. m \in Answers /\ editor' = Send(Received(editor, e), e, m) /\ editor[e].upstream # <<>>
    BY <1>5, ServerMessages DEF ServeJoin, Answers, Receive
  <2>2. NewFor(e, m)
    BY <1>5 DEF NewFor
  <2> HIDE DEF m
  <2>3. in2 = Append(in, m)
    BY <2>1, AnswerEffect
  <2> QED BY <1>4, <2>1, <2>2, <2>3
<1>6. CASE Refuse(e)
  <2>1. /\ ReadOnlyMsg \in Answers /\ editor' = Send(Received(editor, e), e, ReadOnlyMsg)
        /\ editor[e].upstream # <<>>
    BY <1>6, ServerMessages DEF Refuse, Receive
  <2>2. in2 = Append(in, ReadOnlyMsg)
    BY <2>1, AnswerEffect
  <2>3. NewFor(e, ReadOnlyMsg)
    BY <1>6 DEF NewFor
  <2> QED BY <1>4, <2>1, <2>2, <2>3
<1>7. CASE AcknowledgeNoOp(e)
  <2> DEFINE m == AckMsg(Head(editor[e].upstream).id, Version)
  <2>1. Receive(e, "op") /\ editor' = Send(Received(editor, e), e, m) /\ editor[e].upstream # <<>>
    BY <1>7 DEF AcknowledgeNoOp, Receive
  <2>2. m \in Answers
    BY <2>1, ServerMessages DEF Answers
  <2>3. NewFor(e, m)
    BY <1>7 DEF NewFor
  <2> HIDE DEF m
  <2>4. in2 = Append(in, m)
    BY <2>1, <2>2, AnswerEffect
  <2> QED BY <1>4, <2>2, <2>3, <2>4
<1>8. CASE Tell(e, e)
  <2> DEFINE n == announcing[e].version
             m == AckMsg(log[n].id, n)
  <2>1. announcing[e] # NoAnnouncement /\ editor' = Send(editor, e, m)
    BY <1>8 DEF Tell
  <2>2. m \in Answers
    BY <2>1, ServerMessages DEF Answers
  <2>3. NewFor(e, m)
    BY <1>8 DEF NewFor
  <2> HIDE DEF m
  <2>4. in2 = Append(in, m)
    BY <2>1, <2>2, SendEffect
  <2> QED BY <1>4, <2>2, <2>3, <2>4
<1>9. ASSUME NEW a \in Editors \ {e}, Tell(a, e) PROVE InboxStep(e)
  <2> DEFINE n == announcing[a].version
             m == BroadcastMsg(log[n].id, n, log[n].op)
  <2>1. announcing[a] # NoAnnouncement /\ editor' = Send(editor, e, m)
    BY <1>9 DEF Tell
  <2>2. m \in Answers
    BY <2>1, ServerMessages DEF Answers
  <2>3. NewFor(e, m)
    BY <1>9 DEF NewFor
  <2> HIDE DEF m
  <2>4. in2 = Append(in, m)
    BY <2>1, <2>2, SendEffect
  <2> QED BY <1>4, <2>2, <2>3, <2>4
<1>10. CASE /\ EditorStep(e) \/ EndAnnouncement(e)
            /\ ~Closed(e) /\ ~Leave(e) /\ ~Deliver(e) /\ ~ServeJoin(e) /\ ~Refuse(e)
            /\ ~AcknowledgeNoOp(e)
  <2>1. in2 = in
    <3>1. CASE Mount(e) \/ LoadMetadata(e) \/ Connect(e)
      BY <3>1, MountEffect DEF Becomes, SameBut, Fields
    <3>2. CASE Opened(e)
      BY <3>2, OpenedEffect DEF Becomes, SameBut, Fields
    <3>3. CASE Render(e)
      BY <3>3, RenderEffect DEF Becomes, SameBut, Fields
    <3>4. CASE Resync(e)
      BY <3>4, ResyncEffect DEF Becomes, SameBut, Fields
    <3>5. CASE Accept(e)
      BY <3>5, ReceivedEffect DEF Accept, Receive, Becomes, SameBut, Fields
    <3>6. CASE Type(e)
      BY <3>6, TypeEffect DEF Becomes, SameBut, Fields
    <3>7. CASE AcceptStraggler(e)
      BY <3>7, UntoldEffect DEF Becomes, SameBut, Fields
    <3>8. CASE AnswerResync(e) \/ AskResync(e) \/ Grant(e) \/ LoseResync(e) \/ EndAnnouncement(e)
      BY <3>8 DEF AnswerResync, AskResync, Grant, LoseResync, EndAnnouncement, clientVars
    <3> QED BY <1>10, <3>1, <3>2, <3>3, <3>4, <3>5, <3>6, <3>7, <3>8
            DEF EditorStep, Browser, Server, User, World
  <2> QED BY <1>10, <2>1 DEF InboxStep
<1> QED BY <1>1, <1>2, <1>3, <1>5, <1>6, <1>7, <1>8, <1>9, <1>10 DEF StepOf

\* Messages do not become wrong while the document grows.
LEMMA StoredStays ==
  ASSUME Typed, Bounded, SessionNext, NEW x \in Editors, NEW m \in Answers,
         m.kind # "error" => m.version <= Version, Stored(log, texts, x, m)
  PROVE  Stored(log', texts', x, m)
<1>1. m.kind # "error" => m.version \in Nat
  BY AnswerKinds
<1>2. CASE m.kind = "snapshot"
  BY <1>1, <1>2, LogStays DEF Stored
<1>3. CASE m.kind = "broadcast_op"
  BY <1>1, <1>3, LogStays DEF Stored
<1> QED BY <1>2, <1>3 DEF Stored

\* What is sent is what is stored.
LEMMA NewIsStored ==
  ASSUME Typed, Bounded, OwnAnnouncements, NEW e \in Editors, NEW m \in Answers, NewFor(e, m)
  PROVE  Stored(log, texts, e, m) /\ (m.kind # "error" => m.version <= Version)
<1>0. Len(log) = Version /\ Version \in Nat
  BY LogFacts DEF Version
<1>1. CASE ServeJoin(e) /\ m = SnapshotMsg(Version, Text, role[e])
  BY <1>0, <1>1 DEF SnapshotMsg, Stored, Text
<1>2. CASE m = ReadOnlyMsg
  BY <1>2 DEF ReadOnlyMsg, Stored
<1>3. CASE m = AckMsg(Head(editor[e].upstream).id, Version)
  BY <1>0, <1>3 DEF AckMsg, Stored
<1>4. CASE Tell(e, e) /\ m = AckMsg(log[announcing[e].version].id, announcing[e].version)
  BY <1>4 DEF AckMsg, Stored, Bounded
<1>5. ASSUME NEW a \in Editors \ {e}, Tell(a, e),
             m = BroadcastMsg(log[announcing[a].version].id, announcing[a].version,
                              log[announcing[a].version].op)
      PROVE  Stored(log, texts, e, m) /\ m.version <= Version
  <2>1. announcing[a] # NoAnnouncement
    BY <1>5 DEF Tell
  <2>2. announcing[a].version \in 1..Version
    BY <2>1, ServerMessages
  <2>3. log[announcing[a].version].id.client = a
    BY <2>1 DEF OwnAnnouncements
  <2> QED BY <1>0, <1>5, <2>2, <2>3 DEF BroadcastMsg, Stored
<1> QED BY <1>1, <1>2, <1>3, <1>4, <1>5 DEF NewFor

\* Each message an editor has is one it had, or a new one.
LEMMA InboxOldOrNew ==
  ASSUME Typed, Bounded, NEW e \in Editors, StepOf(e), NEW i \in DOMAIN editor'[e].inbox
  PROVE  \/ \E j \in DOMAIN editor[e].inbox : editor'[e].inbox[i] = editor[e].inbox[j]
         \/ editor'[e].inbox[i] \in Answers /\ NewFor(e, editor'[e].inbox[i])
<1> DEFINE in == editor[e].inbox
           out == editor'[e].inbox
<1>1. in \in Seq(Answers)
  BY InboxFacts
<1>2. InboxStep(e)
  BY InboxSteps
<1>3. DOMAIN <<>> = {}
  OBVIOUS
<1>4. CASE out = in
  BY <1>4
<1>5. CASE out = <<>>
  BY <1>3, <1>5
<1>6. CASE out = Tail(in) /\ in # <<>>
  <2> HIDE DEF in, out
  <2>1. i \in DOMAIN Tail(in)
    BY <1>6 DEF out
  <2>2. i + 1 \in DOMAIN in /\ Tail(in)[i] = in[i + 1]
    BY <1>1, <1>6, <2>1, TailKnown
  <2> QED BY <1>6, <2>2 DEF in, out
<1>7. ASSUME NEW m \in Answers, out = Append(in, m), NewFor(e, m)
      PROVE  \/ \E j \in DOMAIN in : out[i] = in[j]
             \/ out[i] \in Answers /\ NewFor(e, out[i])
  <2> HIDE DEF in, out
  <2>1. i \in DOMAIN Append(in, m)
    BY <1>7 DEF out
  <2>2. \/ i \in DOMAIN in /\ Append(in, m)[i] = in[i]
        \/ Append(in, m)[i] = m
    BY <1>1, <2>1, AppendKnown
  <2> QED BY <1>7, <2>2
<1> QED BY <1>2, <1>4, <1>5, <1>6, <1>7 DEF InboxStep

\* The messages of all editors stay what is stored.
LEMMA InboxStoredKept ==
  ASSUME Typed, Bounded, SessionNext, NEW e \in Editors, StepOf(e), OwnAnnouncements, InboxStored
  PROVE  InboxStored'
<1> SUFFICES ASSUME NEW x \in Editors, NEW i \in DOMAIN editor'[x].inbox
             PROVE  Stored(log', texts', x, editor'[x].inbox[i])
  BY DEF InboxStored
<1> DEFINE m == editor'[x].inbox[i]
<1>1. ASSUME NEW j \in DOMAIN editor[x].inbox, m = editor[x].inbox[j]
      PROVE  Stored(log', texts', x, m)
  <2>1. Stored(log, texts, x, m)
    BY <1>1 DEF InboxStored
  <2>2. m \in Answers
    <3>1. editor[x].inbox \in Seq(Answers)
      BY InboxFacts
    <3> DEFINE in == editor[x].inbox
    <3> HIDE DEF in
    <3>2. \A k \in DOMAIN in : in[k] \in Answers
      BY <3>1 DEF in
    <3> QED BY <1>1, <3>2 DEF in
  <2>3. m.kind # "error" => m.version <= Version
    BY <1>1 DEF Bounded, Known
  <2> HIDE DEF m
  <2> QED BY <2>1, <2>2, <2>3, StoredStays
<1>2. CASE x # e
  <2>1. editor'[x] = editor[x]
    BY <1>2, OthersLeft DEF Left
  <2> QED BY <1>1, <2>1
<1>3. CASE x = e
  <2>1. CASE \E j \in DOMAIN editor[e].inbox : m = editor[e].inbox[j]
    BY <1>1, <1>3, <2>1
  <2>2. CASE m \in Answers /\ NewFor(e, m)
    <3> HIDE DEF m
    <3>1. Stored(log, texts, e, m) /\ (m.kind # "error" => m.version <= Version)
      BY <2>2, NewIsStored
    <3>2. Stored(log', texts', e, m)
      BY <2>2, <3>1, StoredStays
    <3> QED BY <1>3, <3>2 DEF m
  <2>3. \/ \E j \in DOMAIN editor[e].inbox : m = editor[e].inbox[j]
        \/ m \in Answers /\ NewFor(e, m)
    BY <1>3, InboxOldOrNew
  <2> QED BY <2>1, <2>2, <2>3
<1> QED BY <1>2, <1>3

\* Every step keeps what the server keeps, announces and tells in agreement.
LEMMA ServerInvKept ==
  ASSUME Typed, Bounded, ServerInv, SessionNext
  PROVE  ServerInv'
<1>1. CASE UNCHANGED vars
  BY <1>1 DEF ServerInv, OwnAnnouncements, InboxStored, vars, clientVars, serverVars
<1>2. ASSUME NEW e \in Editors, StepOf(e) PROVE ServerInv'
  <2>1. Replays(log', texts')
    BY <1>2, ReplaysKept DEF ServerInv
  <2>2. OwnAnnouncements'
    BY <1>2, OwnAnnouncementsKept DEF ServerInv
  <2>3. InboxStored'
    BY <1>2, InboxStoredKept DEF ServerInv
  <2> QED BY <2>1, <2>2, <2>3 DEF ServerInv
<1> QED BY <1>1, <1>2, StepCases

\* Nothing is stored or told initially.
LEMMA ServerInvStarts ==
  ASSUME Init PROVE ServerInv
<1>1. Len(log) = 0 /\ 1..0 = {}
  BY DEF Init
<1>2. Replays(log, texts)
  BY <1>1 DEF Replays
<1>3. OwnAnnouncements
  BY DEF Init, OwnAnnouncements
<1>4. \A e \in Editors : DOMAIN editor[e].inbox = {}
  BY DEF Init, InitialEditor
<1> QED BY <1>2, <1>3, <1>4 DEF ServerInv, InboxStored

-----------------------------------------------------------------------------
(* What the handlers do to the pending operations and to their count.      *)

\* The metrics count what is pending, and what is pending is what was sent and
\* not acknowledged.
Tallied(r) == /\ r.metrics.pending = Len(Pending(r))
              /\ r.metrics.sent = r.metrics.acked + Len(Pending(r))

\* Counting the pending operations counts them.
LEMMA RefreshCounts ==
  ASSUME NEW e, NEW r \in EditorStates(e)
  PROVE  LET s == RefreshPendingMetrics(r)
         IN  /\ s.metrics.pending = Len(Pending(s)) /\ Pending(s) = Pending(r)
             /\ s.metrics.sent = r.metrics.sent /\ s.metrics.acked = r.metrics.acked
<1> DEFINE s == RefreshPendingMetrics(r)
           n == Len(Pending(r))
<1>1. DOMAIN r = Fields /\ r.metrics \in Metrics
  BY DEF EditorStates, Fields
<1>2. s = [r EXCEPT !.metrics.pending = n]
  BY DEF RefreshPendingMetrics
<1> HIDE DEF n
<1>3. s.metrics = [r.metrics EXCEPT !.pending = n]
  BY <1>1, <1>2 DEF Fields
<1>4. s.inFlight = r.inFlight /\ s.queue = r.queue
  BY <1>1, <1>2 DEF Fields
<1> HIDE DEF s
<1>5. s.metrics.pending = n /\ s.metrics.sent = r.metrics.sent /\ s.metrics.acked = r.metrics.acked
  BY <1>1, <1>3 DEF Metrics
<1> QED BY <1>4, <1>5 DEF n, s, Pending

\* What is pending of an editor.
LEMMA PendingType ==
  ASSUME NEW e, NEW r \in EditorStates(e)
  PROVE  /\ Pending(r) \in Seq(Queued(e)) /\ Len(Pending(r)) = Len(r.inFlight) + Len(r.queue)
         /\ r.inFlight \in Seq(Queued(e)) /\ r.queue \in Seq(Queued(e))
         /\ r.inFlight = <<>> => Pending(r) = r.queue
<1>1. r.inFlight \in Seq(Queued(e)) /\ r.queue \in Seq(Queued(e))
  BY DEF EditorStates
<1>2. \A f, q \in Seq(Queued(e)) : f \o q \in Seq(Queued(e)) /\ Len(f \o q) = Len(f) + Len(q)
  OBVIOUS
<1>3. \A q \in Seq(Queued(e)) : <<>> \o q = q
  OBVIOUS
<1> QED BY <1>1, <1>2, <1>3 DEF Pending

\* Sending an operation leaves it pending.
LEMMA SendNextPending ==
  ASSUME NEW e, NEW r \in EditorStates(e)
  PROVE  /\ Pending(SendNext(r)) = Pending(r)
         /\ Tallied(r) => Tallied(SendNext(r))
<1>1. CASE r.socket # "open" \/ r.inFlight # <<>> \/ r.queue = <<>>
  BY <1>1 DEF SendNext
<1>2. CASE ~(r.socket # "open" \/ r.inFlight # <<>> \/ r.queue = <<>>)
  <2> DEFINE q == Tail(r.queue)
             f == <<Head(r.queue)>>
             u == Append(r.upstream, OpMsg(Head(r.queue), r.version))
             s == [r EXCEPT !.queue = q, !.inFlight = f, !.upstream = u]
  <2>1. DOMAIN r = Fields
    BY DEF EditorStates, Fields
  <2>2. /\ r.queue \in Seq(Queued(e)) /\ r.queue # <<>> /\ r.version \in Nat
        /\ r.upstream \in Seq({JoinMsg} \cup OpMsgs(e)) /\ r.inFlight = <<>>
    BY <1>2 DEF EditorStates
  <2>3. Head(r.queue) \in Queued(e) /\ q \in Seq(Queued(e))
    BY <2>2
  <2>4. OpMsg(Head(r.queue), r.version) \in OpMsgs(e)
    BY <2>2, <2>3 DEF OpMsg, OpMsgs, Queued
  <2>5. f \in Seq(Queued(e)) /\ u \in Seq({JoinMsg} \cup OpMsgs(e))
    BY <2>2, <2>3, <2>4
  <2>6. SendNext(r) = RefreshPendingMetrics(s)
    BY <1>2 DEF SendNext
  <2>7. f \o q = <<>> \o r.queue
    BY <2>2, <2>3
  <2> HIDE DEF q, f, u
  <2>8. s \in EditorStates(e)
    BY <2>3, <2>5 DEF EditorStates
  <2>9. s.metrics = r.metrics /\ s.inFlight = f /\ s.queue = q
    BY <2>1 DEF Fields
  <2>10. Pending(s) = Pending(r)
    BY <2>2, <2>7, <2>9 DEF Pending
  <2> HIDE DEF s
  <2> DEFINE t == RefreshPendingMetrics(s)
  <2>11. /\ t.metrics.pending = Len(Pending(t)) /\ Pending(t) = Pending(s)
         /\ t.metrics.sent = s.metrics.sent /\ t.metrics.acked = s.metrics.acked
    BY <2>8, RefreshCounts
  <2> HIDE DEF t
  <2> QED BY <2>6, <2>9, <2>10, <2>11 DEF Tallied, t
<1> QED BY <1>1, <1>2

\* Edits become pending behind what is.
LEMMA SendLocalPending ==
  ASSUME NEW e, NEW r \in EditorStates(e), NEW ops \in Seq(Queued(e))
  PROVE  /\ Pending(SendLocal(r, ops)) = Pending(r) \o ops
         /\ Tallied(r) => Tallied(SendLocal(r, ops))
<1> DEFINE k == Len(ops)
           q == r.queue \o ops
           s == [r EXCEPT !.queue = q]
           m == [s.metrics EXCEPT !.sent = @ + k]
           t == [s EXCEPT !.metrics = m]
           u == RefreshPendingMetrics(t)
<1>1. DOMAIN r = Fields /\ r.queue \in Seq(Queued(e)) /\ r.inFlight \in Seq(Queued(e)) /\ k \in Nat
  BY DEF EditorStates, Fields
<1>2. q \in Seq(Queued(e)) /\ r.inFlight \o q = Pending(r) \o ops
  <2>1. \A a, b, c \in Seq(Queued(e)) : b \o c \in Seq(Queued(e)) /\ a \o (b \o c) = (a \o b) \o c
    OBVIOUS
  <2> QED BY <1>1, <2>1 DEF Pending
<1>3. Len(Pending(r) \o ops) = Len(Pending(r)) + k /\ Len(Pending(r)) \in Nat
  BY PendingType
<1>4. s = [r EXCEPT !.queue = @ \o ops]
  BY <1>1 DEF Fields
<1> HIDE DEF q, k
<1>5. s \in EditorStates(e) /\ s.metrics = r.metrics /\ Pending(s) = Pending(r) \o ops
      /\ DOMAIN s = Fields
  BY <1>1, <1>2 DEF EditorStates, Fields, Pending
<1>6. t = RecordSentOperations(s, k)
  BY <1>5 DEF RecordSentOperations, Fields
<1>7. SendLocal(r, ops) = SendNext(u)
  BY <1>4, <1>6 DEF SendLocal, s, k
<1> HIDE DEF s
<1>8. s.metrics \in Metrics
  BY <1>5 DEF EditorStates
<1>9. m \in Metrics /\ m.sent = s.metrics.sent + k /\ m.acked = s.metrics.acked
      /\ m.acked \in Nat /\ m.sent \in Nat
  BY <1>1, <1>8, SMTT(30) DEF Metrics
<1> HIDE DEF m
<1>10. t \in EditorStates(e) /\ t.metrics = m /\ Pending(t) = Pending(s)
  BY <1>5, <1>9 DEF EditorStates, Fields, Pending
<1> HIDE DEF t
<1>11. u \in EditorStates(e)
  BY <1>10, RefreshFields
<1>12. /\ u.metrics.pending = Len(Pending(u)) /\ Pending(u) = Pending(t)
       /\ u.metrics.sent = t.metrics.sent /\ u.metrics.acked = t.metrics.acked
  BY <1>10, RefreshCounts
<1> HIDE DEF u
<1>13. Pending(u) = Pending(r) \o ops
  BY <1>5, <1>10, <1>12
<1>14. ASSUME Tallied(r) PROVE Tallied(u)
  <2>1. r.metrics.sent = r.metrics.acked + Len(Pending(r))
    BY <1>14 DEF Tallied
  <2>2. /\ u.metrics.sent = r.metrics.sent + k /\ u.metrics.acked = r.metrics.acked
        /\ u.metrics.acked \in Nat
    BY <1>5, <1>9, <1>10, <1>12
  <2>3. Len(Pending(u)) = Len(Pending(r)) + k
    BY <1>3, <1>13
  <2> DEFINE a == Len(Pending(r))
             b == r.metrics.acked
  <2>4. a \in Nat /\ b \in Nat
    BY <1>3, <2>2
  <2> HIDE DEF a, b
  <2>5. (b + a) + k = b + (a + k)
    BY <1>1, <2>4
  <2> QED BY <1>12, <2>1, <2>2, <2>3, <2>5 DEF Tallied, a, b
<1> QED BY <1>7, <1>11, <1>13, <1>14, SendNextPending

\* An acknowledgement takes the operation it is for from the pending ones.
LEMMA HandleAckPending ==
  ASSUME NEW e, NEW r \in EditorStates(e), NEW m \in Acks, Len(r.inFlight) <= 1
  PROVE  /\ Tallied(r) => Tallied(HandleAck(r, m))
         /\ Pending(HandleAck(r, m)) = IF r.inFlight # <<>> /\ Head(r.inFlight).id = m.id
                                       THEN r.queue ELSE Pending(r)
<1> DEFINE v == Greater(r.version, m.version)
           known == [r EXCEPT !.version = v]
           n == [known.metrics EXCEPT !.acked = @ + 1]
           free == [[known EXCEPT !.metrics = n] EXCEPT !.inFlight = <<>>]
<1>1. DOMAIN r = Fields /\ r.version \in Nat /\ m.version \in Nat
  BY DEF EditorStates, Fields, Acks
<1>2. v \in Nat
  BY <1>1 DEF Greater
<1>3. known = [r EXCEPT !.version = Greater(@, m.version)]
  BY <1>1 DEF Fields
<1> HIDE DEF v
<1>4. /\ known \in EditorStates(e) /\ DOMAIN known = Fields /\ known.metrics = r.metrics
      /\ Pending(known) = Pending(r) /\ known.queue = r.queue
  BY <1>1, <1>2 DEF EditorStates, Fields, Pending
<1>5. HandleAck(r, m) = SendNext(IF r.inFlight # <<>> /\ Head(r.inFlight).id = m.id
               THEN RefreshPendingMetrics([RecordAcknowledgement(known) EXCEPT !.inFlight = <<>>])
               ELSE known)
  BY <1>3 DEF HandleAck
<1>6. RecordAcknowledgement(known) = [known EXCEPT !.metrics = n]
  BY <1>4 DEF RecordAcknowledgement, Fields
<1> HIDE DEF known
<1>7. known.metrics \in Metrics
  BY <1>4 DEF EditorStates
<1>8. /\ n \in Metrics /\ n.acked = known.metrics.acked + 1 /\ n.sent = known.metrics.sent
      /\ known.metrics.acked \in Nat /\ n.sent \in Nat
  BY <1>7 DEF Metrics
<1> HIDE DEF n
<1>9. /\ free \in EditorStates(e) /\ free.inFlight = <<>> /\ free.queue = r.queue
      /\ free.metrics = n
  <2> DEFINE counted == [known EXCEPT !.metrics = n]
             none == <<>>
  <2>1. counted \in EditorStates(e) /\ DOMAIN counted = Fields /\ counted.metrics = n
        /\ counted.queue = known.queue
    BY <1>4, <1>8 DEF EditorStates, Fields
  <2> HIDE DEF counted
  <2>2. free = [counted EXCEPT !.inFlight = none] /\ none \in Seq(Queued(e))
    BY DEF counted
  <2> HIDE DEF none, free
  <2>3. /\ free \in EditorStates(e) /\ free.inFlight = none /\ free.queue = counted.queue
        /\ free.metrics = counted.metrics
    BY <2>1, <2>2 DEF EditorStates, Fields
  <2> QED BY <1>4, <2>1, <2>3 DEF none
<1> HIDE DEF free
<1>10. CASE r.inFlight # <<>> /\ Head(r.inFlight).id = m.id
  <2> DEFINE u == RefreshPendingMetrics(free)
  <2>1. HandleAck(r, m) = SendNext(u)
    BY <1>5, <1>6, <1>10 DEF free
  <2>2. u \in EditorStates(e)
    BY <1>9, RefreshFields
  <2>3. /\ u.metrics.pending = Len(Pending(u)) /\ Pending(u) = Pending(free)
        /\ u.metrics.sent = free.metrics.sent /\ u.metrics.acked = free.metrics.acked
    BY <1>9, RefreshCounts
  <2>4. Pending(free) = r.queue
    BY <1>9, PendingType
  <2> HIDE DEF u
  <2>5. Len(Pending(r)) = 1 + Len(r.queue) /\ Len(r.queue) \in Nat
    <3>1. /\ r.inFlight \in Seq(Queued(e)) /\ r.queue \in Seq(Queued(e))
          /\ Len(Pending(r)) = Len(r.inFlight) + Len(r.queue)
      BY PendingType
    <3> DEFINE f == r.inFlight
    <3>2. f \in Seq(Queued(e)) /\ f # <<>> /\ Len(f) <= 1
      BY <1>10, <3>1
    <3> HIDE DEF f
    <3>3. Len(f) = 1
      <4>1. Len(f) \in Nat /\ (Len(f) = 0 => f = <<>>)
        BY <3>2
      <4> DEFINE k == Len(f)
      <4>2. k \in Nat /\ k # 0 /\ k <= 1
        BY <3>2, <4>1
      <4> HIDE DEF k
      <4>3. k = 1
        BY <4>2
      <4> QED BY <4>3 DEF k
    <3> QED BY <3>1, <3>3 DEF f
  <2>6. ASSUME Tallied(r) PROVE Tallied(u)
    <3> DEFINE a == Len(r.queue)
               b == r.metrics.acked
    <3>1. r.metrics.sent = b + (1 + a) /\ a \in Nat /\ b \in Nat
      BY <1>4, <1>8, <2>5, <2>6 DEF Tallied
    <3>2. u.metrics.sent = r.metrics.sent /\ u.metrics.acked = b + 1 /\ Len(Pending(u)) = a
      BY <1>4, <1>8, <1>9, <2>3, <2>4
    <3> HIDE DEF a, b
    <3>3. b + (1 + a) = (b + 1) + a
      BY <3>1
    <3> QED BY <2>3, <3>1, <3>2, <3>3 DEF Tallied
  <2> QED BY <1>10, <2>1, <2>2, <2>3, <2>4, <2>6, SendNextPending
<1>11. CASE ~(r.inFlight # <<>> /\ Head(r.inFlight).id = m.id)
  <2>1. HandleAck(r, m) = SendNext(known)
    BY <1>5, <1>11
  <2>2. Tallied(r) => Tallied(known)
    BY <1>4 DEF Tallied
  <2>3. Pending(SendNext(known)) = Pending(r) /\ (Tallied(known) => Tallied(SendNext(known)))
    BY <1>4, SendNextPending
  <2> QED BY <1>11, <2>1, <2>2, <2>3
<1> QED BY <1>10, <1>11

\* Nothing is pending after a snapshot, and nothing was sent since.
LEMMA HandleSnapshotDetails ==
  ASSUME NEW e, NEW r \in EditorStates(e), NEW m \in Snapshots
  PROVE  /\ HandleSnapshot(r, m).content = m.text
         /\ HandleSnapshot(r, m).canWrite = m.canWrite
         /\ HandleSnapshot(r, m).status = "connected"
         /\ Tallied(HandleSnapshot(r, m))
<1> DEFINE none == <<>>
           a == [r EXCEPT !.version = m.version, !.queue = none, !.inFlight = none,
                          !.canWrite = m.canWrite]
           b == [a EXCEPT !.content = m.text, !.latest = m.text, !.fresh = TRUE,
                          !.status = "connected"]
           t == [b EXCEPT !.metrics = EmptyMetrics]
           s == RefreshPendingMetrics(t)
<1>1. DOMAIN r = Fields /\ m.version \in Nat /\ m.text \in Texts /\ m.canWrite \in BOOLEAN
  BY DEF EditorStates, Fields, Snapshots
<1>2. HandleSnapshot(r, m) = s
  BY DEF HandleSnapshot, ResetMetrics
<1>3. none \in Seq(Queued(e)) /\ none \o none = <<>> /\ Len(<<>>) = 0 /\ EmptyMetrics \in Metrics
  BY DEF EmptyMetrics, Metrics
<1>4. EmptyMetrics.sent = 0 /\ EmptyMetrics.acked = 0
  BY DEF EmptyMetrics
<1> HIDE DEF none
<1>5. a \in EditorStates(e) /\ DOMAIN a = Fields /\ a.queue = none /\ a.inFlight = none
      /\ a.canWrite = m.canWrite
  BY <1>1, <1>3 DEF EditorStates, Fields
<1> HIDE DEF a
<1>6. b \in EditorStates(e) /\ DOMAIN b = Fields /\ b.queue = none /\ b.inFlight = none
      /\ b.canWrite = m.canWrite /\ b.content = m.text /\ b.status = "connected"
  BY <1>1, <1>5 DEF EditorStates, Fields
<1> HIDE DEF b
<1>7. t \in EditorStates(e) /\ t.queue = none /\ t.inFlight = none /\ t.metrics = EmptyMetrics
      /\ t.canWrite = m.canWrite /\ t.content = m.text /\ t.status = "connected"
  BY <1>3, <1>6 DEF EditorStates, Fields
<1> HIDE DEF t
<1>8. SameBut(t, s, {"metrics"})
  BY <1>7, RefreshFields
<1>9. /\ s.metrics.pending = Len(Pending(s)) /\ Pending(s) = Pending(t)
      /\ s.metrics.sent = t.metrics.sent /\ s.metrics.acked = t.metrics.acked
  BY <1>7, RefreshCounts
<1> HIDE DEF s
<1>10. s.canWrite = m.canWrite /\ s.content = m.text /\ s.status = "connected"
  BY <1>7, <1>8 DEF SameBut, Fields
<1>11. Len(Pending(t)) = 0
  BY <1>3, <1>7 DEF Pending
<1>12. s.metrics.sent = 0 /\ s.metrics.acked = 0 /\ Len(Pending(s)) = 0 /\ 0 = 0 + 0
  BY <1>4, <1>7, <1>9, <1>11
<1> QED BY <1>2, <1>9, <1>10, <1>12 DEF Tallied

\* So it is after a resync.
LEMMA HandleResyncDetails ==
  ASSUME NEW e, NEW r \in EditorStates(e), NEW m, m.version \in Nat, m.text \in Texts,
         m.canWrite \in BOOLEAN
  PROVE  HandleResyncSnapshot(r, m).content = m.text /\ Tallied(HandleResyncSnapshot(r, m))
<1> DEFINE none == <<>>
           a == [r EXCEPT !.version = m.version, !.queue = none, !.inFlight = none,
                          !.canWrite = m.canWrite]
           b == [a EXCEPT !.content = m.text, !.latest = m.text, !.fresh = TRUE, !.slot = none]
           t == [b EXCEPT !.metrics = EmptyMetrics]
           s == RefreshPendingMetrics(t)
<1>1. DOMAIN r = Fields
  BY DEF EditorStates, Fields
<1>2. HandleResyncSnapshot(r, m) = s
  BY DEF HandleResyncSnapshot, ResetMetrics
<1>3. /\ none \in Seq(Queued(e)) /\ none \in Seq(Events) /\ none \o none = <<>> /\ Len(<<>>) = 0
      /\ EmptyMetrics \in Metrics
  BY DEF EmptyMetrics, Metrics
<1>4. EmptyMetrics.sent = 0 /\ EmptyMetrics.acked = 0
  BY DEF EmptyMetrics
<1> HIDE DEF none
<1>5. a \in EditorStates(e) /\ DOMAIN a = Fields /\ a.queue = none /\ a.inFlight = none
  BY <1>1, <1>3 DEF EditorStates, Fields
<1> HIDE DEF a
<1>6. b \in EditorStates(e) /\ DOMAIN b = Fields /\ b.queue = none /\ b.inFlight = none
      /\ b.content = m.text
  BY <1>3, <1>5 DEF EditorStates, Fields
<1> HIDE DEF b
<1>7. t \in EditorStates(e) /\ t.queue = none /\ t.inFlight = none /\ t.metrics = EmptyMetrics
      /\ t.content = m.text
  BY <1>3, <1>6 DEF EditorStates, Fields
<1> HIDE DEF t
<1>8. SameBut(t, s, {"metrics"})
  BY <1>7, RefreshFields
<1>9. /\ s.metrics.pending = Len(Pending(s)) /\ Pending(s) = Pending(t)
      /\ s.metrics.sent = t.metrics.sent /\ s.metrics.acked = t.metrics.acked
  BY <1>7, RefreshCounts
<1> HIDE DEF s
<1>10. s.content = m.text
  BY <1>7, <1>8 DEF SameBut, Fields
<1>11. Len(Pending(t)) = 0
  BY <1>3, <1>7 DEF Pending
<1>12. s.metrics.sent = 0 /\ s.metrics.acked = 0 /\ Len(Pending(s)) = 0 /\ 0 = 0 + 0
  BY <1>4, <1>7, <1>9, <1>11
<1> QED BY <1>2, <1>9, <1>10, <1>12 DEF Tallied

\* The slot after a remote operation.
SlotAfter(r, m) ==
  LET op == OverPending(m, Pending(r))
  IN  IF op = NoOperation THEN r.slot ELSE <<[event |-> <<m.version, m.id>>, op |-> op]>>

\* A remote operation moves the pending ones, and as many of them stay.
LEMMA HandleRemoteDetails ==
  ASSUME NEW e, NEW r \in EditorStates(e), NEW m \in Broadcasts
  PROVE  LET s == HandleRemoteOperation(r, m)
         IN  /\ s.inFlight = [i \in DOMAIN r.inFlight |-> OverRemote(r.inFlight[i], m)]
             /\ s.queue = [i \in DOMAIN r.queue |-> OverRemote(r.queue[i], m)]
             /\ s.slot = SlotAfter(r, m)
             /\ Len(Pending(s)) = Len(Pending(r))
             /\ Tallied(r) => Tallied(s)
<1> DEFINE op == OverPending(m, Pending(r))
           v == Greater(r.version, m.version)
           f == [i \in DOMAIN r.inFlight |-> OverRemote(r.inFlight[i], m)]
           q == [i \in DOMAIN r.queue |-> OverRemote(r.queue[i], m)]
           l == IF op = NoOperation THEN r.slot ELSE <<[event |-> <<m.version, m.id>>, op |-> op]>>
           t == [r EXCEPT !.version = v, !.inFlight = f, !.queue = q, !.slot = l]
           n == [t.metrics EXCEPT !.remote = @ + 1]
           u == [t EXCEPT !.metrics = n]
           s == RefreshPendingMetrics(u)
<1>1. DOMAIN r = Fields /\ r.version \in Nat /\ m.version \in Nat
  BY DEF EditorStates, Fields, Broadcasts
<1>2. v \in Nat
  BY <1>1 DEF Greater
<1>3. /\ f \in Seq(Queued(e)) /\ Len(f) = Len(r.inFlight)
      /\ q \in Seq(Queued(e)) /\ Len(q) = Len(r.queue)
  <2>1. r.inFlight \in Seq(Queued(e)) /\ r.queue \in Seq(Queued(e))
    BY DEF EditorStates
  <2> QED BY <2>1, OverRemoteSeq
<1>4. l \in Seq(Events)
  <2>1. r.slot \in Seq(Events) /\ <<m.version, m.id>> \in Nat \X Names
    BY DEF EditorStates, Broadcasts
  <2>2. op \in Operations \cup {NoOperation}
    BY OverPendingType
  <2> HIDE DEF op
  <2>3. op # NoOperation => [event |-> <<m.version, m.id>>, op |-> op] \in Events
    BY <2>1, <2>2 DEF Events
  <2> QED BY <2>1, <2>3
<1>5. HandleRemoteOperation(r, m) = RefreshPendingMetrics(RecordRemoteOperation(t))
  BY <1>1 DEF HandleRemoteOperation, Fields
<1>6. l = SlotAfter(r, m)
  BY DEF SlotAfter
<1> HIDE DEF op, v, f, q, l
<1>7. /\ t \in EditorStates(e) /\ DOMAIN t = Fields /\ t.metrics = r.metrics
      /\ t.queue = q /\ t.inFlight = f /\ t.slot = l
  BY <1>1, <1>2, <1>3, <1>4 DEF EditorStates, Fields
<1>8. RecordRemoteOperation(t) = u
  BY <1>7 DEF RecordRemoteOperation, Fields
<1> HIDE DEF t
<1>9. t.metrics \in Metrics
  BY <1>7 DEF EditorStates
<1>10. n \in Metrics /\ n.sent = t.metrics.sent /\ n.acked = t.metrics.acked
  BY <1>9 DEF Metrics
<1> HIDE DEF n
<1>11. u \in EditorStates(e) /\ u.queue = q /\ u.inFlight = f /\ u.slot = l /\ u.metrics = n
  BY <1>7, <1>10 DEF EditorStates, Fields
<1> HIDE DEF u
<1>12. SameBut(u, s, {"metrics"})
  BY <1>11, RefreshFields
<1>13. /\ s.metrics.pending = Len(Pending(s)) /\ Pending(s) = Pending(u)
       /\ s.metrics.sent = u.metrics.sent /\ s.metrics.acked = u.metrics.acked
  BY <1>11, RefreshCounts
<1>14. s = HandleRemoteOperation(r, m)
  BY <1>5, <1>8
<1> HIDE DEF s
<1>15. s.queue = q /\ s.inFlight = f /\ s.slot = l
  BY <1>11, <1>12 DEF SameBut, Fields
<1>16. Len(Pending(s)) = Len(Pending(r))
  <2>1. Len(Pending(u)) = Len(u.inFlight) + Len(u.queue)
    BY <1>11, PendingType
  <2>2. Len(Pending(r)) = Len(r.inFlight) + Len(r.queue)
    BY PendingType
  <2> QED BY <1>3, <1>11, <1>13, <2>1, <2>2
<1>17. Tallied(r) => Tallied(s)
  BY <1>7, <1>10, <1>11, <1>13, <1>16 DEF Tallied
<1> QED BY <1>6, <1>14, <1>15, <1>16, <1>17 DEF f, q

-----------------------------------------------------------------------------
(* What the steps do to what an editor displays.                           *)

\* The editor e is h after the step, but for the fields F.
Is(e, h, F) == DOMAIN h = Fields /\ \A f \in Fields \ F : editor'[e][f] = h[f]

\* A delivered message is handled.
LEMMA DeliverDetails ==
  ASSUME Typed, NEW e \in Editors, Deliver(e)
  PROVE  /\ Head(editor[e].inbox) \in Answers /\ editor[e].inbox # <<>>
         /\ Is(e, Handle(editor[e], Head(editor[e].inbox)), {"inbox", "mishaps"})
         /\ UNCHANGED <<surface, serverVars, userVars>>
<1>1. DOMAIN editor = Editors /\ editor[e] \in EditorStates(e)
  BY DEF Typed, EditorTyped
<1> DEFINE r == editor[e]
           m == Head(r.inbox)
           h == Handle(r, m)
           s == [h EXCEPT !.inbox = Tail(@), !.mishaps = @ \cup Mishaps(e, m)]
<1>2. r.inbox # <<>> /\ r.inbox \in Seq(Answers)
  BY <1>1 DEF Deliver, EditorStates
<1>3. m \in Answers
  BY <1>2
<1> HIDE DEF m
<1>4. DOMAIN h = Fields
  <2>1. CASE m.kind = "snapshot"
    BY <1>1, <1>3, <2>1, AnswerKinds, HandleSnapshotFields DEF Handle, SameBut
  <2>2. CASE m.kind = "ack"
    <3>1. h = HandleAck(r, m) /\ m \in Acks
      BY <1>3, <2>2, AnswerKinds DEF Handle
    <3>2. PICK mid \in EditorStates(e) : HandleAck(r, m) = SendNext(mid)
      BY <1>1, <3>1, HandleAckFields
    <3> QED BY <3>1, <3>2, SendNextFields DEF SameBut
  <2>3. CASE m.kind = "broadcast_op"
    BY <1>1, <1>3, <2>3, AnswerKinds, HandleRemoteFields DEF Handle, SameBut
  <2>4. CASE m.kind = "error"
    BY <1>1, <1>3, <2>4, AnswerKinds, HandleErrorFields DEF Handle, SameBut
  <2> QED BY <1>3, <2>1, <2>2, <2>3, <2>4, AnswerKinds
<1>5. editor' = [editor EXCEPT ![e] = s]
  BY DEF Deliver, m
<1>6. editor'[e] = s
  BY <1>1, <1>5
<1> HIDE DEF h
<1>7. \A f \in Fields \ {"inbox", "mishaps"} : s[f] = h[f]
  BY <1>4 DEF Fields
<1> QED BY <1>2, <1>3, <1>4, <1>6, <1>7 DEF Is, Deliver, h, m

\* The server's text replaces the editor's.
LEMMA ResyncDetails ==
  ASSUME Typed, NEW e \in Editors, Resync(e)
  PROVE  \E s \in Served : /\ resync[e] = <<"asked", s>>
                           /\ Is(e, HandleResyncSnapshot(editor[e], s), {"mishaps"})
                           /\ UNCHANGED <<surface, serverVars>>
<1>1. DOMAIN editor = Editors /\ editor[e] \in EditorStates(e)
  BY DEF Typed, EditorTyped
<1>2. PICK s \in Served : resync[e] = <<"asked", s>>
  <2>1. Len(resync[e]) = 2 /\ ResyncTyped(e)
    BY DEF Typed, Resync
  <2> QED BY <2>1 DEF ResyncTyped
<1>3. resync[e][2] = s /\ s.version \in Nat /\ s.text \in Texts /\ s.canWrite \in BOOLEAN
  BY <1>2 DEF Served
<1> DEFINE h == HandleResyncSnapshot(editor[e], s)
           t == [h EXCEPT !.mishaps = @ \cup ResyncMishaps(editor[e], s)]
<1>4. DOMAIN h = Fields
  BY <1>1, <1>3, HandleResyncFields DEF SameBut
<1>5. editor' = [editor EXCEPT ![e] =
                     [HandleResyncSnapshot(editor[e], resync[e][2])
                        EXCEPT !.mishaps = @ \cup ResyncMishaps(editor[e], resync[e][2])]]
    BY <1>1 DEF Resync
<1>6. editor'[e] = t
  BY <1>1, <1>3, <1>5
<1> HIDE DEF h
<1>7. \A f \in Fields \ {"mishaps"} : t[f] = h[f]
  BY <1>4 DEF Fields
<1> QED BY <1>2, <1>4, <1>6, <1>7 DEF Is, Resync, h

\* What a user looks at once a rendering is done.
Displayed(r, s) ==
  LET content == IF r.fresh THEN r.content ELSE s.doc
  IN  IF r.slot # <<>> THEN ApplyOperation(content, Head(r.slot).op) ELSE content

\* A rendering shows what was to be displayed.
LEMMA RenderDetails ==
  ASSUME Typed, NEW e \in Editors, Render(e),
         editor[e].slot # <<>> => Head(editor[e].slot).event # surface[e].applied
  PROVE  /\ Displayed(editor'[e], surface'[e]) = Displayed(editor[e], surface[e])
         /\ ~editor'[e].fresh /\ editor'[e].slot = <<>>
         /\ surface'[e].editable = editor[e].canWrite
         /\ surface'[e].applied = IF editor[e].slot # <<>> THEN Head(editor[e].slot).event
                                  ELSE surface[e].applied
<1>1. DOMAIN editor = Editors /\ editor[e] \in EditorStates(e)
  BY DEF Typed, EditorTyped
<1>2. DOMAIN editor[e] = Fields
  BY <1>1 DEF EditorStates, Fields
<1>3. surface[e] \in Views /\ surface \in [Editors -> Views]
  BY DEF Typed
<1>4. Unapplied(e) <=> editor[e].slot # <<>>
  BY DEF Unapplied
<1> DEFINE doc == Displayed(editor[e], surface[e])
           l == IF Unapplied(e) THEN <<>> ELSE editor[e].slot
           t == IF editor[e].fresh \/ Unapplied(e) THEN doc ELSE editor[e].latest
           a == IF Unapplied(e) THEN Head(editor[e].slot).event ELSE surface[e].applied
           s == [editor[e] EXCEPT !.fresh = FALSE, !.slot = l, !.latest = t]
           v == [surface[e] EXCEPT !.editable = editor[e].canWrite, !.doc = doc, !.applied = a]
<1>5. /\ editor' = [editor EXCEPT ![e].fresh = FALSE, ![e].slot = l, ![e].latest = t]
      /\ surface' = [surface EXCEPT ![e].editable = editor[e].canWrite, ![e].doc = doc,
                                    ![e].applied = a]
  BY <1>4 DEF Render, Displayed
<1>6. l = <<>>
  BY <1>4
<1>7. a = IF editor[e].slot # <<>> THEN Head(editor[e].slot).event ELSE surface[e].applied
  BY <1>4
<1> HIDE DEF doc, l, t, a
<1>8. editor'[e] = s
  BY <1>1, <1>2, <1>5 DEF Fields
<1>9. surface'[e] = v
  BY <1>3, <1>5 DEF Views
<1>10. s.fresh = FALSE /\ s.slot = l
  BY <1>2 DEF Fields
<1>11. v.doc = doc /\ v.editable = editor[e].canWrite /\ v.applied = a
  BY <1>3 DEF Views
<1> HIDE DEF s, v
<1>12. Displayed(s, v) = doc
  BY <1>6, <1>10, <1>11 DEF Displayed
<1> QED BY <1>6, <1>7, <1>8, <1>9, <1>10, <1>11, <1>12 DEF doc

\* The edits of a transaction lead to the text after it.
LEMMA TransactionLeads ==
  ASSUME Typed, NEW e \in Editors, NEW doc \in Texts, typed[e] < scenario.maxEdits,
         NEW ops \in Transactions(e, doc)
  PROVE  Leads(doc, ops, AfterTransaction(doc, ops))
<1> DEFINE n == typed[e] + 1
           first == [id |-> Identity(e, 2 * n), op |-> NoOperation]
           next == [id |-> Identity(e, 2 * n + 1), op |-> NoOperation]
           ins(p) == InsertOp(p, <<Char(e, n)>>)
           k == Len(doc)
<1>0. ops \in Seq(Queued(e))
  BY TransactionType
<1>1. k \in Nat /\ (doc # <<>> => k # 0) /\ Char(e, n) \in Chars
  <2>1. scenario \in Scenarios /\ typed[e] \in Nat
    BY DEF Typed
  <2>2. scenario.maxEdits \in Nat
    BY <2>1, EditorsAssumption
  <2>3. n \in 1..scenario.maxEdits
    BY <2>1, <2>2
  <2> QED BY <2>1, <2>3, CharsAssumption DEF Texts
<1>2. \A p \in 0..k : InBounds(ins(p), k)
  BY <1>1 DEF InsertOp, InBounds
<1>3. \A p \in 0..(k - 1) : InBounds(DeleteOp(p, 1), k)
  BY <1>1 DEF DeleteOp, InBounds
<1>4. InBounds(DeleteOp(0, k), k)
  BY <1>1 DEF DeleteOp, InBounds
<1>5. \/ \E op : InBounds(op, k) /\ ops = <<[first EXCEPT !.op = op]>>
      \/ \E p \in 0..(k - 1) :
           ops = <<[first EXCEPT !.op = DeleteOp(p, 1)], [next EXCEPT !.op = ins(p)]>>
  <2> HIDE DEF first, next
  <2>3. \/ \E p \in 0..Len(doc) : ops = <<[first EXCEPT !.op = ins(p)]>>
        \/ \E p \in 0..(Len(doc) - 1) : ops = <<[first EXCEPT !.op = DeleteOp(p, 1)]>>
        \/ doc # <<>> /\ ops = <<[first EXCEPT !.op = DeleteOp(0, Len(doc))]>>
        \/ \E p \in 0..(Len(doc) - 1) :
             ops = <<[first EXCEPT !.op = DeleteOp(p, 1)], [next EXCEPT !.op = ins(p)]>>
    BY Zenon DEF Transactions, first, next
  <2> HIDE DEF ins
  <2> QED BY <1>2, <1>3, <1>4, <2>3
<1>6. \A op : [first EXCEPT !.op = op].op = op /\ [next EXCEPT !.op = op].op = op
  OBVIOUS
<1> HIDE DEF first, next
<1>7. \E d : Leads(doc, ops, d)
  <2>1. CASE \E op : InBounds(op, k) /\ ops = <<[first EXCEPT !.op = op]>>
    <3>1. PICK op : InBounds(op, k) /\ ops = <<[first EXCEPT !.op = op]>>
      BY <2>1
    <3> DEFINE q == [first EXCEPT !.op = op]
    <3>2. q.op = op /\ ops = <<q>>
      BY <1>6, <3>1
    <3> HIDE DEF q
    <3>3. Leads(doc, <<q>>, ApplyOperation(doc, q.op))
      BY <3>1, <3>2, OneLeads
    <3> QED BY <3>2, <3>3
  <2>2. CASE \E p \in 0..(k - 1) :
           ops = <<[first EXCEPT !.op = DeleteOp(p, 1)], [next EXCEPT !.op = ins(p)]>>
    <3>1. PICK p \in 0..(k - 1) :
           ops = <<[first EXCEPT !.op = DeleteOp(p, 1)], [next EXCEPT !.op = ins(p)]>>
      BY <2>2
    <3> DEFINE a == [first EXCEPT !.op = DeleteOp(p, 1)]
               b == [next EXCEPT !.op = ins(p)]
               mid == ApplyOperation(doc, DeleteOp(p, 1))
    <3>2. a.op = DeleteOp(p, 1) /\ b.op = ins(p) /\ ops = <<a, b>>
      BY <1>6, <3>1
    <3> HIDE DEF a, b
    <3>3. DeleteOp(p, 1) \in Operations /\ DeleteOp(p, 1).pos = p /\ DeleteOp(p, 1).len = 1
          /\ Len(DeleteOp(p, 1).text) = 0
      BY <1>1 DEF DeleteOp, Operations, Texts
    <3>4. Len(mid) = k - 1
      <4> DEFINE pos == ClampIndex(p, k)
                 end == ClampIndex(pos + 1, k)
      <4>1. Len(mid) = k + 0 - (end - pos)
        BY <3>3, ApplyLength
      <4>2. pos = p
        BY <1>1 DEF ClampIndex, Greater, Lesser
      <4> HIDE DEF pos
      <4>3. end = p + 1
        BY <1>1, <4>2 DEF ClampIndex, Greater, Lesser
      <4> HIDE DEF end
      <4> QED BY <1>1, <4>1, <4>2, <4>3
    <3>5. Leads(doc, <<a>>, mid)
      BY <1>3, <3>2, OneLeads
    <3>6. InBounds(ins(p), Len(mid))
      BY <1>1, <3>4 DEF InsertOp, InBounds
    <3> HIDE DEF mid
    <3>7. Leads(mid, <<b>>, ApplyOperation(mid, b.op))
      BY <3>2, <3>6, OneLeads
    <3>8. <<a>> \in Seq({a, b}) /\ <<b>> \in Seq({a, b}) /\ <<a>> \o <<b>> = <<a, b>>
      <4>1. a \in {a, b} /\ b \in {a, b}
        OBVIOUS
      <4>2. \A S : a \in S /\ b \in S => <<a>> \in Seq(S) /\ <<b>> \in Seq(S)
        OBVIOUS
      <4>3. Append(<<a>>, b) = <<a>> \o <<b>>
        BY <4>1, <4>2, AppendIsConcat
      <4> QED BY <4>1, <4>2, <4>3, AppendToOne
    <3>9. Leads(doc, <<a>> \o <<b>>, ApplyOperation(mid, b.op))
      BY <3>5, <3>7, <3>8, LeadsOn
    <3> QED BY <3>2, <3>8, <3>9
  <2> QED BY <1>5, <2>1, <2>2
<1>8. PICK d : Leads(doc, ops, d)
  BY <1>7
<1>9. d = AfterTransaction(doc, ops)
  BY <1>0, <1>8, LeadsMeans
<1> QED BY <1>8, <1>9

\* The user edits the displayed text.
LEMMA TypeDetails ==
  ASSUME Typed, NEW e \in Editors, Type(e)
  PROVE  /\ surface[e].editable
         /\ RenderingDue(e) => "behind" \in editor'[e].mishaps
         /\ \E ops \in Seq(Queued(e)) :
              /\ Leads(surface[e].doc, ops, surface'[e].doc)
              /\ surface'[e].applied = surface[e].applied /\ surface'[e].editable
              /\ Is(e, IF editor[e].canWrite THEN SendLocal(editor[e], ops) ELSE editor[e],
                    {"latest", "mishaps"})
<1>1. DOMAIN editor = Editors /\ editor[e] \in EditorStates(e)
  BY DEF Typed, EditorTyped
<1>2. surface[e] \in Views /\ surface \in [Editors -> Views]
  BY DEF Typed
<1>3. PICK ops \in Transactions(e, surface[e].doc) :
        LET doc == AfterTransaction(surface[e].doc, ops)
        IN  /\ surface' = [surface EXCEPT ![e].doc = doc]
            /\ editor' = [editor EXCEPT ![e] =
                 [(IF editor[e].canWrite THEN SendLocal(editor[e], ops) ELSE editor[e])
                    EXCEPT !.latest = doc,
                           !.mishaps = IF RenderingDue(e) THEN @ \cup {"behind"} ELSE @]]
  BY DEF Type
<1> DEFINE r == editor[e]
           doc == AfterTransaction(surface[e].doc, ops)
           h == IF r.canWrite THEN SendLocal(r, ops) ELSE r
           s == [h EXCEPT !.latest = doc,
                          !.mishaps = IF RenderingDue(e) THEN @ \cup {"behind"} ELSE @]
           v == [surface[e] EXCEPT !.doc = doc]
<1>4. surface[e].doc \in Texts /\ typed[e] < scenario.maxEdits /\ surface[e].editable
  BY <1>2 DEF Views, Type
<1>5. ops \in Seq(Queued(e)) /\ Leads(surface[e].doc, ops, doc)
  BY <1>4, TransactionType, TransactionLeads
<1>6. DOMAIN h = Fields
  <2>1. CASE r.canWrite
    <3>1. PICK mid \in EditorStates(e) : SendLocal(r, ops) = SendNext(mid)
      BY <1>1, <1>5, SendLocalFields
    <3> QED BY <2>1, <3>1, SendNextFields DEF SameBut
  <2>2. CASE ~r.canWrite
    BY <1>1, <2>2 DEF EditorStates, Fields
  <2> QED BY <2>1, <2>2
<1>7. editor'[e] = s
  BY <1>1, <1>3
<1>8. surface'[e] = v
  BY <1>2, <1>3 DEF Views
<1> HIDE DEF h, doc
<1>9. /\ \A f \in Fields \ {"latest", "mishaps"} : s[f] = h[f]
      /\ RenderingDue(e) => "behind" \in s.mishaps
  BY <1>6 DEF Fields
<1>10. v.doc = doc /\ v.editable = surface[e].editable /\ v.applied = surface[e].applied
  BY <1>2 DEF Views
<1> HIDE DEF s, v
<1>11. Is(e, h, {"latest", "mishaps"})
  BY <1>6, <1>7, <1>9 DEF Is
<1> QED BY <1>4, <1>5, <1>7, <1>8, <1>9, <1>10, <1>11 DEF h

-----------------------------------------------------------------------------
(* The metrics.                                                            *)

CountedInv == \A e \in Editors : Tallied(editor[e])

\* Who has the same pending operations and metrics has the same count.
LEMMA TalliedSame ==
  ASSUME NEW r, NEW s, s.queue = r.queue, s.inFlight = r.inFlight, s.metrics = r.metrics, Tallied(r)
  PROVE  Tallied(s)
BY DEF Tallied, Pending

\* A delivered message keeps the count.
LEMMA DeliveredTallied ==
  ASSUME Typed, NEW e \in Editors, Deliver(e), Tallied(editor[e])
  PROVE  Tallied(editor'[e])
<1> DEFINE r == editor[e]
           m == Head(r.inbox)
           h == Handle(r, m)
           s == editor'[e]
<1>1. m \in Answers /\ Is(e, h, {"inbox", "mishaps"})
  BY DeliverDetails
<1>2. r \in EditorStates(e) /\ Len(r.inFlight) <= 1
  BY EditorFacts
<1>3. s.queue = h.queue /\ s.inFlight = h.inFlight /\ s.metrics = h.metrics
  BY <1>1 DEF Is, Fields
<1>4. Tallied(h)
  <2>1. CASE m.kind = "snapshot"
    BY <1>1, <1>2, <2>1, AnswerKinds, HandleSnapshotDetails DEF Handle
  <2>2. CASE m.kind = "ack"
    <3>1. h = HandleAck(r, m) /\ m \in Acks
      BY <1>1, <2>2, AnswerKinds DEF Handle
    <3> HIDE DEF h, m, r
    <3>2. Tallied(r)
      BY DEF r
    <3> QED BY <1>2, <3>1, <3>2, HandleAckPending
  <2>3. CASE m.kind = "broadcast_op"
    BY <1>1, <1>2, <2>3, AnswerKinds, HandleRemoteDetails DEF Handle
  <2>4. CASE m.kind = "error"
    <3>1. h = HandleError(r)
      BY <2>4 DEF Handle
    <3> HIDE DEF h
    <3>2. SameBut(r, h, {"status"})
      BY <1>2, <3>1, HandleErrorFields
    <3>3. h.queue = r.queue /\ h.inFlight = r.inFlight /\ h.metrics = r.metrics
      BY <3>2 DEF SameBut, Fields
    <3> QED BY <3>3, TalliedSame
  <2> QED BY <1>1, <2>1, <2>2, <2>3, <2>4, AnswerKinds
<1> HIDE DEF h
<1> QED BY <1>3, <1>4, TalliedSame

\* An editor as it starts has nothing pending.
LEMMA InitialTallied == Tallied(InitialEditor)
<1>1. /\ InitialEditor.queue = <<>> /\ InitialEditor.inFlight = <<>>
      /\ InitialEditor.metrics = EmptyMetrics
  BY DEF InitialEditor
<1>2. EmptyMetrics.pending = 0 /\ EmptyMetrics.sent = 0 /\ EmptyMetrics.acked = 0
  BY DEF EmptyMetrics
<1>3. Len(<<>>) = 0 /\ <<>> \o <<>> = <<>> /\ 0 = 0 + 0
  OBVIOUS
<1> QED BY <1>1, <1>2, <1>3 DEF Tallied, Pending

\* Other steps replace neither what is pending nor the metrics.
LEMMA PendingStays ==
  ASSUME Typed, Bounded, NEW e \in Editors, StepOf(e),
         ~Deliver(e), ~Resync(e), ~Type(e), ~Leave(e)
  PROVE  /\ editor'[e].queue = editor[e].queue /\ editor'[e].inFlight = editor[e].inFlight
         /\ editor'[e].metrics = editor[e].metrics /\ editor'[e].version = editor[e].version
         /\ editor'[e].canWrite = editor[e].canWrite /\ editor'[e].content = editor[e].content
<1>1. CASE Mount(e) \/ LoadMetadata(e) \/ Connect(e)
  BY <1>1, MountEffect DEF Becomes, SameBut, Fields
<1>2. CASE Opened(e)
  BY <1>2, OpenedEffect DEF Becomes, SameBut, Fields
<1>3. CASE Closed(e)
  BY <1>3, ClosedEffect DEF Becomes, SameBut, Fields
<1>4. CASE Render(e)
  BY <1>4, RenderEffect DEF Becomes, SameBut, Fields
<1>5. CASE ServeJoin(e) \/ Refuse(e) \/ AcknowledgeNoOp(e)
  BY <1>5, ReplyEffect DEF Becomes, SameBut, Fields
<1>6. CASE Accept(e)
  BY <1>6, ReceivedEffect DEF Accept, Receive, Becomes, SameBut, Fields
<1>7. CASE AcceptStraggler(e)
  BY <1>7, UntoldEffect DEF Becomes, SameBut, Fields
<1>8. CASE \E a \in Editors : Tell(a, e)
  BY <1>8, TellEffect DEF Becomes, SameBut, Fields
<1>9. CASE AnswerResync(e) \/ AskResync(e) \/ Grant(e) \/ LoseResync(e) \/ EndAnnouncement(e)
  BY <1>9 DEF AnswerResync, AskResync, Grant, LoseResync, EndAnnouncement, clientVars
<1> QED BY <1>1, <1>2, <1>3, <1>4, <1>5, <1>6, <1>7, <1>8, <1>9
        DEF StepOf, EditorStep, Browser, Server, User, World

\* Every step keeps the counts.
LEMMA CountedKept ==
  ASSUME Typed, Bounded, CountedInv, SessionNext
  PROVE  CountedInv'
<1>1. SUFFICES ASSUME NEW x \in Editors PROVE Tallied(editor'[x])
  BY DEF CountedInv
<1>2. Tallied(editor[x])
  BY DEF CountedInv
<1>3. CASE UNCHANGED vars
  BY <1>2, <1>3 DEF vars, clientVars
<1>4. ASSUME NEW e \in Editors, StepOf(e) PROVE Tallied(editor'[x])
  <2>1. CASE x # e
    BY <1>2, <1>4, <2>1, OthersLeft DEF Left
  <2>2. CASE x = e /\ Deliver(e)
    BY <1>2, <2>2, DeliveredTallied
  <2>3. CASE x = e /\ Resync(e)
    <3>1. PICK s \in Served : Is(e, HandleResyncSnapshot(editor[e], s), {"mishaps"})
      BY <2>3, ResyncDetails
    <3> DEFINE h == HandleResyncSnapshot(editor[e], s)
    <3>2. Tallied(h)
      BY EditorFacts, HandleResyncDetails DEF Served
    <3> HIDE DEF h
    <3>3. /\ editor'[e].queue = h.queue /\ editor'[e].inFlight = h.inFlight
          /\ editor'[e].metrics = h.metrics
      BY <3>1 DEF Is, Fields, h
    <3> QED BY <2>3, <3>2, <3>3, TalliedSame
  <2>4. CASE x = e /\ Type(e)
    <3>1. PICK ops \in Seq(Queued(e)) :
            Is(e, IF editor[e].canWrite THEN SendLocal(editor[e], ops) ELSE editor[e],
               {"latest", "mishaps"})
      BY <2>4, TypeDetails
    <3> DEFINE h == IF editor[e].canWrite THEN SendLocal(editor[e], ops) ELSE editor[e]
    <3>2. Tallied(h)
      BY <1>2, <2>4, EditorFacts, SendLocalPending
    <3> HIDE DEF h
    <3>3. /\ editor'[e].queue = h.queue /\ editor'[e].inFlight = h.inFlight
          /\ editor'[e].metrics = h.metrics
      BY <3>1 DEF Is, Fields, h
    <3> QED BY <2>4, <3>2, <3>3, TalliedSame
  <2>5. CASE x = e /\ Leave(e)
    <3>1. editor' = [editor EXCEPT ![e] = [InitialEditor EXCEPT
                  !.socket = "gone", !.fresh = FALSE, !.metadata = "loaded"]]
      BY <2>5 DEF Leave
    <3> DEFINE h == [InitialEditor EXCEPT !.socket = "gone", !.fresh = FALSE, !.metadata = "loaded"]
    <3>2. /\ h.queue = InitialEditor.queue /\ h.inFlight = InitialEditor.inFlight
          /\ h.metrics = InitialEditor.metrics
      BY DEF InitialEditor
    <3> HIDE DEF h
    <3>3. editor'[e] = h
      BY <3>1, EditorFacts DEF h
    <3> QED BY <2>5, <3>2, <3>3, TalliedSame, InitialTallied
  <2>6. CASE x = e /\ ~Deliver(e) /\ ~Resync(e) /\ ~Type(e) /\ ~Leave(e)
    BY <1>2, <1>4, <2>6, PendingStays, TalliedSame
  <2> QED BY <2>1, <2>2, <2>3, <2>4, <2>5, <2>6
<1> QED BY <1>3, <1>4, StepCases

\* Nothing is pending initially.
LEMMA CountedStarts ==
  ASSUME Init PROVE CountedInv
BY InitialTallied DEF Init, CountedInv

-----------------------------------------------------------------------------
(* An editor is told of each version once.                                 *)

\* The versions of others that editor e is yet to be told of.
Ahead(e) ==
  {v \in Nat : \/ v > Version
               \/ \E a \in Editors \ {e} : /\ v > 0 /\ announcing[a].version = v
                                           /\ e \notin announcing[a].told}

\* The remote operation of version v waits in the slot, or is the last one applied.
Took(slot, applied, v) == \/ slot # <<>> /\ Head(slot).event[1] = v
                          \/ applied # <<>> /\ applied[1] = v

Remote(in) == {i \in DOMAIN in : in[i].kind = "broadcast_op"}

\* No version is told twice, or was taken before, or is yet to be told; what waits in
\* the slot is not what was applied last.
Once(in, slot, applied, ahead) ==
  /\ \A i, j \in Remote(in) : in[i].version = in[j].version => i = j
  /\ \A i \in Remote(in) : in[i].version \notin ahead /\ ~Took(slot, applied, in[i].version)
  /\ \A v \in ahead : ~Took(slot, applied, v)
  /\ slot # <<>> => Head(slot).event # applied

OnceInv == \A e \in Editors :
             Once(editor[e].inbox, editor[e].slot, surface[e].applied, Ahead(e))

\* Messages are lost, or the slot is emptied.
LEMMA OnceFewer ==
  ASSUME NEW in, NEW slot, NEW applied, NEW ahead, Once(in, slot, applied, ahead),
         NEW less, less \subseteq ahead
  PROVE  /\ Once(in, slot, applied, less) /\ Once(<<>>, slot, applied, less)
         /\ Once(in, <<>>, applied, less)
<1>1. Remote(<<>>) = {}
  BY DEF Remote
<1>2. \A v : Took(<<>>, applied, v) => Took(slot, applied, v)
  BY DEF Took
<1> QED BY <1>1, <1>2 DEF Once

\* The first message is dropped.
LEMMA OnceTail ==
  ASSUME NEW S, NEW in \in Seq(S), in # <<>>, NEW slot, NEW applied, NEW ahead,
         Once(in, slot, applied, ahead)
  PROVE  Once(Tail(in), slot, applied, ahead)
<1>1. \A i \in DOMAIN Tail(in) : i + 1 \in DOMAIN in /\ Tail(in)[i] = in[i + 1] /\ i \in Nat
  BY TailKnown
<1>2. \A i \in Remote(Tail(in)) : i + 1 \in Remote(in) /\ Tail(in)[i] = in[i + 1] /\ i \in Nat
  BY <1>1 DEF Remote
<1>3. \A i, j \in Remote(Tail(in)) : Tail(in)[i].version = Tail(in)[j].version => i = j
  <2>1. SUFFICES ASSUME NEW i \in Remote(Tail(in)), NEW j \in Remote(Tail(in)),
                        Tail(in)[i].version = Tail(in)[j].version
                 PROVE  i = j
    OBVIOUS
  <2>2. i + 1 = j + 1
    BY <1>2, <2>1 DEF Once
  <2> QED BY <1>2, <2>2
<1> QED BY <1>2, <1>3 DEF Once

\* The first message is put into the slot.
LEMMA OnceTakes ==
  ASSUME NEW in \in Seq(Answers), in # <<>>, NEW slot, NEW applied, NEW ahead,
         Once(in, slot, applied, ahead), Head(in).kind = "broadcast_op", NEW id, NEW op
  PROVE  Once(Tail(in), <<[event |-> <<Head(in).version, id>>, op |-> op]>>, applied, ahead)
<1> DEFINE k == Head(in).version
           event == <<k, id>>
           one == <<[event |-> event, op |-> op]>>
<1>1. one # <<>> /\ Head(one).event = event /\ event[1] = k
  OBVIOUS
<1>2. 1 \in Remote(in) /\ in[1].version = k
  BY HeadKnown DEF Remote
<1>3. k \notin ahead /\ ~Took(slot, applied, k)
  BY <1>2 DEF Once
<1>4. event # applied
  BY <1>1, <1>3 DEF Took
<1> HIDE DEF one, event
<1>5. \A v : Took(one, applied, v) => v = k \/ Took(slot, applied, v)
  BY <1>1 DEF Took
<1>6. \A i \in Remote(Tail(in)) : i + 1 \in Remote(in) /\ Tail(in)[i] = in[i + 1] /\ i + 1 # 1
  BY TailKnown DEF Remote
<1>7. \A i \in Remote(Tail(in)) : Tail(in)[i].version # k
  BY <1>2, <1>6 DEF Once
<1> HIDE DEF k
<1>8. Once(Tail(in), slot, applied, ahead)
  BY OnceTail
<1>9. Once(Tail(in), one, applied, ahead)
  BY <1>1, <1>3, <1>4, <1>5, <1>7, <1>8 DEF Once
<1> QED BY <1>9 DEF one, event, k

\* A message of another kind arrives.
LEMMA OnceAppendOther ==
  ASSUME NEW S, NEW in \in Seq(S), NEW slot, NEW applied, NEW ahead,
         Once(in, slot, applied, ahead), NEW m, m.kind # "broadcast_op"
  PROVE  Once(Append(in, m), slot, applied, ahead)
<1>1. \A i \in Remote(Append(in, m)) : i \in Remote(in) /\ Append(in, m)[i] = in[i]
  BY AppendKnown DEF Remote
<1> QED BY <1>1 DEF Once

\* The editor is told of a version that was ahead.
LEMMA OnceAppendTold ==
  ASSUME NEW S, NEW in \in Seq(S), NEW slot, NEW applied, NEW ahead,
         Once(in, slot, applied, ahead), NEW m, m.version \in ahead,
         NEW less, less \subseteq ahead, m.version \notin less
  PROVE  Once(Append(in, m), slot, applied, less)
<1>1. \A i \in Remote(Append(in, m)) : \/ i \in Remote(in) /\ Append(in, m)[i] = in[i]
                                       \/ i = Len(in) + 1 /\ Append(in, m)[i] = m
  BY AppendKnown DEF Remote
<1>2. \A i \in Remote(in) : in[i].version # m.version
  BY DEF Once
<1>3. ~Took(slot, applied, m.version)
  BY DEF Once
<1>4. \A i, j \in Remote(Append(in, m)) :
        Append(in, m)[i].version = Append(in, m)[j].version => i = j
  BY <1>1, <1>2 DEF Once
<1> QED BY <1>1, <1>3, <1>4 DEF Once

\* What is in the slot is applied.
LEMMA OnceApplied ==
  ASSUME NEW in, NEW slot, NEW applied, NEW ahead, Once(in, slot, applied, ahead), slot # <<>>
  PROVE  Once(in, <<>>, Head(slot).event, ahead)
<1>1. \A v : Took(<<>>, Head(slot).event, v) => Took(slot, applied, v)
  BY DEF Took
<1> QED BY <1>1 DEF Once

\* A new view was told nothing.
LEMMA OnceNothing ==
  ASSUME NEW ahead
  PROVE  Once(<<>>, <<>>, <<>>, ahead)
BY DEF Once, Remote, Took

\* Nobody is told of more than what is ahead.
LEMMA AheadShrinks ==
  ASSUME Typed, Bounded, NEW e \in Editors, StepOf(e), SessionNext, NEW x \in Editors
  PROVE  Ahead(x)' \subseteq Ahead(x)
<1>1. Version \in Nat /\ Len(log') \in Nat /\ Version <= Len(log') /\ Version' = Len(log')
  BY LogStays DEF Version
<1>2. NoAnnouncement.version = 0
  BY DEF NoAnnouncement
<1>3. SUFFICES ASSUME NEW v \in Nat, v \in Ahead(x)'
               PROVE  v \in Ahead(x)
  BY DEF Ahead
<1>4. CASE v > Version'
  BY <1>1, <1>4 DEF Ahead
<1>5. ASSUME NEW a \in Editors \ {x}, v > 0, announcing'[a].version = v, x \notin announcing'[a].told
      PROVE  v \in Ahead(x)
  <2>1. Announces(a)
    BY AnnouncementSteps
  <2>2. announcing'[a] # NoAnnouncement
    BY <1>2, <1>5
  <2>3. CASE announcing'[a].version = announcing[a].version /\ announcing[a].told \subseteq announcing'[a].told
    BY <1>5, <2>3 DEF Ahead
  <2>4. CASE announcing'[a].version = Version + 1
    BY <1>1, <1>5, <2>4 DEF Ahead
  <2> QED BY <2>1, <2>2, <2>3, <2>4 DEF Announces
<1> QED BY <1>3, <1>4, <1>5 DEF Ahead

\* What an editor is told of another's operation is not ahead any more.
LEMMA ToldIsNotAhead ==
  ASSUME Typed, Bounded, OwnAnnouncements, NEW e \in Editors, NEW a \in Editors \ {e}, Tell(a, e)
  PROVE  announcing[a].version \in Ahead(e) /\ announcing[a].version \notin Ahead(e)'
<1> DEFINE n == announcing[a].version
<1>1. n \in 1..Version /\ Version \in Nat /\ log' = log
  BY TellEffect, LogFacts DEF Tell
<1>2. announcing \in [Editors -> [version : Nat, told : SUBSET Editors]]
  BY LogFacts
<1>3. announcing' = [announcing EXCEPT ![a].told = @ \cup {e}] /\ announcing[a] # NoAnnouncement
      /\ e \notin announcing[a].told
  BY DEF Tell
<1>4. e \in announcing'[a].told /\ \A b \in Editors \ {a} : announcing'[b] = announcing[b]
  BY <1>2, <1>3
<1>5. n \in Ahead(e)
  BY <1>1, <1>3 DEF Ahead
<1>6. log[n].id.client = a
  BY <1>3 DEF OwnAnnouncements
<1>7. ASSUME NEW b \in Editors \ {e}, announcing'[b].version = n, e \notin announcing'[b].told
      PROVE  FALSE
  <2>1. b # a /\ announcing[b].version = n
    BY <1>4, <1>7
  <2>2. announcing[b] # NoAnnouncement
    BY <1>1, <2>1 DEF NoAnnouncement
  <2>3. log[n].id.client = b
    BY <2>1, <2>2 DEF OwnAnnouncements
  <2> QED BY <1>6, <2>1, <2>3
<1>8. ~(n > Version')
  BY <1>1 DEF Version
<1> HIDE DEF n
<1>9. n \notin Ahead(e)'
  BY <1>7, <1>8 DEF Ahead
<1> QED BY <1>5, <1>9 DEF n

\* Only typing, renderings and leaving the page change what is displayed.
LEMMA SurfaceStays ==
  ASSUME NEW e \in Editors, StepOf(e), ~Type(e), ~Render(e), ~Leave(e)
  PROVE  surface' = surface
BY DEF StepOf, EditorStep, Browser, Server, User, World, LoseResync, Mount, LoadMetadata,
       Connect, Opened, Deliver, Resync, ServeJoin, Refuse, AcknowledgeNoOp, Accept,
       AcceptStraggler, AnswerResync, AskResync, Closed, Grant, Tell, EndAnnouncement, clientVars

\* The messages of other editors, and of one that does something else, stay.
LEMMA MessagesStay ==
  ASSUME Typed, Bounded, NEW e \in Editors, StepOf(e),
         ~Deliver(e), ~Closed(e), ~Leave(e), ~ServeJoin(e), ~Refuse(e), ~AcknowledgeNoOp(e),
         ~(\E a \in Editors : Tell(a, e))
  PROVE  editor'[e].inbox = editor[e].inbox
<1>1. CASE Mount(e) \/ LoadMetadata(e) \/ Connect(e)
  BY <1>1, MountEffect DEF Becomes, SameBut, Fields
<1>2. CASE Opened(e)
  BY <1>2, OpenedEffect DEF Becomes, SameBut, Fields
<1>3. CASE Resync(e)
  BY <1>3, ResyncEffect DEF Becomes, SameBut, Fields
<1>4. CASE Render(e)
  BY <1>4, RenderEffect DEF Becomes, SameBut, Fields
<1>5. CASE Type(e)
  BY <1>5, TypeEffect DEF Becomes, SameBut, Fields
<1>6. CASE Accept(e)
  BY <1>6, ReceivedEffect DEF Accept, Receive, Becomes, SameBut, Fields
<1>7. CASE AcceptStraggler(e)
  BY <1>7, UntoldEffect DEF Becomes, SameBut, Fields
<1>8. CASE AnswerResync(e) \/ AskResync(e) \/ Grant(e) \/ LoseResync(e) \/ EndAnnouncement(e)
  BY <1>8 DEF AnswerResync, AskResync, Grant, LoseResync, EndAnnouncement, clientVars
<1> QED BY <1>1, <1>2, <1>3, <1>4, <1>5, <1>6, <1>7, <1>8
        DEF StepOf, EditorStep, Browser, Server, User, World

\* The slot is filled by messages, and emptied by renderings and resyncs.
LEMMA SlotStays ==
  ASSUME Typed, Bounded, NEW e \in Editors, StepOf(e),
         ~Deliver(e), ~Render(e), ~Resync(e), ~Leave(e)
  PROVE  editor'[e].slot = editor[e].slot /\ editor'[e].fresh = editor[e].fresh
<1>1. CASE Mount(e) \/ LoadMetadata(e) \/ Connect(e)
  BY <1>1, MountEffect DEF Becomes, SameBut, Fields
<1>2. CASE Opened(e)
  BY <1>2, OpenedEffect DEF Becomes, SameBut, Fields
<1>3. CASE Closed(e)
  BY <1>3, ClosedEffect DEF Becomes, SameBut, Fields
<1>4. CASE ServeJoin(e) \/ Refuse(e) \/ AcknowledgeNoOp(e)
  BY <1>4, ReplyEffect DEF Becomes, SameBut, Fields
<1>5. CASE Type(e)
  BY <1>5, TypeEffect DEF Becomes, SameBut, Fields
<1>6. CASE Accept(e)
  BY <1>6, ReceivedEffect DEF Accept, Receive, Becomes, SameBut, Fields
<1>7. CASE AcceptStraggler(e)
  BY <1>7, UntoldEffect DEF Becomes, SameBut, Fields
<1>8. CASE \E a \in Editors : Tell(a, e)
  BY <1>8, TellEffect DEF Becomes, SameBut, Fields
<1>9. CASE AnswerResync(e) \/ AskResync(e) \/ Grant(e) \/ LoseResync(e) \/ EndAnnouncement(e)
  BY <1>9 DEF AnswerResync, AskResync, Grant, LoseResync, EndAnnouncement, clientVars
<1> QED BY <1>1, <1>2, <1>3, <1>4, <1>5, <1>6, <1>7, <1>8, <1>9
        DEF StepOf, EditorStep, Browser, Server, User, World

OnceOf(e) == Once(editor[e].inbox, editor[e].slot, surface[e].applied, Ahead(e))

\* An editor's own steps.
LEMMA OwnOnceKept ==
  ASSUME Typed, Bounded, OwnAnnouncements, SessionNext, NEW e \in Editors, StepOf(e), OnceOf(e)
  PROVE  OnceOf(e)'
<1> DEFINE in == editor[e].inbox
           slot == editor[e].slot
           applied == surface[e].applied
           less == Ahead(e)'
           Goal == Once(editor'[e].inbox, editor'[e].slot, surface'[e].applied, less)
<1>1. SUFFICES Goal
  BY DEF OnceOf
<1>2. less \subseteq Ahead(e)
  BY AheadShrinks
<1>3. Once(in, slot, applied, Ahead(e))
  BY DEF OnceOf
<1>4. in \in Seq(Answers) /\ slot \in Seq(Events)
  BY EditorFacts
<1> HIDE DEF less
<1>5. Once(in, slot, applied, less) /\ Once(<<>>, slot, applied, less) /\ Once(in, <<>>, applied, less)
  BY <1>2, <1>3, OnceFewer
<1>6. CASE Deliver(e)
  <2> DEFINE r == editor[e]
             m == Head(r.inbox)
             h == Handle(r, m)
  <2>1. m \in Answers /\ in # <<>> /\ surface' = surface /\ Is(e, h, {"inbox", "mishaps"})
    BY <1>6, DeliverDetails
  <2>2. editor'[e].inbox = Tail(in)
    BY <1>6, DeliverEffect
  <2>3. Once(Tail(in), slot, applied, less)
    BY <1>4, <1>5, <2>1, OnceTail
  <2>4. CASE editor'[e].slot = slot
    BY <2>1, <2>2, <2>3, <2>4
  <2>5. CASE m.kind = "broadcast_op"
    <3>1. h = HandleRemoteOperation(r, m) /\ m \in Broadcasts /\ r \in EditorStates(e)
      BY <2>1, <2>5, AnswerKinds, EditorFacts DEF Handle
    <3>2. editor'[e].slot = h.slot
      BY <2>1 DEF Is, Fields
    <3> HIDE DEF h
    <3>3. h.slot = SlotAfter(r, m)
      BY <3>1, HandleRemoteDetails
    <3> DEFINE op == OverPending(m, Pending(r))
    <3>4. CASE op = NoOperation
      BY <2>4, <3>2, <3>3, <3>4 DEF SlotAfter
    <3>5. CASE op # NoOperation
      <4>1. editor'[e].slot = <<[event |-> <<m.version, m.id>>, op |-> op]>>
        BY <3>2, <3>3, <3>5 DEF SlotAfter
      <4> HIDE DEF op
      <4>2. Once(Tail(in), <<[event |-> <<m.version, m.id>>, op |-> op]>>, applied, less)
        BY <1>4, <1>5, <2>1, <2>5, OnceTakes
      <4> QED BY <2>1, <2>2, <4>1, <4>2
    <3> QED BY <3>4, <3>5
  <2>6. m.kind # "broadcast_op" => editor'[e].slot = slot
    BY <1>6, <2>1, DeliverEffect, AnswerKinds DEF SameBut, Fields
  <2> QED BY <2>4, <2>5, <2>6
<1>7. CASE Resync(e)
  <2>1. editor'[e].slot = <<>> /\ editor'[e].inbox = in
    BY <1>7, ResyncEffect DEF Becomes, SameBut, Fields
  <2>2. surface' = surface
    BY <1>7 DEF Resync
  <2> QED BY <1>5, <2>1, <2>2
<1>8. CASE Render(e)
  <2>1. slot # <<>> => Head(slot).event # applied
    BY <1>3 DEF Once
  <2>2. /\ editor'[e].slot = <<>>
        /\ surface'[e].applied = IF slot # <<>> THEN Head(slot).event ELSE applied
    BY <1>8, <2>1, RenderDetails
  <2>3. editor'[e].inbox = in
    BY <1>8, RenderEffect DEF Becomes, SameBut, Fields
  <2>4. CASE slot = <<>>
    BY <1>5, <2>2, <2>3, <2>4
  <2>5. CASE slot # <<>>
    BY <1>5, <2>2, <2>3, <2>5, OnceApplied
  <2> QED BY <2>4, <2>5
<1>9. CASE Leave(e)
  <2>1. surface' = [surface EXCEPT ![e] = InitialSurface] /\ DOMAIN surface = Editors
    BY <1>9 DEF Leave, Typed
  <2>2. surface'[e].applied = <<>>
    BY <2>1 DEF InitialSurface
  <2> QED BY <1>9, <2>2, LeaveEffect, OnceNothing
<1>10. CASE Type(e)
  <2>1. editor'[e].inbox = in
    BY <1>10, TypeEffect DEF Becomes, SameBut, Fields
  <2>2. surface'[e].applied = applied
    BY <1>10, TypeDetails
  <2>3. editor'[e].slot = slot
    BY <1>10, TypeEffect DEF Becomes, SameBut, Fields
  <2> QED BY <1>5, <2>1, <2>2, <2>3
<1>11. ASSUME editor'[e].slot = slot, surface' = surface,
              editor'[e].inbox = in \/ editor'[e].inbox = <<>>
       PROVE  Goal
  BY <1>5, <1>11
<1>12. ASSUME editor'[e].slot = slot, surface' = surface,
              NEW m, editor'[e].inbox = Append(in, m), m.kind # "broadcast_op"
       PROVE  Goal
  BY <1>4, <1>5, <1>12, OnceAppendOther
<1>13. ASSUME ~Deliver(e), ~Resync(e), ~Render(e), ~Leave(e), ~Type(e)
       PROVE  editor'[e].slot = slot /\ surface' = surface
  BY <1>13, SlotStays, SurfaceStays
<1>14. CASE Closed(e)
  <2>1. editor'[e].inbox = <<>> /\ editor'[e].slot = slot
    BY <1>14, ClosedEffect DEF Becomes, SameBut, Fields
  <2>2. surface' = surface
    BY <1>14 DEF Closed
  <2> QED BY <1>11, <2>1, <2>2
<1>15. CASE ServeJoin(e) \/ Refuse(e) \/ AcknowledgeNoOp(e)
  <2>1. editor'[e].slot = slot
    BY <1>15, ReplyEffect DEF Becomes, SameBut, Fields
  <2>2. surface' = surface
    BY <1>15 DEF ServeJoin, Refuse, AcknowledgeNoOp
  <2>3. PICK m \in Answers : /\ editor'[e].inbox = Append(in, m)
                             /\ m.kind \in {"snapshot", "error", "ack"}
    BY <1>15, ReplyEffect
  <2> QED BY <1>12, <2>1, <2>2, <2>3
<1>16. CASE Tell(e, e)
  <2>1. editor'[e].slot = slot
    BY <1>16, TellEffect DEF Becomes, SameBut, Fields
  <2>2. surface' = surface
    BY <1>16 DEF Tell
  <2>3. PICK m \in Answers : editor'[e].inbox = Append(in, m) /\ m.kind = "ack"
    BY <1>16, TellEffect
  <2> QED BY <1>12, <2>1, <2>2, <2>3
<1>17. ASSUME NEW a \in Editors \ {e}, Tell(a, e)
       PROVE  Goal
  <2>1. editor'[e].slot = slot
    BY <1>17, TellEffect DEF Becomes, SameBut, Fields
  <2>2. surface' = surface
    BY <1>17 DEF Tell
  <2>3. PICK m \in Answers : /\ editor'[e].inbox = Append(in, m)
                             /\ m.version = announcing[a].version
    BY <1>17, TellEffect
  <2>4. announcing[a].version \in Ahead(e) /\ announcing[a].version \notin less
    BY <1>17, ToldIsNotAhead DEF less
  <2>5. Once(Append(in, m), slot, applied, less)
    BY <1>2, <1>3, <1>4, <2>3, <2>4, OnceAppendTold
  <2> QED BY <2>1, <2>2, <2>3, <2>5
<1>18. CASE /\ ~Deliver(e) /\ ~Closed(e) /\ ~Leave(e) /\ ~ServeJoin(e) /\ ~Refuse(e)
            /\ ~AcknowledgeNoOp(e) /\ ~(\E a \in Editors : Tell(a, e))
            /\ ~Resync(e) /\ ~Render(e) /\ ~Type(e)
  BY <1>11, <1>13, <1>18, MessagesStay
<1> QED BY <1>6, <1>7, <1>8, <1>9, <1>10, <1>14, <1>15, <1>16, <1>17, <1>18

\* Every step keeps that editors are told once.
LEMMA OnceKept ==
  ASSUME Typed, Bounded, OwnAnnouncements, OnceInv, SessionNext
  PROVE  OnceInv'
<1>1. SUFFICES ASSUME NEW x \in Editors PROVE OnceOf(x)'
  BY DEF OnceInv, OnceOf
<1>2. OnceOf(x)
  BY DEF OnceInv, OnceOf
<1>3. CASE UNCHANGED vars
  <2>1. editor' = editor /\ surface' = surface /\ announcing' = announcing /\ log' = log
    BY <1>3 DEF vars, clientVars, serverVars
  <2>2. Ahead(x)' = Ahead(x)
    BY <2>1 DEF Ahead, Version
  <2> QED BY <1>2, <2>1, <2>2 DEF OnceOf
<1>4. ASSUME NEW e \in Editors, StepOf(e) PROVE OnceOf(x)'
  <2>1. CASE x = e
    BY <1>2, <1>4, <2>1, OwnOnceKept
  <2>2. CASE x # e
    <3>1. editor'[x] = editor[x] /\ surface'[x] = surface[x]
      BY <1>4, <2>2, OthersLeft DEF Left
    <3>2. Ahead(x)' \subseteq Ahead(x)
      BY <1>4, AheadShrinks
    <3> DEFINE less == Ahead(x)'
    <3>3. Once(editor[x].inbox, editor[x].slot, surface[x].applied, less)
      BY <1>2, <3>2, OnceFewer DEF OnceOf
    <3> QED BY <3>1, <3>3 DEF OnceOf
  <2> QED BY <2>1, <2>2
<1> QED BY <1>3, <1>4, StepCases

\* Nobody was told anything initially.
LEMMA OnceStarts ==
  ASSUME Init PROVE OnceInv
<1>1. ASSUME NEW e \in Editors PROVE OnceOf(e)
  <2>1. editor[e] = InitialEditor /\ surface[e] = InitialSurface
    BY DEF Init
  <2>2. editor[e].inbox = <<>> /\ editor[e].slot = <<>> /\ surface[e].applied = <<>>
    BY <2>1 DEF InitialEditor, InitialSurface
  <2> QED BY <2>2, OnceNothing DEF OnceOf
<1> QED BY <1>1 DEF OnceInv, OnceOf

-----------------------------------------------------------------------------
(* What an editor sends, or is about to, was not received before.          *)

\* The numbers of an editor's operations that the server accepted or will.
Taken(l, st, e) == {l[v].id.op : v \in Logged(l, e)} \cup {st[i].id.op : i \in DOMAIN st}

\* Those on the socket and in the queue stand in the order they were typed, and the
\* numbers T are below them.
Newer(e, T, up, q, n) ==
  /\ Line(e, <<>>, <<>>, up, q, n)
  /\ T \subseteq 0..n
  /\ \A t \in T : /\ \A i \in Asked(up) : t < up[i].id.op
                  /\ \A i \in DOMAIN q : t < q[i].id.op

NewerOf(e) == Newer(e, Taken(log, stragglers[e], e), editor[e].upstream, editor[e].queue,
                    2 * typed[e] + 1)

NewerInv == \A e \in Editors : NewerOf(e)

\* What a line says of the socket and the queue alone.
LEMMA LineOfNone ==
  ASSUME NEW e, NEW up, NEW q, NEW n
  PROVE  Line(e, <<>>, <<>>, up, q, n) <=>
           /\ UpTo(up, Asked(up), n) /\ UpTo(q, DOMAIN q, n)
           /\ Ascending(up, Asked(up)) /\ Ascending(q, DOMAIN q)
           /\ Below(up, Asked(up), q, DOMAIN q)
<1>1. DOMAIN <<>> = {}
  OBVIOUS
<1> DEFINE none == <<>>
<1>2. DOMAIN none = {}
  BY <1>1
<1> HIDE DEF none
<1>3. Logged(none, e) = {}
  BY <1>2 DEF Logged
<1>4. Line(e, none, none, up, q, n) <=>
           /\ UpTo(up, Asked(up), n) /\ UpTo(q, DOMAIN q, n)
           /\ Ascending(up, Asked(up)) /\ Ascending(q, DOMAIN q)
           /\ Below(up, Asked(up), q, DOMAIN q)
  BY <1>2, <1>3 DEF Line, UpTo, Ascending, Below
<1> QED BY <1>4 DEF none

\* The first of the queue may be sent.
LEMMA NewerSends ==
  ASSUME NEW e, NEW T, NEW S, NEW up \in Seq(S), NEW Q, NEW q \in Seq(Q), NEW n,
         Newer(e, T, up, q, n), NEW f, NEW s, Sends(q, f, up, s)
  PROVE  Newer(e, T, s.upstream, s.queue, n)
<1>1. <<>> \in Seq({})
  OBVIOUS
<1>2. Line(e, <<>>, <<>>, s.upstream, s.queue, n)
  BY LineMaySend DEF Newer
<1>3. CASE s.queue = q /\ s.upstream = up
  BY <1>3
<1> DEFINE m == OpMsg(Head(q), s.version)
<1>4. CASE q # <<>> /\ s.queue = Tail(q) /\ s.upstream = Append(up, m)
  <2>1. 1 \in DOMAIN q /\ Head(q) = q[1]
    BY <1>4, HeadKnown
  <2>2. m.id = q[1].id
    BY <2>1 DEF OpMsg
  <2> HIDE DEF m
  <2>3. ASSUME NEW t \in T, NEW i \in Asked(Append(up, m)) PROVE t < Append(up, m)[i].id.op
    <3>1. i \in DOMAIN Append(up, m) /\ Append(up, m)[i].kind = "op"
      BY <2>3 DEF Asked
    <3>2. \/ i \in DOMAIN up /\ Append(up, m)[i] = up[i]
          \/ Append(up, m)[i] = m
      BY <3>1, AppendKnown
    <3>3. CASE i \in DOMAIN up /\ Append(up, m)[i] = up[i]
      BY <2>3, <3>1, <3>3 DEF Newer, Asked
    <3>4. CASE Append(up, m)[i] = m
      BY <2>1, <2>2, <2>3, <3>4 DEF Newer
    <3> QED BY <3>2, <3>3, <3>4
  <2>4. ASSUME NEW t \in T, NEW i \in DOMAIN Tail(q) PROVE t < Tail(q)[i].id.op
    BY <1>4, <2>4, TailKnown DEF Newer
  <2> QED BY <1>2, <1>4, <2>3, <2>4 DEF Newer
<1> QED BY <1>3, <1>4 DEF Sends

\* The first of the socket is read.
LEMMA NewerReads ==
  ASSUME NEW e, NEW T, NEW S, NEW up \in Seq(S), NEW q, NEW n, Newer(e, T, up, q, n), up # <<>>,
         NEW T2, \A t \in T2 : t \in T \/ (Head(up).kind = "op" /\ t = Head(up).id.op)
  PROVE  Newer(e, T2, Tail(up), q, n)
<1>1. <<>> \in Seq({})
  OBVIOUS
<1>2. Line(e, <<>>, <<>>, Tail(up), q, n)
  BY LineReads DEF Newer
<1>3. 1 \in DOMAIN up /\ Head(up) = up[1]
  BY HeadKnown
<1>4. /\ UpTo(up, Asked(up), n) /\ Ascending(up, Asked(up))
      /\ Below(up, Asked(up), q, DOMAIN q)
  BY LineOfNone DEF Newer
<1>5. ASSUME NEW t \in T2
      PROVE  /\ t \in 0..n
             /\ \A i \in Asked(Tail(up)) : t < Tail(up)[i].id.op
             /\ \A i \in DOMAIN q : t < q[i].id.op
  <2>1. ASSUME NEW i \in Asked(Tail(up))
        PROVE  i + 1 \in Asked(up) /\ Tail(up)[i] = up[i + 1] /\ 1 < i + 1
    <3>1. i \in DOMAIN Tail(up) /\ Tail(up)[i].kind = "op"
      BY <2>1 DEF Asked
    <3>2. i + 1 \in DOMAIN up /\ Tail(up)[i] = up[i + 1] /\ i \in 1..Len(Tail(up))
      BY <3>1, TailKnown
    <3> QED BY <3>1, <3>2 DEF Asked
  <2>2. CASE t \in T
    BY <2>1, <2>2 DEF Newer
  <2>3. CASE Head(up).kind = "op" /\ t = Head(up).id.op
    <3>1. 1 \in Asked(up) /\ t = up[1].id.op
      BY <1>3, <2>3 DEF Asked
    <3>2. \A i \in Asked(Tail(up)) : t < Tail(up)[i].id.op
      BY <1>4, <2>1, <3>1 DEF Ascending
    <3> QED BY <1>4, <3>1, <3>2 DEF UpTo, Below
  <2> QED BY <1>5, <2>2, <2>3
<1> QED BY <1>2, <1>5 DEF Newer

\* The queue is forgotten, or its operations are transformed.
LEMMA NewerForgets ==
  ASSUME NEW e, NEW T, NEW up, NEW q, NEW n, Newer(e, T, up, q, n),
         NEW q2, DOMAIN q2 \subseteq DOMAIN q, \A i \in DOMAIN q2 : q2[i].id = q[i].id
  PROVE  Newer(e, T, up, q2, n)
<1>1. Line(e, <<>>, <<>>, up, q2, n)
  BY LineForgets DEF Newer
<1> QED BY <1>1 DEF Newer

\* The user types.
LEMMA NewerTypes ==
  ASSUME NEW e, NEW T, NEW up, NEW Q, NEW q \in Seq(Q), NEW n \in Nat,
         Newer(e, T, up, q, n), NEW ops \in Seq(Q), Len(ops) \in {1, 2},
         \A i \in DOMAIN ops : ops[i].id.op = n + i
  PROVE  Newer(e, T, up, q \o ops, n + 2)
<1>1. Line(e, <<>>, <<>>, up, q \o ops, n + 2)
  BY LineTypes DEF Newer
<1>2. ASSUME NEW t \in T, NEW i \in DOMAIN (q \o ops) PROVE t < (q \o ops)[i].id.op
  <2>1. t \in 0..n
    BY <1>2 DEF Newer
  <2>2. \/ i \in DOMAIN q /\ (q \o ops)[i] = q[i]
        \/ i - Len(q) \in DOMAIN ops /\ (q \o ops)[i] = ops[i - Len(q)] /\ i - Len(q) > 0
    BY <1>2
  <2>3. CASE i \in DOMAIN q /\ (q \o ops)[i] = q[i]
    BY <1>2, <2>3 DEF Newer
  <2> DEFINE k == i - Len(q)
  <2>4. CASE k \in DOMAIN ops /\ (q \o ops)[i] = ops[k] /\ k > 0
    <3>1. k \in Int
      BY <2>4
    <3> HIDE DEF k
    <3>2. ops[k].id.op = n + k
      BY <2>4
    <3> QED BY <2>1, <2>4, <3>1, <3>2
  <2> QED BY <2>2, <2>3, <2>4
<1>3. T \subseteq 0..(n + 2)
  BY DEF Newer
<1> QED BY <1>1, <1>2, <1>3 DEF Newer

\* The socket closes: some of what is on it straggles.
LEMMA NewerCloses ==
  ASSUME NEW e, NEW T, NEW up, NEW q, NEW n, Newer(e, T, up, q, n),
         NEW T2, \A t \in T2 : t \in T \/ \E i \in Asked(up) : t = up[i].id.op
  PROVE  Newer(e, T2, <<>>, q, n)
<1>1. Asked(<<>>) = {}
  BY EmptyIsIdle
<1>2. /\ UpTo(up, Asked(up), n) /\ UpTo(q, DOMAIN q, n) /\ Ascending(q, DOMAIN q)
      /\ Below(up, Asked(up), q, DOMAIN q)
  BY LineOfNone DEF Newer
<1> DEFINE none == <<>>
<1>3. Asked(none) = {}
  BY <1>1
<1> HIDE DEF none
<1>4. Line(e, <<>>, <<>>, none, q, n)
  BY <1>2, <1>3, LineOfNone DEF UpTo, Ascending, Below
<1>5. ASSUME NEW t \in T2 PROVE t \in 0..n /\ \A i \in DOMAIN q : t < q[i].id.op
  BY <1>2, <1>5 DEF Newer, UpTo, Below
<1>6. Newer(e, T2, none, q, n)
  BY <1>3, <1>4, <1>5 DEF Newer
<1> QED BY <1>6 DEF none

\* Fewer numbers are taken.
LEMMA NewerFewer ==
  ASSUME NEW e, NEW T, NEW up, NEW q, NEW n, Newer(e, T, up, q, n), NEW T2 \in SUBSET T
  PROVE  Newer(e, T2, up, q, n)
BY DEF Newer

\* What is on a new socket is no operation.
LEMMA NewerOpens ==
  ASSUME NEW e, NEW T, NEW up, NEW q, NEW n, Newer(e, T, up, q, n), NEW up2, Asked(up2) = {}
  PROVE  Newer(e, T, up2, q, n)
<1>1. UpTo(q, DOMAIN q, n) /\ Ascending(q, DOMAIN q)
  BY LineOfNone DEF Newer
<1>2. Line(e, <<>>, <<>>, up2, q, n)
  BY <1>1, LineOfNone DEF UpTo, Ascending, Below
<1> QED BY <1>2 DEF Newer

\* What a step adds to the numbers of an editor that are taken.
LEMMA TakenSteps ==
  ASSUME Typed, Bounded, NEW e \in Editors, StepOf(e), NEW x \in Editors,
         NEW t \in Taken(log, stragglers[x], x)'
  PROVE  \/ t \in Taken(log, stragglers[x], x)
         \/ /\ x = e /\ Accept(e) /\ t = Head(editor[e].upstream).id.op
         \/ /\ x = e /\ (Closed(e) \/ Leave(e))
            /\ \E i \in Asked(editor[e].upstream) : t = editor[e].upstream[i].id.op
<1> DEFINE st == stragglers[x]
           Goal == \/ t \in Taken(log, st, x)
                   \/ /\ x = e /\ Accept(e) /\ t = Head(editor[e].upstream).id.op
                   \/ /\ x = e /\ (Closed(e) \/ Leave(e))
                      /\ \E i \in Asked(editor[e].upstream) : t = editor[e].upstream[i].id.op
<1>1. /\ log \in Seq(Entries) /\ DOMAIN stragglers = Editors
      /\ stragglers[x] \in Seq(OpMsgs(x)) /\ stragglers[e] \in Seq(OpMsgs(e))
  BY DEF Typed
<1>2. \/ \E v \in Logged(log', x) : t = log'[v].id.op
      \/ \E i \in DOMAIN stragglers'[x] : t = stragglers'[x][i].id.op
  BY DEF Taken, Logged
<1>3. ASSUME NEW v \in Logged(log', x), t = log'[v].id.op
      PROVE  Goal
  <2>1. CASE v \in Logged(log, x) /\ log'[v] = log[v]
    BY <1>3, <2>1 DEF Taken
  <2>2. ASSUME NEW id, Follows(log', log, id), v = Len(log) + 1, log'[v].id = id, id.client = x,
               EditorStep(e),
               \/ Accept(e) /\ id = Head(editor[e].upstream).id /\ id.client = e
               \/ AcceptStraggler(e) /\ id = Head(stragglers[e]).id /\ id.client = e
        PROVE  Goal
    <3>1. x = e /\ t = id.op
      BY <1>3, <2>2
    <3>2. CASE Accept(e) /\ id = Head(editor[e].upstream).id
      BY <3>1, <3>2
    <3>3. CASE AcceptStraggler(e) /\ id = Head(stragglers[e]).id
      <4>1. stragglers[e] # <<>>
        BY <3>3 DEF AcceptStraggler
      <4>2. 1 \in DOMAIN st /\ Head(st) = st[1]
        BY <1>1, <3>1, <4>1, HeadKnown
      <4>3. t = st[1].id.op
        BY <3>1, <3>3, <4>2
      <4> QED BY <4>2, <4>3 DEF Taken
    <3> QED BY <2>2, <3>2, <3>3
  <2>3. CASE log' = log
    BY <1>3, <2>1, <2>3
  <2>4. CASE EditorStep(e) /\ log' # log
    <3>1. PICK id : /\ Follows(log', log, id)
                    /\ \/ Accept(e) /\ id = Head(editor[e].upstream).id /\ id.client = e
                       \/ AcceptStraggler(e) /\ id = Head(stragglers[e]).id /\ id.client = e
      BY <2>4, LogFollows
    <3>2. \/ v \in Logged(log, x) /\ log'[v] = log[v]
          \/ v = Len(log) + 1 /\ log'[v].id = id /\ id.client = x
      BY <1>1, <1>3, <3>1, LoggedFollows
    <3> QED BY <2>1, <2>2, <2>4, <3>1, <3>2
  <2>5. CASE (\E a \in Editors : Tell(a, e)) \/ EndAnnouncement(e)
    BY <2>3, <2>5 DEF Tell, EndAnnouncement
  <2> QED BY <2>3, <2>4, <2>5 DEF StepOf
<1>4. ASSUME NEW i \in DOMAIN stragglers'[x], t = stragglers'[x][i].id.op
      PROVE  Goal
  <2>1. CASE stragglers'[x] = stragglers[x]
    BY <1>4, <2>1 DEF Taken
  <2>2. CASE x # e
    BY <2>1, <2>2, OthersLeft DEF Left
  <2>3. CASE x = e /\ (Closed(e) \/ Leave(e))
    <3>1. PICK ops \in Seq(OpMsgs(e)) :
              /\ stragglers' = [stragglers EXCEPT ![e] = @ \o ops]
              /\ \A j \in DOMAIN ops : j \in DOMAIN SentOps(e) /\ ops[j] = SentOps(e)[j]
      BY <2>3, AbandonEffect
    <3>2. stragglers'[x] = st \o ops
      BY <1>1, <2>3, <3>1
    <3>3. \/ i \in DOMAIN st /\ stragglers'[x][i] = st[i]
          \/ \E j \in DOMAIN ops : stragglers'[x][i] = ops[j]
      <4> HIDE DEF st
      <4>1. st \in Seq(OpMsgs(x))
        BY <1>1 DEF st
      <4> QED BY <1>4, <3>2, <4>1
    <3>4. CASE i \in DOMAIN st /\ stragglers'[x][i] = st[i]
      BY <1>4, <3>4 DEF Taken
    <3>5. ASSUME NEW j \in DOMAIN ops, stragglers'[x][i] = ops[j] PROVE Goal
      <4>1. PICK k \in DOMAIN editor[e].upstream :
              editor[e].upstream[k] = ops[j] /\ editor[e].upstream[k].kind = "op"
        BY <3>1, SentFacts
      <4> QED BY <1>4, <2>3, <3>5, <4>1 DEF Asked
    <3> QED BY <3>3, <3>4, <3>5
  <2>4. CASE x = e /\ AcceptStraggler(e)
    <3>1. st # <<>> /\ stragglers'[x] = Tail(st)
      BY <1>1, <2>4 DEF AcceptStraggler
    <3>2. i + 1 \in DOMAIN st /\ Tail(st)[i] = st[i + 1]
      BY <1>1, <1>4, <3>1, TailKnown
    <3> QED BY <1>4, <3>1, <3>2 DEF Taken
  <2>5. CASE ~Closed(e) /\ ~Leave(e) /\ ~AcceptStraggler(e)
    <3>1. stragglers' = stragglers
      BY <2>5 DEF StepOf, EditorStep, Browser, Server, User, World, Render, LoseResync, Mount,
         LoadMetadata, Connect, Opened, Deliver, Resync, ServeJoin, Refuse, AcknowledgeNoOp, Accept,
         AnswerResync, Type, AskResync, Grant, Tell, EndAnnouncement, serverVars
    <3> QED BY <2>1, <3>1
  <2> QED BY <2>2, <2>3, <2>4, <2>5
<1> QED BY <1>2, <1>3, <1>4

\* An editor's own steps keep what it is about to send apart from what it sent.
LEMMA OwnNewerKept ==
  ASSUME Typed, Bounded, NEW e \in Editors, StepOf(e), NewerOf(e)
  PROVE  NewerOf(e)'
<1> DEFINE T  == Taken(log, stragglers[e], e)
           T2 == Taken(log, stragglers[e], e)'
           up == editor[e].upstream
           q  == editor[e].queue
           n  == 2 * typed[e] + 1
           s  == editor'[e]
           Goal == Newer(e, T2, s.upstream, s.queue, 2 * typed'[e] + 1)
<1>1. SUFFICES Goal
  BY DEF NewerOf
<1>2. /\ up \in Seq({JoinMsg} \cup OpMsgs(e)) /\ q \in Seq(Queued(e)) /\ typed[e] \in Nat
      /\ DOMAIN typed = Editors
  BY EditorFacts DEF Typed
<1>3. Newer(e, T, up, q, n)
  BY DEF NewerOf
<1>4. \A t \in T2 :
        \/ t \in T
        \/ Accept(e) /\ t = Head(up).id.op
        \/ (Closed(e) \/ Leave(e)) /\ \E i \in Asked(up) : t = up[i].id.op
  BY TakenSteps
<1> HIDE DEF T, T2
<1>5. ~Accept(e) /\ ~Closed(e) /\ ~Leave(e) => T2 \in SUBSET T
  BY <1>4
<1>6. CASE Accept(e)
  <2>1. UNCHANGED typed
    BY <1>6 DEF Accept, userVars
  <2>2. /\ up # <<>> /\ Head(up).kind = "op" /\ s.upstream = Tail(up) /\ s.queue = q
    BY <1>6, ReceivedEffect DEF Accept, Receive, Becomes, SameBut, Fields
  <2>3. ~Closed(e) /\ ~Leave(e)
    <3>1. {} \in SUBSET Editors
      OBVIOUS
    <3>2. Len(log') = Version + 1
      BY <1>6, <3>1, AcceptEffect, AppendEffect
    <3>3. Closed(e) \/ Leave(e) => log' = log
      BY DEF Closed, Leave
    <3> QED BY <3>2, <3>3, LogFacts DEF Version
  <2> HIDE DEF up, q, s
  <2>4. \A t \in T2 : t \in T \/ (Head(up).kind = "op" /\ t = Head(up).id.op)
    BY <1>4, <2>2, <2>3
  <2>5. Newer(e, T2, Tail(up), q, n)
    BY <1>2, <1>3, <2>2, <2>4, NewerReads
  <2> QED BY <2>1, <2>2, <2>5
<1>7. CASE (Closed(e) \/ Leave(e)) /\ ~Accept(e)
  <2>1. UNCHANGED typed
    BY <1>7 DEF Closed, Leave, userVars
  <2>2. s.upstream = <<>> /\ s.queue \in {q, <<>>}
    BY <1>7, ClosedEffect, LeaveEffect DEF Becomes, SameBut, Fields
  <2>3. \A t \in T2 : t \in T \/ \E i \in Asked(up) : t = up[i].id.op
    BY <1>4, <1>7
  <2>4. DOMAIN <<>> = {}
    OBVIOUS
  <2> HIDE DEF up, q, n
  <2>5. Newer(e, T2, <<>>, q, n)
    BY <1>3, <2>3, NewerCloses
  <2>6. DOMAIN s.queue \subseteq DOMAIN q /\ \A i \in DOMAIN s.queue : s.queue[i].id = q[i].id
    <3>1. CASE s.queue = q
      BY <3>1
    <3>2. CASE s.queue = <<>>
      BY <2>4, <3>2
    <3> QED BY <2>2, <3>1, <3>2
  <2>7. Newer(e, T2, <<>>, s.queue, n)
    BY <2>5, <2>6, NewerForgets
  <2> QED BY <2>1, <2>2, <2>7 DEF n
<1>8. CASE Opened(e) /\ ~Accept(e) /\ ~Closed(e) /\ ~Leave(e)
  <2>1. UNCHANGED typed
    BY <1>8 DEF Opened, userVars
  <2>2. s.upstream = <<JoinMsg>> /\ s.queue = q
    BY <1>8, OpenedEffect DEF Becomes, SameBut, Fields
  <2>3. Asked(s.upstream) = {}
    BY <2>2, EmptyIsIdle
  <2> HIDE DEF up, q, s, n
  <2>4. Newer(e, T, s.upstream, q, n)
    BY <1>3, <2>3, NewerOpens
  <2> DEFINE up2 == s.upstream
  <2> HIDE DEF up2
  <2>5. Newer(e, T2, up2, q, n)
    BY <1>5, <1>8, <2>4, NewerFewer DEF up2
  <2> QED BY <2>1, <2>2, <2>5 DEF up2, n
<1>9. CASE Deliver(e) /\ ~Accept(e) /\ ~Closed(e) /\ ~Leave(e)
  <2>1. UNCHANGED typed
    BY <1>9 DEF Deliver, userVars
  <2> DEFINE m == Head(editor[e].inbox)
  <2>2. m \in Answers
    BY <1>9, DeliverEffect
  <2>3. Newer(e, T2, up, q, n)
    <3> HIDE DEF up, q, n
    <3> QED BY <1>3, <1>5, <1>9, NewerFewer
  <2>4. CASE m.kind = "ack"
    <3>1. PICK f : Sends(q, f, up, s)
      BY <1>9, <2>4, DeliverEffect
    <3> HIDE DEF up, q, s, n
    <3>2. Newer(e, T2, s.upstream, s.queue, n)
      BY <1>2, <2>3, <3>1, NewerSends
    <3> QED BY <2>1, <3>2 DEF n
  <2>5. CASE m.kind \in {"snapshot", "broadcast_op", "error"}
    <3>1. /\ s.upstream = up
          /\ s.queue = <<>> \/ /\ Len(s.queue) = Len(q)
                               /\ \A i \in DOMAIN q : s.queue[i].id = q[i].id
      <4>1. CASE m.kind = "snapshot"
        BY <1>9, <4>1, DeliverEffect
      <4>2. CASE m.kind = "broadcast_op"
        BY <1>9, <4>2, DeliverEffect
      <4>3. CASE m.kind = "error"
        BY <1>9, <4>3, DeliverEffect DEF SameBut, Fields
      <4> QED BY <2>5, <4>1, <4>2, <4>3
    <3>2. s.queue \in Seq(Queued(e))
      BY <1>9, DeliverEffect DEF Becomes, EditorStates
    <3> DEFINE p == s.queue
    <3>3. DOMAIN p \subseteq DOMAIN q /\ \A i \in DOMAIN p : p[i].id = q[i].id
      <4>1. DOMAIN <<>> = {}
        OBVIOUS
      <4> HIDE DEF p
      <4>2. CASE p = <<>>
        BY <4>1, <4>2
      <4>3. CASE Len(p) = Len(q) /\ \A i \in DOMAIN q : p[i].id = q[i].id
        BY <1>2, <3>2, <4>3 DEF p
      <4> QED BY <3>1, <4>2, <4>3 DEF p
    <3> HIDE DEF up, q, p, n
    <3>4. Newer(e, T2, up, p, n)
      BY <2>3, <3>3, NewerForgets
    <3> QED BY <2>1, <3>1, <3>4 DEF up, p, n
  <2> QED BY <2>2, <2>4, <2>5, AnswerKinds
<1>10. CASE Resync(e) /\ ~Accept(e) /\ ~Closed(e) /\ ~Leave(e)
  <2>1. UNCHANGED typed
    BY <1>10 DEF Resync
  <2>2. s.upstream = up /\ s.queue = <<>>
    BY <1>10, ResyncEffect DEF Becomes, SameBut, Fields
  <2>3. DOMAIN s.queue = {}
    BY <2>2
  <2> HIDE DEF up, q, n
  <2>4. Newer(e, T2, up, q, n)
    BY <1>3, <1>5, <1>10, NewerFewer
  <2>5. Newer(e, T2, up, s.queue, n)
    BY <2>3, <2>4, NewerForgets
  <2> QED BY <2>1, <2>2, <2>5 DEF up, n
<1>11. CASE (ServeJoin(e) \/ Refuse(e) \/ AcknowledgeNoOp(e)) /\ ~Accept(e) /\ ~Closed(e) /\ ~Leave(e)
  <2>1. UNCHANGED typed
    BY <1>11 DEF ServeJoin, Refuse, AcknowledgeNoOp, userVars
  <2>2. up # <<>> /\ s.upstream = Tail(up) /\ s.queue = q
    BY <1>11, ReplyEffect DEF Becomes, SameBut, Fields
  <2> HIDE DEF up, q, n
  <2>3. Newer(e, T2, Tail(up), q, n)
    BY <1>2, <1>3, <1>4, <1>11, <2>2, NewerReads
  <2> QED BY <2>1, <2>2, <2>3 DEF n
<1>12. CASE Type(e) /\ ~Accept(e) /\ ~Closed(e) /\ ~Leave(e)
  <2>1. typed'[e] = typed[e] + 1
    BY <1>2, <1>12 DEF Type
  <2>2. PICK p : /\ \/ p = q
                    \/ \E ops \in Seq(Queued(e)) :
                         /\ p = q \o ops /\ Len(ops) \in {1, 2}
                         /\ \A i \in DOMAIN ops : ops[i].id.op = 2 * typed[e] + 1 + i
                 /\ Sends(p, editor[e].inFlight, up, s)
    BY <1>12, TypeEffect
  <2>3. p \in Seq(Queued(e))
    <3>1. \A ops \in Seq(Queued(e)) : q \o ops \in Seq(Queued(e))
      BY <1>2
    <3> QED BY <1>2, <2>2, <3>1
  <2>4. 2 * typed'[e] + 1 = n + 2 /\ n \in Nat
    <3> DEFINE k == typed[e]
    <3>1. k \in Nat /\ typed'[e] = k + 1 /\ n = 2 * k + 1
      BY <1>2, <2>1
    <3> HIDE DEF k, n
    <3> QED BY <3>1
  <2>5. \A ops \in Seq(Queued(e)) :
          (\A i \in DOMAIN ops : ops[i].id.op = 2 * typed[e] + 1 + i)
            => \A i \in DOMAIN ops : ops[i].id.op = n + i
    OBVIOUS
  <2> HIDE DEF up, q, s, n
  <2>6. Newer(e, T2, up, q, n)
    BY <1>3, <1>5, <1>12, NewerFewer
  <2>7. Newer(e, T2, up, p, n + 2)
    <3>1. CASE p = q
      <4>1. DOMAIN <<>> = {}
        OBVIOUS
      <4>2. /\ UpTo(up, Asked(up), n) /\ UpTo(q, DOMAIN q, n)
            /\ Ascending(up, Asked(up)) /\ Ascending(q, DOMAIN q)
            /\ Below(up, Asked(up), q, DOMAIN q)
        BY <2>6, LineOfNone DEF Newer
      <4>3. UpTo(up, Asked(up), n + 2) /\ UpTo(q, DOMAIN q, n + 2)
        BY <2>4, <4>2 DEF UpTo
      <4>4. Line(e, <<>>, <<>>, up, q, n + 2)
        BY <4>2, <4>3, LineOfNone
      <4>5. T2 \subseteq 0..(n + 2)
        BY <2>4, <2>6 DEF Newer
      <4> QED BY <2>6, <3>1, <4>4, <4>5 DEF Newer
    <3>2. ASSUME NEW ops \in Seq(Queued(e)), p = q \o ops, Len(ops) \in {1, 2},
                 \A i \in DOMAIN ops : ops[i].id.op = n + i
          PROVE  Newer(e, T2, up, p, n + 2)
      <4>1. Newer(e, T2, up, q \o ops, n + 2)
        BY <1>2, <2>4, <2>6, <3>2, NewerTypes
      <4> QED BY <3>2, <4>1
    <3> QED BY <2>2, <2>5, <3>1, <3>2
  <2> DEFINE f == editor[e].inFlight
             k == n + 2
  <2>8. Sends(p, f, up, s)
    BY <2>2
  <2> HIDE DEF f, k
  <2>9. Newer(e, T2, s.upstream, s.queue, k)
    BY <1>2, <2>3, <2>7, <2>8, NewerSends DEF k
  <2> QED BY <2>4, <2>9 DEF s, k
<1>13. CASE /\ ~Accept(e) /\ ~Closed(e) /\ ~Leave(e) /\ ~Opened(e) /\ ~Deliver(e) /\ ~Resync(e)
            /\ ~ServeJoin(e) /\ ~Refuse(e) /\ ~AcknowledgeNoOp(e) /\ ~Type(e)
  <2>1. UNCHANGED typed
    BY <1>13 DEF StepOf, EditorStep, Browser, Server, User, World, Render, LoseResync, Mount,
       LoadMetadata, Connect, AcceptStraggler, AnswerResync, AskResync, Grant, Tell,
       EndAnnouncement, userVars
  <2>2. s.upstream = up
    <3>1. CASE Mount(e) \/ LoadMetadata(e) \/ Connect(e)
      BY <3>1, MountEffect DEF Becomes, SameBut, Fields
    <3>2. CASE Render(e)
      BY <3>2, RenderEffect DEF Becomes, SameBut, Fields
    <3>3. CASE AcceptStraggler(e)
      BY <3>3, UntoldEffect DEF Becomes, SameBut, Fields
    <3>4. ASSUME NEW a \in Editors, Tell(a, e) PROVE s.upstream = up
      BY <3>4, TellEffect DEF Becomes, SameBut, Fields
    <3>5. CASE LoseResync(e) \/ AnswerResync(e) \/ AskResync(e) \/ Grant(e) \/ EndAnnouncement(e)
      BY <3>5 DEF LoseResync, AnswerResync, AskResync, Grant, EndAnnouncement, clientVars
    <3> QED BY <1>13, <3>1, <3>2, <3>3, <3>4, <3>5
            DEF StepOf, EditorStep, Browser, Server, User, World
  <2>3. s.queue = q
    BY <1>13, PendingStays
  <2> HIDE DEF up, q, n
  <2>4. Newer(e, T2, up, q, n)
    BY <1>3, <1>5, <1>13, NewerFewer
  <2> QED BY <2>1, <2>2, <2>3, <2>4 DEF n
<1> QED BY <1>6, <1>7, <1>8, <1>9, <1>10, <1>11, <1>12, <1>13

\* Every step keeps what editors are about to send apart from what they sent.
LEMMA NewerKept ==
  ASSUME Typed, Bounded, NewerInv, SessionNext
  PROVE  NewerInv'
<1>1. CASE UNCHANGED vars
  <2>1. ASSUME NEW x \in Editors PROVE NewerOf(x)'
    <3>1. NewerOf(x)
      BY DEF NewerInv
    <3>2. /\ editor' = editor /\ log' = log /\ stragglers' = stragglers /\ typed' = typed
      BY <1>1 DEF vars, clientVars, serverVars, userVars
    <3>3. Taken(log', stragglers'[x], x) = Taken(log, stragglers[x], x)
      BY <3>2
    <3> QED BY <3>1, <3>2, <3>3 DEF NewerOf
  <2> QED BY <2>1 DEF NewerInv
<1>2. ASSUME NEW e \in Editors, StepOf(e) PROVE NewerInv'
  <2>1. ASSUME NEW x \in Editors PROVE NewerOf(x)'
    <3>1. NewerOf(x)
      BY DEF NewerInv
    <3>2. CASE x = e
      BY <1>2, <3>1, <3>2, OwnNewerKept
    <3>3. CASE x # e
      <4> DEFINE T == Taken(log, stragglers[x], x)
                 T2 == Taken(log, stragglers[x], x)'
                 up == editor[x].upstream
                 q == editor[x].queue
                 n == 2 * typed[x] + 1
      <4>1. T2 \in SUBSET T
        BY <1>2, <3>3, TakenSteps
      <4>2. editor'[x] = editor[x] /\ typed'[x] = typed[x]
        BY <1>2, <3>3, OthersLeft DEF Left
      <4>3. Newer(x, T, up, q, n)
        BY <3>1 DEF NewerOf
      <4> HIDE DEF T, T2, up, q, n
      <4>4. Newer(x, T2, up, q, n)
        BY <4>1, <4>3, NewerFewer
      <4> QED BY <4>2, <4>4 DEF NewerOf, T2, up, q, n
    <3> QED BY <3>2, <3>3
  <2> QED BY <2>1 DEF NewerInv
<1> QED BY <1>1, <1>2, StepCases

\* Nothing was sent initially.
LEMMA NewerStarts ==
  ASSUME Init PROVE NewerInv
<1> SUFFICES ASSUME NEW e \in Editors PROVE NewerOf(e)
  BY DEF NewerInv
<1>1. /\ log = <<>> /\ stragglers[e] = <<>> /\ typed[e] = 0
      /\ editor[e].upstream = <<>> /\ editor[e].queue = <<>>
  BY DEF Init, InitialEditor
<1> DEFINE none == <<>>
<1>2. DOMAIN none = {}
  OBVIOUS
<1>3. Asked(none) = {}
  BY EmptyIsIdle
<1> HIDE DEF none
<1>4. Taken(none, none, e) = {}
  BY <1>2 DEF Taken, Logged
<1>5. Line(e, <<>>, <<>>, none, none, 2 * 0 + 1)
  BY <1>2, <1>3, LineOfNone DEF UpTo, Ascending, Below
<1>6. Newer(e, {}, none, none, 2 * 0 + 1)
  BY <1>5 DEF Newer
<1> QED BY <1>1, <1>4, <1>6 DEF NewerOf, none

-----------------------------------------------------------------------------
(* The operation in flight and what the server makes of it.                *)

\* The operation q of version v over the accepted ones up to version n.
Merged(q, l, v, n) == TransformOverHistory(q.op, q.id, l, v, n)

\* q was accepted as version n, and is there what an editor at version v will
\* have made of it by then.
AcceptedAs(q, l, v, n) == v < n /\ l[n].id = q.id /\ Merged(q, l, v, n - 1) = l[n].op

\* By version n nothing is left of q.
NothingLeft(q, l, v, n) == v <= n /\ (n = 0 \/ l[n].id # q.id) /\ Merged(q, l, v, n) = NoOperation

\* What is asked of the server is q, which the server will make the same of as an
\* editor at version v.
AsksFor(q, l, v, up) ==
  \A i \in Asked(up) :
    /\ up[i].id = q.id
    /\ Merged(q, l, v, Len(l)) = TransformOverHistory(up[i].op, up[i].id, l, up[i].base, Len(l))

\* An acknowledgement is one of q.
AnswersFor(q, l, v, in) ==
  \A i \in DOMAIN in : in[i].kind = "ack" =>
    /\ in[i].id = q.id
    /\ AcceptedAs(q, l, v, in[i].version) \/ NothingLeft(q, l, v, in[i].version)

\* The operation q in flight from an editor at version v is the one that is asked,
\* accepted as version a and untold, or acknowledged.
InStep(q, l, v, up, in, a, untold) ==
  /\ AsksFor(q, l, v, up) /\ AnswersFor(q, l, v, in)
  /\ untold => AcceptedAs(q, l, v, a)

\* The log l2 has at most one entry more than l.
Longer(l2, l) ==
  /\ Len(l) <= Len(l2) /\ Len(l2) <= Len(l) + 1 /\ \A v \in 1..Len(l) : l2[v] = l[v]

\* What an operation is made of over the versions of a log.
LEMMA MergedStays ==
  ASSUME NEW l \in Seq(Entries), NEW l2 \in Seq(Entries), Longer(l2, l),
         NEW op, NEW id, NEW v \in Nat, NEW n \in Nat, v <= n, n <= Len(l)
  PROVE  /\ TransformOverHistory(op, id, l2, v, n) = TransformOverHistory(op, id, l, v, n)
         /\ TransformOverHistory(op, id, l2, v, n + 1)
              = TransformOverVersion(TransformOverHistory(op, id, l, v, n), id, l2, n + 1)
<1>1. DOMAIN l = 1..Len(l) /\ DOMAIN l2 = 1..Len(l2) /\ Len(l) \in Nat /\ Len(l2) \in Nat
  OBVIOUS
<1>2. \A w \in (v + 1)..n : w \in DOMAIN l /\ w \in DOMAIN l2 /\ l2[w] = l[w]
  BY <1>1 DEF Longer
<1>3. \A w \in (v + 1)..n : \A x :
        TransformOverVersion(x, id, l2, w) = TransformOverVersion(x, id, l, w)
  BY <1>2 DEF TransformOverVersion
<1> QED BY <1>3, HistoryStep

\* What two operations have in common at the last version they have at the next.
LEMMA MergedAlike ==
  ASSUME NEW l \in Seq(Entries), NEW l2 \in Seq(Entries), Longer(l2, l),
         NEW op, NEW id, NEW v \in Nat, v <= Len(l),
         NEW op2, NEW v2 \in Nat, v2 <= Len(l),
         TransformOverHistory(op, id, l, v, Len(l)) = TransformOverHistory(op2, id, l, v2, Len(l))
  PROVE  TransformOverHistory(op, id, l2, v, Len(l2)) = TransformOverHistory(op2, id, l2, v2, Len(l2))
<1> DEFINE n == Len(l)
           k == Len(l2)
<1>1. n \in Nat /\ k \in Nat /\ v <= n /\ v2 <= n /\ (k = n \/ k = n + 1)
  BY DEF Longer
<1>2. TransformOverHistory(op, id, l, v, n) = TransformOverHistory(op2, id, l, v2, n)
  OBVIOUS
<1>3. n <= Len(l)
  OBVIOUS
<1> HIDE DEF n, k
<1>4. /\ TransformOverHistory(op, id, l2, v, n) = TransformOverHistory(op, id, l, v, n)
      /\ TransformOverHistory(op, id, l2, v, n + 1)
           = TransformOverVersion(TransformOverHistory(op, id, l, v, n), id, l2, n + 1)
  BY <1>1, <1>3, MergedStays
<1>5. /\ TransformOverHistory(op2, id, l2, v2, n) = TransformOverHistory(op2, id, l, v2, n)
      /\ TransformOverHistory(op2, id, l2, v2, n + 1)
           = TransformOverVersion(TransformOverHistory(op2, id, l, v2, n), id, l2, n + 1)
  BY <1>1, <1>3, MergedStays
<1>6. TransformOverHistory(op, id, l2, v, k) = TransformOverHistory(op2, id, l2, v2, k)
  BY <1>1, <1>2, <1>4, <1>5
<1> QED BY <1>6 DEF k

\* The log may grow meanwhile.
LEMMA InStepGrows ==
  ASSUME NEW l \in Seq(Entries), NEW l2 \in Seq(Entries), Longer(l2, l),
         NEW q, NEW v \in Nat, v <= Len(l), NEW up, NEW in,
         NEW a, NEW u, u => a \in Nat /\ a <= Len(l),
         \A i \in Asked(up) : up[i].base \in Nat /\ up[i].base <= Len(l),
         \A i \in DOMAIN in : in[i].kind = "ack" => in[i].version \in Nat /\ in[i].version <= Len(l),
         InStep(q, l, v, up, in, a, u)
  PROVE  InStep(q, l2, v, up, in, a, u)
<1>1. AsksFor(q, l2, v, up)
  <2>1. SUFFICES ASSUME NEW i \in Asked(up)
                 PROVE  Merged(q, l2, v, Len(l2))
                          = TransformOverHistory(up[i].op, up[i].id, l2, up[i].base, Len(l2))
    BY DEF AsksFor, InStep
  <2> DEFINE op == up[i].op
             b == up[i].base
  <2>2. up[i].id = q.id
    BY DEF InStep, AsksFor
  <2>3. TransformOverHistory(q.op, q.id, l, v, Len(l)) = TransformOverHistory(op, q.id, l, b, Len(l))
    BY <2>2 DEF InStep, AsksFor, Merged
  <2>4. b \in Nat /\ b <= Len(l)
    BY <2>1
  <2> HIDE DEF op, b
  <2>5. TransformOverHistory(q.op, q.id, l2, v, Len(l2)) = TransformOverHistory(op, q.id, l2, b, Len(l2))
    BY <2>3, <2>4, MergedAlike
  <2> QED BY <2>2, <2>5 DEF Merged, op, b
<1>2. ASSUME NEW n \in Nat, n <= Len(l), AcceptedAs(q, l, v, n)
      PROVE  AcceptedAs(q, l2, v, n)
  <2> DEFINE k == n - 1
  <2>1. k \in Nat /\ v <= k /\ k <= Len(l) /\ v < n /\ n \in 1..Len(l)
    BY <1>2 DEF AcceptedAs
  <2>2. l2[n] = l[n]
    BY <2>1 DEF Longer
  <2>3. Merged(q, l, v, k) = l[n].op /\ l[n].id = q.id
    BY <1>2 DEF AcceptedAs
  <2> HIDE DEF k
  <2>4. Merged(q, l2, v, k) = Merged(q, l, v, k)
    BY <2>1, MergedStays DEF Merged
  <2> QED BY <2>1, <2>2, <2>3, <2>4 DEF AcceptedAs, k
<1>3. ASSUME NEW n \in Nat, n <= Len(l), NothingLeft(q, l, v, n)
      PROVE  NothingLeft(q, l2, v, n)
  <2>1. Merged(q, l2, v, n) = Merged(q, l, v, n)
    BY <1>3, MergedStays DEF Merged, NothingLeft
  <2>2. n = 0 \/ l2[n] = l[n]
    BY <1>3 DEF Longer
  <2> QED BY <1>3, <2>1, <2>2 DEF NothingLeft
<1>4. AnswersFor(q, l2, v, in)
  BY <1>2, <1>3 DEF AnswersFor, InStep
<1>5. u => AcceptedAs(q, l2, v, a)
  BY <1>2 DEF InStep
<1> QED BY <1>1, <1>4, <1>5 DEF InStep

\* The editor goes over to the next version, which is another's operation, and
\* takes its own operation over it.
LEMMA InStepOver ==
  ASSUME NEW e, NEW q \in Queued(e), NEW l \in Seq(Entries), NEW v \in Nat, v < Len(l),
         l[v + 1].id.client # e, NEW q2, q2.id = q.id,
         q2.op = TransformOperation(q.op, q.id, l[v + 1].op, l[v + 1].id),
         NEW up, NEW in, NEW a, NEW u, u => a \in Nat,
         \A i \in DOMAIN in : in[i].kind = "ack" => in[i].version \in Nat,
         InStep(q, l, v, up, in, a, u)
  PROVE  InStep(q2, l, v + 1, up, in, a, u)
<1> DEFINE w == v + 1
<1>1. w \in DOMAIN l /\ w \in Nat /\ w <= Len(l) /\ Len(l) \in Nat
  OBVIOUS
<1>2. q.op # NoOperation /\ q.id.client = e
  BY DEF Queued, Operations, NoOperation
<1>3. q2.op = TransformOverVersion(q.op, q.id, l, w)
  BY <1>1, <1>2 DEF TransformOverVersion
<1>4. ASSUME NEW n \in Nat, v < n
      PROVE  Merged(q2, l, w, n) = Merged(q, l, v, n)
  <2>1. TransformOverHistory(q.op, q.id, l, v, n)
          = TransformOverHistory(TransformOverVersion(q.op, q.id, l, w), q.id, l, w, n)
    BY <1>4, HistoryPeel
  <2> QED BY <1>3, <2>1 DEF Merged
<1>5. AsksFor(q2, l, w, up)
  <2>1. Merged(q2, l, w, Len(l)) = Merged(q, l, v, Len(l))
    <3> DEFINE n == Len(l)
    <3>1. n \in Nat /\ v < n
      BY <1>1
    <3> HIDE DEF n, w
    <3>2. Merged(q2, l, w, n) = Merged(q, l, v, n)
      BY <1>4, <3>1
    <3> QED BY <3>2 DEF n
  <2> QED BY <2>1 DEF InStep, AsksFor
<1>6. ASSUME NEW n \in Nat, AcceptedAs(q, l, v, n)
      PROVE  AcceptedAs(q2, l, w, n)
  <2>1. v < n /\ l[n].id = q.id /\ Merged(q, l, v, n - 1) = l[n].op
    BY <1>6 DEF AcceptedAs
  <2>2. n # w
    BY <1>2, <2>1
  <2> DEFINE k == n - 1
  <2>3. k \in Nat /\ v < k /\ w < n
    BY <1>6, <2>1, <2>2
  <2> HIDE DEF k, w
  <2>4. Merged(q2, l, w, k) = Merged(q, l, v, k)
    BY <1>4, <2>3
  <2> QED BY <2>1, <2>3, <2>4 DEF AcceptedAs, k
<1>7. ASSUME NEW n \in Nat, NothingLeft(q, l, v, n)
      PROVE  NothingLeft(q2, l, w, n)
  <2>1. v <= n /\ (n = 0 \/ l[n].id # q.id) /\ Merged(q, l, v, n) = NoOperation
    BY <1>7 DEF NothingLeft
  <2>2. n # v
    BY <1>2, <2>1, HistoryOfNone DEF Merged
  <2>3. v < n /\ w <= n
    BY <2>1, <2>2
  <2>4. Merged(q2, l, w, n) = NoOperation
    BY <1>4, <2>1, <2>3
  <2> QED BY <2>1, <2>3, <2>4 DEF NothingLeft
<1> HIDE DEF w
<1>8. AnswersFor(q2, l, w, in)
  BY <1>6, <1>7 DEF AnswersFor, InStep
<1>9. u => AcceptedAs(q2, l, w, a)
  BY <1>6 DEF InStep
<1>10. InStep(q2, l, w, up, in, a, u)
  BY <1>5, <1>8, <1>9 DEF InStep
<1> QED BY <1>10 DEF w

\* Nothing more is asked on up2 than on up, and no more acknowledgements are in in2.
Fewer(up2, up, in2, in) ==
  /\ \A i \in Asked(up2) : \E j \in Asked(up) : up2[i] = up[j]
  /\ \A i \in DOMAIN in2 : in2[i].kind # "ack" \/ \E j \in DOMAIN in : in2[i] = in[j]

\* Of the messages of q there are fewer now.
LEMMA InStepLess ==
  ASSUME NEW q, NEW l, NEW v, NEW up, NEW in, NEW a, NEW u, InStep(q, l, v, up, in, a, u),
         NEW up2, NEW in2, Fewer(up2, up, in2, in)
  PROVE  InStep(q, l, v, up2, in2, a, FALSE)
<1>1. AsksFor(q, l, v, up2)
  <2>1. SUFFICES ASSUME NEW i \in Asked(up2)
                 PROVE  /\ up2[i].id = q.id
                        /\ Merged(q, l, v, Len(l))
                             = TransformOverHistory(up2[i].op, up2[i].id, l, up2[i].base, Len(l))
    BY DEF AsksFor
  <2>2. PICK j \in Asked(up) : up2[i] = up[j]
    BY DEF Fewer
  <2>3. /\ up[j].id = q.id
        /\ Merged(q, l, v, Len(l)) = TransformOverHistory(up[j].op, up[j].id, l, up[j].base, Len(l))
    BY DEF InStep, AsksFor
  <2> QED BY <2>2, <2>3
<1>2. AnswersFor(q, l, v, in2)
  BY DEF InStep, AnswersFor, Fewer
<1> QED BY <1>1, <1>2 DEF InStep

\* The server takes a message of the socket.
LEMMA AskedTail ==
  ASSUME NEW S, NEW up \in Seq(S), up # <<>>, NEW i \in Asked(Tail(up))
  PROVE  \E j \in Asked(up) : Tail(up)[i] = up[j]
<1>1. i \in DOMAIN Tail(up) /\ Tail(up)[i].kind = "op"
  BY DEF Asked
<1>2. i + 1 \in DOMAIN up /\ Tail(up)[i] = up[i + 1]
  BY <1>1, TailKnown
<1> QED BY <1>1, <1>2 DEF Asked

\* The editor is told that its operation was accepted.
LEMMA InStepTold ==
  ASSUME NEW q, NEW l, NEW v, NEW up, NEW S, NEW in \in Seq(S), NEW a,
         InStep(q, l, v, up, in, a, TRUE), NEW b
  PROVE  InStep(q, l, v, up, Append(in, AckMsg(l[a].id, a)), b, FALSE)
<1> DEFINE m == AckMsg(l[a].id, a)
<1>1. m.version = a /\ m.id = q.id /\ AcceptedAs(q, l, v, a)
  BY DEF AckMsg, InStep, AcceptedAs
<1> HIDE DEF m
<1>2. AnswersFor(q, l, v, Append(in, m))
  <2> SUFFICES ASSUME NEW i \in DOMAIN Append(in, m), Append(in, m)[i].kind = "ack"
               PROVE  /\ Append(in, m)[i].id = q.id
                      /\ \/ AcceptedAs(q, l, v, Append(in, m)[i].version)
                         \/ NothingLeft(q, l, v, Append(in, m)[i].version)
    BY DEF AnswersFor
  <2>1. \/ i \in DOMAIN in /\ Append(in, m)[i] = in[i]
        \/ Append(in, m)[i] = m
    BY AppendKnown
  <2> QED BY <1>1, <2>1 DEF InStep, AnswersFor
<1> QED BY <1>2 DEF InStep, m

\* The server finds that nothing is left of what it is asked.
LEMMA InStepNothing ==
  ASSUME NEW q, NEW l \in Seq(Entries), NEW v, v <= Len(l),
         NEW S, NEW up \in Seq(S), up # <<>>, Head(up).kind = "op",
         TransformOverHistory(Head(up).op, Head(up).id, l, Head(up).base, Len(l)) = NoOperation,
         Len(l) = 0 \/ l[Len(l)].id # Head(up).id,
         NEW T, NEW in \in Seq(T), NEW a, NEW u, InStep(q, l, v, up, in, a, u)
  PROVE  InStep(q, l, v, Tail(up), Append(in, AckMsg(Head(up).id, Len(l))), a, u)
<1> DEFINE m == AckMsg(Head(up).id, Len(l))
<1>1. 1 \in Asked(up) /\ up[1] = Head(up)
  BY HeadKnown DEF Asked
<1>2. m.id = q.id /\ m.version = Len(l)
  BY <1>1 DEF InStep, AsksFor, AckMsg
<1>3. NothingLeft(q, l, v, Len(l))
  <2>1. /\ up[1].id = q.id
        /\ Merged(q, l, v, Len(l)) = TransformOverHistory(up[1].op, up[1].id, l, up[1].base, Len(l))
    BY <1>1 DEF InStep, AsksFor
  <2>2. Merged(q, l, v, Len(l)) = NoOperation
    BY <1>1, <2>1
  <2> QED BY <1>1, <2>1, <2>2 DEF NothingLeft
<1> HIDE DEF m
<1>4. AnswersFor(q, l, v, Append(in, m))
  <2> SUFFICES ASSUME NEW i \in DOMAIN Append(in, m), Append(in, m)[i].kind = "ack"
               PROVE  /\ Append(in, m)[i].id = q.id
                      /\ \/ AcceptedAs(q, l, v, Append(in, m)[i].version)
                         \/ NothingLeft(q, l, v, Append(in, m)[i].version)
    BY DEF AnswersFor
  <2>1. \/ i \in DOMAIN in /\ Append(in, m)[i] = in[i]
        \/ Append(in, m)[i] = m
    BY AppendKnown
  <2> QED BY <1>2, <1>3, <2>1 DEF InStep, AnswersFor
<1>5. InStep(q, l, v, Tail(up), in, a, u)
  <2>1. Fewer(Tail(up), up, in, in)
    BY AskedTail DEF Fewer
  <2>2. InStep(q, l, v, Tail(up), in, a, FALSE)
    BY <2>1, InStepLess
  <2> QED BY <2>2 DEF InStep
<1> QED BY <1>4, <1>5 DEF InStep, m

\* The server accepts what it is asked.
LEMMA InStepAccepted ==
  ASSUME NEW q, NEW l \in Seq(Entries), NEW l2 \in Seq(Entries), Len(l2) = Len(l) + 1, Longer(l2, l),
         NEW v \in Nat, v <= Len(l),
         NEW S, NEW up \in Seq(S), up # <<>>, Head(up).kind = "op",
         \A i \in Asked(up) : up[i].base \in Nat /\ up[i].base <= Len(l),
         l2[Len(l) + 1].id = Head(up).id,
         l2[Len(l) + 1].op
           = TransformOverHistory(Head(up).op, Head(up).id, l, Head(up).base, Len(l)),
         NEW in,
         \A i \in DOMAIN in : in[i].kind = "ack" => in[i].version \in Nat /\ in[i].version <= Len(l),
         NEW a, NEW u, InStep(q, l, v, up, in, a, u)
  PROVE  InStep(q, l2, v, Tail(up), in, Len(l) + 1, TRUE)
<1> DEFINE k == Len(l)
           n == k + 1
<1>1. 1 \in Asked(up) /\ up[1] = Head(up)
  BY HeadKnown DEF Asked
<1>2. k \in Nat /\ n - 1 = k /\ v < n /\ v <= k /\ k <= Len(l)
  OBVIOUS
<1>3. /\ up[1].id = q.id
      /\ Merged(q, l, v, k) = TransformOverHistory(up[1].op, up[1].id, l, up[1].base, k)
  BY <1>1 DEF InStep, AsksFor
<1>4. l2[n].id = q.id /\ l2[n].op = Merged(q, l, v, k)
  BY <1>1, <1>3
<1> DEFINE none == 0
<1>5. InStep(q, l, v, Tail(up), in, none, FALSE)
  <2>1. InStep(q, l, v, Tail(up), in, a, FALSE)
    <3>1. Fewer(Tail(up), up, in, in)
      BY AskedTail DEF Fewer
    <3> QED BY <3>1, InStepLess
  <2> QED BY <2>1 DEF InStep
<1>6. \A i \in Asked(Tail(up)) : Tail(up)[i].base \in Nat /\ Tail(up)[i].base <= Len(l)
  BY AskedTail
<1>7. none \in Nat /\ none <= Len(l)
  BY <1>2
<1> HIDE DEF none
<1>8. InStep(q, l2, v, Tail(up), in, none, FALSE)
  BY <1>5, <1>6, <1>7, InStepGrows
<1> HIDE DEF k, n
<1>9. Merged(q, l2, v, k) = Merged(q, l, v, k)
  BY <1>2, MergedStays DEF Merged
<1>10. AcceptedAs(q, l2, v, n)
  BY <1>2, <1>4, <1>9 DEF AcceptedAs
<1>11. InStep(q, l2, v, Tail(up), in, n, TRUE)
  BY <1>8, <1>10 DEF InStep
<1> QED BY <1>11 DEF n, k

\* A remote operation makes the next version of the server's text, and the displayed
\* text of it is what the pending operation makes of that, both transformed.
LEMMA RemoteLeads ==
  ASSUME NEW e \in Editors, NEW p \in Seq(Queued(e)), Len(p) <= 1,
         NEW m \in Broadcasts, m.id.client # e,
         NEW text \in Texts, NEW doc, Leads(text, p, doc),
         NEW p2 \in Seq(Queued(e)), Len(p2) = Len(p),
         \A i \in DOMAIN p :
           /\ p2[i].op = TransformOperation(p[i].op, p[i].id, m.op, m.id)
           /\ ~Inside(p[i].op, m.op) /\ ~Inside(m.op, p[i].op)
  PROVE  Leads(ApplyOperation(text, m.op), p2, ApplyOperation(doc, OverPending(m, p)))
<1>1. m.op \in Operations /\ m.id \in Identities /\ m.op # NoOperation
  <2>1. m.op \in Operations /\ m.id \in Names
    BY DEF Broadcasts
  <2>2. m.op # NoOperation
    BY <2>1 DEF Operations, NoOperation
  <2>3. m.id \in Identities
    BY <2>1, EditorsAssumption DEF Names, Identities
  <2> QED BY <2>1, <2>2, <2>3
<1>2. Len(p) \in Nat
  OBVIOUS
<1>3. CASE Len(p) = 0
  <2>1. p = <<>> /\ p2 = <<>>
    BY <1>3
  <2>2. doc = text
    <3>1. Len(<<>>) = 0
      OBVIOUS
    <3> QED BY <2>1, <3>1 DEF Leads
  <2>3. OverPending(m, p) = m.op
    <3>1. OverPending(m, p) = TransformOverHistory(m.op, m.id, p, 0, 0)
      BY <1>3 DEF OverPending
    <3> QED BY <3>1, HistoryOfNone
  <2> QED BY <2>1, <2>2, <2>3, NothingLeads
<1>4. CASE Len(p) = 1
  <2> DEFINE q == p[1]
             q2 == p2[1]
             op == TransformOperation(m.op, m.id, q.op, q.id)
  <2>1. 1 \in DOMAIN p /\ 1 \in DOMAIN p2 /\ p = <<q>> /\ p2 = <<q2>>
    BY <1>4
  <2>2. q \in Queued(e) /\ q2 \in Queued(e)
    BY <2>1
  <2>3. /\ q.op \in Operations /\ q.id \in Identities /\ q.id # m.id /\ q2.op # NoOperation
    BY <2>2, EditorsAssumption DEF Queued, Identities, Operations, NoOperation
  <2>4. /\ q2.op = TransformOperation(q.op, q.id, m.op, m.id)
        /\ ~Inside(q.op, m.op) /\ ~Inside(m.op, q.op)
    BY <2>1
  <2>5. OverPending(m, p) = op
    <3>1. OverPending(m, p) = TransformOverHistory(m.op, m.id, p, 0, 0 + 1)
      BY <1>4 DEF OverPending
    <3>2. TransformOverHistory(m.op, m.id, p, 0, 0 + 1)
            = TransformOverVersion(TransformOverHistory(m.op, m.id, p, 0, 0), m.id, p, 0 + 1)
      BY HistoryOneMore
    <3>3. TransformOverHistory(m.op, m.id, p, 0, 0) = m.op
      BY HistoryOfNone
    <3>4. OverPending(m, p) = TransformOverVersion(m.op, m.id, p, 1)
      BY <3>1, <3>2, <3>3
    <3> QED BY <1>1, <2>1, <3>4 DEF TransformOverVersion
  <2> HIDE DEF q, q2
  <2>6. InBounds(q.op, Len(text)) /\ doc = ApplyOperation(text, q.op)
    <3>1. Leads(text, <<q>>, doc)
      BY <2>1
    <3> QED BY <3>1, OneLeads
  <2> DEFINE next == ApplyOperation(text, m.op)
  <2>7. InBounds(q2.op, Len(next))
    BY <1>1, <2>3, <2>4, <2>6, TransformInBounds
  <2>8. ApplyOperation(next, q2.op) = ApplyOperation(doc, op)
    <3>1. ~Within(q.op, m.op) /\ ~Within(m.op, q.op)
      BY <2>4 DEF Inside, Within
    <3>2. ApplyOperation(ApplyOperation(text, m.op), TransformOperation(q.op, q.id, m.op, m.id))
            = ApplyOperation(ApplyOperation(text, q.op), TransformOperation(m.op, m.id, q.op, q.id))
      BY <1>1, <2>3, <2>6, <3>1, TransformsCommute
    <3> QED BY <2>4, <2>6, <3>2
  <2> HIDE DEF next, op
  <2>9. Leads(next, <<q2>>, ApplyOperation(next, q2.op))
    BY <2>7, OneLeads
  <2> QED BY <2>1, <2>5, <2>8, <2>9 DEF next
<1> QED BY <1>2, <1>3, <1>4

\* The first of the pending operations is acknowledged: it is the next version, and
\* the others lead on from there.
LEMMA AckLeads ==
  ASSUME NEW e, NEW q \in Queued(e), NEW rest \in Seq(Queued(e)), NEW v \in Nat,
         NEW l \in Seq(Entries), NEW ts, Replays(l, ts), NEW doc, Leads(ts[v + 1], <<q>> \o rest, doc),
         NEW m \in Acks, m.version <= Len(l),
         m.id = q.id, AcceptedAs(q, l, v, m.version) \/ NothingLeft(q, l, v, m.version),
         IF m.version = 0 \/ l[m.version].id # m.id THEN m.version = v ELSE m.version = v + 1
  PROVE  m.version = v + 1 /\ Leads(ts[m.version + 1], rest, doc)
<1>1. m.version \in Nat
  BY DEF Acks
<1>2. Merged(q, l, v, v) = q.op /\ q.op # NoOperation
  BY HistoryOfNone DEF Merged, Queued, Operations, NoOperation
<1>3. AcceptedAs(q, l, v, m.version)
  <2>1. CASE NothingLeft(q, l, v, m.version)
    <3>1. m.version = v /\ Merged(q, l, v, m.version) = NoOperation
      BY <2>1 DEF NothingLeft
    <3> QED BY <1>2, <3>1
  <2> QED BY <2>1
<1>4. m.version = v + 1 /\ l[m.version].id = q.id /\ Merged(q, l, v, m.version - 1) = l[m.version].op
  BY <1>1, <1>3 DEF AcceptedAs
<1> DEFINE n == m.version
<1>5. n - 1 = v /\ n \in 1..Len(l)
  BY <1>1, <1>4
<1>6. l[n].op = q.op
  BY <1>2, <1>4, <1>5
<1>7. ts[n + 1] = ApplyOperation(ts[n], l[n].op)
  BY <1>5 DEF Replays
<1>8. Leads(ApplyOperation(ts[v + 1], q.op), rest, doc)
  BY LeadsFromSecond
<1>9. n = v + 1
  BY <1>4
<1> HIDE DEF n
<1>10. ts[n + 1] = ApplyOperation(ts[v + 1], q.op)
  BY <1>6, <1>7, <1>9
<1>11. Leads(ts[n + 1], rest, doc)
  BY <1>8, <1>10
<1> QED BY <1>9, <1>11 DEF n

-----------------------------------------------------------------------------
(* The view invariant.                                                     *)

\* No mishap but a resync that went back happened to the editor.
Sound(r) == r.mishaps \subseteq {"rewound"}

\* An editor that received no snapshot yet; one that has left stays so.
Blank(e) ==
  /\ editor[e].status # "connected" /\ ~editor[e].canWrite /\ ~surface[e].editable
  /\ editor[e].queue = <<>> /\ editor[e].inFlight = <<>> /\ editor[e].slot = <<>>
  /\ e \in joined => editor[e].inbox # <<>>
  /\ editor[e].inbox # <<>> => Head(editor[e].inbox).kind = "snapshot"
  /\ editor[e].socket = "gone" \/ resync[e] = <<>>

\* What is displayed is the text of the editor's version with the pending
\* operations.
Agrees(e) == Leads(texts[editor[e].version + 1], Pending(editor[e]), Displayed(editor[e], surface[e]))

InStepOf(e) ==
  \A i \in DOMAIN editor[e].inFlight :
    InStep(editor[e].inFlight[i], log, editor[e].version, editor[e].upstream, editor[e].inbox,
           announcing[e].version, Untold(e))

ViewOf(e) == Sound(editor[e]) => Blank(e) \/ (Agrees(e) /\ InStepOf(e))

ViewInv == \A e \in Editors : ViewOf(e)

\* An operation that is sent when none is under way.
LEMMA InStepSent ==
  ASSUME NEW q, NEW l, NEW v, NEW S, NEW up \in Seq(S), NEW in, NEW a, NEW u, Idle(up, in, u)
  PROVE  InStep(q, l, v, Append(up, OpMsg(q, v)), in, a, u)
<1> DEFINE m == OpMsg(q, v)
<1>1. m.id = q.id /\ m.op = q.op /\ m.base = v
  BY DEF OpMsg
<1> HIDE DEF m
<1>2. ASSUME NEW i \in Asked(Append(up, m)) PROVE Append(up, m)[i] = m
  <2>1. i \in DOMAIN Append(up, m) /\ Append(up, m)[i].kind = "op"
    BY <1>2 DEF Asked
  <2>2. \/ i \in DOMAIN up /\ Append(up, m)[i] = up[i]
        \/ Append(up, m)[i] = m
    BY <2>1, AppendKnown
  <2>3. ~(i \in DOMAIN up /\ up[i].kind = "op")
    BY DEF Idle, Asked
  <2> QED BY <2>1, <2>2, <2>3
<1>3. AsksFor(q, l, v, Append(up, m))
  BY <1>1, <1>2 DEF AsksFor, Merged
<1>4. AnswersFor(q, l, v, in)
  BY DEF AnswersFor, Idle, Replies
<1>5. ~u
  BY DEF Idle
<1> QED BY <1>3, <1>4, <1>5 DEF InStep, m

\* What remains under way of an operation after a step that does not answer it.
LEMMA InStepLeft ==
  ASSUME Typed, Bounded, NEW e \in Editors, StepOf(e),
         ~Accept(e), ~AcknowledgeNoOp(e), ~Tell(e, e),
         \A i \in Asked(editor'[e].upstream) :
           \E j \in Asked(editor[e].upstream) : editor'[e].upstream[i] = editor[e].upstream[j],
         NEW q, NEW v,
         InStep(q, log, v, editor[e].upstream, editor[e].inbox, announcing[e].version, Untold(e))
  PROVE  InStep(q, log, v, editor'[e].upstream, editor'[e].inbox, announcing'[e].version, Untold(e)')
<1> DEFINE up  == editor[e].upstream
           up2 == editor'[e].upstream
           in  == editor[e].inbox
           in2 == editor'[e].inbox
           a   == announcing[e].version
           u   == Untold(e)
<1>1. \A i \in DOMAIN in2 : in2[i].kind # "ack" \/ \E j \in DOMAIN in : in2[i] = in[j]
  <2>1. SUFFICES ASSUME NEW i \in DOMAIN in2, in2[i].kind = "ack"
                 PROVE  \E j \in DOMAIN in : in2[i] = in[j]
    OBVIOUS
  <2>2. ~NewFor(e, in2[i])
    <3>1. in2[i] # SnapshotMsg(Version, Text, role[e]) /\ in2[i] # ReadOnlyMsg
      BY <2>1 DEF SnapshotMsg, ReadOnlyMsg
    <3>2. \A b, n, op : in2[i] # BroadcastMsg(b, n, op)
      BY <2>1 DEF BroadcastMsg
    <3> HIDE DEF in2
    <3> QED BY <3>1, <3>2 DEF NewFor
  <2> QED BY <2>1, <2>2, InboxOldOrNew
<1>2. Fewer(up2, up, in2, in)
  BY <1>1 DEF Fewer
<1>3. Untold(e)' => Untold(e) /\ announcing'[e].version = announcing[e].version
  <2>1. Untold(e)' => Untold(e)
    BY UntoldKept DEF StepOf
  <2>2. Announces(e)
    BY AnnouncementSteps
  <2> QED BY <2>1, <2>2 DEF Announces, Untold
<1>4. InStep(q, log, v, up, in, a, u)
  OBVIOUS
<1> HIDE DEF up, up2, in, in2, a, u
<1>5. InStep(q, log, v, up2, in2, a, FALSE)
  BY <1>2, <1>4, InStepLess
<1>6. InStep(q, log, v, up2, in2, announcing'[e].version, Untold(e)')
  BY <1>3, <1>4, <1>5 DEF InStep, a, u
<1> QED BY <1>6 DEF up2, in2

\* What is asked and answered names versions that exist.
LEMMA UnderWay ==
  ASSUME NEW e, NEW r \in EditorStates(e), NEW n, Known(r, n)
  PROVE  /\ \A i \in Asked(r.upstream) : r.upstream[i].base \in Nat /\ r.upstream[i].base <= n
         /\ \A i \in DOMAIN r.inbox : r.inbox[i].kind = "ack" =>
              r.inbox[i].version \in Nat /\ r.inbox[i].version <= n
<1>1. r.upstream \in Seq({JoinMsg} \cup OpMsgs(e)) /\ r.inbox \in Seq(Answers)
  BY DEF EditorStates
<1>2. ASSUME NEW i \in Asked(r.upstream)
      PROVE  r.upstream[i].base \in Nat /\ r.upstream[i].base <= n
  <2>1. i \in DOMAIN r.upstream /\ r.upstream[i].kind = "op"
    BY <1>2 DEF Asked
  <2> DEFINE m == r.upstream[i]
  <2>2. m \in {JoinMsg} \cup OpMsgs(e)
    BY <1>1, <2>1
  <2>3. m.kind = "op"
    BY <2>1
  <2> HIDE DEF m
  <2>4. m.base \in Nat
    BY <2>2, <2>3 DEF JoinMsg, OpMsgs
  <2> QED BY <2>1, <2>4 DEF Known, m
<1>3. ASSUME NEW i \in DOMAIN r.inbox, r.inbox[i].kind = "ack"
      PROVE  r.inbox[i].version \in Nat /\ r.inbox[i].version <= n
  <2> DEFINE m == r.inbox[i]
  <2>1. m \in Answers
    BY <1>1
  <2>2. m.version <= n /\ m.kind = "ack"
    BY <1>3 DEF Known
  <2> HIDE DEF m
  <2>3. m.version \in Nat
    BY <2>1, <2>2, AnswerKinds
  <2> QED BY <2>2, <2>3 DEF m
<1> QED BY <1>2, <1>3

\* What the server has nothing left of is not what it accepted last.
LEMMA NotTheLast ==
  ASSUME Typed, NewerInv, NEW e \in Editors, Receive(e, "op"), Version > 0
  PROVE  log[Version].id # Head(editor[e].upstream).id
<1> DEFINE up == editor[e].upstream
<1>1. up \in Seq({JoinMsg} \cup OpMsgs(e)) /\ up # <<>> /\ Head(up) \in OpMsgs(e) /\ Head(up).kind = "op"
  BY EditorFacts, HeadIsOperation DEF Receive
<1>2. 1 \in Asked(up) /\ up[1] = Head(up)
  BY <1>1, HeadKnown DEF Asked
<1>3. Head(up).id.client = e /\ Head(up).id.op \in Nat
  BY <1>1 DEF OpMsgs
<1>4. Version \in DOMAIN log
  BY LogFacts DEF Version
<1> SUFFICES ASSUME log[Version].id = Head(up).id PROVE FALSE
  OBVIOUS
<1> DEFINE t == log[Version].id.op
           T == Taken(log, stragglers[e], e)
<1>5. Version \in Logged(log, e)
  BY <1>3, <1>4 DEF Logged
<1>6. t \in T
  BY <1>5 DEF Taken
<1>7. NewerOf(e)
  BY DEF NewerInv
<1>8. t = up[1].id.op /\ t \in Nat
  BY <1>2, <1>3
<1> HIDE DEF t, T
<1>9. t < up[1].id.op
  BY <1>2, <1>6, <1>7 DEF NewerOf, Newer, T
<1> QED BY <1>8, <1>9

\* The operation in flight stays in step with what the server does.
LEMMA InStepOfKept ==
  ASSUME Typed, Bounded, ServerInv, NewerInv, SessionNext, NEW e \in Editors, StepOf(e),
         ~Deliver(e), ~Resync(e), ~Type(e), ~Leave(e), InStepOf(e)
  PROVE  InStepOf(e)'
<1>1. editor'[e].inFlight = editor[e].inFlight /\ editor'[e].version = editor[e].version
  BY PendingStays
<1>2. SUFFICES ASSUME NEW i \in DOMAIN editor[e].inFlight
               PROVE  InStep(editor[e].inFlight[i], log', editor[e].version, editor'[e].upstream,
                             editor'[e].inbox, announcing'[e].version, Untold(e)')
  BY <1>1 DEF InStepOf
<1> DEFINE q  == editor[e].inFlight[i]
           v  == editor[e].version
           up == editor[e].upstream
           in == editor[e].inbox
           a  == announcing[e].version
           n  == Len(log)
<1>3. InStep(q, log, v, up, in, a, Untold(e))
  BY DEF InStepOf
<1>4. /\ log \in Seq(Entries) /\ log' \in Seq(Entries) /\ Longer(log', log) /\ n \in Nat
      /\ Version = n
  BY LogGrows, LogFacts DEF Longer, Version
<1>5. /\ v \in Nat /\ v <= n
      /\ up \in Seq({JoinMsg} \cup OpMsgs(e)) /\ in \in Seq(Answers)
  BY <1>4, EditorFacts DEF Bounded, Known
<1>6. /\ \A k \in Asked(up) : up[k].base \in Nat /\ up[k].base <= n
      /\ \A k \in DOMAIN in : in[k].kind = "ack" => in[k].version \in Nat /\ in[k].version <= n
  <2>1. Known(editor[e], n) /\ editor[e] \in EditorStates(e)
    BY <1>4, EditorFacts DEF Bounded
  <2> QED BY <2>1, UnderWay
<1> DEFINE Goal == InStep(q, log', v, editor'[e].upstream, editor'[e].inbox, announcing'[e].version,
                          Untold(e)')
<1>7. CASE Accept(e)
  <2>1. /\ Head(up) \in OpMsgs(e) /\ Head(up).base <= Version /\ Append2Log(e, Head(up), {})
        /\ {} \in SUBSET Editors
    BY <1>7, AcceptEffect
  <2>2. log'[Version + 1] = [id |-> Head(up).id, op |-> Transformed(Head(up))]
    BY <2>1, AppendReplays DEF ServerInv
  <2>3. Len(log') = Version + 1 /\ announcing'[e] = [version |-> Version + 1, told |-> {}]
    BY <2>1, AppendEffect
  <2>4. up # <<>> /\ Head(up).kind = "op" /\ editor' = Received(editor, e)
    BY <1>7 DEF Accept, Receive
  <2>5. editor'[e].upstream = Tail(up) /\ editor'[e].inbox = in
    BY <2>4, ReceivedEffect DEF Becomes, SameBut, Fields
  <2>6. /\ log'[n + 1].id = Head(up).id /\ Len(log') = n + 1
        /\ log'[n + 1].op = TransformOverHistory(Head(up).op, Head(up).id, log, Head(up).base, n)
    BY <1>4, <2>2, <2>3 DEF Transformed
  <2> HIDE DEF q, v, up, in, a
  <2>7. InStep(q, log', v, Tail(up), in, Len(log) + 1, TRUE)
    BY <1>3, <1>4, <1>5, <1>6, <2>4, <2>6, InStepAccepted
  <2>8. announcing'[e].version = Len(log) + 1
    BY <1>4, <2>3
  <2> QED BY <2>5, <2>7, <2>8 DEF InStep, q, v, up, in
<1>8. CASE AcknowledgeNoOp(e)
  <2>1. /\ Receive(e, "op") /\ UNCHANGED serverVars /\ Transformed(Head(up)) = NoOperation
        /\ editor' = Send(Received(editor, e), e, AckMsg(Head(up).id, Version))
    BY <1>8 DEF AcknowledgeNoOp
  <2>2. up # <<>> /\ Head(up).kind = "op"
    BY <2>1 DEF Receive
  <2>3. AckMsg(Head(up).id, Version) \in Answers
    BY <2>1, ServerMessages DEF Answers
  <2>4. editor'[e].upstream = Tail(up) /\ editor'[e].inbox = Append(in, AckMsg(Head(up).id, n))
    BY <1>4, <2>1, <2>2, <2>3, AnswerEffect
  <2>5. n = 0 \/ log[n].id # Head(up).id
    BY <1>4, <2>1, NotTheLast
  <2>6. TransformOverHistory(Head(up).op, Head(up).id, log, Head(up).base, n) = NoOperation
    BY <1>4, <2>1 DEF Transformed
  <2>7. log' = log /\ announcing' = announcing
    BY <2>1 DEF serverVars
  <2> DEFINE u == Untold(e)
  <2>8. u <=> Untold(e)'
    BY <2>7 DEF Untold
  <2>9. InStep(q, log, v, up, in, a, u)
    BY <1>3
  <2> HIDE DEF q, v, up, in, a, u
  <2>10. InStep(q, log, v, Tail(up), Append(in, AckMsg(Head(up).id, Len(log))), a, u)
    BY <1>4, <1>5, <2>2, <2>5, <2>6, <2>9, InStepNothing
  <2> QED BY <2>4, <2>7, <2>8, <2>10 DEF InStep, a, q, v, up, in, u
<1>9. CASE Tell(e, e)
  <2>1. /\ Untold(e) /\ UNCHANGED log
        /\ editor' = Send(editor, e, AckMsg(log[a].id, a))
        /\ announcing' = [announcing EXCEPT ![e].told = @ \cup {e}]
    BY <1>9 DEF Tell, Untold
  <2>2. ~Untold(e)'
    BY <2>1, LogFacts DEF Untold
  <2>3. AckMsg(log[a].id, a) \in Answers
    BY <2>1, ServerMessages DEF Answers, Untold
  <2>4. editor'[e].upstream = up /\ editor'[e].inbox = Append(in, AckMsg(log[a].id, a))
    BY <2>1, <2>3, SendEffect DEF Becomes, SameBut, Fields
  <2> DEFINE b == announcing'[e].version
  <2>5. InStep(q, log, v, up, in, a, TRUE)
    BY <1>3, <2>1 DEF InStep
  <2> HIDE DEF q, v, up, in, a, b
  <2>6. InStep(q, log, v, up, Append(in, AckMsg(log[a].id, a)), b, FALSE)
    BY <1>5, <2>5, InStepTold
  <2> QED BY <2>1, <2>2, <2>4, <2>6 DEF InStep, b, q, v, up, in, a
<1>10. CASE ~Accept(e) /\ ~AcknowledgeNoOp(e) /\ ~Tell(e, e)
  <2> DEFINE up2 == editor'[e].upstream
             in2 == editor'[e].inbox
             a2  == announcing'[e].version
             u2  == Untold(e)'
  <2>1. \A k \in Asked(up2) : \E j \in Asked(up) : up2[k] = up[j]
    <3>1. \/ up2 = up
          \/ up # <<>> /\ up2 = Tail(up)
          \/ up2 = <<JoinMsg>> \/ up2 = <<>>
      <4>1. CASE Mount(e) \/ LoadMetadata(e) \/ Connect(e)
        BY <4>1, MountEffect DEF Becomes, SameBut, Fields
      <4>2. CASE Render(e)
        BY <4>2, RenderEffect DEF Becomes, SameBut, Fields
      <4>3. CASE AcceptStraggler(e)
        BY <4>3, UntoldEffect DEF Becomes, SameBut, Fields
      <4>4. ASSUME NEW b \in Editors, Tell(b, e) PROVE up2 = up
        BY <4>4, TellEffect DEF Becomes, SameBut, Fields
      <4>5. CASE LoseResync(e) \/ AnswerResync(e) \/ AskResync(e) \/ Grant(e) \/ EndAnnouncement(e)
        BY <4>5 DEF LoseResync, AnswerResync, AskResync, Grant, EndAnnouncement, clientVars
      <4>6. CASE ServeJoin(e) \/ Refuse(e)
        BY <4>6, ReplyEffect
      <4>7. CASE Opened(e)
        BY <4>7, OpenedEffect
      <4>8. CASE Closed(e)
        BY <4>8, ClosedEffect
      <4> QED BY <1>10, <4>1, <4>2, <4>3, <4>4, <4>5, <4>6, <4>7, <4>8
              DEF StepOf, EditorStep, Browser, Server, User, World
    <3>2. Asked(<<JoinMsg>>) = {} /\ Asked(<<>>) = {}
      BY EmptyIsIdle
    <3> HIDE DEF up2, up
    <3>3. CASE up # <<>> /\ up2 = Tail(up)
      BY <1>5, <3>3, AskedTail
    <3>4. CASE up2 = up
      BY <3>4
    <3>5. CASE up2 = <<JoinMsg>> \/ up2 = <<>>
      BY <3>2, <3>5
    <3> QED BY <3>1, <3>3, <3>4, <3>5
  <2>2. InStep(q, log, v, up2, in2, a2, u2)
    <3> HIDE DEF q, v
    <3> QED BY <1>3, <1>10, <2>1, InStepLeft
  <2>3. u2 => a2 \in Nat /\ a2 <= n
    <3>1. Untold(e)' => Untold(e)
      BY <1>10, UntoldKept DEF StepOf
    <3>2. Announces(e)
      BY AnnouncementSteps
    <3>3. u2 => a2 = a
      BY <1>10, <3>1, <3>2 DEF Announces, Untold
    <3>4. a \in Nat /\ a <= n
      BY <1>4, LogFacts DEF Bounded
    <3> QED BY <3>3, <3>4
  <2>4. /\ \A k \in Asked(up2) : up2[k].base \in Nat /\ up2[k].base <= n
        /\ \A k \in DOMAIN in2 : in2[k].kind = "ack" => in2[k].version \in Nat /\ in2[k].version <= n
    <3>1. Known(editor'[e], n) /\ editor'[e] \in EditorStates(e)
      BY <1>4, EditorsKnow, EditorsStayTyped DEF EditorTyped
    <3> QED BY <3>1, UnderWay
  <2> HIDE DEF q, v, up2, in2, a2, u2
  <2>5. InStep(q, log', v, up2, in2, a2, u2)
    BY <1>4, <1>5, <2>2, <2>3, <2>4, InStepGrows
  <2> QED BY <2>5 DEF up2, in2, a2, u2, q, v
<1> QED BY <1>7, <1>8, <1>9, <1>10

\* Only a snapshot, or the refusal of an operation, connects an editor.
LEMMA StatusSteps ==
  ASSUME Typed, Bounded, NEW e \in Editors, StepOf(e), ~Deliver(e), ~Leave(e)
  PROVE  /\ \/ editor'[e].status = editor[e].status
            \/ editor'[e].status \in {"connecting", "error", "disconnected"}
         /\ editor[e].socket = "gone" => editor'[e].socket = "gone"
<1>1. DOMAIN editor = Editors /\ editor[e] \in EditorStates(e) /\ DOMAIN editor[e] = Fields
  BY EditorFacts
<1>2. CASE Mount(e) \/ LoadMetadata(e) \/ Connect(e)
  <2>1. editor'[e].socket = "gone" <=> editor[e].socket = "gone"
    BY <1>2, MountEffect
  <2>2. \/ editor'[e].status = editor[e].status
        \/ editor'[e].status \in {"connecting", "error"}
    BY <1>1, <1>2 DEF Mount, LoadMetadata, Connect, Fields
  <2> QED BY <2>1, <2>2
<1>3. CASE Closed(e)
  <2>1. /\ editor' = [editor EXCEPT ![e] = ScheduleReconnect([@ EXCEPT !.upstream = <<>>,
                                                                       !.inbox = <<>>])]
        /\ editor[e].socket \in {"connecting", "open"}
    BY <1>3 DEF Closed
  <2>2. editor'[e].status = "disconnected"
    BY <1>1, <2>1 DEF ScheduleReconnect, Fields
  <2> QED BY <2>1, <2>2
<1>4. CASE Opened(e)
  BY <1>4, OpenedEffect DEF Becomes, SameBut, Fields
<1>5. CASE Render(e)
  BY <1>5, RenderEffect DEF Becomes, SameBut, Fields
<1>6. CASE AcceptStraggler(e)
  BY <1>6, UntoldEffect DEF Becomes, SameBut, Fields
<1>7. ASSUME NEW b \in Editors, Tell(b, e)
      PROVE  editor'[e].status = editor[e].status /\ editor'[e].socket = editor[e].socket
  BY <1>7, TellEffect DEF Becomes, SameBut, Fields
<1>8. CASE LoseResync(e) \/ AnswerResync(e) \/ AskResync(e) \/ Grant(e) \/ EndAnnouncement(e)
  BY <1>8 DEF LoseResync, AnswerResync, AskResync, Grant, EndAnnouncement, clientVars
<1>9. CASE ServeJoin(e) \/ Refuse(e) \/ AcknowledgeNoOp(e)
  BY <1>9, ReplyEffect DEF Becomes, SameBut, Fields
<1>10. CASE Accept(e)
  BY <1>10, ReceivedEffect DEF Accept, Receive, Becomes, SameBut, Fields
<1>11. CASE Type(e)
  BY <1>11, TypeEffect DEF Becomes, SameBut, Fields
<1>12. CASE Resync(e)
  BY <1>12, ResyncEffect DEF Becomes, SameBut, Fields
<1> QED BY <1>2, <1>3, <1>4, <1>5, <1>6, <1>7, <1>8, <1>9, <1>10, <1>11, <1>12
        DEF StepOf, EditorStep, Browser, Server, User, World

\* Only a join registers an editor, and none is once its socket closed.
LEMMA JoinedSteps ==
  ASSUME Typed, NEW e \in Editors, StepOf(e), e \in joined'
  PROVE  (e \in joined \/ ServeJoin(e)) /\ ~Closed(e) /\ ~Leave(e)
<1>1. Closed(e) \/ Leave(e) => joined' = joined \ {e}
  BY AbandonEffect
<1>2. CASE ServeJoin(e)
  BY <1>1, <1>2
<1>3. CASE ~Closed(e) /\ ~Leave(e) /\ ~ServeJoin(e)
  <2>1. joined' = joined
    BY <1>3 DEF StepOf, EditorStep, Browser, Server, User, World, Render, LoseResync, Mount,
       LoadMetadata, Connect, Opened, Deliver, Resync, Refuse, AcknowledgeNoOp, Accept,
       AcceptStraggler, AnswerResync, Type, AskResync, Grant, Tell, EndAnnouncement, serverVars
  <2> QED BY <1>3, <2>1
<1> QED BY <1>1, <1>2, <1>3

\* A request for the server's text is made by an editor that is connected.
LEMMA RequestSteps ==
  ASSUME Typed, NEW e \in Editors, StepOf(e), resync[e] = <<>>, editor[e].status # "connected"
  PROVE  resync'[e] = <<>>
<1>1. resync[e] # <<"asked">>
  BY Len(<<>>) = 0, Len(<<"asked">>) = 1
<1>2. ~(Len(resync[e]) = 2)
  BY Len(<<>>) = 0
<1> QED BY <1>1, <1>2 DEF StepOf, EditorStep, Browser, Server, User, World, Render, LoseResync, Mount,
       LoadMetadata, Connect, Opened, Deliver, Resync, ServeJoin, Refuse, AcknowledgeNoOp, Accept,
       AcceptStraggler, AnswerResync, Type, AskResync, Closed, Leave, Grant, Tell, EndAnnouncement,
       userVars

\* A view that was left shows nothing.
LEMMA LeftIsBlank ==
  ASSUME Typed, Bounded, NEW e \in Editors, Leave(e)
  PROVE  Blank(e)'
<1>1. /\ editor'[e].socket = "gone" /\ editor'[e].queue = <<>> /\ editor'[e].inFlight = <<>>
      /\ editor'[e].inbox = <<>> /\ editor'[e].slot = <<>>
      /\ surface' = [surface EXCEPT ![e] = InitialSurface]
  BY LeaveEffect
<1>2. editor'[e] = [InitialEditor EXCEPT !.socket = "gone", !.fresh = FALSE, !.metadata = "loaded"]
  BY DEF Typed, Leave
<1>3. editor'[e].status = "loading" /\ editor'[e].canWrite = FALSE
  BY <1>2 DEF InitialEditor
<1>4. surface'[e] = InitialSurface
  BY <1>1 DEF Typed
<1>5. e \notin joined'
  BY AbandonEffect
<1> QED BY <1>1, <1>3, <1>4, <1>5 DEF Blank, InitialSurface

\* An editor with nothing pending that forgot nothing has nothing under way.
LEMMA NothingUnderWay ==
  ASSUME FlightInv, NEW e \in Editors, Sound(editor[e]), editor[e].inFlight = <<>>
  PROVE  Idle(editor[e].upstream, editor[e].inbox, Untold(e))
BY DEF FlightInv, Flight, Sound

\* Until the first snapshot an editor shows nothing, and is told nothing else.
LEMMA BlankKept ==
  ASSUME Typed, Bounded, FlightInv, SessionNext, NEW e \in Editors, StepOf(e), ~Deliver(e),
         Sound(editor[e]), Blank(e)
  PROVE  Blank(e)'
<1>1. CASE Leave(e)
  BY <1>1, LeftIsBlank
<1>2. CASE ~Leave(e)
  <2> DEFINE r == editor[e]
             s == editor'[e]
  <2>1. Idle(r.upstream, r.inbox, Untold(e))
    BY NothingUnderWay DEF Blank
  <2>2. ~Type(e)
    BY DEF Type, Blank
  <2>3. ~Resync(e)
    <3>1. Len(<<>>) = 0
      OBVIOUS
    <3> QED BY <3>1 DEF Resync, Blank
  <2>4. s.queue = <<>> /\ s.inFlight = <<>> /\ s.canWrite = r.canWrite
    BY <1>2, <2>2, <2>3, PendingStays DEF Blank
  <2>5. s.slot = <<>> /\ ~surface'[e].editable
    <3>1. CASE Render(e)
      <4>1. s.slot = <<>> /\ surface'[e].editable = r.canWrite
        BY <3>1, RenderDetails DEF Blank
      <4> QED BY <4>1 DEF Blank
    <3>2. CASE ~Render(e)
      BY <1>2, <2>2, <2>3, <3>2, SlotStays, SurfaceStays DEF Blank
    <3> QED BY <3>1, <3>2
  <2>6. s.status # "connected" /\ (r.socket = "gone" => s.socket = "gone")
    BY <1>2, StatusSteps DEF Blank
  <2>7. s.socket = "gone" \/ resync'[e] = <<>>
    BY <2>6, RequestSteps DEF Blank
  <2>8. /\ e \in joined' => s.inbox # <<>>
        /\ s.inbox # <<>> => Head(s.inbox).kind = "snapshot"
    <3> DEFINE in == r.inbox
               Goal == /\ e \in joined' => s.inbox # <<>>
                       /\ s.inbox # <<>> => Head(s.inbox).kind = "snapshot"
    <3>1. /\ e \in joined => in # <<>>
          /\ in # <<>> => Head(in).kind = "snapshot"
          /\ in \in Seq(Answers)
      BY EditorFacts DEF Blank
    <3>2. CASE s.inbox = <<>> /\ Closed(e)
      BY <3>2, JoinedSteps
    <3>3. ASSUME NEW m \in Answers, s.inbox = Append(in, m), in # <<>> PROVE Goal
      <4>1. Append(in, m) # <<>> /\ Head(Append(in, m)) = Head(in)
        BY <3>1, <3>3
      <4> QED BY <3>1, <3>3, <4>1
    <3>4. ASSUME NEW m \in Answers, s.inbox = Append(in, m), in = <<>>, NewFor(e, m) PROVE Goal
      <4>1. Append(in, m) = <<m>> /\ <<m>> # <<>> /\ Head(<<m>>) = m
        BY <3>4
      <4>2. ServeJoin(e) /\ m = SnapshotMsg(Version, Text, role[e])
        <5>1. ~Refuse(e) /\ ~AcknowledgeNoOp(e)
          <6>1. Receive(e, "op") => Asked(r.upstream) # {}
            <7>1. r.upstream \in Seq({JoinMsg} \cup OpMsgs(e))
              BY EditorFacts
            <7> QED BY <7>1, HeadKnown DEF Receive, Asked
          <6> QED BY <2>1, <6>1 DEF Refuse, AcknowledgeNoOp, Idle
        <5>2. ~Tell(e, e)
          BY <2>1 DEF Tell, Idle, Untold
        <5>3. \A a \in Editors \ {e} : ~Tell(a, e)
          BY <3>1, <3>4 DEF Tell
        <5> QED BY <3>4, <5>1, <5>2, <5>3 DEF NewFor
      <4>3. m.kind = "snapshot"
        BY <4>2 DEF SnapshotMsg
      <4> QED BY <3>4, <4>1, <4>3
    <3>5. CASE s.inbox = in /\ ~ServeJoin(e)
      BY <3>1, <3>5, JoinedSteps
    <3>6. ServeJoin(e) => s.inbox # in
      <4>1. ASSUME ServeJoin(e) PROVE \E m \in Answers : s.inbox = Append(in, m)
        BY <4>1, ReplyEffect
      <4>2. \A m : Append(in, m) # in
        BY <3>1
      <4> QED BY <4>1, <4>2
    <3>7. \/ s.inbox = in
          \/ s.inbox = <<>> /\ Closed(e)
          \/ \E m \in Answers : s.inbox = Append(in, m) /\ NewFor(e, m)
      BY <1>2, InboxSteps DEF InboxStep
    <3> QED BY <3>2, <3>3, <3>4, <3>5, <3>6, <3>7
  <2> QED BY <2>4, <2>5, <2>6, <2>7, <2>8 DEF Blank
<1> QED BY <1>1, <1>2

\* Mishaps are not forgotten.
LEMMA MishapsGrow ==
  ASSUME Typed, Bounded, NEW e \in Editors, StepOf(e), ~Leave(e), Sound(editor'[e])
  PROVE  Sound(editor[e])
<1>1. editor[e].mishaps \subseteq editor'[e].mishaps
  <2>1. CASE Deliver(e)
    BY <2>1, DeliverEffect
  <2>2. CASE Resync(e)
    BY <2>2, ResyncEffect
  <2>3. CASE Type(e)
    BY <2>3, TypeEffect
  <2>4. CASE AcceptStraggler(e)
    BY <2>4, UntoldEffect
  <2>5. CASE Mount(e) \/ LoadMetadata(e) \/ Connect(e)
    BY <2>5, MountEffect DEF Becomes, SameBut, Fields
  <2>6. CASE Opened(e)
    BY <2>6, OpenedEffect DEF Becomes, SameBut, Fields
  <2>7. CASE Closed(e)
    BY <2>7, ClosedEffect DEF Becomes, SameBut, Fields
  <2>8. CASE Render(e)
    BY <2>8, RenderEffect DEF Becomes, SameBut, Fields
  <2>9. ASSUME NEW b \in Editors, Tell(b, e) PROVE editor'[e].mishaps = editor[e].mishaps
    BY <2>9, TellEffect DEF Becomes, SameBut, Fields
  <2>10. CASE LoseResync(e) \/ AnswerResync(e) \/ AskResync(e) \/ Grant(e) \/ EndAnnouncement(e)
    BY <2>10 DEF LoseResync, AnswerResync, AskResync, Grant, EndAnnouncement, clientVars
  <2>11. CASE ServeJoin(e) \/ Refuse(e) \/ AcknowledgeNoOp(e)
    BY <2>11, ReplyEffect DEF Becomes, SameBut, Fields
  <2>12. CASE Accept(e)
    BY <2>12, ReceivedEffect DEF Accept, Receive, Becomes, SameBut, Fields
  <2> QED BY <2>1, <2>2, <2>3, <2>4, <2>5, <2>6, <2>7, <2>8, <2>9, <2>10, <2>11, <2>12
          DEF StepOf, EditorStep, Browser, Server, User, World
<1> QED BY <1>1 DEF Sound

\* The text of a version the editor knows stays what it is.
LEMMA KnownTextStays ==
  ASSUME Typed, Bounded, SessionNext, NEW e \in Editors
  PROVE  /\ editor[e].version \in 0..Version
         /\ texts'[editor[e].version + 1] = texts[editor[e].version + 1]
         /\ texts[editor[e].version + 1] \in Texts
<1>1. editor[e].version \in 0..Version
  <2> DEFINE k == editor[e].version
  <2>1. k \in Nat /\ Version \in Nat
    BY EditorFacts, LogFacts
  <2>2. k <= Version
    BY DEF Bounded, Known
  <2> HIDE DEF k
  <2>3. k \in 0..Version
    BY <2>1, <2>2
  <2> QED BY <2>3 DEF k
<1> QED BY <1>1, TextsStay, LogFacts

\* Steps that replace neither the pending operations nor the text of the editor, a
\* rendering among them, leave displayed what was displayed.
LEMMA AgreesKept ==
  ASSUME Typed, Bounded, OnceInv, SessionNext, NEW e \in Editors, StepOf(e),
         ~Deliver(e), ~Resync(e), ~Type(e), ~Leave(e), Agrees(e)
  PROVE  Agrees(e)'
<1>1. /\ editor'[e].queue = editor[e].queue /\ editor'[e].inFlight = editor[e].inFlight
      /\ editor'[e].version = editor[e].version /\ editor'[e].content = editor[e].content
  BY PendingStays
<1>2. Pending(editor'[e]) = Pending(editor[e])
  BY <1>1 DEF Pending
<1>3. Displayed(editor'[e], surface'[e]) = Displayed(editor[e], surface[e])
  <2>1. CASE Render(e)
    <3>1. editor[e].slot # <<>> => Head(editor[e].slot).event # surface[e].applied
      BY DEF OnceInv, Once
    <3> QED BY <2>1, <3>1, RenderDetails
  <2>2. CASE ~Render(e)
    BY <1>1, <2>2, SlotStays, SurfaceStays DEF Displayed
  <2> QED BY <2>1, <2>2
<1>4. texts'[editor[e].version + 1] = texts[editor[e].version + 1]
  BY KnownTextStays
<1> DEFINE p == Pending(editor'[e])
           d == Displayed(editor'[e], surface'[e])
<1>5. Leads(texts'[editor'[e].version + 1], p, d)
  <2>1. p = Pending(editor[e]) /\ d = Displayed(editor[e], surface[e])
    BY <1>2, <1>3
  <2> HIDE DEF p, d
  <2> QED BY <1>1, <1>4, <2>1 DEF Agrees
<1> QED BY <1>5 DEF Agrees

\* Nothing in the slot waits when a message arrives in time.
LEMMA InTime ==
  ASSUME Typed, OnceInv, NEW e \in Editors, ~Unapplied(e)
  PROVE  editor[e].slot = <<>>
BY DEF OnceInv, Once, Unapplied

\* A snapshot is displayed as it is.
LEMMA SnapshotView ==
  ASSUME Typed, Bounded, ServerInv, OnceInv, SessionNext, NEW e \in Editors, Deliver(e),
         Head(editor[e].inbox).kind = "snapshot", Sound(editor'[e])
  PROVE  Agrees(e)' /\ InStepOf(e)'
<1> DEFINE r == editor[e]
           m == Head(r.inbox)
           h == Handle(r, m)
           s == editor'[e]
<1>1. /\ m \in Answers /\ r.inbox # <<>> /\ Is(e, h, {"inbox", "mishaps"})
      /\ UNCHANGED <<surface, serverVars>>
  BY DeliverDetails
<1>2. s.mishaps = r.mishaps \cup Mishaps(e, m) /\ s.fresh /\ s.slot = r.slot
      /\ s.version = m.version /\ s.queue = <<>> /\ s.inFlight = <<>>
  BY DeliverEffect
<1>3. "behind" \notin Mishaps(e, m)
  BY <1>2 DEF Sound
<1>4. ~Unapplied(e)
  BY <1>3 DEF Mishaps
<1>5. s.slot = <<>>
  BY <1>2, <1>4, InTime
<1>6. m \in Snapshots /\ h = HandleSnapshot(r, m) /\ r \in EditorStates(e)
  BY <1>1, AnswerKinds, EditorFacts DEF Handle
<1>7. s.content = m.text
  <2>1. s.content = h.content
    BY <1>1 DEF Is, Fields
  <2> HIDE DEF h
  <2> QED BY <1>6, <2>1, HandleSnapshotDetails
<1>8. m.text = texts[m.version + 1]
  <2>1. r.inbox \in Seq(Answers)
    BY EditorFacts
  <2>2. 1 \in DOMAIN r.inbox /\ m = r.inbox[1]
    BY <1>1, <2>1, HeadKnown
  <2>3. Stored(log, texts, e, m)
    BY <2>2 DEF ServerInv, InboxStored
  <2> QED BY <2>3 DEF Stored
<1>9. texts' = texts
  BY <1>1 DEF serverVars
<1> HIDE DEF m, h
<1>10. Pending(s) = <<>>
  BY <1>2 DEF Pending
<1>11. Displayed(s, surface'[e]) = texts'[s.version + 1]
  BY <1>2, <1>5, <1>7, <1>8, <1>9 DEF Displayed
<1>12. Agrees(e)'
  <2> DEFINE t == texts'[s.version + 1]
             p == Pending(s)
             d == Displayed(s, surface'[e])
  <2>1. p = <<>> /\ d = t
    BY <1>10, <1>11
  <2> HIDE DEF t, p, d
  <2>2. Leads(t, p, d)
    BY <2>1, NothingLeads
  <2> QED BY <2>2 DEF Agrees, t, p, d
<1>13. InStepOf(e)'
  <2>1. DOMAIN <<>> = {}
    OBVIOUS
  <2> QED BY <1>2, <2>1 DEF InStepOf
<1> QED BY <1>12, <1>13

\* So is the text that a resync brings.
LEMMA ResyncView ==
  ASSUME Typed, Bounded, ServedInv, SessionNext, NEW e \in Editors, Resync(e)
  PROVE  Agrees(e)' /\ InStepOf(e)'
<1> DEFINE r == editor[e]
           s == editor'[e]
<1>1. PICK m \in Served : /\ resync[e] = <<"asked", m>>
                          /\ Is(e, HandleResyncSnapshot(r, m), {"mishaps"})
                          /\ UNCHANGED <<surface, serverVars>>
  BY ResyncDetails
<1> DEFINE h == HandleResyncSnapshot(r, m)
<1>2. r \in EditorStates(e) /\ m.version \in Nat /\ m.text \in Texts /\ m.canWrite \in BOOLEAN
  BY EditorFacts DEF Served
<1>3. /\ h.version = m.version /\ h.queue = <<>> /\ h.inFlight = <<>> /\ h.fresh
      /\ h.slot = <<>> /\ h.content = m.text
  BY <1>2, HandleResyncFields, HandleResyncDetails
<1> HIDE DEF h
<1>4. /\ s.version = m.version /\ s.queue = <<>> /\ s.inFlight = <<>> /\ s.fresh
      /\ s.slot = <<>> /\ s.content = m.text
  BY <1>1, <1>3 DEF Is, Fields, h
<1>5. m.text = texts[m.version + 1]
  BY <1>1 DEF ServedInv
<1>6. texts' = texts
  BY <1>1 DEF serverVars
<1>7. Pending(s) = <<>>
  BY <1>4 DEF Pending
<1>8. Displayed(s, surface'[e]) = texts'[s.version + 1]
  BY <1>4, <1>5, <1>6 DEF Displayed
<1>9. Agrees(e)'
  <2> DEFINE t == texts'[s.version + 1]
             p == Pending(s)
             d == Displayed(s, surface'[e])
  <2>1. p = <<>> /\ d = t
    BY <1>7, <1>8
  <2> HIDE DEF t, p, d
  <2>2. Leads(t, p, d)
    BY <2>1, NothingLeads
  <2> QED BY <2>2 DEF Agrees, t, p, d
<1>10. InStepOf(e)'
  <2>1. DOMAIN <<>> = {}
    OBVIOUS
  <2> QED BY <1>4, <2>1 DEF InStepOf
<1> QED BY <1>9, <1>10

\* A message is handled: there is one less.
LEMMA FewerTold ==
  ASSUME NEW up, NEW S, NEW in \in Seq(S), in # <<>>
  PROVE  Fewer(up, up, Tail(in), in)
<1>1. \A i \in DOMAIN Tail(in) : \E j \in DOMAIN in : Tail(in)[i] = in[j]
  BY TailKnown
<1> QED BY <1>1 DEF Fewer

\* What is under way of an operation remains so when another message is handled.
LEMMA InStepDelivered ==
  ASSUME Typed, NEW e \in Editors, Deliver(e), NEW q, NEW v,
         InStep(q, log, v, editor[e].upstream, editor[e].inbox, announcing[e].version, Untold(e))
  PROVE  InStep(q, log', v, editor[e].upstream, editor'[e].inbox, announcing'[e].version, Untold(e)')
<1> DEFINE up == editor[e].upstream
           in == editor[e].inbox
           a  == announcing[e].version
<1>1. in # <<>> /\ UNCHANGED serverVars
  BY DeliverDetails
<1>2. editor'[e].inbox = Tail(in)
  BY DeliverEffect
<1>3. in \in Seq(Answers)
  BY EditorFacts
<1>4. Fewer(up, up, Tail(in), in)
  <2> HIDE DEF in
  <2> QED BY <1>1, <1>3, FewerTold
<1>5. log' = log /\ announcing' = announcing /\ (Untold(e)' <=> Untold(e))
  BY <1>1 DEF serverVars, Untold
<1> DEFINE u == Untold(e)
<1>6. InStep(q, log, v, up, in, a, u)
  OBVIOUS
<1> HIDE DEF up, in, a, u
<1>7. InStep(q, log, v, up, Tail(in), a, FALSE)
  BY <1>4, <1>6, InStepLess
<1> QED BY <1>2, <1>5, <1>6, <1>7 DEF InStep, up, in, a, u

\* A refusal leaves the view as it is.
LEMMA ErrorView ==
  ASSUME Typed, NEW e \in Editors, Deliver(e), Head(editor[e].inbox).kind = "error",
         Agrees(e), InStepOf(e)
  PROVE  Agrees(e)' /\ InStepOf(e)'
<1> DEFINE r == editor[e]
           s == editor'[e]
<1>1. SameBut(r, s, {"status", "inbox", "mishaps"})
  BY DeliverEffect
<1>2. /\ s.queue = r.queue /\ s.inFlight = r.inFlight /\ s.version = r.version
      /\ s.content = r.content /\ s.fresh = r.fresh /\ s.slot = r.slot /\ s.upstream = r.upstream
  BY <1>1 DEF SameBut, Fields
<1>3. surface' = surface /\ texts' = texts
  BY DeliverDetails DEF serverVars
<1>4. Pending(s) = Pending(r) /\ Displayed(s, surface'[e]) = Displayed(r, surface[e])
  BY <1>2, <1>3 DEF Pending, Displayed
<1>5. Agrees(e)'
  <2> DEFINE p == Pending(s)
             d == Displayed(s, surface'[e])
  <2>1. p = Pending(r) /\ d = Displayed(r, surface[e])
    BY <1>4
  <2> HIDE DEF p, d
  <2>2. Leads(texts'[s.version + 1], p, d)
    BY <1>2, <1>3, <2>1 DEF Agrees
  <2> QED BY <2>2 DEF Agrees, p, d
<1>6. ASSUME NEW i \in DOMAIN s.inFlight
      PROVE  InStep(s.inFlight[i], log', s.version, s.upstream, s.inbox, announcing'[e].version,
                    Untold(e)')
  <2> DEFINE q == r.inFlight[i]
             v == r.version
  <2>1. InStep(q, log, v, r.upstream, r.inbox, announcing[e].version, Untold(e))
    BY <1>2 DEF InStepOf
  <2>2. s.inFlight[i] = q /\ s.version = v /\ s.upstream = r.upstream
    BY <1>2
  <2> HIDE DEF q, v
  <2>3. InStep(q, log', v, r.upstream, s.inbox, announcing'[e].version, Untold(e)')
    BY <2>1, InStepDelivered
  <2> QED BY <2>2, <2>3
<1> QED BY <1>5, <1>6 DEF InStepOf

\* An acknowledgement releases an operation that is now part of the server's text.
LEMMA AckView ==
  ASSUME Typed, Bounded, FlightInv, ServerInv, SessionNext, NEW e \in Editors, Deliver(e),
         Head(editor[e].inbox).kind = "ack", Sound(editor[e]), Sound(editor'[e]),
         Agrees(e), InStepOf(e)
  PROVE  Agrees(e)' /\ InStepOf(e)'
<1> DEFINE r  == editor[e]
           s  == editor'[e]
           in == r.inbox
           m  == Head(in)
           h  == Handle(r, m)
           q  == Head(r.inFlight)
           v  == r.version
<1>1. /\ m \in Answers /\ in # <<>> /\ Is(e, h, {"inbox", "mishaps"})
      /\ UNCHANGED <<surface, serverVars>>
  BY DeliverDetails
<1>2. /\ s.mishaps = r.mishaps \cup Mishaps(e, m) /\ s.inbox = Tail(in)
      /\ s.version = Greater(v, m.version) /\ s.slot = r.slot /\ s.fresh = r.fresh
      /\ \E f \in {r.inFlight, <<>>} : Sends(r.queue, f, r.upstream, s)
  BY DeliverEffect
<1>3. m \in Acks /\ h = HandleAck(r, m) /\ r \in EditorStates(e)
  BY <1>1, AnswerKinds, EditorFacts DEF Handle
<1>4. /\ in \in Seq(Answers) /\ v \in Nat /\ r.inFlight \in Seq(Queued(e)) /\ Len(r.inFlight) <= 1
      /\ r.queue \in Seq(Queued(e)) /\ r.upstream \in Seq({JoinMsg} \cup OpMsgs(e))
  BY EditorFacts
<1>5. 1 \in DOMAIN in /\ in[1] = m
  <2> HIDE DEF in
  <2> QED BY <1>1, <1>4, HeadKnown
<1>6. r.inFlight # <<>>
  <2>1. 1 \in Replies(in)
    BY <1>5 DEF Replies
  <2> QED BY <2>1, NothingUnderWay DEF Idle
<1>7. r.inFlight = <<q>> /\ q \in Queued(e) /\ 1 \in DOMAIN r.inFlight /\ q = r.inFlight[1]
  <2> DEFINE f == r.inFlight
  <2>1. f \in Seq(Queued(e)) /\ Len(f) <= 1 /\ f # <<>>
    BY <1>4, <1>6
  <2> HIDE DEF f
  <2>2. Len(f) = 1
    <3>1. 1 \in DOMAIN f
      BY <2>1, HeadKnown
    <3>2. DOMAIN f = 1..Len(f) /\ Len(f) \in Nat
      BY <2>1
    <3> QED BY <2>1, <3>1, <3>2
  <2>3. f = <<f[1]>> /\ f[1] \in Queued(e) /\ Head(f) = f[1] /\ 1 \in DOMAIN f
    BY <2>1, <2>2
  <2> QED BY <2>3 DEF f
<1>8. m.id = q.id /\ (AcceptedAs(q, log, v, m.version) \/ NothingLeft(q, log, v, m.version))
  <2>1. InStep(q, log, v, r.upstream, in, announcing[e].version, Untold(e))
    BY <1>7 DEF InStepOf
  <2>2. AnswersFor(q, log, v, in)
    <3> HIDE DEF q, v, in
    <3> QED BY <2>1 DEF InStep
  <2>3. m.kind = "ack"
    OBVIOUS
  <2> HIDE DEF q, v, in, m
  <2> QED BY <1>5, <2>2, <2>3 DEF AnswersFor
<1>9. IF m.version = 0 \/ log[m.version].id # m.id THEN m.version = v ELSE m.version = v + 1
  <2>1. "order" \notin Mishaps(e, m)
    BY <1>2 DEF Sound
  <2>2. InOrder(r, m)
    BY <2>1 DEF Mishaps
  <2> QED BY <2>2 DEF InOrder
<1>10. m.version <= Len(log) /\ m.version \in Nat /\ log \in Seq(Entries) /\ Replays(log, texts)
  <2>1. Known(r, Version)
    BY DEF Bounded
  <2>2. in[1].version <= Version
    BY <1>5, <2>1 DEF Known
  <2> QED BY <1>3, <1>5, <2>2, LogFacts DEF ServerInv, Acks, Version
<1>11. Pending(r) = <<q>> \o r.queue
  BY <1>7 DEF Pending
<1> DEFINE d == Displayed(r, surface[e])
           rest == r.queue
<1>12. Leads(texts[v + 1], <<q>> \o rest, d)
  <2> DEFINE p == Pending(r)
  <2>1. Leads(texts[v + 1], p, d)
    BY DEF Agrees
  <2>2. p = <<q>> \o rest
    BY <1>11
  <2> HIDE DEF p, d, v, q, rest
  <2> QED BY <2>1, <2>2
<1>13. m.version = v + 1 /\ Leads(texts[m.version + 1], rest, d)
  <2>1. q \in Queued(e) /\ rest \in Seq(Queued(e)) /\ v \in Nat /\ m \in Acks
    BY <1>3, <1>4, <1>7
  <2> HIDE DEF d, v, q, rest, m
  <2> QED BY <1>8, <1>9, <1>10, <1>12, <2>1, AckLeads
<1>14. s.version = m.version
  <2> DEFINE k == m.version
  <2>1. k = v + 1 /\ v \in Nat
    BY <1>4, <1>13
  <2> HIDE DEF k, v
  <2>2. Greater(v, k) = k
    BY <2>1 DEF Greater
  <2> QED BY <1>2, <2>2 DEF k, v
<1>15. Pending(s) = rest
  <2>1. s.queue = h.queue /\ s.inFlight = h.inFlight
    BY <1>1 DEF Is, Fields
  <2>2. Pending(s) = Pending(h)
    BY <2>1 DEF Pending
  <2>3. Pending(HandleAck(r, m)) = rest
    <3> HIDE DEF m
    <3> QED BY <1>3, <1>4, <1>6, <1>8, HandleAckPending
  <2> QED BY <1>3, <2>2, <2>3
<1>16. s.content = r.content
  <2>1. s.content = h.content
    BY <1>1 DEF Is, Fields
  <2>2. HandleAck(r, m).content = r.content
    <3> HIDE DEF m, r
    <3>1. PICK mid \in EditorStates(e) : /\ SameBut(r, mid, {"version", "inFlight", "metrics"})
                                         /\ HandleAck(r, m) = SendNext(mid)
      BY <1>3, HandleAckFields
    <3>2. SameBut(mid, SendNext(mid), {"queue", "inFlight", "upstream", "metrics"})
      BY SendNextFields
    <3> QED BY <3>1, <3>2 DEF SameBut, Fields
  <2> QED BY <1>3, <2>1, <2>2
<1>17. Displayed(s, surface'[e]) = d
  BY <1>1, <1>2, <1>16 DEF Displayed
<1>18. Agrees(e)'
  <2> DEFINE p == Pending(s)
             d2 == Displayed(s, surface'[e])
  <2>1. texts' = texts
    BY <1>1 DEF serverVars
  <2>2. p = rest /\ d2 = d
    BY <1>15, <1>17
  <2> HIDE DEF p, d2, rest, d, m
  <2>3. Leads(texts'[s.version + 1], p, d2)
    BY <1>13, <1>14, <2>1, <2>2
  <2> QED BY <2>3 DEF Agrees, p, d2
<1>19. PICK f \in {r.inFlight, <<>>} : Sends(r.queue, f, r.upstream, s)
  BY <1>2
<1>20. CASE s.queue = r.queue /\ s.inFlight = f /\ s.upstream = r.upstream
  <2>1. f \o rest = rest
    BY <1>15, <1>20 DEF Pending
  <2>2. f # r.inFlight
    <3>1. Len(<<q>> \o rest) = 1 + Len(rest) /\ Len(rest) \in Nat
      <4>1. rest \in Seq(Queued(e)) /\ <<q>> \in Seq(Queued(e)) /\ Len(<<q>>) = 1
        BY <1>4, <1>7
      <4> HIDE DEF rest, q
      <4> QED BY <4>1
    <3> HIDE DEF rest, q
    <3>2. <<q>> \o rest # rest
      BY <3>1
    <3> QED BY <1>7, <2>1, <3>2
  <2>3. s.inFlight = <<>>
    BY <1>20, <2>2
  <2>4. DOMAIN <<>> = {}
    OBVIOUS
  <2>5. InStepOf(e)'
    BY <2>3, <2>4 DEF InStepOf
  <2> QED BY <1>18, <2>5
<1>21. CASE /\ s.inFlight = <<Head(r.queue)>>
            /\ s.upstream = Append(r.upstream, OpMsg(Head(r.queue), s.version))
  <2> DEFINE up == r.upstream
             q2 == Head(r.queue)
             u  == Untold(e)'
             w  == s.version
             a  == announcing'[e].version
  <2>1. Idle(up, Tail(in), Untold(e))
    <3>1. Lone(up, in, Untold(e))
      BY DEF FlightInv, Flight, Sound
    <3> HIDE DEF up, in
    <3> QED BY <1>1, <1>4, <3>1, LoneTailIn DEF in
  <2>2. Untold(e)' <=> Untold(e)
    BY <1>1 DEF serverVars, Untold
  <2>3. Idle(up, Tail(in), u)
    BY <2>1, <2>2 DEF Idle
  <2>4. up \in Seq({JoinMsg} \cup OpMsgs(e))
    BY <1>4
  <2> HIDE DEF up, q2, u, w, a, in
  <2>5. InStep(q2, log', w, Append(up, OpMsg(q2, w)), Tail(in), a, u)
    BY <2>3, <2>4, InStepSent
  <2>6. \A i \in DOMAIN s.inFlight : s.inFlight[i] = q2
    BY <1>21 DEF q2
  <2>7. s.upstream = Append(up, OpMsg(q2, w))
    BY <1>21 DEF up, q2, w
  <2>8. ASSUME NEW i \in DOMAIN s.inFlight
        PROVE  InStep(s.inFlight[i], log', w, s.upstream, s.inbox, a, u)
    BY <1>2, <2>5, <2>6, <2>7
  <2>9. InStepOf(e)'
    BY <2>8 DEF InStepOf, w, a, u
  <2> QED BY <1>18, <2>9
<1> QED BY <1>19, <1>20, <1>21 DEF Sends

\* What is pending after a remote operation: each operation in its place, over it.
LEMMA PendingOver ==
  ASSUME NEW e, NEW f \in Seq(Queued(e)), NEW q \in Seq(Queued(e)), NEW m \in Broadcasts
  PROVE  LET p  == f \o q
             p2 == [i \in DOMAIN f |-> OverRemote(f[i], m)] \o [i \in DOMAIN q |-> OverRemote(q[i], m)]
         IN  /\ p2 \in Seq(Queued(e)) /\ Len(p2) = Len(p)
             /\ \A i \in DOMAIN p : p[i] \in Queued(e) /\ p2[i] = OverRemote(p[i], m)
<1> DEFINE f2 == [i \in DOMAIN f |-> OverRemote(f[i], m)]
           q2 == [i \in DOMAIN q |-> OverRemote(q[i], m)]
           p  == f \o q
           p2 == f2 \o q2
<1>1. f2 \in Seq(Queued(e)) /\ Len(f2) = Len(f) /\ \A i \in DOMAIN f : f2[i] = OverRemote(f[i], m)
  BY OverRemoteSeq
<1>2. q2 \in Seq(Queued(e)) /\ Len(q2) = Len(q) /\ \A i \in DOMAIN q : q2[i] = OverRemote(q[i], m)
  BY OverRemoteSeq
<1> HIDE DEF f2, q2
<1>3. p2 \in Seq(Queued(e)) /\ Len(p2) = Len(p) /\ p \in Seq(Queued(e))
  <2>1. p \in Seq(Queued(e)) /\ Len(p) = Len(f) + Len(q)
    OBVIOUS
  <2>2. p2 \in Seq(Queued(e)) /\ Len(p2) = Len(f2) + Len(q2)
    <3>1. f2 \in Seq(Queued(e)) /\ q2 \in Seq(Queued(e))
      BY <1>1, <1>2
    <3> QED BY <3>1
  <2> HIDE DEF p, p2
  <2> QED BY <1>1, <1>2, <2>1, <2>2
<1>4. ASSUME NEW i \in DOMAIN p
      PROVE  p[i] \in Queued(e) /\ p2[i] = OverRemote(p[i], m)
  <2>1. /\ i \in 1..(Len(f) + Len(q)) /\ Len(f) \in Nat /\ Len(q) \in Nat /\ Len(f2) = Len(f)
        /\ DOMAIN f = 1..Len(f) /\ DOMAIN q = 1..Len(q)
    BY <1>1
  <2>2. CASE i <= Len(f)
    <3>1. i \in DOMAIN f /\ p[i] = f[i] /\ p2[i] = f2[i]
      BY <1>1, <1>2, <2>1, <2>2
    <3> QED BY <1>1, <3>1
  <2>3. CASE ~(i <= Len(f))
    <3> DEFINE j == i - Len(f)
    <3>1. j \in DOMAIN q
      BY <2>1, <2>3
    <3>2. p[i] = q[j] /\ p2[i] = q2[j]
      BY <1>1, <1>2, <2>1, <2>3
    <3> HIDE DEF j
    <3> QED BY <1>2, <3>1, <3>2
  <2> QED BY <2>2, <2>3
<1> QED BY <1>3, <1>4 DEF f2, q2

\* Over the operation of version v + 1 that comes in time, alone with what is pending,
\* the operation in flight stays in step with the server.
LEMMA InStepOfOver ==
  ASSUME Typed, Bounded, NEW e \in Editors, Deliver(e), InStepOf(e), Version > editor[e].version,
         editor'[e].version = editor[e].version + 1, editor'[e].upstream = editor[e].upstream,
         log[editor[e].version + 1].id.client # e,
         DOMAIN editor'[e].inFlight = DOMAIN editor[e].inFlight,
         \A i \in DOMAIN editor[e].inFlight :
           /\ editor'[e].inFlight[i].id = editor[e].inFlight[i].id
           /\ editor'[e].inFlight[i].op
                = TransformOperation(editor[e].inFlight[i].op, editor[e].inFlight[i].id,
                                     log[editor[e].version + 1].op, log[editor[e].version + 1].id)
  PROVE  InStepOf(e)'
<1> DEFINE r == editor[e]
           s == editor'[e]
           up == r.upstream
           in == r.inbox
           v == r.version
           a == announcing[e].version
           n == Len(log)
<1>1. /\ log \in Seq(Entries) /\ n = Version /\ n \in Nat /\ v \in Nat /\ v < n
      /\ r.inFlight \in Seq(Queued(e))
  BY LogFacts, EditorFacts DEF Version
<1>2. \A i \in DOMAIN in : in[i].kind = "ack" => in[i].version \in Nat
  <2>1. Known(r, n) /\ r \in EditorStates(e)
    BY <1>1, EditorFacts DEF Bounded
  <2> QED BY <2>1, UnderWay
<1>3. a \in Nat
  BY LogFacts
<1>4. ASSUME NEW i \in DOMAIN s.inFlight
      PROVE  InStep(s.inFlight[i], log', s.version, s.upstream, s.inbox, announcing'[e].version,
                    Untold(e)')
  <2> DEFINE q  == r.inFlight[i]
             q2 == s.inFlight[i]
             u  == Untold(e)
             w  == v + 1
  <2>1. InStep(q, log, v, up, in, a, u)
    BY DEF InStepOf
  <2>2. q \in Queued(e)
    BY <1>1
  <2>3. q2.id = q.id /\ q2.op = TransformOperation(q.op, q.id, log[v + 1].op, log[v + 1].id)
    OBVIOUS
  <2>4. log[v + 1].id.client # e /\ s.version = w /\ s.upstream = up
    OBVIOUS
  <2> HIDE DEF q, q2, u, v, up, in, a
  <2>5. InStep(q2, log, v + 1, up, in, a, u)
    BY <1>1, <1>2, <1>3, <2>1, <2>2, <2>3, <2>4, InStepOver
  <2> USE DEF up, in, a, u
  <2> HIDE DEF w
  <2>6. InStep(q2, log, w, up, in, a, u)
    BY <2>5 DEF w
  <2>7. InStep(q2, log', w, up, s.inbox, announcing'[e].version, Untold(e)')
    BY <2>6, InStepDelivered
  <2> QED BY <2>4, <2>7 DEF q2
<1> QED BY <1>4 DEF InStepOf

\* A remote operation that arrives in order, and in time, makes the next version
\* of the displayed text.
LEMMA RemoteView ==
  ASSUME Typed, Bounded, ServerInv, OnceInv, SessionNext, NEW e \in Editors, Deliver(e),
         Head(editor[e].inbox).kind = "broadcast_op", Sound(editor'[e]),
         Agrees(e), InStepOf(e)
  PROVE  Agrees(e)' /\ InStepOf(e)'
<1> DEFINE r  == editor[e]
           s  == editor'[e]
           in == r.inbox
           m  == Head(in)
           h  == Handle(r, m)
           v  == r.version
           p  == Pending(r)
           p2 == Pending(s)
<1>1. /\ m \in Answers /\ in # <<>> /\ Is(e, h, {"inbox", "mishaps"})
      /\ UNCHANGED <<surface, serverVars>>
  BY DeliverDetails
<1>2. /\ s.mishaps = r.mishaps \cup Mishaps(e, m)
      /\ s.version = Greater(v, m.version) /\ s.fresh = r.fresh /\ s.upstream = r.upstream
  BY DeliverEffect
<1>3. m \in Broadcasts /\ h = HandleRemoteOperation(r, m) /\ r \in EditorStates(e)
  BY <1>1, AnswerKinds, EditorFacts DEF Handle
<1>4. /\ in \in Seq(Answers) /\ v \in Nat /\ r.inFlight \in Seq(Queued(e))
      /\ r.queue \in Seq(Queued(e))
  BY EditorFacts
<1>5. /\ ~Unapplied(e) /\ InOrder(r, m) /\ Len(p) <= 1
      /\ \A i \in DOMAIN p : /\ ~Inside(p[i].op, m.op) /\ ~Inside(m.op, p[i].op)
                             /\ TransformOperation(p[i].op, p[i].id, m.op, m.id) # NoOperation
  <2>1. Mishaps(e, m) \subseteq {"rewound"}
    BY <1>2 DEF Sound
  <2>2. ~Unapplied(e)
    <3>1. "behind" \notin Mishaps(e, m)
      BY <2>1
    <3> QED BY <3>1 DEF Mishaps
  <2>3. InOrder(r, m)
    <3>1. "order" \notin Mishaps(e, m)
      BY <2>1
    <3> QED BY <3>1 DEF Mishaps
  <2>4. Len(p) <= 1
    <3>1. "queue" \notin Mishaps(e, m)
      BY <2>1
    <3>2. ~(Len(p) > 1)
      BY <3>1 DEF Mishaps
    <3>3. Len(p) \in Nat
      BY <1>3, PendingType
    <3> QED BY <3>2, <3>3
  <2>5. \A i \in DOMAIN p : ~Inside(p[i].op, m.op) /\ ~Inside(m.op, p[i].op)
    <3>1. "inside" \notin Mishaps(e, m)
      BY <2>1
    <3> QED BY <3>1 DEF Mishaps
  <2>6. \A i \in DOMAIN p : TransformOperation(p[i].op, p[i].id, m.op, m.id) # NoOperation
    <3>1. "kept" \notin Mishaps(e, m)
      BY <2>1
    <3> QED BY <3>1 DEF Mishaps
  <2> QED BY <2>2, <2>3, <2>4, <2>5, <2>6
<1>6. r.slot = <<>>
  BY <1>5, InTime
<1>7. m.version = v + 1 /\ s.version = v + 1
  <2>1. m.version = v + 1
    BY <1>5 DEF InOrder
  <2>2. Greater(v, v + 1) = v + 1
    <3> HIDE DEF v
    <3> QED BY <1>4 DEF Greater
  <2> QED BY <1>2, <2>1, <2>2
<1>8. /\ v + 1 \in 1..Len(log) /\ m.id.client # e /\ m.id = log[v + 1].id /\ m.op = log[v + 1].op
  <2>1. 1 \in DOMAIN in /\ m = in[1]
    <3> HIDE DEF in
    <3> QED BY <1>1, <1>4, HeadKnown
  <2>2. Stored(log, texts, e, m)
    BY <2>1 DEF ServerInv, InboxStored
  <2> QED BY <1>7, <2>2 DEF Stored
<1>9. /\ s.inFlight = [i \in DOMAIN r.inFlight |-> OverRemote(r.inFlight[i], m)]
      /\ s.queue = [i \in DOMAIN r.queue |-> OverRemote(r.queue[i], m)]
      /\ s.slot = SlotAfter(r, m) /\ s.content = r.content
  <2>1. /\ s.inFlight = h.inFlight /\ s.queue = h.queue /\ s.slot = h.slot /\ s.content = h.content
    BY <1>1 DEF Is, Fields
  <2>2. h.content = r.content
    <3> DEFINE g == HandleRemoteOperation(r, m)
    <3>1. SameBut(r, g, {"version", "queue", "inFlight", "slot", "metrics"})
      BY <1>3, HandleRemoteFields
    <3> HIDE DEF g
    <3>2. g.content = r.content
      BY <3>1 DEF SameBut, Fields
    <3> QED BY <1>3, <3>2 DEF g
  <2> HIDE DEF m, h
  <2> QED BY <1>3, <2>1, <2>2, HandleRemoteDetails
<1>10. /\ p \in Seq(Queued(e)) /\ p2 \in Seq(Queued(e)) /\ Len(p2) = Len(p)
       /\ \A i \in DOMAIN p : p[i] \in Queued(e) /\ p2[i] = OverRemote(p[i], m)
  <2>1. p = r.inFlight \o r.queue
    BY DEF Pending
  <2>2. p2 = [i \in DOMAIN r.inFlight |-> OverRemote(r.inFlight[i], m)]
               \o [i \in DOMAIN r.queue |-> OverRemote(r.queue[i], m)]
    BY <1>9 DEF Pending
  <2>3. p \in Seq(Queued(e))
    BY <1>3, PendingType
  <2> DEFINE f == r.inFlight
             q == r.queue
  <2>4. f \in Seq(Queued(e)) /\ q \in Seq(Queued(e))
    BY <1>4
  <2> HIDE DEF p, p2, m, f, q
  <2> DEFINE x == f \o q
             y == [i \in DOMAIN f |-> OverRemote(f[i], m)] \o [i \in DOMAIN q |-> OverRemote(q[i], m)]
  <2>5. /\ y \in Seq(Queued(e)) /\ Len(y) = Len(x)
        /\ \A i \in DOMAIN x : x[i] \in Queued(e) /\ y[i] = OverRemote(x[i], m)
    BY <1>3, <2>4, PendingOver, SMTT(30)
  <2>6. p = x /\ p2 = y
    BY <2>1, <2>2 DEF f, q
  <2> HIDE DEF x, y
  <2> QED BY <2>3, <2>5, <2>6
<1>11. \A i \in DOMAIN p : p2[i].op = TransformOperation(p[i].op, p[i].id, m.op, m.id)
  <2> SUFFICES ASSUME NEW i \in DOMAIN p
               PROVE  p2[i].op = TransformOperation(p[i].op, p[i].id, m.op, m.id)
    OBVIOUS
  <2> DEFINE q  == p[i]
             op == TransformOperation(q.op, q.id, m.op, m.id)
  <2>1. q \in Queued(e) /\ p2[i] = OverRemote(q, m) /\ op # NoOperation
    BY <1>5, <1>10
  <2> HIDE DEF q
  <2>2. OverRemote(q, m) = [q EXCEPT !.op = op]
    BY <2>1 DEF OverRemote
  <2> HIDE DEF op
  <2>3. OverRemote(q, m).op = op
    BY <2>1, <2>2 DEF Queued
  <2> QED BY <2>1, <2>3 DEF q, op
<1> DEFINE t  == texts[v + 1]
           d  == Displayed(r, surface[e])
           o  == OverPending(m, p)
<1>12. Leads(ApplyOperation(t, m.op), p2, ApplyOperation(d, o))
  <2>1. Leads(t, p, d)
    BY DEF Agrees
  <2>2. t \in Texts
    BY KnownTextStays
  <2>3. \A i \in DOMAIN p :
           /\ p2[i].op = TransformOperation(p[i].op, p[i].id, m.op, m.id)
           /\ ~Inside(p[i].op, m.op) /\ ~Inside(m.op, p[i].op)
    BY <1>5, <1>11
  <2> HIDE DEF p, p2, m, t, d
  <2> QED BY <1>3, <1>5, <1>8, <1>10, <2>1, <2>2, <2>3, RemoteLeads
<1>13. ApplyOperation(t, m.op) = texts'[s.version + 1]
  <2>1. texts[v + 2] = ApplyOperation(texts[v + 1], log[v + 1].op)
    <3> HIDE DEF v
    <3>1. texts[(v + 1) + 1] = ApplyOperation(texts[v + 1], log[v + 1].op)
      BY <1>8 DEF ServerInv, Replays
    <3> QED BY <1>4, <3>1
  <2>2. texts' = texts
    BY <1>1 DEF serverVars
  <2>3. s.version + 1 = v + 2
    BY <1>4, <1>7
  <2> QED BY <1>8, <2>1, <2>2, <2>3
<1>14. Displayed(s, surface'[e]) = ApplyOperation(d, o)
  <2> DEFINE c == IF r.fresh THEN r.content ELSE surface[e].doc
  <2>1. d = c
    BY <1>6 DEF Displayed
  <2>2. c \in Texts
    BY <1>3 DEF EditorStates, Typed, Views
  <2>3. CASE o = NoOperation
    <3>1. s.slot = <<>>
      BY <1>6, <1>9, <2>3 DEF SlotAfter
    <3>2. Displayed(s, surface'[e]) = c
      BY <1>1, <1>2, <1>9, <3>1 DEF Displayed
    <3>3. ApplyOperation(c, o) = c
      <4> HIDE DEF c, o
      <4> QED BY <2>2, <2>3, ApplyNothing
    <3> HIDE DEF c, d, o
    <3> QED BY <2>1, <3>2, <3>3
  <2>4. CASE o # NoOperation
    <3> DEFINE x == [event |-> <<m.version, m.id>>, op |-> o]
    <3>1. s.slot = <<x>>
      BY <1>9, <2>4 DEF SlotAfter
    <3>2. x.op = o
      OBVIOUS
    <3> HIDE DEF x, o
    <3>3. s.slot # <<>> /\ Head(s.slot) = x
      BY <3>1
    <3>4. Displayed(s, surface'[e]) = ApplyOperation(c, o)
      BY <1>1, <1>2, <1>9, <3>2, <3>3 DEF Displayed
    <3> HIDE DEF c, d
    <3> QED BY <2>1, <3>4
  <2> QED BY <2>3, <2>4
<1>15. Agrees(e)'
  <2> DEFINE d2 == Displayed(s, surface'[e])
             t2 == texts'[s.version + 1]
  <2>1. t2 = ApplyOperation(t, m.op) /\ d2 = ApplyOperation(d, o)
    BY <1>13, <1>14
  <2> HIDE DEF d2, t2, t, m, d, o, p2
  <2>2. Leads(t2, p2, d2)
    BY <1>12, <2>1
  <2> QED BY <2>2 DEF Agrees, d2, t2, p2
<1>16. InStepOf(e)'
  <2> DEFINE f  == r.inFlight
             f2 == s.inFlight
  <2>1. Version > v
    <3> HIDE DEF v
    <3> QED BY <1>4, <1>8, LogFacts DEF Version
  <2>2. DOMAIN f2 = DOMAIN f
    BY <1>9
  <2>3. ASSUME NEW i \in DOMAIN f
        PROVE  /\ f2[i].id = f[i].id
               /\ f2[i].op = TransformOperation(f[i].op, f[i].id, log[v + 1].op, log[v + 1].id)
    <3>1. i \in DOMAIN p /\ p[i] = f[i]
      <4> DEFINE q == r.queue
      <4>1. p = f \o q /\ f \in Seq(Queued(e)) /\ q \in Seq(Queued(e))
        BY <1>4 DEF Pending
      <4> HIDE DEF p, f, q
      <4>2. DOMAIN f = 1..Len(f) /\ i \in DOMAIN f /\ Len(f) \in Nat /\ Len(q) \in Nat
        BY <2>3, <4>1
      <4> QED BY <4>1, <4>2
    <3>2. f2[i] = OverRemote(f[i], m)
      BY <1>9
    <3>3. f2[i].op = TransformOperation(f[i].op, f[i].id, m.op, m.id)
      BY <1>10, <1>11, <3>1, <3>2
    <3>4. f2[i].id = f[i].id
      <4>1. f[i] \in Queued(e)
        BY <1>4
      <4> HIDE DEF f, f2, m
      <4> QED BY <1>3, <3>2, <4>1, OverRemoteType
    <3> QED BY <1>8, <3>3, <3>4
  <2>4. log[v + 1].id.client # e
    BY <1>8
  <2> QED BY <1>2, <1>7, <2>1, <2>2, <2>3, <2>4, InStepOfOver
<1> QED BY <1>15, <1>16

\* Edits to what is displayed are pending behind the others.
LEMMA TypeView ==
  ASSUME Typed, Bounded, FlightInv, OnceInv, NEW e \in Editors, Type(e),
         Sound(editor[e]), Sound(editor'[e]), Agrees(e), InStepOf(e)
  PROVE  Agrees(e)' /\ InStepOf(e)'
<1> DEFINE r == editor[e]
           s == editor'[e]
           v == r.version
<1>1. ~RenderingDue(e) /\ surface[e].editable
  <2>1. "behind" \notin s.mishaps
    BY DEF Sound
  <2> QED BY <2>1, TypeDetails
<1>2. ~r.fresh /\ ~Unapplied(e) /\ r.canWrite
  <2>1. r.canWrite = surface[e].editable
    BY <1>1 DEF RenderingDue
  <2> QED BY <1>1, <2>1 DEF RenderingDue
<1>3. r.slot = <<>>
  BY <1>2, InTime
<1>4. PICK ops \in Seq(Queued(e)) :
        /\ Leads(surface[e].doc, ops, surface'[e].doc)
        /\ Is(e, IF r.canWrite THEN SendLocal(r, ops) ELSE r, {"latest", "mishaps"})
  BY TypeDetails
<1> DEFINE h == SendLocal(r, ops)
<1>5. Is(e, h, {"latest", "mishaps"})
  BY <1>2, <1>4
<1>6. Becomes(e, {"queue", "inFlight", "upstream", "metrics", "latest", "mishaps"})
  BY TypeEffect
<1>7. /\ s.fresh = r.fresh /\ s.slot = r.slot /\ s.version = v /\ s.inbox = r.inbox
  BY <1>6 DEF Becomes, SameBut, Fields
<1>8. UNCHANGED serverVars
  BY DEF Type
<1>9. texts' = texts /\ log' = log /\ announcing' = announcing /\ (Untold(e)' <=> Untold(e))
  BY <1>8 DEF serverVars, Untold
<1>10. r \in EditorStates(e) /\ r.upstream \in Seq({JoinMsg} \cup OpMsgs(e))
  BY EditorFacts
<1> DEFINE p  == Pending(r)
           p2 == Pending(s)
           d  == Displayed(r, surface[e])
           d2 == Displayed(s, surface'[e])
           t  == texts[v + 1]
<1>11. p \in Seq(Queued(e)) /\ p2 = p \o ops
  <2>1. s.queue = h.queue /\ s.inFlight = h.inFlight
    BY <1>5 DEF Is, Fields
  <2>2. p2 = Pending(h)
    BY <2>1 DEF Pending
  <2>3. Pending(h) = p \o ops
    BY <1>10, SendLocalPending
  <2>4. p \in Seq(Queued(e))
    BY <1>10, PendingType
  <2> HIDE DEF h, p, p2
  <2> QED BY <2>2, <2>3, <2>4
<1>12. d = surface[e].doc /\ d2 = surface'[e].doc
  BY <1>2, <1>3, <1>7 DEF Displayed
<1>13. Leads(t, p \o ops, d2)
  <2>1. Leads(t, p, d)
    BY DEF Agrees
  <2>2. Leads(d, ops, d2)
    BY <1>4, <1>12
  <2>3. p \in Seq(Queued(e))
    BY <1>11
  <2> HIDE DEF t, p, d, d2
  <2> QED BY <2>1, <2>2, <2>3, LeadsOn
<1>14. Agrees(e)'
  <2> DEFINE t2 == texts'[s.version + 1]
  <2>1. t2 = t
    BY <1>7, <1>9
  <2>2. p2 = p \o ops
    BY <1>11
  <2> HIDE DEF t, t2, p, p2, d2
  <2>3. Leads(t2, p2, d2)
    BY <1>13, <2>1, <2>2
  <2> QED BY <2>3 DEF Agrees, t2, p2, d2
<1>15. PICK q : Sends(q, r.inFlight, r.upstream, s)
  BY TypeEffect
<1>16. CASE s.inFlight = r.inFlight /\ s.upstream = r.upstream
  <2>1. \A i \in DOMAIN r.inFlight :
          InStep(r.inFlight[i], log, v, r.upstream, r.inbox, announcing[e].version, Untold(e))
    BY DEF InStepOf
  <2>2. ASSUME NEW i \in DOMAIN s.inFlight
        PROVE  InStep(s.inFlight[i], log', s.version, s.upstream, s.inbox, announcing'[e].version,
                      Untold(e)')
    <3> DEFINE x == r.inFlight[i]
               a == announcing[e].version
    <3>1. InStep(x, log, v, r.upstream, r.inbox, a, Untold(e))
      BY <1>16, <2>1
    <3>2. s.inFlight[i] = x /\ announcing'[e].version = a
      BY <1>9, <1>16
    <3> HIDE DEF x, a
    <3>3. InStep(x, log, v, r.upstream, r.inbox, a, Untold(e)')
      BY <1>9, <3>1 DEF InStep
    <3> QED BY <1>7, <1>9, <1>16, <3>2, <3>3
  <2>3. InStepOf(e)'
    BY <2>2 DEF InStepOf
  <2> QED BY <1>14, <2>3
<1>17. CASE /\ r.inFlight = <<>> /\ s.inFlight = <<Head(q)>>
            /\ s.upstream = Append(r.upstream, OpMsg(Head(q), s.version))
  <2> DEFINE up == r.upstream
             in == r.inbox
             q2 == Head(q)
             u  == Untold(e)'
             w  == s.version
             a  == announcing'[e].version
  <2>1. Idle(up, in, Untold(e))
    BY <1>17, NothingUnderWay
  <2>2. Idle(up, in, u)
    BY <1>9, <2>1 DEF Idle
  <2>3. up \in Seq({JoinMsg} \cup OpMsgs(e))
    BY <1>10
  <2> HIDE DEF up, q2, u, w, a, in
  <2>4. InStep(q2, log', w, Append(up, OpMsg(q2, w)), in, a, u)
    BY <2>2, <2>3, InStepSent
  <2>5. \A i \in DOMAIN s.inFlight : s.inFlight[i] = q2
    BY <1>17 DEF q2
  <2>6. s.upstream = Append(up, OpMsg(q2, w)) /\ s.inbox = in
    BY <1>7, <1>17 DEF up, q2, w, in
  <2>7. ASSUME NEW i \in DOMAIN s.inFlight
        PROVE  InStep(s.inFlight[i], log', w, s.upstream, s.inbox, a, u)
    BY <2>4, <2>5, <2>6
  <2>8. InStepOf(e)'
    BY <2>7 DEF InStepOf, w, a, u
  <2> QED BY <1>14, <2>8
<1> QED BY <1>15, <1>16, <1>17 DEF Sends

\* An editor's own steps keep its view.
LEMMA OwnViewKept ==
  ASSUME Typed, Bounded, FlightInv, ServerInv, ServedInv, OnceInv, NewerInv, SessionNext,
         NEW e \in Editors, StepOf(e), ViewOf(e)
  PROVE  ViewOf(e)'
<1> SUFFICES ASSUME Sound(editor'[e]) PROVE Blank(e)' \/ (Agrees(e)' /\ InStepOf(e)')
  BY DEF ViewOf
<1>1. CASE Leave(e)
  BY <1>1, LeftIsBlank
<1>2. CASE ~Leave(e)
  <2>1. Sound(editor[e])
    BY <1>2, MishapsGrow
  <2>2. Blank(e) \/ (Agrees(e) /\ InStepOf(e))
    BY <2>1 DEF ViewOf
  <2>3. CASE Deliver(e)
    <3> DEFINE k == Head(editor[e].inbox).kind
    <3>1. editor[e].inbox # <<>> /\ Head(editor[e].inbox) \in Answers
      BY <2>3, DeliverDetails
    <3>2. k \in {"snapshot", "ack", "broadcast_op", "error"}
      BY <3>1, AnswerKinds
    <3>3. CASE k = "snapshot"
      BY <2>3, <3>3, SnapshotView
    <3>4. CASE k # "snapshot"
      <4>1. Agrees(e) /\ InStepOf(e)
        BY <2>2, <3>1, <3>4 DEF Blank
      <4>2. CASE k = "ack"
        BY <2>1, <2>3, <4>1, <4>2, AckView
      <4>3. CASE k = "broadcast_op"
        BY <2>3, <4>1, <4>3, RemoteView
      <4>4. CASE k = "error"
        BY <2>3, <4>1, <4>4, ErrorView
      <4> QED BY <3>2, <3>4, <4>2, <4>3, <4>4
    <3> QED BY <3>3, <3>4
  <2>4. CASE Resync(e)
    BY <2>4, ResyncView
  <2>5. CASE ~Deliver(e) /\ ~Resync(e)
    <3>1. CASE Blank(e)
      BY <2>1, <2>5, <3>1, BlankKept
    <3>2. CASE Agrees(e) /\ InStepOf(e)
      <4>1. CASE Type(e)
        BY <2>1, <3>2, <4>1, TypeView
      <4>2. CASE ~Type(e)
        BY <1>2, <2>5, <3>2, <4>2, AgreesKept, InStepOfKept
      <4> QED BY <4>1, <4>2
    <3> QED BY <2>2, <3>1, <3>2
  <2> QED BY <2>3, <2>4, <2>5
<1> QED BY <1>1, <1>2

\* What is under way of another editor's operation stays in step with the server.
LEMMA InStepOfOther ==
  ASSUME Typed, Bounded, SessionNext, NEW e \in Editors, StepOf(e), NEW x \in Editors \ {e},
         InStepOf(x)
  PROVE  InStepOf(x)'
<1> DEFINE r  == editor[x]
           v  == r.version
           up == r.upstream
           in == r.inbox
           a  == announcing[x].version
           n  == Len(log)
           u2 == Untold(x)'
<1>1. editor'[x] = r
  BY OthersLeft DEF Left
<1>2. /\ log \in Seq(Entries) /\ log' \in Seq(Entries) /\ Longer(log', log) /\ n \in Nat
      /\ Version = n
  BY LogGrows, LogFacts DEF Longer, Version
<1>3. v \in Nat /\ v <= n
  BY <1>2, EditorFacts DEF Bounded, Known
<1>4. /\ \A k \in Asked(up) : up[k].base \in Nat /\ up[k].base <= n
      /\ \A k \in DOMAIN in : in[k].kind = "ack" => in[k].version \in Nat /\ in[k].version <= n
  <2>1. Known(r, n) /\ r \in EditorStates(x)
    BY <1>2, EditorFacts DEF Bounded
  <2> QED BY <2>1, UnderWay
<1>5. u2 => Untold(x) /\ announcing'[x].version = a
  <2>1. u2 => Untold(x)
    BY UntoldKept DEF StepOf
  <2>2. Announces(x)
    BY AnnouncementSteps
  <2>3. ~Accept(x)
    <3> SUFFICES ASSUME Accept(x) PROVE FALSE
      OBVIOUS
    <3>1. up # <<>> /\ editor'[x].upstream = Tail(up)
      BY ReceivedEffect DEF Accept, Receive
    <3>2. up \in Seq({JoinMsg} \cup OpMsgs(x)) /\ up = Tail(up)
      BY <1>1, <3>1, EditorFacts
    <3> DEFINE S == {JoinMsg} \cup OpMsgs(x)
    <3>4. up # <<>> /\ up \in Seq(S)
      BY <3>1, <3>2
    <3> HIDE DEF up, S
    <3>3. Len(Tail(up)) = Len(up) - 1 /\ Len(up) \in Nat
      BY <3>4
    <3> QED BY <3>2, <3>3
  <2> QED BY <2>1, <2>2, <2>3 DEF Announces, Untold
<1>6. a \in Nat /\ a <= n
  BY <1>2, LogFacts DEF Bounded
<1>7. ASSUME NEW i \in DOMAIN r.inFlight
      PROVE  InStep(r.inFlight[i], log', v, up, in, announcing'[x].version, u2)
  <2> DEFINE q == r.inFlight[i]
             u == Untold(x)
  <2>1. InStep(q, log, v, up, in, a, u)
    BY DEF InStepOf
  <2>2. u => a \in Nat /\ a <= n
    BY <1>6
  <2> HIDE DEF q, v, up, in, a, u, u2
  <2>3. InStep(q, log', v, up, in, a, u)
    BY <1>2, <1>3, <1>4, <2>1, <2>2, InStepGrows
  <2> QED BY <1>5, <2>3 DEF InStep, q, v, up, in, u
<1> QED BY <1>1, <1>7 DEF InStepOf

\* So stays the view.
LEMMA OtherViewKept ==
  ASSUME Typed, Bounded, SessionNext, NEW e \in Editors, StepOf(e), NEW x \in Editors \ {e},
         ViewOf(x)
  PROVE  ViewOf(x)'
<1>1. Left(x)
  BY OthersLeft
<1>2. Blank(x) => Blank(x)'
  BY <1>1 DEF Left, Blank
<1>3. Agrees(x) => Agrees(x)'
  <2>1. texts'[editor[x].version + 1] = texts[editor[x].version + 1]
    BY KnownTextStays
  <2> QED BY <1>1, <2>1 DEF Left, Agrees
<1>4. InStepOf(x) => InStepOf(x)'
  BY InStepOfOther
<1>5. Sound(editor'[x]) => Sound(editor[x])
  BY <1>1 DEF Left
<1> QED BY <1>2, <1>3, <1>4, <1>5 DEF ViewOf

\* Every step keeps the views.
LEMMA ViewKept ==
  ASSUME Typed, Bounded, FlightInv, ServerInv, ServedInv, OnceInv, NewerInv, ViewInv, SessionNext
  PROVE  ViewInv'
<1>1. CASE UNCHANGED vars
  <2>1. \A x \in Editors : ViewOf(x) <=> ViewOf(x)'
    BY <1>1 DEF ViewOf, Blank, Agrees, InStepOf, Untold, vars, clientVars, serverVars, userVars
  <2> QED BY <2>1 DEF ViewInv
<1>2. ASSUME NEW e \in Editors, StepOf(e) PROVE ViewInv'
  <2>1. ASSUME NEW x \in Editors PROVE ViewOf(x)'
    BY <1>2, OwnViewKept, OtherViewKept DEF ViewInv
  <2> QED BY <2>1 DEF ViewInv
<1> QED BY <1>1, <1>2, StepCases

\* Nothing is displayed initially.
LEMMA ViewStarts ==
  ASSUME Init PROVE ViewInv
<1> SUFFICES ASSUME NEW e \in Editors PROVE Blank(e)
  BY DEF ViewInv, ViewOf
<1>1. /\ editor[e] = InitialEditor /\ surface[e] = InitialSurface
      /\ joined = {} /\ resync[e] = <<>>
  BY DEF Init
<1> QED BY <1>1 DEF Blank, InitialEditor, InitialSurface

-----------------------------------------------------------------------------
(* What holds in every reachable state.                                    *)

DisplayInv == /\ SessionInv /\ ToldInv /\ ServedInv /\ ServerInv
              /\ CountedInv /\ OnceInv /\ NewerInv /\ ViewInv

\* The invariant holds initially.
LEMMA DisplayInvStarts ==
  ASSUME Init PROVE DisplayInv
<1>1. ServedInv
  <2>1. \A e \in Editors : resync[e] = <<>>
    BY DEF Init
  <2>2. \A s : <<"asked", s>> # <<>>
    OBVIOUS
  <2> QED BY <2>1, <2>2 DEF ServedInv
<1> QED BY <1>1, SessionInvStarts, ToldStarts, ServerInvStarts, CountedStarts, OnceStarts,
           NewerStarts, ViewStarts DEF DisplayInv

\* Every step preserves the invariant.
LEMMA DisplayInvKept ==
  ASSUME DisplayInv, SessionNext PROVE DisplayInv'
<1>1. Typed /\ Bounded /\ FlightInv /\ OwnAnnouncements
  BY DEF DisplayInv, SessionInv, ServerInv
<1>2. SessionInv' /\ ToldInv' /\ ServedInv' /\ ServerInv'
  BY <1>1, SessionInvKept, ToldKept, ServedKept, ServerInvKept DEF DisplayInv
<1>3. CountedInv' /\ OnceInv' /\ NewerInv' /\ ViewInv'
  BY <1>1, CountedKept, OnceKept, NewerKept, ViewKept DEF DisplayInv
<1> QED BY <1>2, <1>3 DEF DisplayInv

\* Nothing is due to be rendered: what is displayed is the text of the view.
LEMMA NothingDue ==
  ASSUME Typed, OnceInv, NEW e \in Editors, ~RenderingDue(e)
  PROVE  Displayed(editor[e], surface[e]) = surface[e].doc
<1>1. ~editor[e].fresh /\ ~Unapplied(e)
  BY DEF RenderingDue
<1>2. editor[e].slot = <<>>
  BY <1>1, InTime
<1> QED BY <1>1, <1>2 DEF Displayed

\* The displayed text of an editor whose view is neither blank nor off the document.
LEMMA ViewMeans ==
  ASSUME Typed, OnceInv, ViewInv, NEW e \in Editors, ~RenderingDue(e), Sound(editor[e]), ~Blank(e)
  PROVE  surface[e].doc = AfterPending(texts[editor[e].version + 1], Pending(editor[e]))
<1> DEFINE t == texts[editor[e].version + 1]
           p == Pending(editor[e])
           d == Displayed(editor[e], surface[e])
<1>1. Leads(t, p, d)
  BY DEF ViewInv, ViewOf, Agrees
<1>2. p \in Seq(Queued(e))
  BY EditorFacts, PendingType
<1>3. d = surface[e].doc
  BY NothingDue
<1> HIDE DEF t, p, d
<1>4. d = AfterTransaction(t, p)
  BY <1>1, <1>2, LeadsMeans
<1> QED BY <1>3, <1>4 DEF AfterPending, t, p

\* The invariant implies that editors display their version.
LEMMA DisplayMeans ==
  ASSUME DisplayInv
  PROVE  EditorShowsItsVersion
<1> SUFFICES ASSUME NEW e \in Editors, editor[e].status = "connected", ~RenderingDue(e),
                    editor[e].mishaps \subseteq {"rewound"}
             PROVE  surface[e].doc = AfterPending(texts[editor[e].version + 1], Pending(editor[e]))
  BY DEF EditorShowsItsVersion
<1>1. Typed /\ OnceInv /\ ViewInv
  BY DEF DisplayInv, SessionInv
<1>2. Sound(editor[e]) /\ ~Blank(e)
  BY DEF Sound, Blank
<1> QED BY <1>1, <1>2, ViewMeans

\* The invariant implies that quiet editors display the server's text.
LEMMA QuietMeans ==
  ASSUME DisplayInv
  PROVE  QuietEditorsShowTheText
<1> SUFFICES ASSUME NEW e \in Editors, Quiet(e), editor[e].mishaps = {}
             PROVE  /\ surface[e].doc = Text
                    /\ editor[e].metrics.pending = 0
                    /\ editor[e].metrics.sent = editor[e].metrics.acked
  BY DEF QuietEditorsShowTheText
<1> DEFINE r == editor[e]
           p == Pending(r)
<1>1. Typed /\ Bounded /\ OnceInv /\ ViewInv /\ ToldInv /\ CountedInv
  BY DEF DisplayInv, SessionInv
<1>2. r.version = Version
  <2>1. r.mishaps \cap {"untold", "rewound"} = {}
    OBVIOUS
  <2> QED BY <1>1, <2>1, QuietKnowsAll
<1>3. p = <<>> /\ ~RenderingDue(e) /\ e \in joined /\ r.inbox = <<>>
  BY DEF Quiet
<1>4. Sound(r) /\ ~Blank(e)
  BY <1>3 DEF Sound, Blank
<1>5. surface[e].doc = AfterPending(texts[r.version + 1], p)
  BY <1>1, <1>3, <1>4, ViewMeans
<1>6. AfterPending(Text, <<>>) = Text
  <2> DEFINE none == <<>>
  <2>1. Leads(Text, none, Text)
    BY NothingLeads
  <2>2. none \in Seq(Queued(e))
    OBVIOUS
  <2> HIDE DEF none
  <2>3. Text = AfterTransaction(Text, none)
    BY <2>1, <2>2, LeadsMeans
  <2> QED BY <2>3 DEF AfterPending, none
<1>7. surface[e].doc = Text
  <2> HIDE DEF p
  <2> QED BY <1>2, <1>3, <1>5, <1>6 DEF Text
<1>8. r.metrics.pending = 0 /\ r.metrics.sent = r.metrics.acked
  <2>1. r.metrics.pending = Len(p) /\ r.metrics.sent = r.metrics.acked + Len(p)
    BY <1>1 DEF CountedInv, Tallied
  <2>2. r.metrics.acked \in Nat
    BY <1>1, EditorFacts DEF EditorStates, Metrics
  <2>3. Len(<<>>) = 0
    OBVIOUS
  <2> DEFINE k == r.metrics.acked
             n == r.metrics.sent
  <2> HIDE DEF p
  <2>4. n = k + 0 /\ k \in Nat
    BY <1>3, <2>1, <2>2, <2>3
  <2> HIDE DEF k, n
  <2>5. n = k
    BY <2>4
  <2> QED BY <1>3, <2>1, <2>3, <2>5 DEF k, n
<1> QED BY <1>7, <1>8

-----------------------------------------------------------------------------
(* The theorems.                                                           *)

\* Every reachable state of the editors and their server satisfies the invariant
\* above: what the server keeps and tells, what is counted, sent and displayed.
THEOREM DisplayInvariant == Spec => []DisplayInv
<1>1. Init => DisplayInv
  BY DisplayInvStarts
<1>2. DisplayInv /\ [Next]_<<vars, scenario>> => DisplayInv'
  BY NextIsSessionNext, DisplayInvKept DEF DisplayInv, SessionInv
<1> QED BY <1>1, <1>2, PTL DEF Spec

\* An editor that nothing but the listed mishaps happened to displays the text of a
\* version of the document with its own pending operations applied, in whatever
\* order edits, messages, renderings, announcements and resyncs come
\* (usePlainTextCollaboration.ts, PlainTextEditorSurface.tsx).
THEOREM EditorsShowTheirVersion == Spec => []EditorShowsItsVersion
<1>1. DisplayInv => EditorShowsItsVersion
  BY DisplayMeans
<1> QED BY <1>1, DisplayInvariant, PTL

\* Once nothing is on its way, such an editor displays the server's text, and its
\* metrics say that all it sent was acknowledged.
THEOREM QuietEditorsAgree == Spec => []QuietEditorsShowTheText
<1>1. DisplayInv => QuietEditorsShowTheText
  BY QuietMeans
<1> QED BY <1>1, DisplayInvariant, PTL

\* The same with the divergence detection at work, whose resyncs replace texts.
THEOREM DisplayInvariantWithResyncs == DSpec => []DisplayInv
<1>1. DInit => DisplayInv
  BY DisplayInvStarts DEF DInit
<1>2. DisplayInv /\ [DNext]_<<allVars, scenario>> => DisplayInv'
  BY DNextIsSessionNext, DisplayInvKept DEF DisplayInv, SessionInv
<1> QED BY <1>1, <1>2, PTL DEF DSpec

\* Resyncs keep displayed what they replaced it with, and what is pending since.
THEOREM EditorsShowTheirVersionWithResyncs == DSpec => []EditorShowsItsVersion
<1>1. DisplayInv => EditorShowsItsVersion
  BY DisplayMeans
<1> QED BY <1>1, DisplayInvariantWithResyncs, PTL

\* And once nothing is on its way the server's text is displayed.
THEOREM QuietEditorsAgreeWithResyncs == DSpec => []QuietEditorsShowTheText
<1>1. DisplayInv => QuietEditorsShowTheText
  BY QuietMeans
<1> QED BY <1>1, DisplayInvariantWithResyncs, PTL
=============================================================================
