------------------------- MODULE SequentialDocument -------------------------
(***************************************************************************)
(* What a collaboration room promises, without rooms, connections, locks   *)
(* or a database: one text that grows one revision at a time.  Clients     *)
(* formulate operations against a revision they have seen.  A commit       *)
(* takes such an operation, transforms it over everything accepted since   *)
(* that revision, and applies the result to the current text, in one step. *)
(* No operation is accepted twice, and none that nobody formulated.        *)
(***************************************************************************)
EXTENDS TextOperations

CONSTANTS Ids,          \* identities of operations
          RawOps,       \* operations clients may formulate
          InitialText,  \* the text of revision 0
          NoRequest     \* what an identity stands for before it is used

VARIABLES text,         \* the current text
          revision,     \* its revision number
          accepted,     \* the accepted operation of every revision after 0
          formulated    \* the operation of every identity, with its base revision

vars == <<text, revision, accepted, formulated>>

Init ==
  /\ text = InitialText
  /\ revision = 0
  /\ accepted = [v \in {} |-> NoOperation]
  /\ formulated = [i \in Ids |-> NoRequest]

AcceptedIds == {accepted[v].id : v \in DOMAIN accepted}

Formulate(id, base, raw) ==
  /\ formulated[id] = NoRequest
  /\ formulated' = [formulated EXCEPT ![id] = [id |-> id, base |-> base, op |-> raw]]
  /\ UNCHANGED <<text, revision, accepted>>

Commit(id) ==
  LET raw == formulated[id]
      op  == TransformOverHistory(raw.op, id, accepted, raw.base, revision)
  IN  /\ raw # NoRequest
      /\ id \notin AcceptedIds
      /\ op # NoOperation
      /\ text' = ApplyOperation(text, op)
      /\ revision' = revision + 1
      /\ accepted' = [v \in DOMAIN accepted \cup {revision + 1} |->
                        IF v = revision + 1 THEN [id |-> id, op |-> op] ELSE accepted[v]]
      /\ UNCHANGED formulated

Next == \E id \in Ids : \/ Commit(id)
                        \/ \E base \in 0..revision, raw \in RawOps : Formulate(id, base, raw)

Spec == Init /\ [][Next]_vars
=============================================================================
