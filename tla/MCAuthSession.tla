---------------------------- MODULE MCAuthSession ----------------------------
(* Tabs and users, on small instances. *)
EXTENDS AuthSession

\* A complete form, one without anything, and one with a typing error.
MCForms ==
  {[fullName |-> "name", email |-> "good", password |-> "long", repeated |-> TRUE,
    accepted |-> TRUE],
   [fullName |-> "", email |-> "", password |-> "", repeated |-> TRUE, accepted |-> FALSE],
   [fullName |-> "name", email |-> "good", password |-> "long", repeated |-> FALSE,
    accepted |-> TRUE]}

MCAny == {NoToken} \cup Tokens
=============================================================================
