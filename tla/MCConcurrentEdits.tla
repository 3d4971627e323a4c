-------------------------- MODULE MCConcurrentEdits --------------------------
(* Concurrent edits of a short text, and a selection in it. *)
EXTENDS Cursors

\* Characters are pairs: of 0 and a number in the base text, of an author and a
\* number in what the author inserts. Those with an even number are wide.
MCChars == {0, 1, 2, 3} \X {1, 2, 3, 4}
MCOriginal == [i \in 1..3 |-> <<0, i>>]
MCSelections == {Cursor(0, 0, 2), Cursor(3, 1, 3)}
MCWide == {ch \in MCChars : ch[2] % 2 = 0}
=============================================================================
