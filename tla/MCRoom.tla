------------------------------- MODULE MCRoom -------------------------------
(* The room on small instances: values for its constants. *)
EXTENDS Room

\* Two clients that connect once; three of which the first may come back over
\* a fourth connection; two of which the second may over a third.
MCTwoConnections == {"c1", "c2"}
MCTwoClientOf == [c1 |-> 1, c2 |-> 2]
MCThreeConnections == {"c1", "c2", "c3"}
MCThreeClientOf == [c1 |-> 1, c2 |-> 2, c3 |-> 2]
MCFourConnections == {"c1", "c2", "c3", "c4"}
MCFourClientOf == [c1 |-> 1, c2 |-> 2, c3 |-> 3, c4 |-> 1]

Id(client, op) == [client |-> client, op |-> op]
MCOne == {Id(1, 1)}
MCOneEach == {Id(1, 1), Id(2, 1)}
MCThreeOps == {Id(1, 1), Id(2, 1), Id(2, 2)}

MCChars == {"a", "b", "x"}
MCInitialText == <<"a", "b">>

\* An insert inside the range of a delete, which is longer than the text until
\* the insert is accepted; an insert alone; two deletes that are next to each other.
MCInsertAndDelete == {InsertOp(1, <<"x">>), DeleteOp(0, 3)}
MCInsert == {InsertOp(1, <<"x">>)}
MCTwoDeletes == {DeleteOp(0, 1), DeleteOp(1, 1)}
=============================================================================
