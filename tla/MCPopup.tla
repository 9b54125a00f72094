------------------------------- MODULE MCPopup -------------------------------
(* Small instances of Popup: a list, the same with one application turned  *)
(* external and the other one in a new process group, and none.            *)
EXTENDS Popup

CONSTANT s1

A == [id |-> "a", group |-> 1, external |-> FALSE]
B == [id |-> "b", group |-> 1, external |-> FALSE]

MCLists ==
    {<<>>, <<A, B>>, <<[A EXCEPT !.external = TRUE], [B EXCEPT !.group = 2]>>}
=============================================================================
