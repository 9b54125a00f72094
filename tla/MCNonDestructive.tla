-------------------------- MODULE MCNonDestructive --------------------------
(* Small instances of NonDestructive.                                      *)
EXTENDS NonDestructive
CONSTANTS h1, h2, p1, p2
TwoPlaces == {[workspace |-> "w1", tab |-> "t1"],
              [workspace |-> "w1", tab |-> "t2"]}
=============================================================================
