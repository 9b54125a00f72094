--------------------------- MODULE MCEnsureWatch ----------------------------
(* Two ensurers and a daemon started by hand.                              *)
EXTENDS EnsureWatch, TLC
CONSTANTS e1, e2, d
Interchangeable == Permutations(Ensurers)
=============================================================================
