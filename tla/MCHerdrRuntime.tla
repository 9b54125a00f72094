--------------------------- MODULE MCHerdrRuntime ---------------------------
(* Small instances of HerdrRuntime.                                        *)
EXTENDS HerdrRuntime
CONSTANTS t1, t2
MCTopologies == {t1, t2}
=============================================================================
