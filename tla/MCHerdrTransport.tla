-------------------------- MODULE MCHerdrTransport --------------------------
(* A small instance of HerdrTransport.                                     *)
EXTENDS HerdrTransport
CONSTANTS c1, c2, c3
=============================================================================
