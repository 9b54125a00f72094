-------------------------- MODULE MCActionService --------------------------
(* Small instances of ActionService.                                       *)
EXTENDS ActionService, TLC

CONSTANTS c1, c2, p1, p2

MCClients == {c1, c2}
MCPids == {p1, p2}
MCSymmetry == Permutations(MCClients) \cup Permutations(MCPids)
=============================================================================
