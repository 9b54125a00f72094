---------------------------- MODULE MCDiscovery ----------------------------
(* Small instances of Discovery: two processes, the second one a child of  *)
(* the first or not; panes that show one of them, a directory, or nothing. *)
EXTENDS Discovery, TLC

CONSTANTS x1, x2

Work == <<"work">>
App == <<"work", "app">>
Other == <<"apple">>
MCPaths == {Work, App, Other}

Server(parent, cwd) == [parent |-> parent, cwd |-> cwd, ports |-> {3000}]
MCPrograms ==
    {Server(1, App),
     [parent |-> 0, cwd |-> Work, ports |-> {}],
     [parent |-> 0, cwd |-> App, ports |-> {3000, 9000}]}

Shows(p) == [pid |-> p, cwd |-> NoPath]
MCForegrounds ==
    {{Shows(1)}, {[pid |-> 0, cwd |-> Work]},
     {[pid |-> 0, cwd |-> Other], Shows(2)}}
MCSymmetry == Permutations({x1, x2})
=============================================================================
