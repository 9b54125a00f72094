\* Two processes and two panes, two changes at any moment of a rebuild, on
\* Linux and on Darwin.
SPECIFICATION Spec
CONSTANTS
    x1 = x1
    x2 = x2
    Pids = {1, 2}
    Panes = {x1, x2}
    Ports = {3000, 9000}
    Ignored = {9000}
    Paths <- MCPaths
    Programs <- MCPrograms
    Foregrounds <- MCForegrounds
    Platforms = {"linux", "darwin"}
    MaxChanges = 2
SYMMETRY MCSymmetry
INVARIANTS SteadyIsListed SteadyIsOwned HighIsOwnedUnlessReused ListedDidListen
CHECK_DEADLOCK FALSE
