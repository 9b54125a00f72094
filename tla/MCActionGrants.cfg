\* Two connections with two actions each on one incarnation that may change
\* its process group: every interleaving of TERM and KILL.
SPECIFICATION Spec
CONSTANTS
    c1 = c1
    c2 = c2
    p1 = p1
    p2 = p2
    Clients = {c1, c2}
    Pids = {p1, p2}
    ActionNames = {"terminate", "kill"}
    Confidences = {"high"}
    MaxIncarnation = 1
    MaxRequests = 2
    MaxRev = 2
SYMMETRY MCSymmetry
INVARIANTS TypeOK KillsAreEarned OneKillPerGrant
PROPERTIES KeepsPromise
CHECK_DEADLOCK FALSE
