\* Two connections that list without end and send every kind of action, against
\* a snapshot that goes through reuse of a pid, ambiguous panes and failed
\* rebuilds.
SPECIFICATION Spec
CONSTANTS
    c1 = c1
    c2 = c2
    p1 = p1
    p2 = p2
    Clients = {c1, c2}
    Pids = {p1}
    ActionNames = {"terminate", "open", "unsupported"}
    Confidences = {"high", "partial"}
    MaxIncarnation = 2
    MaxRequests = 1
    MaxRev = 2
INVARIANTS DispatchedAgainstCurrent SignalsOnlyOwned RevisionNamesOneList
PROPERTIES RequestsAnswered PublicationCompletes
CHECK_DEADLOCK FALSE
