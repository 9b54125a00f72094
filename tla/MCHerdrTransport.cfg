\* A subscription, one that was abandoned, and a call.
SPECIFICATION Spec
CONSTANTS
    c1 = c1
    c2 = c2
    c3 = c3
    Conns = {c1, c2, c3}
    MaxWire = 1
    Retries = 2
INVARIANTS LeaksAreUnconfirmed WatchersAreNeeded
PROPERTIES CancelLeavesNothing
CHECK_DEADLOCK FALSE
