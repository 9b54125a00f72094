\* A copy whose helper leaves a process behind.
SPECIFICATION Spec
CONSTANTS
    h1 = h1
    h2 = h2
    p1 = p1
    p2 = p2
    Handlers = {h1}
    Panes = {p1}
    Places <- TwoPlaces
PROPERTIES CopyIsBounded
CHECK_DEADLOCK FALSE
