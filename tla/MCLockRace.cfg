\* Two daemons started at the same time.
SPECIFICATION Spec
CONSTANTS
    d1 = d1
    d2 = d2
    Daemons = {d1, d2}
PROPERTIES AcquiredFromTheStale
CHECK_DEADLOCK FALSE
