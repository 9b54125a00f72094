\* Two ensurers, and daemons that are killed, stopped and busy anywhere.
SPECIFICATION EnsureSpec
CONSTANTS
    e1 = e1
    e2 = e2
    d = d
    Daemons = {e1, e2, d}
    Ensurers = {e1, e2}
    Attempts = 2
SYMMETRY Interchangeable
INVARIANTS ExclusiveWhenSequential SoleIsKept ReadyUnlessDisturbed
CHECK_DEADLOCK FALSE
