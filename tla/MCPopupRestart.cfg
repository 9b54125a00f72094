\* A daemon that is replaced by another one.
SPECIFICATION Spec
CONSTANTS
    s1 = s1
    Ids = {"a", "b"}
    Groups = {1, 2}
    Lists <- MCLists
    Slots = {s1}
    MaxRev = 1
    MaxRestarts = 1
PROPERTIES OneCurrentView
CHECK_DEADLOCK FALSE
