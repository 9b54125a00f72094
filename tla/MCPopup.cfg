\* A daemon that publishes twice and is replaced by another one, an action under
\* way next to the refreshes.
SPECIFICATION Spec
CONSTANTS
    s1 = s1
    Ids = {"a", "b"}
    Groups = {1, 2}
    Lists <- MCLists
    Slots = {s1}
    MaxRev = 2
    MaxRestarts = 1
INVARIANTS SelectionExists OneRefreshChain
PROPERTIES ConfirmedByTwoPresses SelectionSticks CatchesUp
CHECK_DEADLOCK FALSE
