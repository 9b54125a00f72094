\* Two actions at once, two panes in two tabs.
SPECIFICATION Spec
CONSTANTS
    h1 = h1
    h2 = h2
    p1 = p1
    p2 = p2
    Handlers = {h1, h2}
    Panes = {p1, p2}
    Places <- TwoPlaces
INVARIANTS VerifiedFocusWasMet VerifiedLeavesNothing OpenedSurvives
CHECK_DEADLOCK FALSE
PROPERTIES FocusAnswers PublishesUnlessLeftBehind
