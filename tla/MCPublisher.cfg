\* Two workspaces; values that are cut by number and values cut by length.
SPECIFICATION Spec
CONSTANTS
    Workspaces = {1, 2}
    PortSets <- MCPortSets
    MaxEndpoints = 2
    MaxBytes = 13
INVARIANTS PublishedIsShown ValuesFit
PROPERTIES UnchangedIsSilent
