\* Two consoles, two presses in a frame, one update check at a time.
SPECIFICATION Spec
CONSTANTS
    MaxHosts = 2
    MaxEdges = 2
    MaxChecks = 1
INVARIANT HomeIsBottom
PROPERTY SelectionIsTaken
CHECK_DEADLOCK FALSE
