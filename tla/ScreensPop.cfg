\* The registration thread pops a screen one second after "success", whichever it is.
SPECIFICATION Spec
CONSTANTS
    MaxHosts = 2
    MaxEdges = 2
    MaxChecks = 1
INVARIANT HomeStays
CHECK_DEADLOCK FALSE
