SPECIFICATION LeaseSpec
CONSTANTS
    r1 = r1
    r2 = r2
    r3 = r3
    Runs <- MCRuns
    StartFails = TRUE
SYMMETRY Sessions
INVARIANT LeaseIsHeld
INVARIANT DebtIsKept
PROPERTY LoanKept
