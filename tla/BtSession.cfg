SPECIFICATION FairSpec
CONSTANTS
    Runs <- TwoRuns
    StartFails = TRUE
    Crashes = 1
    Hurries = 1
    Kills = TRUE
    Orphans = TRUE
INVARIANTS TypeOK SessionsDoNotOverlap WorkerKeepsLease WifiReturned
PROPERTIES LeaseUsedAsAgreed DebtIsSettled OrphanEnds
