\* A prerelease, then a stable release, two checks and two install threads racing.
SPECIFICATION Spec
CONSTANTS
    core = core
    version = version
    none = none
    torn = torn
    Releases = {1, 2}
    Prereleases = {1}
    Files <- MCFiles
    VersionPy = version
    Listed <- RaceListed
    Dropped <- RaceDropped
    Sha <- RaceSha
    NoFile = none
    Torn = torn
    AutoChecks = {auto}
    ManualChecks = {manual}
    Installers = {i1, i2}
    Publishing = {"main", "beta"}
    SteadyOffer = TRUE
    MaxStops = 1
SYMMETRY Inst
INVARIANTS TypeOK SessionInv MixedTreeIsOffered
PROPERTIES VersionLast
CHECK_DEADLOCK FALSE
