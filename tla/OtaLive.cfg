\* One install thread, and an offer that may change at any moment.
SPECIFICATION FairSpec
CONSTANTS
    core = core
    version = version
    none = none
    torn = torn
    Releases = {1, 2}
    Prereleases = {1}
    Files <- MCFiles
    VersionPy = version
    Listed <- LiveListed
    Dropped <- LiveDropped
    Sha <- LiveSha
    NoFile = none
    Torn = torn
    AutoChecks = {}
    ManualChecks = {manual}
    Installers = {i1}
    Publishing = {"release", "main", "beta"}
    SteadyOffer = FALSE
    MaxStops = 1
INVARIANTS NothingTorn StableStaysStable
PROPERTIES NeverDowngrades EventuallyInstalled PopupComesBack
CHECK_DEADLOCK FALSE
