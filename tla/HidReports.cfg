SPECIFICATION FairSpec
CONSTANTS
    neutral = neutral
    pressed = pressed
    tilted = tilted
    iphone = iphone
    android = android
    stranger = stranger
    NoPeer = NoPeer
    NoReport = NoReport
    Neutral = neutral
    Reports <- MCReports
    Peers <- OnePhoneOnly
    Paired <- OnePhoneOnly
    ControlKinds <- StateControl
    QueueCap = 3
INVARIANT QuietWhileSuspended
INVARIANT PhoneCatchesUp
INVARIANT ReleasedOnExit
PROPERTY EventuallyShown
PROPERTY HalfLinkEnds
