SPECIFICATION Spec
CONSTANTS
    neutral = neutral
    pressed = pressed
    tilted = tilted
    iphone = iphone
    android = android
    stranger = stranger
    NoPeer = NoPeer
    NoReport = NoReport
    Neutral = neutral
    Reports <- MCReports
    Peers <- TwoPhones
    Paired <- TwoPaired
    ControlKinds <- AllControl
    QueueCap = 2
SYMMETRY Phones
INVARIANT TypeOK
INVARIANT OnePhone
INVARIANT StatusTellsTruth
