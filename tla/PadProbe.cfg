\* A firmware that repeats the code of a held button.
SPECIFICATION FairSpec
CONSTANTS
    a = a
    Buttons <- MCButtons
    Menu = menu
    Select = select
    Start = start
    Cooldown = 1
    HoldLimit = 2
    RecordLimit = 0
    RepeatLimit = 2
    MaxPresses = 2
    MaxQueue = 2
INVARIANT SavedOnLeave
PROPERTIES LinesAreKept MenuLeaves
