SPECIFICATION FairSpec
CONSTANTS
    Reasons = {r1, r2, r3}
    Threads = {t1, t2}
    Slots = {s1}
    MaxReasons = 2
    MaxStops = 1
    Cli = cli
INVARIANTS TypeOK CrashKeepsMark
PROPERTIES EntriesLeaveReported QueueDrains
