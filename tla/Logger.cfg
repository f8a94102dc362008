\* A log of two lines with two backups, and one operation with failing calls.
SPECIFICATION Spec
CONSTANTS
    Backups = 2
    MaxBytes = 1
    MaxLines = 7
    MaxFaults = 1
INVARIANTS NewestLinesKept ErrorOutputKept
