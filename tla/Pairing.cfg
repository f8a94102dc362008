\* Two consoles, two threads, two registrations, one failure.
SPECIFICATION FairSpec
CONSTANTS
    Consoles = {c1, c2}
    Targets <- MCTargets
    Firmware <- MCFirmware
    NoHost = NoHost
    Threads <- MCThreads
    MaxRegs = 2
    MaxFaults = 1
PROPERTIES ReportedKeyIsUsed PairingEnds
