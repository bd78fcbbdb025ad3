SPECIFICATION FairSpec
CONSTANTS
    Producers = {p1, p2}
    MaxLines = 5
    Room = 1
    InitBuffs = 2
    MaxBuffs = 3
    LastDay = 2
    FileLimit = 1
INVARIANTS
    RingShape
    LogKept
    DropsOnlyAtLimit
PROPERTIES
    EventuallyOnDisk
