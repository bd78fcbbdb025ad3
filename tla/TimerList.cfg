SPECIFICATION Spec
CONSTANTS
    Timers = {t1, t2, t3, t4}
    NULL = null
    Lease = 2
    MaxNow = 3
    MaxBack = 2
SYMMETRY Symmetry
INVARIANTS
    WellLinked
    NearlyAscending
PROPERTIES
    IsTimerSet
