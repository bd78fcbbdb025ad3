SPECIFICATION FairSpec
CONSTANTS
    Threads = {t1, t2}
    Nobody = nobody
    Handles = {h1, h2}
    NULL = null
    MaxSignals = 1
    ann = ann
    bob = bob
    p = p
    Names = {ann, bob}
    Passwords = {p}
    Known <- OnlyAnn
    None = none
    MaxRegister = 2
    MaxFailures = 1
    MaxRestarts = 1
INVARIANTS
    TypeOK
    OneHolder
    CountersExact
    NoEmptyFront
    EnoughForAll
    RegisteredForGood
PROPERTIES
    WaiterServed
CHECK_DEADLOCK FALSE
