SPECIFICATION FairSpec
CONSTANTS
    Workers = {w1, w2}
    Main = main
    Nobody = nobody
    Requests = {r1, r2}
    NoRequest = none
    MaxRequests = 2
    MaxSignals = 2
INVARIANTS
    TypeOK
    FrontNotEmpty
    NoStranded
PROPERTIES
    Taken
    IsFifo
