SPECIFICATION FairSpec
CONSTANTS
    Fds = {f1, f2}
    NoFd = NoFd
    Conns = {c1, c2}
    NoConn = NoConn
    NoResp = NoResp
    Workers = {w1}
    MaxUsers = 2
    MaxRequests = 1
    Timeslot = 1
    Lease = 2
    Chunks = 1
    MaxSteps = 2
    ActorModels = {"proactor", "reactor"}
    ListenModes = {"LT"}
    Outcomes = {"more", "reply"}
INVARIANTS
    UserCountExact
PROPERTIES
    LeaseRespected
    SpinTerminates
    EveryConnReaped
    BacklogDrains
