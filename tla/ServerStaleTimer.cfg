SPECIFICATION Spec
CONSTANTS
    Fds = {f1}
    NoFd = NoFd
    Conns = {c1, c2}
    NoConn = NoConn
    NoResp = NoResp
    Workers = {w1}
    MaxUsers = 1
    MaxRequests = 1
    Timeslot = 1
    Lease = 2
    Chunks = 2
    MaxSteps = 3
    ActorModels = {"proactor", "reactor"}
    ListenModes = {"LT", "ET"}
    Outcomes = {"more", "reply", "fail"}
SYMMETRY Symmetry
PROPERTIES
    LeaseRespected
