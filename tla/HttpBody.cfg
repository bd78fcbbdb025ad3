SPECIFICATION Spec
CONSTANTS
    Requests <- SomeRequests
    BodyLen = 3
    BufSize = 13
    HeaderLen = 3
    FileLen = 2
    MaxRequests = 2
    MaxClients = 2
INVARIANTS
    CompleteIsTaken
CHECK_DEADLOCK FALSE
