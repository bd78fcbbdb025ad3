SPECIFICATION FairSpec
CONSTANTS
    Requests <- SomeRequests
    BodyLen = 3
    BufSize = 13
    HeaderLen = 3
    FileLen = 2
    MaxRequests = 2
    MaxClients = 2
INVARIANTS
    TypeOK
    ParsedAsSent
    SentFaithful
    MapsBounded
PROPERTIES
    Answered
CHECK_DEADLOCK FALSE
