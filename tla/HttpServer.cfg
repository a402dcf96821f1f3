SPECIFICATION Spec
CONSTANTS
    c1 = c1
    c2 = c2
    Connection <- Clients
    Requests <- SentRequests
    MaxRequests <- SentAtMost
    MaxPieces = 2
    Room = 1
    EngineErrors = {"OutOfMemory"}
PROPERTIES
    StreamsAreWellFormed
    AbandonedGenerationStops
    StreamsEnd
    RequestsAreDealtWith
    ServerStops
