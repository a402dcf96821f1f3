SPECIFICATION Spec
CONSTANTS
    MaxRequests = 2
    MaxTokens = 2
    PipeSize = 1
INVARIANTS
    IdleMeansIdle
    StopEndsItsRequest
    StopIsHeeded
    AnswersFollowTheirPrompts
PROPERTIES
    RequestEnds
    ServiceLetsGo
