SPECIFICATION Spec
CONSTANTS
    MaxRequests = 1
    MaxTokens = 3
    PipeSize = 1
INVARIANT StopTakesEffectWithinOneToken
