SPECIFICATION RestedSpec
CONSTANTS
    Worker = {w1, w2}
    Caller = caller
    MaxCount = 3
    MaxJobs = 2
    CounterSize = 1000
INVARIANTS
    ReturnsWhenAllRan
PROPERTIES
    CallReturns
    DestructorEnds
