SPECIFICATION Spec
CONSTANTS
    Stream = {compute, copy}
    Event = {ready}
    Ops = 4
    Downloads = {4}
    Transfers = {1}
    Fences = 3
    Free = Free
INVARIANTS
    CompleteMeansExecuted
PROPERTIES
    KernelsRunInOrder
    CallsReturn
CHECK_DEADLOCK FALSE
