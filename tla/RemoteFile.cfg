SPECIFICATION RemoteSpec
CONSTANTS
    FileSize = 5
    ServedSizes = {3, 5}
    MaxSkip = 2
    MaxAttempts = 2
    SidecarLimit = 4
    Entries <- MCEntries
    MaxCalls = 3
    Pending = Pending
    Failed = Failed
INVARIANTS
    ForwardReadsShareARequest
PROPERTIES
    KeepsItsPromise
    TriesAreBounded
CHECK_DEADLOCK FALSE
