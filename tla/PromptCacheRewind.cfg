SPECIFICATION ReliableSpec
CONSTANTS
    a = a
    b = b
    NoToken = NoToken
    Token <- OneToken
    ContextLength = 12
    SlidingWindow = 3
    HeadroomFloor = 1
    MaxPrefillTokens = 3
    ChunkWidths = {2, 3}
    ShortText = 12
INVARIANT NeverMisreads
