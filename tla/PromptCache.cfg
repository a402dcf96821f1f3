SPECIFICATION BoundedSpec
CONSTANTS
    a = a
    b = b
    NoToken = NoToken
    Token <- TwoTokens
    ContextLength = 9
    SlidingWindow = 2
    HeadroomFloor = 1
    MaxPrefillTokens = 3
    ChunkWidths = {2, 3}
    ShortText = 2
INVARIANTS
    TypeOK
    RecordMatchesCache
    FullLayersHoldTheText
    WindowIntactAtHighWater
PROPERTIES
    ExtensionReusesWholeCache
    RequestEnds
