SPECIFICATION Spec
CONSTANTS
    WarpSize = 4
    Warps = 2
    TokenTile = 2
    RowsPerWarp = 2
    FeatureChunk = 8
    MaxBlocks = 4
    MaxHeadDim = 9
    MaxExperts = 8
    MaxTopK = 2
    MaxRouterTopK = 2
    WaveWidths = {8}
    SlidingWindowHeadroomRows = 2
    MinimumScratchBytes = 900
    SafetyMargin = 100
INVARIANT ShadersComputeTheReference
