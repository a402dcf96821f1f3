SPECIFICATION TextSpec
CONSTANTS
    a = a
    b = b
    ChannelOpen = ChannelOpen
    ChannelClose = ChannelClose
    Silent = Silent
    StopToken = StopToken
    Character <- Characters
    Piece <- Pieces
    StopStrings <- UpToTwoStops
    MaxTokens = 4
INVARIANTS
    ShowsTheAnswer
PROPERTIES
    GenerateReturns
