CONSTANTS
    NodeLen = 3
    PoolLen = 14
    FrameMod = 4
    MinNodes = 1
    MaxNodes = 5
    Tails = {0, 1}
SPECIFICATION VideoSpec
INVARIANT PictureWhole
