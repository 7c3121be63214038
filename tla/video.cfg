CONSTANTS
    NodeLen = 3
    PoolLen = 14
    FrameMod = 4
    MinNodes = 1
    MaxNodes = 5
    Tails = {1, 2}
SPECIFICATION VideoSpec
INVARIANTS VideoTypeOK PictureWhole
PROPERTIES PictureStable WildOnlyKnown PictureServed
