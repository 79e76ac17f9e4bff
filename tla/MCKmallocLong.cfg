SPECIFICATION LongSpec
CONSTANTS
    BASE = 100
    PAGE = 64
    GROW_MIN = 64
    Sizes <- MCSizes
    MaxWords = 64
    MaxBlocks = 8
INVARIANT
    LengthReachesNext
