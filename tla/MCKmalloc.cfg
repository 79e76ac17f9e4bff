SPECIFICATION Spec
CONSTANTS
    BASE = 100
    PAGE = 16
    GROW_MIN = 16
    Sizes <- MCSizes
    MaxWords = 32
    MaxBlocks = 6
INVARIANTS
    TypeOK
    HeapTiled
    BlocksAreUsedChunks
PROPERTIES
    StaleFreeHarmless
