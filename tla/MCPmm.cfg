SPECIFICATION Spec
CONSTANTS
    PAGE_SIZE = 2
    BYTE = 2
    MemMaps <- MCMemMaps
    Pages <- MCPages
INVARIANTS
    TypeOK
    FreeCountExact
    OnlyUsablePagesHeld
    PagesConserved
PROPERTIES
    ImplementsPageAllocator
