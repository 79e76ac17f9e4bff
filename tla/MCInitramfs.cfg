SPECIFICATION InitramfsSpec
CONSTANTS
    Names = {"a", "b"}
    Nodes = {1, 2, 3}
    Contents <- MCContents
    Paths <- MCPaths
    PLENTY = 4
    Archives <- MCArchives
    Cuts = {0, 1, 2, 3, 4, 12, 13, 14}
INVARIANTS
    TreeOK
    NoLeak
    CreatedResolves
    DeletedGone
    ParserInBounds
    ArchiveUnpacked
PROPERTIES
    RefusedUnchanged
