SPECIFICATION Spec
CONSTANTS
    Names = {"a", "b"}
    Nodes = {1, 2, 3}
    Contents <- MCContents
    Paths <- MCPaths
    PLENTY = 4
INVARIANT
    ForcedPathExists
