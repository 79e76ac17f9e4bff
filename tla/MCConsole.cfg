SPECIFICATION Spec
CONSTANTS
    HEIGHT = 5
    COLS = 6
    FONT_HEIGHT = 2
    HEX_DIGITS = 2
    Prints <- MCPrints
    MAX_PRINTS = 4
INVARIANTS
    ScreenShowsTail
    PrintStopsAtEnd
