CONSTANTS
    ConsoleRow = 8
    ConsoleColumn = 4
    Texts <- ShortTexts
    Wild = {}
    MaxLines = 6
SPECIFICATION Spec
INVARIANTS
    RedrawShowsText
CHECK_DEADLOCK FALSE
