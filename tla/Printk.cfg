CONSTANTS
    Fifo = 2
    Ports <- AllPorts
    ConsoleRow = 4
    ConsoleColumn = 3
    Texts <- SomeTexts
    Wild <- Members
    MaxLines = 5
    BufSiz = 4
SPECIFICATION FairSpec
INVARIANTS
    WireShowsText
    FailedSilent
    WritesInBuffer
    ScreenShowsText
    CursorLineBlank
PROPERTIES
    PastThePort
CHECK_DEADLOCK FALSE
