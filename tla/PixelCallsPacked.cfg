CONSTANTS
    Width = 5
    Height = 4
    PixelPerScanLine = 5
    ImageWidth = 2
    ImageHeight = 2
    Opaque <- Arrow
    RunawayBound = 30
    Rectangles <- AllRectangles
    Frames <- AllRectangles
    Positions <- AllPositions
    FontWidth = 2
    FontHeight = 3
    FontMaskBit = 1
    Glyph <- Letters
    Writings <- AllWritings
SPECIFICATION CallSpec
INVARIANTS
    ExactPixels
    
    BorderAtEdge
