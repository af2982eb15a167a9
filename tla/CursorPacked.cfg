CONSTANTS
    Width = 12
    Height = 8
    PixelPerScanLine = 12
    ImageWidth = 3
    ImageHeight = 2
    Opaque <- Arrow
    RunawayBound = 100
    ByteSize = 16
    InitX = 1
    InitY = 1
    Movements <- FarAndNear
    Targets <- OnScreen
SPECIFICATION Spec
INVARIANTS
    NoSpill
PROPERTIES
    ImplementsPointer
