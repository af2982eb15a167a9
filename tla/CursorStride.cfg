CONSTANTS
    Width = 4
    Height = 3
    PixelPerScanLine = 5
    ImageWidth = 2
    ImageHeight = 2
    Opaque <- Arrow
    RunawayBound = 20
    ByteSize = 4
    InitX = 1
    InitY = 1
    Movements <- FarAndNear
    Targets <- NoTarget
SPECIFICATION Spec
INVARIANTS
    OneCursor
