CONSTANTS
    PageSize = 4
    MemoryTop = 14
    EntryField = 1
    Images <- Kernels
    MapSizes <- Descriptors
    BufferEntries = 3
    Formats <- AnyFormat
    OldLengths = {0, 4}
    MaxEvents = 2
SPECIFICATION FairSpec
INVARIANTS
    ImageLoaded
    WritesInPages
    EntryOfImage
    FirmwareLeft
    MemmapBegins
PROPERTIES
    RetrySuffices
\* UefiMain ends in the kernel, in Halt() or in an endless loop.
CHECK_DEADLOCK FALSE
