CONSTANTS
    Message = {InterruptMouse}
    InterruptMouse = InterruptMouse
    Size = 2
    MaxPackets = 2
    MaxKeys = 1
    Machines <- AllMachines
SPECIFICATION FairSpec
INVARIANTS
    TypeOK
    HandlerReady
    NoLostWakeup
    GetHasMessage
    QueuePositions
    PromptPacketsIntact
PROPERTIES
    EveryMoveShown
    ImplementsPicView
    MouseByteRead
\* The kernel halts when nobody uses the mouse.
CHECK_DEADLOCK FALSE
