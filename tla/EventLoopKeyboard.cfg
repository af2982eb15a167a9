CONSTANTS
    Message = {InterruptMouse}
    InterruptMouse = InterruptMouse
    Size = 2
    MaxPackets = 1
    MaxKeys = 1
    Machines <- Emulators
SPECIFICATION FairSpec
PROPERTIES
    KeyboardDiscarded
\* The kernel halts when nobody uses the mouse.
CHECK_DEADLOCK FALSE
