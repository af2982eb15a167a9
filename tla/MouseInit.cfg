CONSTANTS
    Configs <- TwoConfigs
    Leftover <- LeftInPort
    Unread <- LeftInMouse
    Movements <- Packets
    KeyBytes <- Keys
    MaxPackets = 2
    MaxKeys = 1
SPECIFICATION FairSpec
INVARIANTS
    AnswersAreReal
    ResetIsReal
    MouseEnabled
    AlignedStart
PROPERTIES
    Finishes
\* The program ends.
CHECK_DEADLOCK FALSE
