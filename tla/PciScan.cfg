CONSTANTS
    Buses = 2
    Devices = 2
    Functions = 2
    Capacity = 3
    Machines <- UpToFour
SPECIFICATION Spec
INVARIANTS
    ScanComplete
    ControllerChosen
CHECK_DEADLOCK FALSE
