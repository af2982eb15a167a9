CONSTANTS
    Word = 4
    HandlerAddress = 54
    Machines <- AllMachines
SPECIFICATION FairSpec
INVARIANTS
    Handled
    ServiceEnds
PROPERTIES
    MouseServed
    ImplementsPicView
CHECK_DEADLOCK FALSE
