CONSTANTS
    Message = {m1, m2}
    Size = 3
SPECIFICATION Spec
INVARIANTS
    TypeOK
    PositionsAgree
PROPERTY
    ImplementsFifo
