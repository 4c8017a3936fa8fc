SPECIFICATION FairSpec
CONSTANTS
    Commands = {c1}
    Queries = {c2}
    Device = Device
    MaxSession = 2
    MaxStream = 2
INVARIANTS
    TypeOK
    CommandIsCurrent
PROPERTY CommandReturns
CHECK_DEADLOCK FALSE
