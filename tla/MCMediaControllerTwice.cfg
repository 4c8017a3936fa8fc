SPECIFICATION Spec
CONSTANTS
    Commands = {c1}
    Queries = {}
    Device = Device
    MaxSession = 2
    MaxStream = 2
INVARIANT CommandActsOnce
CHECK_DEADLOCK FALSE
