SPECIFICATION FairSpec
CONSTANTS
    Plays = {p1}
    Actions = {a1}
    Dummy = Dummy
    MaxMail = 2
INVARIANTS
    IdsAreThere
    NumbersStartOver
PROPERTY PlayVideoReturns
CHECK_DEADLOCK FALSE
