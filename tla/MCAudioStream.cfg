CONSTANTS
    Broadcasters = {b1, b2}
    Connections = {c1}
    Nobody = Nobody
    FileSize = 3
SPECIFICATION FairSpec
INVARIANTS
    WriterHoldsOneBuffer
    HeardMovesOn
PROPERTIES
    BroadcastReturns
    ClientsJoinAndLeave
CHECK_DEADLOCK FALSE
