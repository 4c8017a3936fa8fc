CONSTANTS
    Callers = {c1, c2}
    Sessions = {s1, s2}
    Nil = Nil
    MaxSwitches = 1
    MaxFailures = 1
SPECIFICATION FairSpec
INVARIANTS
    WaitersCovered
    AstrayOnlyAfterSwitch
    ConnectedUnlessRefreshing
PROPERTY HangsOnlyAfterFailure
CHECK_DEADLOCK FALSE
