CONSTANTS
    Starts = {k1, k2}
    Stops = {x1, x2}
    Free = Free
SPECIFICATION FairStreamerSpec
INVARIANTS
    MutexIsMatched
    StoppedStaysStopped
    RunningHasIndex
    OnlyReplacedSurviveStop
PROPERTY StartIsResolved
CHECK_DEADLOCK FALSE
