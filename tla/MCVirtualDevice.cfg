SPECIFICATION Spec
CONSTANTS
    Requests = {r1, r2}
    Nil = Nil
    Routes <- MCRoutes
    Targets <- MCTargets
SYMMETRY Symmetry
INVARIANTS
    OnlyFfmpegRuns
    ReaderReadsOutput
    TeardownEndsProcesses
CHECK_DEADLOCK FALSE
