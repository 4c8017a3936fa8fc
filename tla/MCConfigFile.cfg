SPECIFICATION ConfigSpec
CONSTANTS
    Files <- MCFiles
    Kind <- MCKind
    NoName = ""
    Cut = "cut"
    Split = {"list"}
    Updates <- MCUpdates
    Wanted <- MCWanted
    MaxCycles = 2
INVARIANTS
    SettingsSurvive
    NothingInvented
    SectionsKept
CHECK_DEADLOCK FALSE
