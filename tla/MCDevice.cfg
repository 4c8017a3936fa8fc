CONSTANTS
    MaxStarts = 2
    Calls = {c1, c2}
    Volumes = {low, high}
    First = First
    None = None
SPECIFICATION FairSpec
INVARIANTS
    SetVolumeLasts
    QuitStopsWhatItSaw
PROPERTY PingsGoOn
CHECK_DEADLOCK FALSE
