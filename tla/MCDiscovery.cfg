CONSTANTS
    kitchen = kitchen
    bedroom = bedroom
    group = group
    printer = printer
    damaged = damaged
    Entries = {kitchen, bedroom, group, printer, damaged}
    Info <- MCInfo
    Foreign = {printer}
    Malformed = {damaged}
    Finds <- MCFinds
    Buffer = 2
    NoPort = NoPort
    None = None
SPECIFICATION FairSpec
INVARIANTS
    FoundOrExplained
    OnlyHandIsLoose
PROPERTY SearchAnswers
CHECK_DEADLOCK FALSE
