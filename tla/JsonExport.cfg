CONSTANTS
    e1 = e1
    Explorers <- One
    Pages = 3
    MaxCrashes = 2
SPECIFICATION FairSpec
INVARIANTS
    ExportWhole
    NothingLeftBehind
PROPERTIES
    ExportsEnd
CHECK_DEADLOCK FALSE
