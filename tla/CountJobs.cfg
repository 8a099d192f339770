CONSTANTS
    a = a
    b = b
    h1 = h1
    h2 = h2
    Ops <- TwoOps
    Handlers <- TwoHandlers
    MaxRunning = 1
    Pages = 2
    MaxJobs = 2
SPECIFICATION FairSpec
INVARIANTS
    LiveIffWorking
    SlotBound
    StatusTellsCounts
PROPERTIES
    StoppedStays
    StoppingEnds
CHECK_DEADLOCK FALSE
