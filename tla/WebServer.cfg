CONSTANTS
    c1 = c1
    c2 = c2
    c3 = c3
    Clients <- Three
    MaxConnections = 2
    MaxReads = 1
    MaxDownloads = 1
    InFlight = 1
    Chunks = 2
SPECIFICATION Spec
SYMMETRY Symmetry
INVARIANTS
    CleanIsWhole
    ReadersBounded
    StallIsTheClients
CHECK_DEADLOCK FALSE
