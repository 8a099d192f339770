CONSTANTS
    c1 = c1
    c2 = c2
    c3 = c3
    Clients <- Two
    MaxConnections = 2
    MaxReads = 1
    MaxDownloads = 1
    InFlight = 1
    Chunks = 2
SPECIFICATION FairSpec
PROPERTIES
    RequestsAnswered
    ProducersEnd
CHECK_DEADLOCK FALSE
