CONSTANTS
    e1 = e1
    e2 = e2
    a = a
    Explorers <- Two
    Ops <- OneOp
    Pages = 2
    MaxVersions = 2
SPECIFICATION Spec
SYMMETRY Symmetry
INVARIANTS
    CacheTrue
    ExactIsExact
    NoneLeftCounting
CHECK_DEADLOCK FALSE
