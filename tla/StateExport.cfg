SPECIFICATION Spec
CONSTANTS
    op1 = op1
    op2 = op2
    Ops <- MCOps
    Savepoints <- MCSavepoints
    StateNames = {"s", "other"}
    State = "s"
    BatchRows = 2
    MaxRuns = 2
    MaxLost = 1
INVARIANTS SuccessIsWhole PathIsWhole
CHECK_DEADLOCK FALSE
