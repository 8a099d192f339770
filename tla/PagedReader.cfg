CONSTANTS
    MaxParallelism <- MCMaxParallelism
    Parallelism <- MCParallelism
    Savepoints <- MCSavepoints
    Limits <- MCLimits
    Budgets <- MCBudgets
    StartOrdinals <- MCStartOrdinals
SPECIFICATION Spec
INVARIANTS
    TypeOK
    NothingLostOrRepeated
    DefectsReported
    IssuedCursorsAccepted
    CountsExact
PROPERTIES
    PagesAdvance
    StreamsKeys
