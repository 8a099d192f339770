CONSTANTS
    LowerOf <- MCLower
    Byte = 4
    WordBytes = 2
    ChunkDigits = 2
    PatternSymbols <- MCPattern
    TextSymbols <- MCText
    MaxPattern = 1
    MaxText = 1
    Units <- MCUnits
    MaxUnits = 1
    MaxDigits = 1
    MaxScale = 1
    HashBytes <- MCHashBytes
    Parallelisms <- MCParallelisms
    FirstDate <- MCFirst
    Days = 1
    Shapes <- ListInValue
    ValueBytes = {0, 1, 44}
    MaxItems = 2
    MaxListItems = 1
SPECIFICATION Spec
PROPERTY ValuesReadBack
CHECK_DEADLOCK FALSE
