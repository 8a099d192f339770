CONSTANTS
    LowerOf <- MCLower
    Byte = 4
    WordBytes = 2
    ChunkDigits = 2
    PatternSymbols <- MCPattern
    TextSymbols <- MCText
    MaxPattern = 4
    MaxText = 3
    Units <- MCUnits
    MaxUnits = 6
    MaxDigits = 4
    MaxScale = 9
    HashBytes <- MCHashBytes
    Parallelisms <- MCParallelisms
    FirstDate <- MCFirst
    Days = 147000
    Shapes <- MCStates
    ValueBytes = {0, 1, 44}
    MaxItems = 2
    MaxListItems = 1
SPECIFICATION Spec
INVARIANTS
    GlobFindsMatches
    StringKeysReadBack
    NumberKeysReadBack
    KeysHaveOneOwner
    DateKeysReadBack
PROPERTIES
    ValuesReadBack
CHECK_DEADLOCK FALSE
