CONSTANTS
    PrefixLen = 1
    NumStates = 3
    StateType <- MCStateType
    NamespaceLen <- MCNamespaceLen
    KeyTypes <- MCKeyTypes
    Keys <- MCKeys
    MapKeys <- MCMapKeys
    StateIds <- MCStateIds
    Named <- MCNamed
    EntryLimit = 1
    MaxEntries = 3
SPECIFICATION Spec
PROPERTIES
    BlocksReadBack
    LookupsTrue
CHECK_DEADLOCK FALSE
