CONSTANTS
  Ops = {1, 2}
  Items <- MCItems
  Hashable = {1}
  Sought <- MCSought
  PageSize = 2
  Filters <- MCFilters
  Capacity = 1
  StepBlocks = 1
  MaxScroll = 1
  MaxChanges = 1
  MaxFilters = 2
SPECIFICATION Spec
CHECK_DEADLOCK FALSE
INVARIANT WindowsLoaded MatchesExact SearchRunsToEnd
PROPERTY SearchEnds JoinsEnd
