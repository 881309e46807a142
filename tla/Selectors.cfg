SPECIFICATION Spec
CONSTANTS
  Node = {1, 2, 3, 4, 5}
  CacheLength = 2
  Documents <- MCDocuments
  Asked <- MCAsked
  Filters <- MCFilters
  Contexts <- MCContexts
  MaxCalls = 2
  MaxChanges = 1
CHECK_DEADLOCK FALSE
INVARIANTS FindsWhatIsMeant FindsInOrder FiltersItsList
