SPECIFICATION ProxyFairSpec
CONSTANTS
  l1 = l1
  l2 = l2
  Lookups = {l1, l2}
  MaxChanges = 1
  FirstSettings <- ManualOrAuto
  Environments <- SomeVariables
  LibproxyLists <- SomeLists
  LookupKinds <- SomeKinds
INVARIANTS
  CacheIsCurrent
  AnswersAreUsable
PROPERTIES
  LookupsEnd
CHECK_DEADLOCK FALSE
