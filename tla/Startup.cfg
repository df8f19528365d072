SPECIFICATION FairSpec
CONSTANTS
  Tasks = {t1, t2}
  SystemNamespace = pipelines
  ConfigNamespace = pipelines
  MaxFaults = 2
  NoTask = NoTask
INVARIANTS
  TypeOK
  NothingIsNil
PROPERTIES
  GuardedStaysReadable
  
  ComesUp
  CacheFollows
CHECK_DEADLOCK FALSE
