\* Two thieves and the owner race for every element; slots are reused, the
\* buffer grows twice (1, 4 and 16 slots); the destructor runs at any quiet
\* moment.
CONSTANTS
  t1 = t1
  t2 = t2
  Thieves = {t1, t2}
  InitSize = 1
  MaxPush = 5
  StoreDepth = 2
  PoolManaged = {2, 4}
  NoHandle = NoHandle
  Torn = Torn
  NoBuffer = NoBuffer
SPECIFICATION FairSpec
CHECK_DEADLOCK FALSE
INVARIANTS
  ExactlyOnce
  Conservation
  BufferLifetime
  DestructorReclaims
PROPERTIES
  EmptyPopIsHonest
  ImplementsTaskDeque
  Progress
