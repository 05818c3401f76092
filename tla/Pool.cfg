\* The run ends with the destructor of the pool.
CONSTANTS
  user1 = user1
  user2 = user2
  fire = fire
  kid1 = kid1
  kid2 = kid2
  leaf = leaf
  more = more
  sync = sync
  job = job
  Nobody = Nobody
  Worker = {w1, w2}
  Outside = {user1, user2}
  Task <- PoolTasks
  External <- PoolExternal
  By <- PoolBy
  Managed = {fire, more}
  Children <- PoolChildren
  Injected <- PoolInjected
SPECIFICATION FairSpec
CHECK_DEADLOCK FALSE
INVARIANTS
  TypeOK
  OnePlace
  DestroyedOnce
  DestroyedWithPool
PROPERTIES
  EveryTaskServed
  EveryParentResumed
