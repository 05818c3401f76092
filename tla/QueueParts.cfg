\* All parts but the free list end: at a bound, or with the last thread.
SPECIFICATION PartSpec
CONSTANTS
  t1 = t1  t2 = t2  t3 = t3
  u1 = u1  u2 = u2
  c1 = c1  c2 = c2
  q1 = q1  q2 = q2
  p1 = p1  p2 = p2  p3 = p3
  i1 = i1  i2 = i2  i3 = i3
  Triple = {t1, t2, t3}
  Pair = {u1, u2}
  Id = {i1, i2, i3}
  Consumer = {c1, c2}
  Queue = {q1, q2}
  Producer = {p1, p2, p3}
  Null = Null
  None = None
  PoolBlocks = 2
  HashOf <- SomeCollide
  InitialSize = 4
  MaxTables = 3
  MaxStarts = 3
  MaxPut = 2
  MaxTry = 4
SYMMETRY Symmetry
CHECK_DEADLOCK FALSE
INVARIANTS
  FreeListSafety
  ProducerHashSafety
  SearchesEnd
  ThreadExitSafety
  ConcurrentQueueSafety
