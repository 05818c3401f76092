\* The run ends when the queue is destroyed.
SPECIFICATION Spec
CONSTANTS
  c1 = c1  c2 = c2
  b1 = b1  b2 = b2  b3 = b3
  Consumer = {c1, c2}
  Block = {b1, b2, b3}
  None = None
  BlockSize = 2
  InitialIndexSize = 2
  MaxEnqueue = 7
  MaxDequeue = 3
SYMMETRY Symmetry
CHECK_DEADLOCK FALSE
INVARIANTS Safety RightElement
PROPERTIES DestructorFreesOnce ImplementsSubQueue
