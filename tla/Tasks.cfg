\* The run may end once every frame has been used.
SPECIFICATION Spec
CONSTANTS
  user = user  w1 = w1  w2 = w2
  f1 = f1  f2 = f2  f3 = f3  f4 = f4
  x = x  p = p
  Thread = {user, w1, w2}
  Worker = {w1, w2}
  Frame = {f1, f2, f3, f4}
  Variable = {x, p}
  Parameter = {p}
  None = None
SYMMETRY Symmetry
CHECK_DEADLOCK FALSE
INVARIANTS Ownership WillBeResumed
PROPERTY ResultFirst
