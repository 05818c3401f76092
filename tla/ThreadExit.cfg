SPECIFICATION Spec
CONSTANTS
  t1 = t1  t2 = t2
  q1 = q1  q2 = q2
  p1 = p1  p2 = p2  p3 = p3
  Thread = {t1, t2}
  Queue = {q1, q2}
  Producer = {p1, p2, p3}
  None = None
CHECK_DEADLOCK FALSE
INVARIANT
  WalkOnLive
