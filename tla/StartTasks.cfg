\* The run ends when the caller has destroyed the StartTask.
CONSTANTS
  Task = {t1, t2, t3}
  MaxWaits = 2
  MaxSpurious = 2
SPECIFICATION FairSpec
CHECK_DEADLOCK FALSE
INVARIANTS
  TypeOK
  FrameOutlivesNotify
  WaitMeansDone
PROPERTY
  CallerReturns
