\* co_await wait_tasks on an empty vector.
CONSTANT N = 0
SPECIFICATION FairSpec
CHECK_DEADLOCK FALSE
PROPERTY
  ResumedInTheEnd
