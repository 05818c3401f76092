\* The run ends with the co_await expression.
CONSTANT N = 4
SPECIFICATION FairSpec
CHECK_DEADLOCK FALSE
INVARIANTS
  TypeOK
  MemorySafety
PROPERTIES
  ImplementsAwait
  ResumedInTheEnd
