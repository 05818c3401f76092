\* The run ends when the caller has its answer.
SPECIFICATION FairSpec
CONSTANT MaxFunctions = 5
CHECK_DEADLOCK FALSE
INVARIANT Safety
PROPERTIES ImplementsPipeline Answered
