SPECIFICATION FairSpec
CONSTANTS
  Kind = "noir"
  Task = {1}
  Worker = {w1, w2}
  BatchLimit = 1
  OperatorRetries = TRUE
  None = None
INVARIANTS
  FailedIsOver
  NoConcurrentProcessing
PROPERTIES
  Settles
CHECK_DEADLOCK FALSE
