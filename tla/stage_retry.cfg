SPECIFICATION FairSpec
CONSTANTS
  Kind = "noir"
  Task = {1}
  Worker = {w1}
  BatchLimit = 1
  OperatorRetries = TRUE
  None = None
PROPERTIES
  RetriedTaskIsAttempted
CHECK_DEADLOCK FALSE
