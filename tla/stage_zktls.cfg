SPECIFICATION Spec
CONSTANTS
  Kind = "zkTLS"
  Task = {1, 2}
  Worker = {w1}
  BatchLimit = 1
  OperatorRetries = TRUE
  None = None
INVARIANTS
  NoStrandedTask
PROPERTIES
  ImplementsPromise
CHECK_DEADLOCK FALSE
