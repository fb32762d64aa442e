SPECIFICATION Spec
CONSTANTS
  Address = {a1, a2, a3, a4}
  RECORD_COUNT = 2
  RECORD_THRESHOLD = 1
  PAGE_SIZE = 2
  Legacy = {}
  NoScore = NoScore
  NoCursor = NoCursor
INVARIANTS
  SyncIsComplete
CHECK_DEADLOCK FALSE
