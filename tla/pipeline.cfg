SPECIFICATION Spec
CONSTANTS
  Window = {w1, w2}
  MaxDocs = 6
  MaxLost = 1
  MaxChain = 2
INVARIANTS
  TypeOK
  ArtifactsAvailable
  HandedOverOnce
  RecordIsOnChain
PROPERTIES
  NoSubmissionAfterRecord
CHECK_DEADLOCK FALSE
