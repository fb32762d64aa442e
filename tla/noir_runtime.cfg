SPECIFICATION FairSpec
CONSTANTS
  Circuit = {c1, c2}
  Worker = {w1, w2}
  Torn = Torn
  None = None
INVARIANTS
  TypeOK
  KeyFitsProof
  FailedSlotReplaced
PROPERTIES
  WarmsUp
  SlotsReturn
