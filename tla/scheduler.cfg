SPECIFICATION FairSpec
CONSTANTS
  Lengths = {1, 3}
  MaxTime = 8
INVARIANTS
  TypeOK
  EveryMomentCovered
  OnlyFullWindows
  NoMomentTwice
PROPERTIES
  CatchesUp
