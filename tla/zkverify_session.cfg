SPECIFICATION FairSpec
CONSTANTS
  Session = {s1, s2, s3}
  None = None
  Drift = TRUE
  MaxLeaks = 1
INVARIANTS
  TypeOK
  NoConnectionLeft
  KeyIsOnChain
  WrongHashUnheard
PROPERTIES
  ReplacementKept
  DeadSessionReplaced
