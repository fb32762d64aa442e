SPECIFICATION ChallengeSpec
CONSTANTS
  Address = {a1, a2}
  Run = {r1}
  CORRUPTION_STATES <- States
  RECORD_COUNT = 3
  RECORD_THRESHOLD = 1
  MAX_RETRIES = 2
  MaxMessages = 2
  PAGE_SIZE = 1
  Legacy = {a1}
  NoScore = NoScore
  NoCursor = NoCursor
INVARIANTS
  TypeOK
  ListedHaveSigned
  GradedAsPresented
  NoBlindPerfection
  RecordedIsBest
