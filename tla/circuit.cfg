SPECIFICATION Spec
CONSTANTS
  MAX_STRING_LENGHT = 5
  MAX_INTEGER_DIGITS = 2
  MAX_FRACTION_DIGITS = 2
  MAX_FILLS = 2
  MAX_RAW_FILLS_BYTES = 8
  CIRCUIT_FILLS = 2
  CIRCUIT_BYTES = 8
  MaxNumTokens = 5
  FillTokens = 2
  Width = 16
  Digit = {0, 4, 9}
  Response <- Fills
  baseBalance = 200
  threshold = 100
  min_time = 10
  max_time = 12
  NoBytes = NoBytes
INVARIANTS
  ParsesDecimals
  GoodBodiesAccepted
  AcceptedBodiesGood
CHECK_DEADLOCK FALSE
