------------------------------- MODULE Circuit -------------------------------
(***************************************************************************)
(* What the circuit accepts: a window's response body within its limits of *)
(* bytes, tokens and fills, every fill inside the window, of an allowed    *)
(* coin, with decimal amounts, and a final balance above the threshold.    *)
(* All of it is arithmetic in fixed width over strings of bounded length,  *)
(* in loops of fixed size, which is where it could go wrong; each part is  *)
(* compared with what it should compute.                                   *)
(*                                                                         *)
(* The state is the input: a decimal string that grows by characters, or a *)
(* body that grows by fills.                                               *)
(***************************************************************************)
EXTENDS Integers, FiniteSetsExt, SequencesExt

CONSTANTS
  MAX_STRING_LENGHT,     \* 16: longest string the JSON parser hands out
  MAX_INTEGER_DIGITS,    \* 10
  MAX_FRACTION_DIGITS,   \* 8
  MAX_FILLS,             \* 16, the daemon's limits (circuit-limits.ts):
  MAX_RAW_FILLS_BYTES,   \* 8192
  CIRCUIT_FILLS,         \* 16, the circuit's own: MAX_FILLS of parser.nr,
  CIRCUIT_BYTES,         \* 8192, the width of rawFills in main.nr,
  MaxNumTokens,          \* 1024, of JSON8kb
  FillTokens,            \* ~60: tokens a fill of the exchange costs at most
  Width,                 \* 64: amounts are i64
  Digit,                 \* the digits input strings are made of
  Response,              \* the fills input bodies are made of
  baseBalance, threshold,
  min_time, max_time,
  NoBytes                \* the body of length zero

ASSUME LimitsAssumption ==
  {MAX_STRING_LENGHT, MAX_INTEGER_DIGITS, MAX_FRACTION_DIGITS, MAX_FILLS, MAX_RAW_FILLS_BYTES,
   CIRCUIT_FILLS, CIRCUIT_BYTES, MaxNumTokens, FillTokens, Width} \subseteq Nat \ {0}

(* Two files hold the limits, and each says it mirrors the other.          *)
(* MAX_FILLS was measured: so many fills of the exchange fit the tokens.   *)
ASSUME MirrorAssumption ==
  /\ MAX_FILLS = CIRCUIT_FILLS /\ MAX_RAW_FILLS_BYTES = CIRCUIT_BYTES
  /\ 1 + MAX_FILLS * FillTokens <= MaxNumTokens
ASSUME DigitAssumption == Digit \subseteq 0..9
ASSUME WindowAssumption ==
  {min_time, max_time, baseBalance, threshold} \subseteq Int /\ min_time <= max_time

VARIABLES string, body
vars == <<string, body>>

(* Characters: digits are themselves.                                      *)
Minus == -1
Dot == -2
Letter == -3
Char == Digit \cup {Minus, Dot, Letter}

IsDigit(c) == c \in 0..9
Int64 == -(2^(Width - 1)) .. 2^(Width - 1) - 1

(* The powers of ten, by the multiplication the loops repeat.              *)
ten[n \in Nat] == IF n = 0 THEN 1 ELSE 10 * ten[n - 1]

(* A fill is a record: coin, feeToken (allowed or not), time, the strings  *)
(* closedPnl and fee, and its size in bytes and in tokens, with the comma  *)
(* or bracket that follows.  A field that is absent is as good as one that *)
(* is not a decimal.                                                       *)
ASSUME ResponseAssumption ==
  \A fill \in Response :
    {fill.time, fill.bytes, fill.tokens} \subseteq Nat
      /\ {fill.closedPnl, fill.fee} \subseteq Seq(Char)

(* The largest amounts differ by less than an i64 holds.                   *)
ASSUME WidthAssumption == 2 * ten[MAX_INTEGER_DIGITS + MAX_FRACTION_DIGITS] < 2^(Width - 1)

-----------------------------------------------------------------------------
(* stringToSignedInteger1e8, with its loops as folds over the positions.   *)

(* The loops' accumulation: at most `limit` digits count.                  *)
DigitsOf(s, from, to, limit) ==
  FoldLeft(LAMBDA acc, c :
             [value |-> IF IsDigit(c) /\ acc.count < limit THEN acc.value * 10 + c ELSE acc.value,
              count |-> IF IsDigit(c) THEN acc.count + 1 ELSE acc.count],
           [value |-> 0, count |-> 0], SubSeq(s, from, to))

pointPosition(s) ==
  IF Dot \in ToSet(s) THEN SelectInSeq(s, LAMBDA c : c = Dot) ELSE MAX_STRING_LENGHT + 1

(* Mutant: no padding of a short fraction.                                 *)
unscaled(fraction) == fraction.value

(* "1.5" has the fraction 5 and means 50000000: missing places are zeros.  *)
scaledFractionPart(fraction) ==
  IF fraction.count < MAX_FRACTION_DIGITS
  THEN fraction.value * ten[MAX_FRACTION_DIGITS - fraction.count]
  ELSE fraction.value

stringToSignedInteger1e8(s) ==
  LET isNegative == s # <<>> /\ s[1] = Minus
      start == IF isNegative THEN 2 ELSE 1
      hasPoint == pointPosition(s) <= Len(s)
      integerEnd == IF hasPoint THEN pointPosition(s) - 1 ELSE Len(s)
      integer == DigitsOf(s, start, integerEnd, MAX_INTEGER_DIGITS)
      fraction == DigitsOf(s, pointPosition(s) + 1, Len(s), MAX_FRACTION_DIGITS)
      total == integer.value * ten[MAX_FRACTION_DIGITS] + scaledFractionPart(fraction)
  IN [ value |-> IF isNegative THEN -total ELSE total,
       valid |->
         /\ \A i \in DOMAIN s :
              /\ s[i] = Minus => i = 1
              /\ s[i] = Dot => i = pointPosition(s)
              /\ s[i] \in {Minus, Dot} \/ IsDigit(s[i])
         /\ integer.count \in 1..MAX_INTEGER_DIGITS
         /\ hasPoint => fraction.count \in 1..MAX_FRACTION_DIGITS ]

-----------------------------------------------------------------------------
(* Fills and their sum.  The constraint system has no overflow: a sum that *)
(* leaves i64 has no proof.                                                *)

(* The size of a body: its opening bracket and its fills.  (An empty array *)
(* has a closing one as well, of no consequence.)                          *)
Bytes(fills) == 1 + SumFunction([i \in DOMAIN fills |-> fills[i].bytes])
Tokens(fills) == 1 + SumFunction([i \in DOMAIN fills |-> fills[i].tokens])

isValidTime(time) == time >= min_time /\ time <= max_time

validateTimeAndCoinOneFill(fill) == fill.coin = "allowed" /\ isValidTime(fill.time)

(* The JSON parser hands out a string only if it fits.                     *)
get_string(s) == Len(s) <= MAX_STRING_LENGHT

calculateChecksum(fill) ==
  LET pnl == stringToSignedInteger1e8(fill.closedPnl)
      fee == stringToSignedInteger1e8(fill.fee)
  IN [ value |-> pnl.value - fee.value,
       valid |-> /\ get_string(fill.closedPnl) /\ get_string(fill.fee)
                 /\ pnl.valid /\ fee.valid /\ fill.feeToken = "dollar" ]

(* Mutant: a sum that wraps.                                               *)
wrappingAdd(acc, n) ==
  [ sum |-> ((acc.sum + n + 2^(Width - 1)) % (2^Width)) - 2^(Width - 1), fits |-> acc.fits ]

checkedAdd(acc, n) ==
  [ sum |-> acc.sum + n, fits |-> acc.fits /\ n \in Int64 /\ acc.sum + n \in Int64 ]

(* validateChecksum: strictly above the threshold.                         *)
validateChecksum(total) ==
  LET final == checkedAdd([sum |-> baseBalance, fits |-> total.fits], total.sum)
  IN final.fits /\ final.sum > threshold

validateFills(fills) ==
  /\ min_time <= max_time
  /\ Tokens(fills) <= MaxNumTokens
  /\ Len(fills) <= CIRCUIT_FILLS
  /\ \A i \in DOMAIN fills :
       validateTimeAndCoinOneFill(fills[i]) /\ calculateChecksum(fills[i]).valid
  /\ validateChecksum(FoldLeft(LAMBDA acc, fill : checkedAdd(acc, calculateChecksum(fill).value),
                               [sum |-> 0, fits |-> TRUE], fills))

(* A body has to fit in rawFills; one of length zero is not looked at.     *)
main(b) == b # NoBytes => Bytes(b) <= CIRCUIT_BYTES /\ validateFills(b)

-----------------------------------------------------------------------------
(* The daemon's side: what it refuses before and after the attestation.    *)

(* Mutant: only the fills are counted.                                     *)
fillsCounted(b) == b # NoBytes /\ Len(b) > MAX_FILLS

rejectIfBeyondCircuitCapacity(b) ==
  b # NoBytes /\ (Len(b) > MAX_FILLS \/ Bytes(b) > MAX_RAW_FILLS_BYTES)

(* The attested body must be a JSON array.                                 *)
validateAttestedFills(b) == b # NoBytes

(* Both fetches see the same body, as they do once replicas have settled.  *)
Reaches(b) == ~rejectIfBeyondCircuitCapacity(b) /\ validateAttestedFills(b)

-----------------------------------------------------------------------------
Init == string = <<>> /\ body = NoBytes

Type(c) ==
  /\ body = NoBytes /\ Len(string) < MAX_STRING_LENGHT
  /\ string' = Append(string, c)
  /\ UNCHANGED body

(* The response arrives: an array, fill after fill.                        *)
Respond(fill) ==
  /\ string = <<>>
  /\ IF body = NoBytes THEN body' = <<>>
     ELSE Len(body) <= MAX_FILLS /\ body' = Append(body, fill)
  /\ UNCHANGED string

Next == (\E c \in Char : Type(c)) \/ (\E fill \in Response : Respond(fill))

Spec == Init /\ [][Next]_vars

-----------------------------------------------------------------------------
(* What it should compute, by place values instead of accumulation.        *)

Unsigned(s) == IF s # <<>> /\ s[1] = Minus THEN Tail(s) ELSE s

(* The places of a decimal: position of the point, or one past the end.    *)
PointOf(t) == CHOOSE p \in 1..Len(t) + 1 :
  /\ p <= Len(t) => t[p] = Dot
  /\ \A i \in 1..p - 1 : t[i] # Dot

IsDecimal(s) ==
  LET t == Unsigned(s)
      p == PointOf(t)
  IN /\ p - 1 \in 1..MAX_INTEGER_DIGITS
     /\ p = Len(t) + 1 \/ Len(t) - p \in 1..MAX_FRACTION_DIGITS
     /\ \A i \in DOMAIN t \ {p} : IsDigit(t[i])

Scaled(s) ==
  LET t == Unsigned(s)
      p == PointOf(t)
      place(i) == IF i < p THEN MAX_FRACTION_DIGITS + p - 1 - i ELSE MAX_FRACTION_DIGITS + p - i
      size == MapThenSumSet(LAMBDA i : t[i] * ten[place(i)], DOMAIN t \ {p})
  IN IF t = s THEN size ELSE -size

Profit(fills) ==
  MapThenSumSet(LAMBDA i : Scaled(fills[i].closedPnl) - Scaled(fills[i].fee), DOMAIN fills)

(* Properties.                                                             *)

(* The amount parser takes exactly the decimals its limits allow, and      *)
(* returns their exact value scaled by 1e8.                                *)
ParsesDecimals ==
  LET parsed == stringToSignedInteger1e8(string)
  IN /\ parsed.valid <=> IsDecimal(string)
     /\ parsed.valid => parsed.value = Scaled(string)

(* A fill as the exchange sends it, of the window (its ends included), of  *)
(* an allowed coin, with decimals short enough for the parser.             *)
InOrder(fill) ==
  /\ fill.coin = "allowed" /\ fill.feeToken = "dollar"
  /\ min_time <= fill.time /\ fill.time <= max_time
  /\ \A amount \in {fill.closedPnl, fill.fee} :
       Len(amount) <= MAX_STRING_LENGHT /\ IsDecimal(amount)
  /\ fill.tokens <= FillTokens

SumsFit(fills) ==
  /\ \A n \in 0..Len(fills) : Profit(SubSeq(fills, 1, n)) \in Int64
  /\ baseBalance + Profit(fills) \in Int64

(* Completeness, in both directions of the daemon's check of capacity.     *)
(* What it buys an attestation for can be proved, if the fills are in      *)
(* order and earn enough and the sums fit: a body of that many fills and   *)
(* bytes exceeds no limit of the circuit, of tokens neither.  And what it  *)
(* refuses for good has no proof (README.md:56: "if it is over either      *)
(* limit, so an unprovable window costs no gas").                          *)
GoodBodiesAccepted ==
  /\ /\ Reaches(body)
     /\ \A i \in DOMAIN body : InOrder(body[i])
     /\ baseBalance + Profit(body) > threshold
     /\ SumsFit(body)
     => main(body)
  /\ rejectIfBeyondCircuitCapacity(body) => ~main(body)

(* Soundness, of circuit and daemon together: a body that reaches the      *)
(* circuit and has a proof has only fills of the window, and the account   *)
(* really ended above the threshold: no sum has wrapped.                   *)
AcceptedBodiesGood ==
  Reaches(body) /\ main(body) =>
    /\ body # NoBytes
    /\ \A i \in DOMAIN body :
         body[i].coin = "allowed" /\ body[i].time \in min_time..max_time
    /\ baseBalance + Profit(body) > threshold

=============================================================================
