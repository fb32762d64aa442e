--------------------------- MODULE ChallengeProofs ---------------------------
(***************************************************************************)
(* What a shuffled mask of corruption contains, for any number of records; *)
(* and from there that everyone listed has signed, that the tool and the   *)
(* API grade the same records, that a perfect run was judged and that what *)
(* is recorded is the best, for any number of runs and addresses.          *)
(***************************************************************************)
EXTENDS Challenge, SequenceTheorems, FiniteSetTheorems, TLAPS

-----------------------------------------------------------------------------
(* Induction over the natural numbers, for a set: were k missing from S,   *)
(* adding one would map the members below k to themselves, one-to-one and  *)
(* without reaching 0.                                                     *)
LEMMA SetInduction ==
  ASSUME NEW S, 0 \in S, \A n \in Nat : n \in S => n + 1 \in S
  PROVE  Nat \subseteq S
<1> SUFFICES ASSUME NEW k \in Nat, k \notin S PROVE FALSE
  OBVIOUS
<1> DEFINE A == {i \in 0..k : i \in S}
           f == [i \in A |-> i + 1]
<1>1. IsFiniteSet(A)
  <2>1. IsFiniteSet(0..k) /\ A \in SUBSET (0..k)
    BY FS_Interval
  <2>2. QED
    BY <2>1, FS_Subset
<1>2. f \in Injection(A, A)
  BY DEF Injection, IsInjective
<1>3. f \in Surjection(A, A)
  BY <1>1, <1>2, FS_Injection
<1>4. 0 \in A
  OBVIOUS
<1>5. PICK i \in A : f[i] = 0
  BY <1>3, <1>4 DEF Surjection
<1>6. QED
  BY <1>5

(* A bounded set of numbers has a greatest one, if it has any.             *)
LEMMA MaxOfBounded ==
  ASSUME NEW k \in Nat, NEW s \in SUBSET (1..k), s # {}
  PROVE  Max(s) \in s /\ \A i \in s : i <= Max(s)
<1> DEFINE HasMax(u) == \E x \in u : \A y \in u : x >= y
           S == {n \in Nat : \A u \in SUBSET (1..n) : u # {} => HasMax(u)}
<1>1. 0 \in S
  <2>1. \A u \in SUBSET (1..0) : u = {}
    OBVIOUS
  <2>2. QED
    BY <2>1
<1>2. ASSUME NEW n \in Nat, n \in S
      PROVE  n + 1 \in S
  <2> SUFFICES ASSUME NEW u \in SUBSET (1..n + 1), u # {} PROVE HasMax(u)
    OBVIOUS
  <2>1. CASE n + 1 \in u
    BY <2>1
  <2>2. CASE n + 1 \notin u
    <3>1. u \in SUBSET (1..n)
      BY <2>2
    <3>2. QED
      BY <1>2, <3>1
  <2>3. QED
    BY <2>1, <2>2
<1>3. k \in S
  <2> HIDE DEF S
  <2>1. Nat \subseteq S
    BY <1>1, <1>2, SetInduction
  <2>2. QED
    BY <2>1
<1>4. HasMax(s)
  BY <1>3
<1>5. QED
  BY <1>4 DEF Max

-----------------------------------------------------------------------------
(* The masks.  FoldLeft is the value at 1..n of a function on the sets of  *)
(* positions that folds a set without its greatest position first.         *)

States == ToSet(CORRUPTION_STATES)

(* One state for every record, and every state for some record.            *)
Slots == {m \in [Records -> States] : \A s \in States : \E i \in Records : m[i] = s}

IsFold(f, n, base, order, place) ==
  f = [s \in SUBSET (1..n) |->
         IF s = {} THEN base
         ELSE Swapped(f[s \ {Max(s)}], order[Max(s)], place[order[Max(s)]])]

(* A swap loses no state.                                                  *)
LEMMA SwapKeeps ==
  ASSUME NEW m \in Slots, NEW i \in Records, NEW j \in Records
  PROVE  Swapped(m, i, j) \in Slots
<1> DEFINE w == Swapped(m, i, j)
<1>1. w \in [Records -> States]
  BY DEF Slots, Swapped
<1>2. ASSUME NEW s \in States
      PROVE  \E k \in Records : w[k] = s
  <2>1. PICK k \in Records : m[k] = s
    BY DEF Slots
  <2>2. CASE k = i
    BY <2>1, <2>2 DEF Slots, Swapped
  <2>3. CASE k = j
    BY <2>1, <2>3 DEF Slots, Swapped
  <2>4. CASE k # i /\ k # j
    BY <2>1, <2>4 DEF Slots, Swapped
  <2>5. QED
    BY <2>2, <2>3, <2>4
<1>3. QED
  BY <1>1, <1>2 DEF Slots

(* There is such a function, whatever is folded.                           *)
LEMMA FoldExists ==
  ASSUME NEW n \in Nat, NEW base, NEW order, NEW place
  PROVE  \E f : IsFold(f, n, base, order, place)
<1> DEFINE S == {k \in Nat : \E f : IsFold(f, k, base, order, place)}
<1>1. 0 \in S
  <2>1. IsFold([s \in SUBSET (1..0) |-> base], 0, base, order, place)
    <3>1. SUBSET (1..0) = {{}}
      OBVIOUS
    <3>2. QED
      BY <3>1 DEF IsFold
  <2>2. QED
    BY <2>1
<1>2. ASSUME NEW k \in Nat, k \in S
      PROVE  k + 1 \in S
  <2>1. PICK f : IsFold(f, k, base, order, place)
    BY <1>2
  <2> DEFINE Next1(h, s, m) == Swapped(h[s \ {m}], order[m], place[order[m]])
             g == [s \in SUBSET (1..k + 1) |->
                     IF k + 1 \notin s THEN f[s] ELSE Next1(f, s, k + 1)]
  <2>2. ASSUME NEW s \in SUBSET (1..k + 1)
        PROVE  g[s] = IF s = {} THEN base ELSE Next1(g, s, Max(s))
    <3>1. CASE s = {}
      BY <2>1, <3>1 DEF IsFold
    <3>2. CASE s # {} /\ k + 1 \notin s
      <4>1. s \in SUBSET (1..k)
        BY <3>2
      <4>2. Max(s) \in s
        BY <3>2, <4>1, MaxOfBounded
      <4>3. f[s] = Next1(f, s, Max(s))
        BY <2>1, <3>2, <4>1 DEF IsFold
      <4>4. /\ s \ {Max(s)} \in SUBSET (1..k + 1)
            /\ k + 1 \notin s \ {Max(s)}
        BY <3>2
      <4>5. g[s \ {Max(s)}] = f[s \ {Max(s)}] /\ g[s] = f[s]
        BY <3>2, <4>4
      <4>6. QED
        BY <3>2, <4>3, <4>5
    <3>3. CASE k + 1 \in s
      <4>1. Max(s) = k + 1
        <5>1. s # {} /\ k + 1 \in Nat
          BY <3>3
        <5>2. Max(s) \in s /\ \A i \in s : i <= Max(s)
          BY <5>1, MaxOfBounded
        <5>3. Max(s) \in 1..k + 1 /\ k + 1 <= Max(s)
          BY <3>3, <5>2
        <5>4. QED
          BY <5>3
      <4>2. /\ s \ {k + 1} \in SUBSET (1..k + 1)
            /\ k + 1 \notin s \ {k + 1}
        OBVIOUS
      <4>3. g[s \ {k + 1}] = f[s \ {k + 1}] /\ g[s] = Next1(f, s, k + 1)
        BY <3>3, <4>2
      <4>4. QED
        BY <3>3, <4>1, <4>3
    <3>4. QED
      BY <3>1, <3>2, <3>3
  <2>3. IsFold(g, k + 1, base, order, place)
    <3> HIDE DEF Next1
    <3>1. g = [s \in SUBSET (1..k + 1) |-> IF s = {} THEN base ELSE Next1(g, s, Max(s))]
      <4>1. g = [s \in SUBSET (1..k + 1) |-> g[s]]
        OBVIOUS
      <4> HIDE DEF g
      <4>2. QED
        BY <2>2, <4>1
    <3>2. QED
      BY <3>1 DEF IsFold, Next1
  <2>4. QED
    BY <2>3
<1>3. QED
  <2> HIDE DEF S
  <2>1. Nat \subseteq S
    BY <1>1, <1>2, SetInduction
  <2>2. QED
    BY <2>1 DEF S

(* Folding swaps of records keeps the property a swap keeps.               *)
LEMMA FoldKeeps ==
  ASSUME NEW n \in Nat, NEW base \in Slots, NEW order \in [1..n -> 2..RECORD_COUNT],
         NEW place \in [2..RECORD_COUNT -> Records],
         NEW f, IsFold(f, n, base, order, place)
  PROVE  f[1..n] \in Slots
<1> DEFINE Keeps(k) == k <= n => \A s \in SUBSET (1..k) : f[s] \in Slots
           S == {k \in Nat : Keeps(k)}
<1>1. \A s \in SUBSET (1..n) :
        f[s] = IF s = {} THEN base
               ELSE Swapped(f[s \ {Max(s)}], order[Max(s)], place[order[Max(s)]])
  BY DEF IsFold
<1>2. 0 \in S
  <2>1. \A s \in SUBSET (1..0) : s = {} /\ s \in SUBSET (1..n)
    OBVIOUS
  <2>2. QED
    BY <1>1, <2>1
<1>3. ASSUME NEW k \in Nat, Keeps(k), k + 1 <= n, NEW s \in SUBSET (1..k + 1)
      PROVE  f[s] \in Slots
  <2>1. s \in SUBSET (1..n) /\ \A u \in SUBSET (1..k) : f[u] \in Slots
    BY <1>3
  <2>2. CASE s = {}
    BY <1>1, <2>1, <2>2
  <2>3. CASE s # {}
    <3>1. PICK m : m = Max(s)
      OBVIOUS
    <3>2. m \in s /\ \A i \in s : i <= m
      <4>1. k + 1 \in Nat
        OBVIOUS
      <4>2. QED
        BY <2>3, <3>1, <4>1, MaxOfBounded
    <3>3. s \ {m} \in SUBSET (1..k)
      <4>1. ASSUME NEW i \in s, i # m
            PROVE  i \in 1..k
        <5>1. i \in 1..k + 1 /\ m \in 1..k + 1 /\ i <= m
          BY <3>2
        <5>2. QED
          BY <4>1, <5>1
      <4>2. QED
        BY <4>1
    <3>4. m \in 1..n /\ order[m] \in 2..RECORD_COUNT
      BY <2>1, <3>2
    <3>5. order[m] \in Records /\ place[order[m]] \in Records
      BY <3>4, ScoreAssumption DEF Records
    <3>6. f[s] = Swapped(f[s \ {m}], order[m], place[order[m]])
      BY <1>1, <2>1, <2>3, <3>1
    <3>7. f[s \ {m}] \in Slots
      BY <2>1, <3>3
    <3>8. QED
      BY <3>5, <3>6, <3>7, SwapKeeps
  <2>4. QED
    BY <2>2, <2>3
<1>4. \A k \in Nat : k \in S => k + 1 \in S
  <2>1. ASSUME NEW k \in Nat, Keeps(k)
        PROVE  Keeps(k + 1)
    BY <1>3, <2>1
  <2> HIDE DEF Keeps
  <2>2. QED
    BY <2>1
<1>5. n \in S
  <2> HIDE DEF S
  <2>1. Nat \subseteq S
    BY <1>2, <1>4, SetInduction
  <2>2. QED
    BY <2>1
<1>6. QED
  BY <1>5

(* Every record has a state and every state a record before the shuffle.   *)
LEMMA UnshuffledIsSlots ==
  ASSUME NEW drawn \in Draws
  PROVE  CORRUPTION_STATES \o drawn \in Slots
<1> DEFINE c == CORRUPTION_STATES
           w == c \o drawn
<1>1. c \in Seq(STRING) /\ Len(c) \in Nat /\ Len(c) <= RECORD_COUNT /\ RECORD_COUNT \in Nat
  BY StatesAssumption, ScoreAssumption
<1>2. c \in Seq(States)
  <2>1. c = [i \in 1..Len(c) |-> c[i]] /\ \A i \in 1..Len(c) : c[i] \in States
    BY <1>1 DEF States, ToSet
  <2>2. QED
    BY <1>1, <2>1
<1>3. drawn \in Seq(States) /\ Len(drawn) = RECORD_COUNT - Len(c)
  BY <1>1 DEF Draws, States
<1>4. /\ w \in Seq(States) /\ Len(w) = RECORD_COUNT
      /\ \A i \in 1..Len(c) : w[i] = c[i]
  BY <1>1, <1>2, <1>3
<1>5. w \in [Records -> States]
  <2> HIDE DEF w
  <2>1. w \in [1..Len(w) -> States]
    BY <1>4
  <2>2. QED
    BY <1>4, <2>1 DEF Records
<1>6. ASSUME NEW s \in States
      PROVE  \E i \in Records : w[i] = s
  <2>1. PICK i \in 1..Len(c) : c[i] = s
    BY <1>1 DEF States, ToSet
  <2>2. QED
    BY <1>1, <1>4, <2>1 DEF Records
<1>7. QED
  BY <1>5, <1>6 DEF Slots

(* Whatever is drawn, every mask has every state.                          *)
LEMMA MasksAreSlots == Masks \subseteq Slots
<1> SUFFICES ASSUME NEW d \in Draws, NEW p \in Places PROVE getCorruptionMask(d, p) \in Slots
  BY DEF Masks
<1> DEFINE base == CORRUPTION_STATES \o d
           up == [i \in 1..RECORD_COUNT - 1 |-> i + 1]
           order == Reverse(up)
           n == RECORD_COUNT - 1
<1>1. n \in Nat /\ RECORD_COUNT \in Nat
  <2>1. Len(CORRUPTION_STATES) # 0
    BY StatesAssumption DEF ToSet
  <2>2. QED
    BY <2>1, StatesAssumption, ScoreAssumption
<1>2. order \in [1..n -> 2..RECORD_COUNT]
  <2>1. Len(up) = n
    BY <1>1
  <2>2. \A i \in 1..n : (n - i) + 1 \in 1..n
    BY <1>1
  <2>3. \A i \in 1..n : up[i] \in 2..RECORD_COUNT
    BY <1>1
  <2> HIDE DEF up, n
  <2>4. QED
    BY <2>1, <2>2, <2>3 DEF Reverse
<1>3. p \in [2..RECORD_COUNT -> Records]
  BY DEF Places
<1>4. base \in Slots
  BY UnshuffledIsSlots
<1>5. getCorruptionMask(d, p) = (CHOOSE f : IsFold(f, n, base, order, p))[1..n]
  <2>1. DOMAIN order = 1..n
    BY <1>2
  <2>2. getCorruptionMask(d, p) =
          (CHOOSE f : f = [s \in SUBSET (DOMAIN order) |->
             IF s = {} THEN base
             ELSE Swapped(f[s \ {Max(s)}], order[Max(s)], p[order[Max(s)]])])[DOMAIN order]
    BY DEF getCorruptionMask, FoldLeft, MapThenFoldSet
  <2> HIDE DEF order, base, n
  <2>3. QED
    BY <2>1, <2>2 DEF IsFold
<1> HIDE DEF order, base, n
<1>6. IsFold(CHOOSE f : IsFold(f, n, base, order, p), n, base, order, p)
  BY <1>1, FoldExists
<1>7. QED
  BY <1>1, <1>2, <1>3, <1>4, <1>5, <1>6, FoldKeeps

-----------------------------------------------------------------------------
(* The verdicts and the score.                                             *)

LEMMA VerdictsType ==
  ASSUME NEW m \in Slots
  PROVE  expectedVerdicts(m) \in [Records -> Verdict]
BY DEF expectedVerdicts, Slots, Verdict

(* The score counts the records judged right; it is perfect only if all    *)
(* are.                                                                    *)
LEMMA ScoreCounts ==
  ASSUME NEW e \in [Records -> Verdict], NEW a \in [Records -> Verdict]
  PROVE  /\ scoreAnswers(e, a) \in 0..RECORD_COUNT
         /\ scoreAnswers(e, a) = RECORD_COUNT => a = e
<1> DEFINE Right == {i \in Records : e[i] = a[i]}
<1>1. RECORD_COUNT \in Nat
  BY ScoreAssumption
<1>2. Len(e) = RECORD_COUNT /\ Len(a) = RECORD_COUNT /\ DOMAIN e = Records
  BY <1>1 DEF Records
<1>3. scoreAnswers(e, a) = Cardinality(Right)
  BY <1>2 DEF scoreAnswers
<1>4. IsFiniteSet(Records) /\ Cardinality(Records) = RECORD_COUNT
  BY <1>1, FS_Interval DEF Records
<1>5. /\ IsFiniteSet(Right) /\ Cardinality(Right) <= Cardinality(Records)
      /\ Cardinality(Right) = Cardinality(Records) => Right = Records
  BY <1>4, FS_Subset
<1>6. Cardinality(Right) \in Nat
  BY <1>5, FS_CardinalityType
<1>7. Cardinality(Right) = RECORD_COUNT => a = e
  <2>1. SUFFICES ASSUME Right = Records PROVE a = e
    BY <1>4, <1>5
  <2>2. \A i \in Records : a[i] = e[i]
    BY <2>1
  <2>3. QED
    BY <2>2
<1>8. QED
  BY <1>1, <1>3, <1>4, <1>5, <1>6, <1>7

-----------------------------------------------------------------------------
(* The inductive invariant.                                                *)

Entry == [address : Address, score : Score \cup {NoScore}]

Someone == CHOOSE a \in Address : TRUE

RunState == [step : Steps, message : Nat, signer : Address \cup {Someone},
             attempt : 1..MAX_RETRIES, answers : [Records -> Verdict] \cup {NoAnswers},
             score : 0..RECORD_COUNT]

Types ==
  /\ docs \in Seq(Entry)
  /\ submitted \in [Address -> 0..RECORD_COUNT]
  /\ mask \in [Address -> Slots]
  /\ issued \in [Run -> Seq(Address)]
  /\ open \in [Run -> SUBSET Nat]
  /\ expired \in [Run -> Nat]
  /\ run \in [Run -> RunState]
  /\ signed \subseteq Address

(* What is stored for an address is the best it has submitted since scores *)
(* are stored.                                                             *)
StoredIsBest ==
  \A i \in DOMAIN docs : docs[i].score # NoScore => docs[i].score = submitted[docs[i].address]

(* Who has no stored score has not submitted one worth storing, and a      *)
(* document without a score is from before scores were stored.             *)
UnstoredIsNone ==
  /\ \A i \in DOMAIN docs : docs[i].score = NoScore => submitted[docs[i].address] = 0
  /\ \A i \in DOMAIN docs : docs[i].score = NoScore => docs[i].address \in Legacy
  /\ \A a \in Address : (\A i \in DOMAIN docs : docs[i].address # a) => submitted[a] = 0

Entries == ListedHaveSigned /\ StoredIsBest /\ UnstoredIsNone

Bounds(r) ==
  /\ Len(issued[r]) <= MaxMessages
  /\ open[r] \subseteq 1..Len(issued[r])
  /\ expired[r] <= Len(issued[r])
  /\ run[r].message <= Len(issued[r])

(* A run that is past the sign-in keeps one of its messages.  It may be    *)
(* signed by another address than the message names; if it is not, that    *)
(* address has signed.                                                     *)
SignedIn(r) ==
  run[r].step \in {"checking", "answering", "submitting", "asking"} =>
    /\ run[r].message \in 1..Len(issued[r])
    /\ run[r].signer \in Address
    /\ run[r].signer = Claimed(r) => run[r].signer \in signed

Answered(r) ==
  run[r].step \in {"submitting", "asking"} => run[r].answers \in [Records -> Verdict]

(* A stored score, not only an entry from before scores were stored.       *)
Kept(r) ==
  run[r].score >= RECORD_THRESHOLD =>
    \E i \in DOMAIN docs : /\ docs[i].address = run[r].signer
                           /\ docs[i].score # NoScore
                           /\ docs[i].score >= run[r].score

(* Only a run whose signer is the address of its message is graded.        *)
Reported(r) ==
  run[r].step = "asking" =>
    /\ run[r].signer = Claimed(r)
    /\ run[r].score = Graded(r)
    /\ Kept(r)

Course(r) == Bounds(r) /\ SignedIn(r) /\ Answered(r) /\ Reported(r)

IInv == Types /\ Entries /\ \A r \in Run : Course(r)

-----------------------------------------------------------------------------
(* What a change of the entries does to the parts that speak of them.      *)

ScoreFacts == RECORD_COUNT \in Nat /\ RECORD_THRESHOLD \in 0..RECORD_COUNT

(* No entry goes, changes its address or has its stored score lowered.     *)
Grows ==
  \A i \in DOMAIN docs :
    /\ i \in DOMAIN docs' /\ docs'[i].address = docs[i].address
    /\ docs[i].score # NoScore => docs'[i].score # NoScore /\ docs'[i].score >= docs[i].score

(* $max: the better score, and one where there was none.                   *)
LEMMA MaxOfIsBest ==
  ASSUME NEW old \in Score \cup {NoScore}, NEW score \in Score
  PROVE  /\ MaxOf(old, score) \in Score
         /\ old = NoScore => MaxOf(old, score) = score
         /\ old # NoScore => MaxOf(old, score) = IF score > old THEN score ELSE old
         /\ old # NoScore => MaxOf(old, score) >= old
         /\ MaxOf(old, score) >= score
         /\ MaxOf(old, score) # NoScore
<1>1. ScoreFacts /\ NoScore \notin 0..RECORD_COUNT
  BY ScoreAssumption DEF ScoreFacts
<1>2. score \in 0..RECORD_COUNT /\ (old # NoScore => old \in 0..RECORD_COUNT)
  BY <1>1 DEF ScoreFacts, Score
<1>3. CASE old = NoScore
  BY <1>1, <1>2, <1>3 DEF MaxOf, ScoreFacts
<1>4. CASE old # NoScore
  BY <1>1, <1>2, <1>4 DEF MaxOf, ScoreFacts
<1>5. QED
  BY <1>3, <1>4

(* Recording a score of an address that has signed keeps the entries in    *)
(* order, and leaves the address with at least that score.                 *)
LEMMA RecordEffect ==
  ASSUME Types, Entries, NEW a \in Address, a \in signed, signed' = signed,
         NEW score \in Score, Record(a, score)
  PROVE  /\ docs' \in Seq(Entry) /\ submitted' \in [Address -> 0..RECORD_COUNT]
         /\ Entries' /\ Grows
         /\ \E i \in DOMAIN docs' : /\ docs'[i].address = a
                                    /\ docs'[i].score # NoScore
                                    /\ docs'[i].score >= score
<1> DEFINE Merged(i) == [docs[i] EXCEPT !.score = MaxOf(@, score)]
<1>1. /\ RECORD_COUNT \in Nat /\ RECORD_THRESHOLD \in 0..RECORD_COUNT
      /\ NoScore \notin 0..RECORD_COUNT /\ score \in 0..RECORD_COUNT
  BY ScoreAssumption DEF Score
<1>2. /\ docs \in Seq(Entry) /\ Len(docs) \in Nat /\ DOMAIN docs = 1..Len(docs)
      /\ \A i \in DOMAIN docs : docs[i] \in Entry
  BY DEF Types
<1>3. /\ submitted \in [Address -> 0..RECORD_COUNT]
      /\ submitted' = [submitted EXCEPT ![a] = IF score > @ THEN score ELSE @]
  BY DEF Types, Record
<1>4. /\ submitted' \in [Address -> 0..RECORD_COUNT]
      /\ submitted'[a] = IF score > submitted[a] THEN score ELSE submitted[a]
      /\ \A b \in Address : b # a => submitted'[b] = submitted[b]
  BY <1>1, <1>3
<1>5. /\ \A i \in DOMAIN docs : docs[i].address \in signed \cup Legacy
      /\ \A i \in DOMAIN docs : docs[i].score # NoScore => docs[i].score = submitted[docs[i].address]
      /\ \A i \in DOMAIN docs : docs[i].score = NoScore => submitted[docs[i].address] = 0
      /\ \A i \in DOMAIN docs : docs[i].score = NoScore => docs[i].address \in Legacy
      /\ \A b \in Address : (\A i \in DOMAIN docs : docs[i].address # b) => submitted[b] = 0
  BY DEF Entries, ListedHaveSigned, StoredIsBest, UnstoredIsNone
<1>6. ASSUME NEW i \in DOMAIN docs, docs[i].address = a
      PROVE  /\ Merged(i) \in Entry /\ Merged(i).address = a
             /\ Merged(i).score = submitted'[a] /\ Merged(i).score # NoScore
             /\ Merged(i).score >= score
             /\ docs[i].score # NoScore => Merged(i).score >= docs[i].score
  <2>1. PICK old : old = docs[i].score
    OBVIOUS
  <2>2. old \in Score \cup {NoScore} /\ docs[i] \in Entry
    BY <1>2, <2>1 DEF Entry
  <2>3. PICK new : new = MaxOf(old, score)
    OBVIOUS
  <2>4. Merged(i) = [docs[i] EXCEPT !.score = new]
    BY <2>1, <2>3
  <2>5. /\ new \in Score /\ new >= score /\ new # NoScore
        /\ old = NoScore => new = score
        /\ old # NoScore => new = (IF score > old THEN score ELSE old) /\ new >= old
    BY <2>2, <2>3, MaxOfIsBest
  <2>6. /\ Merged(i) \in Entry /\ Merged(i).address = a /\ Merged(i).score = new
    BY <1>6, <2>2, <2>4, <2>5 DEF Entry
  <2>7. new = submitted'[a]
    <3>1. CASE old = NoScore
      <4>1. submitted[a] = 0 /\ new = score
        BY <1>5, <1>6, <2>1, <2>5, <3>1
      <4>2. QED
        BY <1>1, <1>4, <4>1
    <3>2. CASE old # NoScore
      <4>1. submitted[a] = old
        BY <1>5, <1>6, <2>1, <3>2
      <4>2. QED
        BY <1>4, <2>5, <3>2, <4>1
    <3>3. QED
      BY <3>1, <3>2
  <2> HIDE DEF Merged
  <2>8. QED
    BY <2>1, <2>5, <2>6, <2>7
<1>7. CASE \E i \in DOMAIN docs : docs[i].address = a
  <2>1. docs' = [i \in DOMAIN docs |-> IF docs[i].address = a THEN Merged(i) ELSE docs[i]]
    BY <1>7 DEF Record
  <2> HIDE DEF Merged
  <2>2. DOMAIN docs' = DOMAIN docs
    BY <2>1
  <2>3. ASSUME NEW i \in DOMAIN docs
        PROVE  /\ docs'[i] \in Entry /\ docs'[i].address = docs[i].address
               /\ docs[i].address = a =>
                    /\ docs'[i].score = submitted'[a] /\ docs'[i].score # NoScore
                    /\ docs'[i].score >= score
                    /\ docs[i].score # NoScore => docs'[i].score >= docs[i].score
               /\ docs[i].address # a => docs'[i] = docs[i]
    BY <1>2, <1>6, <2>1
  <2>4. docs' \in Seq(Entry)
    <3>1. docs' = [i \in 1..Len(docs) |-> docs'[i]]
      BY <1>2, <2>1, <2>2
    <3>2. QED
      BY <1>2, <2>3, <3>1
  <2>5. \A i \in DOMAIN docs : docs[i].address \in Address
    BY <1>2 DEF Entry
  <2>6. Grows
    <3>1. ASSUME NEW i \in DOMAIN docs, docs[i].score # NoScore
          PROVE  docs'[i].score # NoScore /\ docs'[i].score >= docs[i].score
      <4>1. CASE docs[i].address = a
        BY <2>3, <3>1, <4>1
      <4>2. CASE docs[i].address # a
        <5>1. docs[i].score \in Nat
          BY <1>1, <1>2, <3>1 DEF Entry, Score
        <5>2. QED
          BY <2>3, <3>1, <4>2, <5>1
      <4>3. QED
        BY <4>1, <4>2
    <3>2. QED
      BY <2>2, <2>3, <3>1 DEF Grows
  <2>7. ListedHaveSigned'
    BY <1>5, <2>2, <2>3 DEF ListedHaveSigned
  <2>8. StoredIsBest'
    <3>1. ASSUME NEW i \in DOMAIN docs, docs'[i].score # NoScore
          PROVE  docs'[i].score = submitted'[docs'[i].address]
      BY <1>4, <1>5, <2>3, <2>5, <3>1
    <3>2. QED
      BY <2>2, <3>1 DEF StoredIsBest
  <2>9. UnstoredIsNone'
    <3>1. ASSUME NEW i \in DOMAIN docs, docs'[i].score = NoScore
          PROVE  submitted'[docs'[i].address] = 0 /\ docs'[i].address \in Legacy
      BY <1>4, <1>5, <2>3, <2>5, <3>1
    <3>2. ASSUME NEW b \in Address, \A i \in DOMAIN docs' : docs'[i].address # b
          PROVE  submitted'[b] = 0
      <4>1. b # a /\ \A i \in DOMAIN docs : docs[i].address # b
        BY <1>7, <2>2, <2>3, <3>2
      <4>2. QED
        BY <1>4, <1>5, <4>1
    <3>3. QED
      BY <2>2, <3>1, <3>2 DEF UnstoredIsNone
  <2>10. QED
    BY <1>4, <1>7, <2>2, <2>3, <2>4, <2>6, <2>7, <2>8, <2>9 DEF Entries
<1>8. CASE ~\E i \in DOMAIN docs : docs[i].address = a
  <2>1. PICK new : new = [address |-> a, score |-> score]
    OBVIOUS
  <2>2. docs' = Append(docs, new)
    BY <1>8, <2>1 DEF Record
  <2>3. new \in Entry /\ new.address = a /\ new.score = score /\ score # NoScore
    BY <1>1, <2>1 DEF Entry
  <2>4. PICK n : n = Len(docs) + 1
    OBVIOUS
  <2>5. /\ docs' \in Seq(Entry) /\ DOMAIN docs' = 1..n /\ docs'[n] = new
        /\ \A i \in DOMAIN docs : docs'[i] = docs[i]
        /\ \A i \in DOMAIN docs' : i \in DOMAIN docs \/ i = n
        /\ n \in DOMAIN docs' /\ DOMAIN docs \subseteq DOMAIN docs'
    BY <1>2, <2>2, <2>3, <2>4
  <2>6. \A i \in DOMAIN docs : docs[i].address # a /\ docs[i].address \in Address
    BY <1>2, <1>8 DEF Entry
  <2>7. submitted[a] = 0 /\ submitted'[a] = score
    BY <1>1, <1>4, <1>5, <2>6
  <2>8. Grows
    <3>1. \A i \in DOMAIN docs : docs[i].score # NoScore => docs[i].score \in Nat
      BY <1>1, <1>2 DEF Entry, Score
    <3>2. QED
      BY <2>5, <3>1 DEF Grows
  <2>9. ListedHaveSigned'
    BY <1>5, <2>3, <2>5 DEF ListedHaveSigned
  <2>10. StoredIsBest'
    <3>1. ASSUME NEW i \in DOMAIN docs', docs'[i].score # NoScore
          PROVE  docs'[i].score = submitted'[docs'[i].address]
      <4>1. CASE i = n
        BY <2>3, <2>5, <2>7, <4>1
      <4>2. CASE i \in DOMAIN docs
        BY <1>4, <1>5, <2>5, <2>6, <3>1, <4>2
      <4>3. QED
        BY <2>5, <4>1, <4>2
    <3>2. QED
      BY <3>1 DEF StoredIsBest
  <2>11. UnstoredIsNone'
    <3>1. ASSUME NEW i \in DOMAIN docs', docs'[i].score = NoScore
          PROVE  submitted'[docs'[i].address] = 0 /\ docs'[i].address \in Legacy
      <4>1. i \in DOMAIN docs
        BY <2>3, <2>5, <3>1
      <4>2. QED
        BY <1>4, <1>5, <2>5, <2>6, <3>1, <4>1
    <3>2. ASSUME NEW b \in Address, \A i \in DOMAIN docs' : docs'[i].address # b
          PROVE  submitted'[b] = 0
      <4>1. b # a
        BY <2>3, <2>5, <3>2
      <4>2. \A i \in DOMAIN docs : docs[i].address # b
        BY <2>5, <3>2
      <4>3. QED
        BY <1>4, <1>5, <4>1, <4>2
    <3>3. QED
      BY <3>1, <3>2 DEF UnstoredIsNone
  <2>12. docs'[n].score >= score
    BY <1>1, <2>3, <2>5
  <2>13. QED
    BY <1>4, <2>3, <2>5, <2>8, <2>9, <2>10, <2>11, <2>12 DEF Entries
<1>9. QED
  BY <1>7, <1>8

(* Entries that stay as they are.                                          *)
LEMMA SameEntries ==
  ASSUME Types, Entries, UNCHANGED entries, signed \subseteq signed'
  PROVE  /\ docs' \in Seq(Entry) /\ submitted' \in [Address -> 0..RECORD_COUNT]
         /\ Entries' /\ Grows
<1>1. docs' = docs /\ submitted' = submitted
  BY DEF entries
<1>2. Entries'
  <2>1. ListedHaveSigned' /\ StoredIsBest'
    BY <1>1 DEF Entries, ListedHaveSigned, StoredIsBest
  <2>2. UnstoredIsNone'
    BY <1>1 DEF Entries, UnstoredIsNone
  <2>3. QED
    BY <2>1, <2>2 DEF Entries
<1>3. Grows
  <2>1. ASSUME NEW i \in DOMAIN docs, docs[i].score # NoScore
        PROVE  docs[i].score >= docs[i].score
    <3>1. docs[i] \in Entry
      BY DEF Types
    <3>2. docs[i].score \in Nat
      BY <2>1, <3>1, ScoreAssumption DEF Entry, Score
    <3>3. QED
      BY <3>2
  <2>2. QED
    BY <1>1, <2>1 DEF Grows
<1>4. QED
  BY <1>1, <1>2, <1>3 DEF Types

LEMMA GradedType ==
  ASSUME Types, NEW r \in Run, run[r].signer \in Address, run[r].answers \in [Records -> Verdict]
  PROVE  Graded(r) \in 0..RECORD_COUNT
<1>1. mask[run[r].signer] \in Slots
  BY DEF Types
<1>2. expectedVerdicts(mask[run[r].signer]) \in [Records -> Verdict]
  BY <1>1, VerdictsType
<1>3. QED
  BY <1>2, ScoreCounts DEF Graded

(* What the API stores of a submission it has not refused.                 *)
LEMMA StoredEffect ==
  ASSUME IInv, NEW r \in Run, At(r, "submitting"), ~Refused(r), Stored(r), signed' = signed
  PROVE  /\ docs' \in Seq(Entry) /\ submitted' \in [Address -> 0..RECORD_COUNT]
         /\ Entries' /\ Grows
         /\ Graded(r) \in 0..RECORD_COUNT
         /\ run[r].signer = Claimed(r)
         /\ Graded(r) >= RECORD_THRESHOLD =>
              \E i \in DOMAIN docs' : /\ docs'[i].address = run[r].signer
                                      /\ docs'[i].score # NoScore
                                      /\ docs'[i].score >= Graded(r)
<1>1. Types /\ Entries /\ Course(r)
  BY DEF IInv
<1>2. run[r].signer = Claimed(r)
  BY DEF Refused, verifySiwePersonalSig
<1>3. run[r].signer \in Address /\ run[r].signer \in signed /\ run[r].answers \in [Records -> Verdict]
  BY <1>1, <1>2 DEF At, Course, SignedIn, Answered
<1>4. Graded(r) \in 0..RECORD_COUNT
  BY <1>1, <1>3, GradedType
<1>5. CASE Graded(r) >= RECORD_THRESHOLD
  <2>1. Graded(r) \in Score
    BY <1>4, <1>5, ScoreAssumption DEF Score
  <2>2. Record(run[r].signer, Graded(r))
    BY <1>5 DEF Stored
  <2>3. QED
    BY <1>1, <1>2, <1>3, <1>4, <2>1, <2>2, RecordEffect
<1>6. CASE ~(Graded(r) >= RECORD_THRESHOLD)
  <2>1. UNCHANGED entries /\ signed \subseteq signed'
    BY <1>6 DEF Stored
  <2>2. QED
    BY <1>1, <1>2, <1>4, <1>6, <2>1, SameEntries
<1>7. QED
  BY <1>5, <1>6

-----------------------------------------------------------------------------
(* What a step does to the runs.                                           *)

(* A run that has not moved, among entries that only grow.                 *)
LEMMA RunKept ==
  ASSUME NEW r \in Run, Course(r), run'[r] = run[r], issued'[r] = issued[r],
         open'[r] \subseteq open[r], expired'[r] <= Len(issued[r]), mask' = mask,
         signed \subseteq signed', Grows, docs' \in Seq(Entry), Types
  PROVE  Course(r)'
<1>1. Claimed(r)' = Claimed(r) /\ Graded(r)' = Graded(r)
  BY DEF Claimed, Graded
<1>2. Bounds(r)' /\ Answered(r)'
  BY DEF Course, Bounds, Answered
<1>3. SignedIn(r)'
  BY <1>1 DEF Course, SignedIn
<1>4. Reported(r)'
  <2>1. ASSUME run[r].step = "asking", run[r].score >= RECORD_THRESHOLD
        PROVE  \E i \in DOMAIN docs' : /\ docs'[i].address = run[r].signer
                                       /\ docs'[i].score # NoScore
                                       /\ docs'[i].score >= run[r].score
    <3>1. PICK i \in DOMAIN docs : /\ docs[i].address = run[r].signer
                                   /\ docs[i].score # NoScore
                                   /\ docs[i].score >= run[r].score
      BY <2>1 DEF Course, Reported, Kept
    <3>2. /\ i \in DOMAIN docs' /\ docs'[i].address = docs[i].address
          /\ docs'[i].score # NoScore /\ docs'[i].score >= docs[i].score
      BY <3>1 DEF Grows
    <3>3. docs'[i].score >= run[r].score
      <4>1. docs[i] \in Entry /\ docs'[i] \in Entry /\ run[r] \in RunState
        BY <3>2 DEF Types
      <4>2. docs[i].score \in Nat /\ docs'[i].score \in Nat /\ run[r].score \in Nat
        BY <3>1, <3>2, <4>1, ScoreAssumption DEF Entry, Score, RunState
      <4>3. QED
        BY <3>1, <3>2, <4>2
    <3>4. QED
      BY <3>1, <3>2, <3>3
  <2>2. QED
    BY <1>1, <2>1 DEF Course, Reported, Kept
<1>5. QED
  BY <1>2, <1>3, <1>4 DEF Course

(* The runs but r stay as they are.                                        *)
Elsewhere(r) ==
  \A q \in Run \ {r} : /\ run'[q] = run[q] /\ issued'[q] = issued[q]
                       /\ open'[q] = open[q] /\ expired'[q] = expired[q]

(* What is left to show of a step of r: its types, the entries, and r.     *)
LEMMA StepOf ==
  ASSUME IInv, NEW r \in Run, Elsewhere(r), mask' = mask, signed \subseteq signed', Grows,
         Types', Entries', Course(r)'
  PROVE  IInv'
<1>1. Types /\ docs' \in Seq(Entry)
  BY DEF IInv, Types
<1>2. ASSUME NEW q \in Run
      PROVE  Course(q)'
  <2>1. CASE q = r
    BY <2>1
  <2>2. CASE q # r
    <3>1. /\ run'[q] = run[q] /\ issued'[q] = issued[q]
          /\ open'[q] = open[q] /\ expired'[q] = expired[q] /\ Course(q)
      BY <2>2 DEF Elsewhere, IInv
    <3>2. open'[q] \subseteq open[q] /\ expired'[q] <= Len(issued[q])
      BY <3>1 DEF Course, Bounds
    <3>3. QED
      BY <1>1, <3>1, <3>2, RunKept
  <2>3. QED
    BY <2>1, <2>2
<1>3. QED
  BY <1>2 DEF IInv

LEMMA NewRunType == NewRun \in RunState /\ NewRun.step = "serving" /\ NewRun.message = 0
<1>1. RECORD_COUNT \in Nat /\ MAX_RETRIES \in Nat \ {0}
  BY ScoreAssumption, RetriesAssumption
<1>2. QED
  BY <1>1 DEF NewRun, RunState, Steps, Someone, NoAnswers

(* The process that has ended knows nothing any more.                      *)
LEMMA EndsEffect ==
  ASSUME Types, NEW r \in Run, NEW s \in {"done", "failed"}, Ends(r, s)
  PROVE  /\ run' \in [Run -> RunState] /\ issued' \in [Run -> Seq(Address)]
         /\ open' \in [Run -> SUBSET Nat] /\ expired' \in [Run -> Nat]
         /\ Elsewhere(r) /\ Course(r)'
<1> DEFINE Over == [NewRun EXCEPT !.step = s]
<1>1. /\ MAX_RETRIES \in Nat \ {0} /\ MaxMessages \in Nat \ {0} /\ RECORD_COUNT \in Nat
  BY RetriesAssumption, ScoreAssumption
<1>2. Over \in RunState /\ Over.step = s /\ Over.message = 0
  <2>1. NewRun \in RunState /\ NewRun.message = 0
    BY NewRunType
  <2>2. s \in Steps
    BY DEF Steps
  <2>3. QED
    BY <2>1, <2>2 DEF RunState
<1> HIDE DEF Over
<1>3. /\ run' = [run EXCEPT ![r] = Over] /\ issued' = [issued EXCEPT ![r] = <<>>]
      /\ open' = [open EXCEPT ![r] = {}] /\ expired' = [expired EXCEPT ![r] = 0]
  BY DEF Ends, Over
<1>4. /\ run' \in [Run -> RunState] /\ issued' \in [Run -> Seq(Address)]
      /\ open' \in [Run -> SUBSET Nat] /\ expired' \in [Run -> Nat]
  BY <1>2, <1>3 DEF Types
<1>5. /\ run'[r] = Over /\ issued'[r] = <<>> /\ open'[r] = {} /\ expired'[r] = 0
  BY <1>3 DEF Types
<1>6. Elsewhere(r)
  BY <1>3 DEF Types, Elsewhere
<1>7. Course(r)'
  <2>1. Bounds(r)'
    BY <1>1, <1>2, <1>5 DEF Bounds
  <2>2. SignedIn(r)' /\ Answered(r)' /\ Reported(r)'
    BY <1>2, <1>5 DEF SignedIn, Answered, Reported
  <2>3. QED
    BY <2>1, <2>2 DEF Course
<1>8. QED
  BY <1>4, <1>6, <1>7

(* A step that changes nothing but where r is.                             *)
LEMMA MovesEffect ==
  ASSUME Types, NEW r \in Run, NEW state \in RunState,
         run' = [run EXCEPT ![r] = state], UNCHANGED page
  PROVE  /\ run' \in [Run -> RunState] /\ issued' \in [Run -> Seq(Address)]
         /\ open' \in [Run -> SUBSET Nat] /\ expired' \in [Run -> Nat]
         /\ Elsewhere(r) /\ run'[r] = state
         /\ issued' = issued /\ open' = open /\ expired' = expired
BY DEF Types, page, Elsewhere

-----------------------------------------------------------------------------
(* The initial states.                                                     *)

LEMMA InitDocs ==
  LET S == [address : Legacy, score : {NoScore}]
  IN  SetToSeq(S) \in [1..Cardinality(S) -> S] /\ Cardinality(S) \in Nat
<1> DEFINE S == [address : Legacy, score : {NoScore}]
           f == [a \in Legacy |-> [address |-> a, score |-> NoScore]]
<1>1. f \in Surjection(Legacy, S)
  BY DEF Surjection
<1>2. IsFiniteSet(S)
  BY <1>1, LegacyAssumption, FS_Surjection
<1>3. Cardinality(S) \in Nat /\ ExistsBijection(1..Cardinality(S), S)
  BY <1>2, FS_CardinalityType
<1>4. PICK g : g \in [1..Cardinality(S) -> S] /\ IsInjective(g)
  BY <1>3 DEF ExistsBijection, Bijection, Injection, IsInjective
<1> HIDE DEF S
<1>5. SetToSeq(S) \in [1..Cardinality(S) -> S]
  BY <1>4 DEF SetToSeq
<1>6. QED
  BY <1>3, <1>5 DEF S

(* The invariant holds before the first run.                               *)
LEMMA InitHolds == ChallengeInit => IInv
<1> SUFFICES ASSUME ChallengeInit PROVE IInv
  OBVIOUS
<1>1. RECORD_COUNT \in Nat /\ MAX_RETRIES \in Nat \ {0} /\ MaxMessages \in Nat \ {0}
  BY ScoreAssumption, RetriesAssumption
<1>2. \E n \in Nat : docs \in [1..n -> [address : Legacy, score : {NoScore}]]
  BY InitDocs DEF ChallengeInit, Init
<1>3. /\ docs \in Seq(Entry)
      /\ \A i \in DOMAIN docs : docs[i].address \in Legacy /\ docs[i].score = NoScore
  <2>1. PICK n \in Nat : docs \in [1..n -> [address : Legacy, score : {NoScore}]]
    BY <1>2
  <2>2. docs \in [1..n -> Entry]
    BY <2>1, LegacyAssumption DEF Entry
  <2>3. QED
    BY <2>1, <2>2
<1>4. NewRun \in RunState /\ NewRun.step = "serving" /\ NewRun.message = 0
  BY NewRunType
<1>5. Types
  <2>1. submitted \in [Address -> 0..RECORD_COUNT]
    BY <1>1 DEF ChallengeInit, Init
  <2>2. mask \in [Address -> Slots]
    BY MasksAreSlots DEF ChallengeInit
  <2>3. QED
    BY <1>3, <1>4, <2>1, <2>2 DEF ChallengeInit, Types
<1>6. Entries
  <2>1. \A a \in Address : submitted[a] = 0
    BY DEF ChallengeInit, Init
  <2>2. ListedHaveSigned /\ StoredIsBest
    BY <1>3 DEF ListedHaveSigned, StoredIsBest
  <2>3. UnstoredIsNone
    BY <1>3, <2>1, LegacyAssumption DEF UnstoredIsNone
  <2>4. QED
    BY <2>2, <2>3 DEF Entries
<1>7. ASSUME NEW r \in Run
      PROVE  Course(r)
  <2>1. run[r] = NewRun /\ issued[r] = <<>> /\ open[r] = {} /\ expired[r] = 0
    BY DEF ChallengeInit
  <2>2. Bounds(r)
    BY <1>1, <1>4, <2>1 DEF Bounds
  <2>3. SignedIn(r) /\ Answered(r) /\ Reported(r)
    BY <1>4, <2>1 DEF SignedIn, Answered, Reported
  <2>4. QED
    BY <2>2, <2>3 DEF Course
<1>8. QED
  BY <1>5, <1>6, <1>7 DEF IInv

-----------------------------------------------------------------------------
(* The steps.                                                              *)

LEMMA SignPayloadStep ==
  ASSUME IInv, NEW r \in Run, NEW a \in Address, SignPayload(r, a)
  PROVE  IInv'
<1>1. Types /\ Entries /\ Course(r) /\ MaxMessages \in Nat
  BY RetriesAssumption DEF IInv
<1>2. /\ UNCHANGED entries /\ UNCHANGED <<mask, expired, run, signed>>
      /\ issued' = [issued EXCEPT ![r] = Append(@, a)]
      /\ open' = [open EXCEPT ![r] = @ \cup {Len(issued[r]) + 1}]
      /\ Len(issued[r]) < MaxMessages /\ run[r].step = "serving"
  BY DEF SignPayload, At
<1>3. signed \subseteq signed'
  BY <1>2
<1>4. docs' \in Seq(Entry) /\ submitted' \in [Address -> 0..RECORD_COUNT] /\ Entries' /\ Grows
  BY <1>1, <1>2, <1>3, SameEntries
<1>5. issued[r] \in Seq(Address) /\ Len(issued[r]) \in Nat /\ open[r] \in SUBSET Nat
  BY <1>1 DEF Types
<1>6. /\ issued'[r] = Append(issued[r], a) /\ issued'[r] \in Seq(Address)
      /\ Len(issued'[r]) = Len(issued[r]) + 1
      /\ open'[r] = open[r] \cup {Len(issued[r]) + 1}
  BY <1>1, <1>2, <1>5 DEF Types
<1>7. Types'
  BY <1>1, <1>2, <1>4, <1>5, <1>6 DEF Types
<1>8. Elsewhere(r)
  BY <1>1, <1>2 DEF Types, Elsewhere
<1>9. Course(r)'
  <2>1. run[r].message \in Nat /\ expired[r] \in Nat
    BY <1>1 DEF Types, RunState
  <2>2. Bounds(r)'
    BY <1>1, <1>2, <1>5, <1>6, <2>1 DEF Course, Bounds
  <2>3. SignedIn(r)' /\ Answered(r)' /\ Reported(r)'
    BY <1>2 DEF SignedIn, Answered, Reported
  <2>4. QED
    BY <2>2, <2>3 DEF Course
<1>10. QED
  BY <1>2, <1>3, <1>4, <1>7, <1>8, <1>9, StepOf

LEMMA CancelledStep ==
  ASSUME IInv, NEW r \in Run, NEW n, Cancelled(r, n)
  PROVE  IInv'
<1>1. Types /\ Entries /\ Course(r)
  BY DEF IInv
<1>2. /\ UNCHANGED entries /\ UNCHANGED <<mask, issued, expired, run, signed>>
      /\ open' = [open EXCEPT ![r] = @ \ {n}]
  BY DEF Cancelled
<1>3. signed \subseteq signed'
  BY <1>2
<1>4. docs' \in Seq(Entry) /\ submitted' \in [Address -> 0..RECORD_COUNT] /\ Entries' /\ Grows
  BY <1>1, <1>2, <1>3, SameEntries
<1>5. Types' /\ Elsewhere(r) /\ open'[r] \subseteq open[r]
  BY <1>1, <1>2, <1>4 DEF Types, Elsewhere
<1>6. expired'[r] <= Len(issued[r])
  BY <1>1, <1>2 DEF Course, Bounds
<1>7. Course(r)'
  BY <1>1, <1>2, <1>3, <1>4, <1>5, <1>6, RunKept
<1>8. QED
  BY <1>2, <1>3, <1>4, <1>5, <1>7, StepOf

LEMMA ExpireStep ==
  ASSUME IInv, NEW r \in Run, Expire(r)
  PROVE  IInv'
<1>1. Types /\ Entries /\ Course(r)
  BY DEF IInv
<1>2. /\ UNCHANGED entries /\ UNCHANGED <<mask, issued, open, run, signed>>
      /\ expired' = [expired EXCEPT ![r] = @ + 1] /\ expired[r] < Len(issued[r])
  BY DEF Expire
<1>3. signed \subseteq signed'
  BY <1>2
<1>4. docs' \in Seq(Entry) /\ submitted' \in [Address -> 0..RECORD_COUNT] /\ Entries' /\ Grows
  BY <1>1, <1>2, <1>3, SameEntries
<1>5. expired[r] \in Nat /\ Len(issued[r]) \in Nat /\ expired'[r] = expired[r] + 1
  BY <1>1, <1>2 DEF Types
<1>6. Types' /\ Elsewhere(r) /\ open'[r] \subseteq open[r]
  BY <1>1, <1>2, <1>4, <1>5 DEF Types, Elsewhere
<1>7. expired'[r] <= Len(issued[r])
  BY <1>2, <1>5
<1>8. Course(r)'
  BY <1>1, <1>2, <1>3, <1>4, <1>6, <1>7, RunKept
<1>9. QED
  BY <1>2, <1>3, <1>4, <1>6, <1>8, StepOf

(* The signer of an accepted message may be another than it names.         *)
LEMMA SignResultStep ==
  ASSUME IInv, NEW r \in Run, NEW n, NEW signer \in Address, SignResult(r, n, signer)
  PROVE  IInv'
<1>1. Types /\ Entries /\ Course(r)
  BY DEF IInv
<1>2. /\ UNCHANGED entries /\ UNCHANGED <<mask, issued, expired>>
      /\ signed' = signed \cup ({signer} \cap {issued[r][n]})
      /\ n \in open[r] /\ run[r].step = "serving"
  BY DEF SignResult, At
<1>3. /\ signed \subseteq signed' /\ signed' \subseteq Address
      /\ signer = issued[r][n] => signer \in signed'
  BY <1>1, <1>2 DEF Types
<1>4. docs' \in Seq(Entry) /\ submitted' \in [Address -> 0..RECORD_COUNT] /\ Entries' /\ Grows
  BY <1>1, <1>2, <1>3, SameEntries
<1>5. n \in 1..Len(issued[r]) /\ Len(issued[r]) \in Nat
  BY <1>1, <1>2 DEF Course, Bounds, Types
<1>6. CASE /\ run' = [run EXCEPT ![r] = [@ EXCEPT !.step = "checking", !.message = n,
                                                  !.signer = signer]]
           /\ open' = [open EXCEPT ![r] = {}]
  <2>1. PICK state : state = [run[r] EXCEPT !.step = "checking", !.message = n, !.signer = signer]
    OBVIOUS
  <2>2. /\ state \in RunState /\ state.step = "checking" /\ state.message = n
        /\ state.signer = signer
    <3>1. run[r] \in RunState /\ n \in Nat
      BY <1>1, <1>5 DEF Types
    <3>2. QED
      BY <2>1, <3>1 DEF RunState, Steps
  <2>3. run' = [run EXCEPT ![r] = state]
    BY <1>6, <2>1
  <2>4. run'[r] = state /\ open'[r] = {}
    BY <1>1, <1>6, <2>3 DEF Types
  <2>5. Types' /\ Elsewhere(r)
    BY <1>1, <1>2, <1>3, <1>4, <1>6, <2>2, <2>3 DEF Types, Elsewhere
  <2>6. Course(r)'
    <3>1. Bounds(r)'
      BY <1>1, <1>2, <1>5, <2>2, <2>4 DEF Course, Bounds
    <3>2. SignedIn(r)'
      BY <1>2, <1>3, <1>5, <2>2, <2>4 DEF SignedIn, Claimed
    <3>3. Answered(r)' /\ Reported(r)'
      BY <2>2, <2>4 DEF Answered, Reported
    <3>4. QED
      BY <3>1, <3>2, <3>3 DEF Course
  <2>7. QED
    BY <1>2, <1>3, <1>4, <2>5, <2>6, StepOf
<1>7. CASE open' = [open EXCEPT ![r] = @ \ {n}] /\ UNCHANGED run
  <2>1. Types' /\ Elsewhere(r) /\ open'[r] \subseteq open[r] /\ run'[r] = run[r]
    BY <1>1, <1>2, <1>3, <1>4, <1>7 DEF Types, Elsewhere
  <2>2. expired'[r] <= Len(issued[r])
    BY <1>1, <1>2 DEF Course, Bounds
  <2>3. Course(r)'
    BY <1>1, <1>2, <1>3, <1>4, <2>1, <2>2, RunKept
  <2>4. QED
    BY <1>2, <1>3, <1>4, <2>1, <2>3, StepOf
<1>8. QED
  BY <1>6, <1>7 DEF SignResult

(* The process ends and the entries are as the API has left them.          *)
LEMMA EndsStep ==
  ASSUME IInv, NEW r \in Run, NEW s \in {"done", "failed"}, Ends(r, s), mask' = mask,
         signed' = signed, docs' \in Seq(Entry), submitted' \in [Address -> 0..RECORD_COUNT],
         Entries', Grows
  PROVE  IInv'
<1>1. Types
  BY DEF IInv
<1>2. /\ run' \in [Run -> RunState] /\ issued' \in [Run -> Seq(Address)]
      /\ open' \in [Run -> SUBSET Nat] /\ expired' \in [Run -> Nat]
      /\ Elsewhere(r) /\ Course(r)'
  BY <1>1, EndsEffect
<1>3. Types' /\ signed \subseteq signed'
  BY <1>1, <1>2 DEF Types
<1>4. QED
  BY <1>2, <1>3, StepOf

LEMMA EndsIdle ==
  ASSUME IInv, NEW r \in Run, NEW s \in {"done", "failed"}, Ends(r, s),
         UNCHANGED <<entries, mask, signed>>
  PROVE  IInv'
<1>1. Types /\ Entries /\ UNCHANGED entries /\ mask' = mask /\ signed' = signed
  BY DEF IInv
<1>2. signed \subseteq signed'
  BY <1>1
<1>3. docs' \in Seq(Entry) /\ submitted' \in [Address -> 0..RECORD_COUNT] /\ Entries' /\ Grows
  BY <1>1, <1>2, SameEntries
<1>4. QED
  BY <1>1, <1>3, EndsStep

(* A run moves to a state in which it has not been graded.                 *)
LEMMA MovesStep ==
  ASSUME IInv, NEW r \in Run, NEW state \in RunState, run' = [run EXCEPT ![r] = state],
         UNCHANGED <<entries, mask, page, signed>>,
         state.message = run[r].message, state.signer = run[r].signer,
         \/ /\ run[r].step \in {"checking", "answering", "submitting", "asking"}
            /\ state.step \in {"answering", "submitting"}
         \/ state.step = "serving",
         state.step = "submitting" => state.answers \in [Records -> Verdict]
  PROVE  IInv'
<1>1. /\ Types /\ Entries /\ Course(r)
      /\ UNCHANGED entries /\ mask' = mask /\ signed' = signed /\ UNCHANGED page
  BY DEF IInv
<1>2. signed \subseteq signed'
  BY <1>1
<1>3. docs' \in Seq(Entry) /\ submitted' \in [Address -> 0..RECORD_COUNT] /\ Entries' /\ Grows
  BY <1>1, <1>2, SameEntries
<1>4. /\ run' \in [Run -> RunState] /\ issued' \in [Run -> Seq(Address)]
      /\ open' \in [Run -> SUBSET Nat] /\ expired' \in [Run -> Nat]
      /\ Elsewhere(r) /\ run'[r] = state
      /\ issued' = issued /\ open' = open /\ expired' = expired
  BY <1>1, MovesEffect
<1>5. Types'
  BY <1>1, <1>3, <1>4 DEF Types
<1>6. Bounds(r)'
  BY <1>1, <1>4 DEF Course, Bounds
<1>7. SignedIn(r)'
  <2>1. Claimed(r)' = Claimed(r)
    BY <1>4 DEF Claimed
  <2>2. QED
    BY <1>1, <1>4, <2>1 DEF Course, SignedIn
<1>8. Answered(r)' /\ Reported(r)'
  BY <1>4 DEF Answered, Reported
<1>9. Course(r)'
  BY <1>6, <1>7, <1>8 DEF Course
<1>10. QED
  BY <1>1, <1>2, <1>3, <1>4, <1>5, <1>9, StepOf

LEMMA PrepareStep ==
  ASSUME IInv, NEW r \in Run, Prepare(r)
  PROVE  IInv'
<1>1. run[r] \in RunState /\ run[r].step = "checking" /\ UNCHANGED <<entries, mask, signed>>
  BY DEF Prepare, IInv, Types, At
<1>2. CASE Becomes(r, "answering") /\ UNCHANGED page
  <2>1. PICK state : state = [run[r] EXCEPT !.step = "answering"]
    OBVIOUS
  <2>2. /\ state \in RunState /\ state.step = "answering"
        /\ state.message = run[r].message /\ state.signer = run[r].signer
    BY <1>1, <2>1 DEF RunState, Steps
  <2>3. run' = [run EXCEPT ![r] = state]
    BY <1>2, <2>1 DEF Becomes
  <2>4. QED
    BY <1>1, <1>2, <2>2, <2>3, MovesStep
<1>3. CASE Ends(r, "failed")
  BY <1>1, <1>3, EndsIdle
<1>4. QED
  BY <1>2, <1>3 DEF Prepare

LEMMA CollectStep ==
  ASSUME IInv, NEW r \in Run, collectAnswers(r)
  PROVE  IInv'
<1>1. /\ run[r] \in RunState /\ run[r].step = "answering"
      /\ UNCHANGED <<entries, mask, page, signed>>
  BY DEF collectAnswers, IInv, Types, At
<1>2. PICK answers \in [Records -> Verdict] :
        run' = [run EXCEPT ![r] = [@ EXCEPT !.step = "submitting", !.answers = answers]]
  BY DEF collectAnswers
<1>3. PICK state : state = [run[r] EXCEPT !.step = "submitting", !.answers = answers]
  OBVIOUS
<1>4. /\ state \in RunState /\ state.step = "submitting" /\ state.answers = answers
      /\ state.message = run[r].message /\ state.signer = run[r].signer
  BY <1>1, <1>3 DEF RunState, Steps
<1>5. run' = [run EXCEPT ![r] = state]
  BY <1>2, <1>3
<1>6. QED
  BY <1>1, <1>4, <1>5, MovesStep

(* Graded and stored: the address that signed is the one of the message.   *)
LEMMA SubmitStep ==
  ASSUME IInv, NEW r \in Run, SubmitAnswers(r)
  PROVE  IInv'
<1>1. Types /\ Course(r) /\ run[r] \in RunState /\ run[r].step = "submitting"
  BY DEF IInv, Types, SubmitAnswers, At
<1>2. /\ At(r, "submitting") /\ ~Refused(r) /\ Stored(r)
      /\ mask' = mask /\ UNCHANGED page /\ signed' = signed
  BY DEF SubmitAnswers
<1>3. /\ docs' \in Seq(Entry) /\ submitted' \in [Address -> 0..RECORD_COUNT]
      /\ Entries' /\ Grows
      /\ Graded(r) \in 0..RECORD_COUNT
      /\ run[r].signer = Claimed(r)
      /\ Graded(r) >= RECORD_THRESHOLD =>
           \E i \in DOMAIN docs' : /\ docs'[i].address = run[r].signer
                                   /\ docs'[i].score # NoScore
                                   /\ docs'[i].score >= Graded(r)
  BY <1>2, StoredEffect
<1>4. PICK score : score = Graded(r)
  OBVIOUS
<1>5. PICK state : state = [run[r] EXCEPT !.step = "asking", !.score = score]
  OBVIOUS
<1>6. /\ state \in RunState /\ state.step = "asking" /\ state.score = score
      /\ state.message = run[r].message /\ state.signer = run[r].signer
      /\ state.answers = run[r].answers
  BY <1>1, <1>3, <1>4, <1>5 DEF RunState, Steps
<1>7. run' = [run EXCEPT ![r] = state]
  BY <1>4, <1>5 DEF SubmitAnswers
<1>8. /\ run' \in [Run -> RunState] /\ issued' \in [Run -> Seq(Address)]
      /\ open' \in [Run -> SUBSET Nat] /\ expired' \in [Run -> Nat]
      /\ Elsewhere(r) /\ run'[r] = state
      /\ issued' = issued /\ open' = open /\ expired' = expired
  BY <1>1, <1>2, <1>6, <1>7, MovesEffect
<1>9. Types' /\ signed \subseteq signed'
  BY <1>1, <1>2, <1>3, <1>8 DEF Types
<1>10. Claimed(r)' = Claimed(r) /\ Graded(r)' = score
  BY <1>2, <1>4, <1>6, <1>8 DEF Claimed, Graded
<1>11. Course(r)'
  <2>1. Bounds(r)'
    BY <1>1, <1>6, <1>8 DEF Course, Bounds
  <2>2. SignedIn(r)'
    BY <1>1, <1>2, <1>6, <1>8, <1>10 DEF Course, SignedIn
  <2>3. Answered(r)'
    BY <1>1, <1>6, <1>8 DEF Course, Answered
  <2>4. Kept(r)'
    BY <1>3, <1>4, <1>6, <1>8 DEF Kept
  <2>5. Reported(r)'
    BY <1>3, <1>6, <1>8, <1>10, <2>4 DEF Reported
  <2>6. QED
    BY <2>1, <2>2, <2>3, <2>5 DEF Course
<1>12. QED
  BY <1>2, <1>3, <1>8, <1>9, <1>11, StepOf

(* The reply is lost: the score may have been stored.                      *)
LEMMA SubmitFailsStep ==
  ASSUME IInv, NEW r \in Run, SubmitFails(r)
  PROVE  IInv'
<1>1. At(r, "submitting") /\ Ends(r, "failed") /\ mask' = mask /\ signed' = signed
  BY DEF SubmitFails
<1>2. CASE UNCHANGED entries
  BY <1>1, <1>2, EndsIdle
<1>3. CASE ~Refused(r) /\ Stored(r)
  <2>1. docs' \in Seq(Entry) /\ submitted' \in [Address -> 0..RECORD_COUNT] /\ Entries' /\ Grows
    BY <1>1, <1>3, StoredEffect
  <2>2. QED
    BY <1>1, <2>1, EndsStep
<1>4. QED
  BY <1>2, <1>3 DEF SubmitFails

LEMMA AskAgainStep ==
  ASSUME IInv, NEW r \in Run, AskAgain(r)
  PROVE  IInv'
<1>1. run[r] \in RunState /\ run[r].step = "asking" /\ UNCHANGED <<entries, mask, signed>>
  BY DEF AskAgain, IInv, Types, At
<1>2. CASE /\ run[r].attempt < MAX_RETRIES
           /\ run' = [run EXCEPT ![r] = [@ EXCEPT !.step = "answering", !.answers = NoAnswers,
                                                  !.score = 0, !.attempt = run[r].attempt + 1]]
           /\ UNCHANGED page
  <2>1. PICK state : state = [run[r] EXCEPT !.step = "answering", !.answers = NoAnswers,
                                            !.score = 0, !.attempt = run[r].attempt + 1]
    OBVIOUS
  <2>2. /\ run[r].attempt + 1 \in 1..MAX_RETRIES /\ 0 \in 0..RECORD_COUNT
        /\ "answering" \in Steps
    BY <1>1, <1>2, RetriesAssumption, ScoreAssumption DEF RunState, Steps
  <2>3. /\ state \in RunState /\ state.step = "answering"
        /\ state.message = run[r].message /\ state.signer = run[r].signer
    BY <1>1, <2>1, <2>2 DEF RunState
  <2>4. run' = [run EXCEPT ![r] = state]
    BY <1>2, <2>1
  <2>5. QED
    BY <1>1, <1>2, <2>3, <2>4, MovesStep
<1>3. CASE Ends(r, "done")
  BY <1>1, <1>3, EndsIdle
<1>4. QED
  BY <1>2, <1>3 DEF AskAgain

LEMMA RunAgainStep ==
  ASSUME IInv, NEW r \in Run, RunAgain(r)
  PROVE  IInv'
<1>1. run[r] \in RunState /\ UNCHANGED <<entries, mask, page, signed>>
  BY DEF RunAgain, IInv, Types
<1>2. PICK state : state = [run[r] EXCEPT !.step = "serving"]
  OBVIOUS
<1>3. /\ state \in RunState /\ state.step = "serving"
      /\ state.message = run[r].message /\ state.signer = run[r].signer
  BY <1>1, <1>2 DEF RunState, Steps
<1>4. run' = [run EXCEPT ![r] = state]
  BY <1>2 DEF RunAgain, Becomes
<1>5. QED
  BY <1>1, <1>3, <1>4, MovesStep

(* The invariant is inductive.                                             *)
LEMMA StepHolds == IInv /\ [ChallengeNext]_<<vars, challenge>> => IInv'
<1> SUFFICES ASSUME IInv, [ChallengeNext]_<<vars, challenge>> PROVE IInv'
  OBVIOUS
<1>1. CASE ChallengeNext
  <2>1. PICK r \in Run :
          \/ \E a \in Address : SignPayload(r, a)
          \/ \E n \in 1..MaxMessages : Cancelled(r, n)
          \/ \E n \in 1..MaxMessages, signer \in Address : SignResult(r, n, signer)
          \/ SignInFails(r) \/ Expire(r) \/ Prepare(r) \/ collectAnswers(r)
          \/ SubmitAnswers(r) \/ SubmitFails(r) \/ AskAgain(r) \/ RunAgain(r)
    BY <1>1 DEF ChallengeNext
  <2>2. CASE \E a \in Address : SignPayload(r, a)
    BY <2>2, SignPayloadStep
  <2>3. CASE \E n \in 1..MaxMessages : Cancelled(r, n)
    BY <2>3, CancelledStep
  <2>4. CASE \E n \in 1..MaxMessages, signer \in Address : SignResult(r, n, signer)
    BY <2>4, SignResultStep
  <2>5. CASE SignInFails(r)
    <3>1. Ends(r, "failed") /\ UNCHANGED <<entries, mask, signed>>
      BY <2>5 DEF SignInFails
    <3>2. QED
      BY <3>1, EndsIdle
  <2>6. CASE Expire(r)
    BY <2>6, ExpireStep
  <2>7. CASE Prepare(r)
    BY <2>7, PrepareStep
  <2>8. CASE collectAnswers(r)
    BY <2>8, CollectStep
  <2>9. CASE SubmitAnswers(r)
    BY <2>9, SubmitStep
  <2>10. CASE SubmitFails(r)
    BY <2>10, SubmitFailsStep
  <2>11. CASE AskAgain(r)
    BY <2>11, AskAgainStep
  <2>12. CASE RunAgain(r)
    BY <2>12, RunAgainStep
  <2>13. QED
    BY <2>1, <2>2, <2>3, <2>4, <2>5, <2>6, <2>7, <2>8, <2>9, <2>10, <2>11, <2>12
<1>2. CASE UNCHANGED <<vars, challenge>>
  <2>1. /\ docs' = docs /\ submitted' = submitted /\ mask' = mask /\ issued' = issued
        /\ open' = open /\ expired' = expired /\ run' = run /\ signed' = signed
    BY <1>2 DEF vars, entries, challenge, tool, page
  <2>2. Types'
    BY <2>1 DEF IInv, Types
  <2>3. Entries'
    BY <2>1 DEF IInv, Entries, ListedHaveSigned, StoredIsBest, UnstoredIsNone
  <2>4. ASSUME NEW r \in Run
        PROVE  Course(r)'
    <3>1. Course(r)
      BY DEF IInv
    <3>2. QED
      BY <2>1, <3>1 DEF Course, Bounds, SignedIn, Answered, Reported, Kept, Claimed, Graded
  <2>5. QED
    BY <2>2, <2>3, <2>4 DEF IInv
<1>3. QED
  BY <1>1, <1>2

-----------------------------------------------------------------------------
(* The theorems.                                                           *)

(* The invariant holds of every run of the challenge.                      *)
THEOREM InvariantHolds == ChallengeSpec => []IInv
<1>1. QED
  BY InitHolds, StepHolds, PTL DEF ChallengeSpec

(* Entries, masks, messages and runs keep their types and bounds: no run   *)
(* has more attempts than MAX_RETRIES, keeps a message it has not issued,  *)
(* or waits for a signature of one.                                        *)
THEOREM TypeCorrect == ChallengeSpec => []TypeOK
<1>1. IInv => TypeOK
  <2> SUFFICES ASSUME IInv PROVE TypeOK
    OBVIOUS
  <2>1. Types /\ \A r \in Run : Bounds(r)
    BY DEF IInv, Course
  <2>2. \A i \in DOMAIN docs : docs[i] \in [address : Address, score : Score \cup {NoScore}]
    <3>1. \A i \in DOMAIN docs : docs[i] \in Entry
      BY <2>1 DEF Types
    <3>2. QED
      BY <3>1 DEF Entry
  <2>3. mask \in [Address -> [Records -> ToSet(CORRUPTION_STATES)]]
    BY <2>1 DEF Types, Slots, States
  <2>4. ASSUME NEW r \in Run
        PROVE  /\ Len(issued[r]) <= MaxMessages /\ ToSet(issued[r]) \subseteq Address
               /\ open[r] \subseteq DOMAIN issued[r]
               /\ expired[r] \in 0..Len(issued[r])
               /\ run[r].step \in Steps
               /\ run[r].message \in 0..Len(issued[r])
               /\ run[r].attempt \in 1..MAX_RETRIES
               /\ run[r].score \in 0..RECORD_COUNT
    <3>1. /\ issued[r] \in Seq(Address) /\ expired[r] \in Nat /\ run[r] \in RunState
          /\ Len(issued[r]) \in Nat /\ DOMAIN issued[r] = 1..Len(issued[r])
      BY <2>1 DEF Types
    <3>2. ToSet(issued[r]) \subseteq Address
      BY <3>1 DEF ToSet
    <3>3. /\ run[r].step \in Steps /\ run[r].message \in Nat
          /\ run[r].attempt \in 1..MAX_RETRIES /\ run[r].score \in 0..RECORD_COUNT
      BY <3>1 DEF RunState
    <3>4. QED
      BY <2>1, <3>1, <3>2, <3>3 DEF Bounds
  <2>5. QED
    BY <2>1, <2>2, <2>3, <2>4 DEF TypeOK, Types
<1>2. QED
  BY <1>1, InvariantHolds, PTL

(* Whoever is listed has signed a message about the own address, however   *)
(* many runs, tabs and accounts took part.                                 *)
THEOREM NobodyUnsigned == ChallengeSpec => []ListedHaveSigned
<1>1. IInv => ListedHaveSigned
  BY DEF IInv, Entries
<1>2. QED
  BY <1>1, InvariantHolds, PTL

(* The score of every graded attempt is that of the records the tool       *)
(* presented, although the API derives them from another address.          *)
THEOREM GradesArePresented == ChallengeSpec => []GradedAsPresented
<1>1. IInv => GradedAsPresented
  BY DEF IInv, Course, Reported, GradedAsPresented, Presented, Graded, At
<1>2. QED
  BY <1>1, InvariantHolds, PTL

(* An address is listed with the best it has submitted since scores are    *)
(* stored, and with a perfect run only as long as it was there before and  *)
(* has submitted none; what a run reports as recorded is listed with no    *)
(* less.                                                                   *)
THEOREM BestIsRecorded == ChallengeSpec => []RecordedIsBest
<1>1. IInv => RecordedIsBest
  <2> SUFFICES ASSUME IInv PROVE RecordedIsBest
    OBVIOUS
  <2>1. StoredIsBest /\ UnstoredIsNone
    BY DEF IInv, Entries
  <2>2. ListedIsBest
    <3>1. ASSUME NEW i \in DOMAIN docs
          PROVE  Shown(i) = Due(docs[i].address)
      <4>1. CASE docs[i].score = NoScore
        BY <2>1, <4>1 DEF UnstoredIsNone, Shown, Due
      <4>2. CASE docs[i].score # NoScore
        <5>1. docs[i].score \in Score /\ 0 \notin Score
          <6>1. docs[i] \in Entry
            BY DEF IInv, Types
          <6>2. QED
            BY <4>2, <6>1, ScoreAssumption DEF Entry, Score
        <5>2. QED
          BY <2>1, <4>2, <5>1 DEF StoredIsBest, Shown, Due
      <4>3. QED
        BY <4>1, <4>2
    <3>2. QED
      BY <3>1 DEF ListedIsBest
  <2>3. ASSUME NEW r \in Run, At(r, "asking"), run[r].score >= RECORD_THRESHOLD
        PROVE  \E i \in DOMAIN docs : docs[i].address = Claimed(r) /\ Shown(i) >= run[r].score
    <3>1. Reported(r) /\ run[r].step = "asking"
      BY <2>3 DEF IInv, Course, At
    <3>2. PICK i \in DOMAIN docs : /\ docs[i].address = run[r].signer
                                   /\ docs[i].score # NoScore
                                   /\ docs[i].score >= run[r].score
      BY <2>3, <3>1 DEF Reported, Kept
    <3>3. QED
      BY <3>1, <3>2 DEF Reported, Shown
  <2>4. QED
    BY <2>2, <2>3 DEF RecordedIsBest, ReportedIsListed
<1>2. QED
  BY <1>1, InvariantHolds, PTL

(* A perfect run has found both verdicts among its records, for any number *)
(* of records and kinds of corruption and whatever the shuffle came to.    *)
THEOREM PerfectionIsJudged == ChallengeSpec => []NoBlindPerfection
<1>1. IInv => NoBlindPerfection
  <2> SUFFICES ASSUME IInv, NEW r \in Run, At(r, "asking"), run[r].score = RECORD_COUNT,
                      NEW v \in Verdict
               PROVE  v \in ToSet(run[r].answers)
    BY DEF NoBlindPerfection
  <2>1. Types /\ SignedIn(r) /\ Answered(r) /\ Reported(r) /\ run[r].step = "asking"
    BY DEF IInv, Course, At
  <2>2. PICK m : m = mask[run[r].signer]
    OBVIOUS
  <2>3. PICK a : a = run[r].answers
    OBVIOUS
  <2>4. m \in Slots /\ a \in [Records -> Verdict]
    BY <2>1, <2>2, <2>3 DEF Types, SignedIn, Answered
  <2>5. a = expectedVerdicts(m)
    <3>1. scoreAnswers(expectedVerdicts(m), a) = RECORD_COUNT
      BY <2>1, <2>2, <2>3 DEF Reported, Graded
    <3>2. QED
      BY <2>4, <3>1, VerdictsType, ScoreCounts
  <2>6. PICK i \in Records : m[i] = "valid"
    BY <2>4, StatesAssumption DEF Slots, States
  <2>7. PICK j \in Records : m[j] # "valid"
    <3>1. PICK s \in States : s # "valid"
      BY StatesAssumption DEF States
    <3>2. QED
      BY <2>4, <3>1 DEF Slots
  <2>8. a[i] = "valid" /\ a[j] = "invalid" /\ DOMAIN a = Records
    BY <2>4, <2>5, <2>6, <2>7 DEF expectedVerdicts, Slots
  <2>9. QED
    BY <2>3, <2>8 DEF ToSet, Verdict
<1>2. QED
  BY <1>1, InvariantHolds, PTL

(* The steps that may lower what is listed of an entry: the first score    *)
(* that is stored in a document from before scores were stored.            *)
FirstScore(i) ==
  /\ docs[i].address \in Legacy
  /\ docs[i].score = NoScore /\ docs'[i].score # NoScore

(* A step keeps every entry, its address and that it has a score, and      *)
(* lowers what is listed of it only if it stores the first score.          *)
ListingGrows ==
  \A i \in DOMAIN docs :
    /\ i \in DOMAIN docs' /\ docs'[i].address = docs[i].address
    /\ docs[i].score # NoScore => docs'[i].score # NoScore
    /\ Shown(i)' >= Shown(i) \/ FirstScore(i)

(* No step that keeps the stored scores lowers another listed score.       *)
LEMMA GrowthIsListed ==
  ASSUME Types, UnstoredIsNone, Grows
  PROVE  ListingGrows
<1>1. RECORD_COUNT \in Nat
  BY ScoreAssumption
<1>2. ASSUME NEW i \in DOMAIN docs
      PROVE  Shown(i)' >= Shown(i) \/ FirstScore(i)
  <2>1. CASE docs[i].score # NoScore
    <3>1. docs'[i].score # NoScore /\ docs'[i].score >= docs[i].score
      BY <2>1 DEF Grows
    <3>2. QED
      BY <2>1, <3>1 DEF Shown
  <2>2. CASE docs[i].score = NoScore /\ docs'[i].score # NoScore
    BY <2>2 DEF UnstoredIsNone, FirstScore
  <2>3. CASE docs[i].score = NoScore /\ docs'[i].score = NoScore
    BY <1>1, <2>3 DEF Shown
  <2>4. QED
    BY <2>1, <2>2, <2>3
<1>3. QED
  BY <1>2 DEF Grows, ListingGrows

(* No entry is ever lost or passes to another address, whichever runs      *)
(* submit and whatever replies are lost, and what is listed of it never    *)
(* falls, but once for an address that was listed before scores were       *)
(* stored: by its first stored score.                                      *)
THEOREM EntriesOnlyGrow == ChallengeSpec => [][ListingGrows]_<<vars, challenge>>
<1>1. IInv /\ [ChallengeNext]_<<vars, challenge>> => [Grows]_<<vars, challenge>>
  <2> SUFFICES ASSUME IInv, ChallengeNext PROVE Grows
    OBVIOUS
  <2>1. Types /\ Entries
    BY DEF IInv
  <2>2. PICK r \in Run :
          \/ /\ UNCHANGED entries
             /\ signed \subseteq signed'
          \/ SubmitAnswers(r)
          \/ SubmitFails(r)
    BY DEF ChallengeNext, SignPayload, Cancelled, SignResult, SignInFails, Expire, Prepare,
           collectAnswers, AskAgain, RunAgain
  <2>3. CASE UNCHANGED entries /\ signed \subseteq signed'
    BY <2>1, <2>3, SameEntries
  <2>4. CASE SubmitAnswers(r)
    <3>1. At(r, "submitting") /\ ~Refused(r) /\ Stored(r) /\ signed' = signed
      BY <2>4 DEF SubmitAnswers
    <3>2. QED
      BY <3>1, StoredEffect
  <2>5. CASE SubmitFails(r)
    <3>1. At(r, "submitting") /\ signed' = signed
      BY <2>5 DEF SubmitFails
    <3>2. CASE UNCHANGED entries
      <4>1. signed \subseteq signed'
        BY <3>1
      <4>2. QED
        BY <2>1, <3>2, <4>1, SameEntries
    <3>3. CASE ~Refused(r) /\ Stored(r)
      BY <3>1, <3>3, StoredEffect
    <3>4. QED
      BY <2>5, <3>2, <3>3 DEF SubmitFails
  <2>6. QED
    BY <2>2, <2>3, <2>4, <2>5
<1>2. IInv /\ [Grows]_<<vars, challenge>> => [ListingGrows]_<<vars, challenge>>
  <2> SUFFICES ASSUME IInv, Grows PROVE ListingGrows
    OBVIOUS
  <2>1. QED
    BY GrowthIsListed DEF IInv, Entries
<1>3. QED
  BY <1>1, <1>2, InvariantHolds, PTL DEF ChallengeSpec
=============================================================================
