----------------------------- MODULE Leaderboard -----------------------------
(***************************************************************************)
(* The API of the testnet challenge: scores are recorded while a site      *)
(* reads the list of completed addresses page by page, following           *)
(* next_cursor until it is null.  The node's server pages its verification *)
(* records in the same way.                                                *)
(***************************************************************************)
EXTENDS Naturals, SequencesExt

CONSTANTS
  Address,
  RECORD_COUNT,      \* 5: the best score
  RECORD_THRESHOLD,  \* 1: the lowest score that is recorded
  PAGE_SIZE,         \* 100
  Legacy,            \* addresses listed for a perfect run before scores were stored
  NoScore,
  NoCursor

ASSUME ScoreAssumption ==
  RECORD_COUNT \in Nat /\ RECORD_THRESHOLD \in 1..RECORD_COUNT /\ NoScore \notin 0..RECORD_COUNT
ASSUME LegacyAssumption == Legacy \subseteq Address /\ IsFiniteSet(Legacy)

VARIABLES
  docs,      \* completed_addresses in the order of _id: records of address and score
  submitted, \* history: the best score of an address since scores are stored, or 0
  phase,     \* the reader: "idle", "reading" or "done"
  minScore, cursor, \* the query parameters of its next request
  seen,      \* the addresses its requests returned, in order
  owed       \* history: the addresses listed when it began

reader == <<phase, minScore, cursor, seen, owed>>
entries == <<docs, submitted>>
vars == <<entries, reader>>

Score == RECORD_THRESHOLD..RECORD_COUNT

Init ==
  /\ docs = SetToSeq([address : Legacy, score : {NoScore}])
  /\ submitted = [a \in Address |-> 0]
  /\ phase = "idle" /\ minScore = RECORD_THRESHOLD /\ cursor = NoCursor
  /\ seen = <<>> /\ owed = {}

(* A document without a score counts as a perfect run.                     *)
Shown(i) == IF docs[i].score = NoScore THEN RECORD_COUNT ELSE docs[i].score

Listed(i) == Shown(i) >= minScore

(* Mutant: $set.                                                           *)
SetOf(old, score) == score

(* $max: a field that is missing is set.                                   *)
MaxOf(old, score) == IF old = NoScore \/ score > old THEN score ELSE old

(* POST /api/submit: what is stored of a graded submission.                *)
Record(address, score) ==
  /\ docs' =
       IF \E i \in DOMAIN docs : docs[i].address = address
       THEN [i \in DOMAIN docs |->
               IF docs[i].address = address
               THEN [docs[i] EXCEPT !.score = MaxOf(@, score)] ELSE docs[i]]
       ELSE Append(docs, [address |-> address, score |-> score])
  /\ submitted' = [submitted EXCEPT ![address] = IF score > @ THEN score ELSE @]

Submit(address, score) ==
  /\ score >= RECORD_THRESHOLD
  /\ Record(address, score)
  /\ UNCHANGED reader

Begin(min) ==
  /\ phase \in {"idle", "done"}
  /\ phase' = "reading" /\ minScore' = min
  /\ cursor' = NoCursor /\ seen' = <<>>
  /\ owed' = { docs[i].address : i \in { j \in DOMAIN docs : Shown(j) >= min } }
  /\ UNCHANGED entries

(* GET /api/completed: PAGE_SIZE + 1 documents below the cursor, newest    *)
(* first; the last one, if there, is not shown and is the next cursor.     *)
Matched == Reverse(SelectSeq([i \in DOMAIN docs |-> i],
                             LAMBDA i : (cursor = NoCursor \/ i < cursor) /\ Listed(i)))

GetCompleted ==
  /\ phase = "reading"
  /\ LET page == SubSeq(Matched, 1, IF Len(Matched) < PAGE_SIZE THEN Len(Matched) ELSE PAGE_SIZE)
     IN seen' = seen \o [k \in DOMAIN page |-> docs[page[k]].address]
  /\ IF Len(Matched) > PAGE_SIZE
     THEN cursor' = Matched[PAGE_SIZE + 1] /\ UNCHANGED phase
     ELSE phase' = "done" /\ cursor' = NoCursor
  /\ UNCHANGED <<entries, minScore, owed>>

Next ==
  \/ \E address \in Address, score \in 0..RECORD_COUNT : Submit(address, score)
  \/ \E min \in Score : Begin(min)
  \/ GetCompleted

Spec == Init /\ [][Next]_vars

-----------------------------------------------------------------------------
(* testnet-challenge/src/api/index.ts:91, "Cursor for the next page, null  *)
(* if no more pages", and README.md:211, "for the knidos.xyz site to poll  *)
(* and sync": a reader that follows the cursors to the end has got every   *)
(* address that was listed when it began.                                  *)
SyncIsComplete == phase = "done" => owed \subseteq ToSet(seen)

(* What an address is listed with: the best it has submitted; one that was *)
(* listed for a perfect run before scores were stored, with that until its *)
(* first score is stored.  That score may be lower, although               *)
(* api/index.ts:206-207 says that "an address that already scored 5 can't  *)
(* be downgraded by a later, weaker run".                                  *)
Due(address) ==
  IF address \in Legacy /\ submitted[address] = 0 THEN RECORD_COUNT ELSE submitted[address]

(* api/index.ts:204-206, "a repeated attempt only raises the stored        *)
(* score", in whatever order the attempts came.                            *)
ListedIsBest == \A i \in DOMAIN docs : Shown(i) = Due(docs[i].address)
=============================================================================
