------------------------------ MODULE Challenge ------------------------------
(***************************************************************************)
(* The testnet challenge: a participant's run of the command line tool,    *)
(* the page it serves for signing in, and the API that grades the answers. *)
(*                                                                         *)
(* A run presents records of which some are corrupted.  Which ones is      *)
(* derived from the participant's address, once by the tool from the       *)
(* address that was asked for and once by the API from the address that    *)
(* signed.  The tool does not check the signature; it keeps one signed     *)
(* message for all its attempts, and the message expires.                  *)
(***************************************************************************)
EXTENDS Leaderboard

CONSTANTS
  Run,                \* runs of the tool
  CORRUPTION_STATES,  \* "valid" and the kinds of corruption, a sequence
  MAX_RETRIES,        \* MAX_RETRIES_PER_SESSION, 50
  MaxMessages         \* bound: messages one run issues

ASSUME StatesAssumption ==
  /\ CORRUPTION_STATES \in Seq(STRING) /\ Len(CORRUPTION_STATES) <= RECORD_COUNT
  /\ "valid" \in ToSet(CORRUPTION_STATES) /\ ToSet(CORRUPTION_STATES) # {"valid"}
ASSUME RetriesAssumption == MAX_RETRIES \in Nat \ {0} /\ MaxMessages \in Nat \ {0}

VARIABLES
  mask,     \* the corruption of the records, by address
  issued,   \* the messages a run has issued: for which address each is
  open,     \* the messages a tab waits for a signature of
  expired,  \* how many of the messages, oldest first, have expired
  run,      \* where a run is, its credentials, attempt, answers and score
  signed    \* history: addresses that signed a message about themselves

page == <<issued, open, expired>>
tool == <<page, run, signed>>
challenge == <<mask, tool>>

Verdict == {"valid", "invalid"}
Records == 1..RECORD_COUNT
Steps == {"serving", "checking", "answering", "submitting", "asking", "done", "failed"}
NoAnswers == <<>>
NewRun == [step |-> "serving", message |-> 0, signer |-> CHOOSE a \in Address : TRUE,
           attempt |-> 1, answers |-> NoAnswers, score |-> 0]

-----------------------------------------------------------------------------
(* corruption.ts                                                           *)

(* Mutant: the shuffle copies instead of swapping.                         *)
Copied(slots, i, j) == [slots EXCEPT ![i] = slots[j]]

Swapped(slots, i, j) == [slots EXCEPT ![i] = slots[j], ![j] = slots[i]]

(* One of every state, the rest drawn, then shuffled from the last place   *)
(* down; "drawn" and "place" are what the random numbers come to.          *)
getCorruptionMask(drawn, place) ==
  FoldLeft(LAMBDA slots, i : Swapped(slots, i, place[i]),
           CORRUPTION_STATES \o drawn,
           Reverse([i \in 1..RECORD_COUNT - 1 |-> i + 1]))

Draws == [1..RECORD_COUNT - Len(CORRUPTION_STATES) -> ToSet(CORRUPTION_STATES)]
Places == {p \in [2..RECORD_COUNT -> Records] : \A i \in 2..RECORD_COUNT : p[i] <= i}
Masks == {getCorruptionMask(d, p) : d \in Draws, p \in Places}

expectedVerdicts(m) == [i \in DOMAIN m |-> IF m[i] = "valid" THEN "valid" ELSE "invalid"]

scoreAnswers(expected, given) ==
  IF Len(expected) # Len(given) THEN 0
  ELSE Cardinality({i \in DOMAIN expected : expected[i] = given[i]})

-----------------------------------------------------------------------------
ChallengeInit ==
  /\ Init
  /\ mask \in [Address -> Masks]
  /\ issued = [r \in Run |-> <<>>]
  /\ open = [r \in Run |-> {}]
  /\ expired = [r \in Run |-> 0]
  /\ run = [r \in Run |-> NewRun]
  /\ signed = {}

At(r, s) == run[r].step = s
Becomes(r, s) == run' = [run EXCEPT ![r].step = s]

(* The process ends, and its server and messages with it.                  *)
Ends(r, s) ==
  /\ run' = [run EXCEPT ![r] = [NewRun EXCEPT !.step = s]]
  /\ issued' = [issued EXCEPT ![r] = <<>>]
  /\ open' = [open EXCEPT ![r] = {}]
  /\ expired' = [expired EXCEPT ![r] = 0]

(* The address a run presents its records for.                             *)
Claimed(r) == issued[r][run[r].message]

-----------------------------------------------------------------------------
(* connectWallet: the page and the local server.                           *)

(* GET /sign-payload: the message replaces the one that was issued for the *)
(* same address before.                                                    *)
SignPayload(r, address) ==
  /\ At(r, "serving")
  /\ Len(issued[r]) < MaxMessages
  /\ issued' = [issued EXCEPT ![r] = Append(@, address)]
  /\ open' = [open EXCEPT ![r] = @ \cup {Len(issued[r]) + 1}]
  /\ UNCHANGED <<entries, reader, mask, expired, run, signed>>

(* The tab is closed, or its account changes before the wallet has signed. *)
Cancelled(r, n) ==
  /\ n \in open[r]
  /\ open' = [open EXCEPT ![r] = @ \ {n}]
  /\ UNCHANGED <<entries, reader, mask, issued, expired, run, signed>>

Current(r, n) == \A m \in DOMAIN issued[r] : m > n => issued[r][m] # issued[r][n]

(* POST /sign-result: the message must be the one that was issued last for *)
(* its address; whose signature it is nobody looks at here.  Later posts   *)
(* change nothing.                                                         *)
SignResult(r, n, signer) ==
  /\ At(r, "serving")
  /\ n \in open[r]
  /\ signed' = signed \cup ({signer} \cap {issued[r][n]})
  /\ \/ Current(r, n)
          /\ run' = [run EXCEPT ![r] = [@ EXCEPT !.step = "checking", !.message = n,
                                                 !.signer = signer]]
          /\ open' = [open EXCEPT ![r] = {}]
     \/ ~Current(r, n)
          /\ open' = [open EXCEPT ![r] = @ \ {n}]
          /\ UNCHANGED run
  /\ UNCHANGED <<entries, reader, mask, issued, expired>>

(* A request that cannot be read rejects the sign-in.                      *)
SignInFails(r) ==
  /\ At(r, "serving")
  /\ Ends(r, "failed")
  /\ UNCHANGED <<entries, reader, mask, signed>>

(* SIWE_EXPIRY_MS pass since a message was issued.                         *)
Expire(r) ==
  /\ expired[r] < Len(issued[r])
  /\ expired' = [expired EXCEPT ![r] = @ + 1]
  /\ UNCHANGED <<entries, reader, mask, issued, open, run, signed>>

-----------------------------------------------------------------------------
(* main: check the key, present the records, submit, ask again.            *)

Prepare(r) ==
  /\ At(r, "checking")
  /\ \/ Becomes(r, "answering") /\ UNCHANGED page
     \/ Ends(r, "failed")
  /\ UNCHANGED <<entries, reader, mask, signed>>

(* applyCorruption: what the records presented deserve.                    *)
Presented(r) == expectedVerdicts(mask[Claimed(r)])

collectAnswers(r) ==
  /\ At(r, "answering")
  /\ \E answers \in [Records -> Verdict] :
       run' = [run EXCEPT ![r] = [@ EXCEPT !.step = "submitting", !.answers = answers]]
  /\ UNCHANGED <<entries, reader, mask, page, signed>>

Expired(r) == run[r].message <= expired[r]

(* Mutant: recovers the signer and does not compare it.                    *)
recoveredOnly(r) == TRUE

verifySiwePersonalSig(r) == run[r].signer = Claimed(r)

Refused(r) == Expired(r) \/ ~verifySiwePersonalSig(r)

Graded(r) == scoreAnswers(expectedVerdicts(mask[run[r].signer]), run[r].answers)

Stored(r) ==
  IF Graded(r) >= RECORD_THRESHOLD THEN Record(run[r].signer, Graded(r)) ELSE UNCHANGED entries

(* POST /api/submit and the tool's reply to it.                            *)
SubmitAnswers(r) ==
  /\ At(r, "submitting")
  /\ ~Refused(r)
  /\ Stored(r)
  /\ run' = [run EXCEPT ![r] = [@ EXCEPT !.step = "asking", !.score = Graded(r)]]
  /\ UNCHANGED <<reader, mask, page, signed>>

(* 400, 401, or 503 when the score could not be stored; or the reply is    *)
(* lost after it was.  The tool ends on every one of them.                 *)
SubmitFails(r) ==
  /\ At(r, "submitting")
  /\ \/ UNCHANGED entries
     \/ ~Refused(r) /\ Stored(r)
  /\ Ends(r, "failed")
  /\ UNCHANGED <<reader, mask, signed>>

(* Mutant: asks until the run is perfect.                                  *)
AskForEver(r) ==
  /\ At(r, "asking")
  /\ run' = [run EXCEPT ![r] = [@ EXCEPT !.step = "answering", !.answers = NoAnswers,
                                         !.score = 0, !.attempt = run[r].attempt + 1]]
  /\ UNCHANGED <<entries, reader, mask, page, signed>>

(* A perfect run is over, as is one that has used up its attempts; after   *)
(* any other the participant decides.                                      *)
AskAgain(r) ==
  /\ At(r, "asking")
  /\ \/ run[r].score # RECORD_COUNT /\ run[r].attempt < MAX_RETRIES
          /\ run' = [run EXCEPT ![r] = [@ EXCEPT !.step = "answering", !.answers = NoAnswers,
                                                 !.score = 0, !.attempt = run[r].attempt + 1]]
          /\ UNCHANGED page
     \/ Ends(r, "done")
  /\ UNCHANGED <<entries, reader, mask, signed>>

(* The tool is started again.                                              *)
RunAgain(r) ==
  /\ run[r].step \in {"done", "failed"}
  /\ Becomes(r, "serving")
  /\ UNCHANGED <<entries, reader, mask, page, signed>>

-----------------------------------------------------------------------------
ChallengeNext ==
  \E r \in Run :
    \/ \E a \in Address : SignPayload(r, a)
    \/ \E n \in 1..MaxMessages : Cancelled(r, n)
    \/ \E n \in 1..MaxMessages, signer \in Address : SignResult(r, n, signer)
    \/ SignInFails(r) \/ Expire(r) \/ Prepare(r) \/ collectAnswers(r)
    \/ SubmitAnswers(r) \/ SubmitFails(r) \/ AskAgain(r) \/ RunAgain(r)

ChallengeSpec == ChallengeInit /\ [][ChallengeNext]_<<vars, challenge>>

-----------------------------------------------------------------------------
(* Properties.                                                             *)

TypeOK ==
  /\ \A i \in DOMAIN docs : docs[i] \in [address : Address, score : Score \cup {NoScore}]
  /\ mask \in [Address -> [Records -> ToSet(CORRUPTION_STATES)]]
  /\ \A r \in Run :
       /\ Len(issued[r]) <= MaxMessages /\ ToSet(issued[r]) \subseteq Address
       /\ open[r] \subseteq DOMAIN issued[r]
       /\ expired[r] \in 0..Len(issued[r])
       /\ run[r].step \in Steps
       /\ run[r].message \in 0..Len(issued[r])
       /\ run[r].attempt \in 1..MAX_RETRIES
       /\ run[r].score \in 0..RECORD_COUNT
  /\ signed \subseteq Address

(* Nobody is listed who has not signed a message with the own address,     *)
(* however many tabs were open and whichever account the wallet used.      *)
ListedHaveSigned == \A i \in DOMAIN docs : docs[i].address \in signed \cup Legacy

(* The tool and the API derive the corruption from two addresses: the      *)
(* score is the number of records judged as they were presented.           *)
GradedAsPresented ==
  \A r \in Run : At(r, "asking") => run[r].score = scoreAnswers(Presented(r), run[r].answers)

(* corruption.ts:34, "at least one of every state": who gives all records  *)
(* the same verdict is never told that the run was perfect.                *)
NoBlindPerfection ==
  \A r \in Run : At(r, "asking") /\ run[r].score = RECORD_COUNT =>
    \A v \in Verdict : v \in ToSet(run[r].answers)

(* What a run reports as recorded is listed, and not with less: an answer  *)
(* that was lost, a graded attempt that was not stored and a weaker later  *)
(* one included.                                                           *)
ReportedIsListed ==
  \A r \in Run : At(r, "asking") /\ run[r].score >= RECORD_THRESHOLD =>
    \E i \in DOMAIN docs : docs[i].address = Claimed(r) /\ Shown(i) >= run[r].score

(* An address is listed with the best it has submitted, whichever runs     *)
(* submitted it; with more only as long as it is listed from before scores *)
(* were stored (see Due).                                                  *)
RecordedIsBest == ListedIsBest /\ ReportedIsListed
=============================================================================
