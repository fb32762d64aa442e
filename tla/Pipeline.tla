-------------------------------- MODULE Pipeline --------------------------------
(***************************************************************************)
(* The chain zkTLS -> noir -> zkVerify of one daemon: the task documents   *)
(* of every window and what each carries for the next stage (the circuit   *)
(* input on a noir task, the proof artifacts on its result), the           *)
(* transactions that hand a window over, the verification records and the  *)
(* submissions to the zkVerify chain.                                      *)
(*                                                                         *)
(* Each stage is taken at the level of TaskPromise, which PipelineStage    *)
(* implements: an open task is attempted and parked, failed or done.  Lose *)
(* is the one thing a stage that is not reliable may do to a done task.    *)
(***************************************************************************)
EXTENDS Naturals, Sequences, FiniteSets

CONSTANTS
  Window,      \* attestation windows
  MaxDocs,     \* bound: task documents
  MaxLost,     \* bound: completions an unreliable stage loses
  MaxChain     \* bound: submissions counted per zkVerify task

ASSUME BoundsAssumption == MaxDocs \in Nat /\ MaxLost \in Nat /\ MaxChain \in Nat \ {0}

Stage == {"zkTLS", "noir", "zkVerify"}
Phase == {"open", "parked", "failed", "done"}

VARIABLES
  docs,     \* the task collection, in order of creation
  working,  \* the job each stage's worker is on
  records,  \* zkVerify tasks that have a verification record
  chain,    \* submissions to zkVerify per document
  lost      \* documents whose completion was overwritten

vars == <<docs, working, records, chain, lost>>

Id == 1..Len(docs)
Doc == [stage : Stage, window : Window, parent : 0..MaxDocs, phase : Phase,
        input : BOOLEAN, result : BOOLEAN]
Idle == [doc |-> 0, step |-> "idle", payload |-> FALSE]
Job == [doc : 0..MaxDocs, step : {"idle", "begun", "ready"}, payload : BOOLEAN]

TypeOK ==
  /\ docs \in Seq(Doc) /\ Len(docs) <= MaxDocs
  /\ working \in [Stage -> Job]
  /\ records \subseteq Id
  /\ chain \in [1..MaxDocs -> 0..MaxChain]
  /\ lost \subseteq Id

Init ==
  /\ docs = <<>>
  /\ working = [s \in Stage |-> Idle]
  /\ records = {}
  /\ chain = [d \in 1..MaxDocs |-> 0]
  /\ lost = {}

-----------------------------------------------------------------------------
(* Mutant: created without a status.                                       *)
NewDocWithoutStatus(stage, w, parent) ==
  [stage |-> stage, window |-> w, parent |-> parent, phase |-> "undefined",
   input |-> TRUE, result |-> FALSE]

NewDoc(stage, w, parent) ==
  [stage |-> stage, window |-> w, parent |-> parent, phase |-> "open",
   input |-> TRUE, result |-> FALSE]

(* The scheduler upserts one zkTLS task per window, deferred until the     *)
(* window has settled; the unique index refuses a second one.              *)
ensureZkTLSTask(w) ==
  /\ Len(docs) < MaxDocs
  /\ \A d \in Id : ~(docs[d].stage = "zkTLS" /\ docs[d].window = w)
  /\ docs' = Append(docs, [NewDoc("zkTLS", w, 0) EXCEPT !.phase = "parked"])
  /\ UNCHANGED <<working, records, chain, lost>>

Wake(d) ==
  /\ docs[d].phase = "parked"
  /\ docs' = [docs EXCEPT ![d].phase = "open"]
  /\ UNCHANGED <<working, records, chain, lost>>

(* RUNNING is written; like every status but COMPLETED it clears the       *)
(* result.  The job carries the input the master read; for a task whose    *)
(* completion was lost that may be the input from before the completion.   *)
Begin(d) ==
  LET s == docs[d].stage IN
  /\ docs[d].phase = "open"
  /\ working[s] = Idle
  /\ \E p \in {docs[d].input} \cup (IF d \in lost THEN {TRUE} ELSE {}) :
       working' = [working EXCEPT ![s] = [doc |-> d, step |-> "begun", payload |-> p]]
  /\ docs' = [docs EXCEPT ![d].result = FALSE]
  /\ UNCHANGED <<records, chain, lost>>

Ready(s) == working' = [working EXCEPT ![s].step = "ready"]
Done(s) == working' = [working EXCEPT ![s] = Idle]

(* The processor returns: the attested fills became a circuit input, or    *)
(* the proof was generated from a circuit input that parsed.               *)
Process(s) ==
  /\ s \in {"zkTLS", "noir"}
  /\ working[s].step = "begun"
  /\ working[s].payload
  /\ Ready(s)
  /\ UNCHANGED <<docs, records, chain, lost>>

(* Mutant: a session that timed out is taken for a submission.             *)
submitUnconfirmed ==
  LET d == working["zkVerify"].doc IN
  /\ working["zkVerify"].step = "begun"
  /\ docs[docs[d].parent].result
  /\ Ready("zkVerify")
  /\ UNCHANGED <<docs, records, chain, lost>>

(* The proof artifacts are read from the noir task and verified on chain.  *)
runZkVerifyProcessor ==
  LET d == working["zkVerify"].doc IN
  /\ working["zkVerify"].step = "begun"
  /\ docs[docs[d].parent].result
  /\ chain[d] < MaxChain
  /\ chain' = [chain EXCEPT ![d] = @ + 1]
  /\ Ready("zkVerify")
  /\ UNCHANGED <<docs, records, lost>>

(* Mutant: two writes without a transaction; the second may be missing.    *)
CommitWithoutTransaction ==
  LET d == working["zkTLS"].doc IN
  /\ working["zkTLS"].step = "ready"
  /\ Len(docs) < MaxDocs
  /\ \E p \in {"open", "done"} :
       docs' = Append([docs EXCEPT ![d].phase = p], NewDoc("noir", docs[d].window, d))
  /\ Done("zkTLS")
  /\ UNCHANGED <<records, chain, lost>>

(* The transaction of the zkTLS worker: completed and a noir task created. *)
CommitZkTLS ==
  LET d == working["zkTLS"].doc IN
  /\ working["zkTLS"].step = "ready"
  /\ Len(docs) < MaxDocs
  /\ docs' = Append([docs EXCEPT ![d].phase = "done"], NewDoc("noir", docs[d].window, d))
  /\ Done("zkTLS")
  /\ UNCHANGED <<records, chain, lost>>

(* The transaction of the noir worker: completed with its proof, the       *)
(* circuit input dropped, and a zkVerify task created.                     *)
CommitNoir ==
  LET d == working["noir"].doc IN
  /\ working["noir"].step = "ready"
  /\ Len(docs) < MaxDocs
  /\ docs' = Append([docs EXCEPT ![d].phase = "done", ![d].result = TRUE, ![d].input = FALSE],
                    NewDoc("zkVerify", docs[d].window, d))
  /\ Done("noir")
  /\ UNCHANGED <<records, chain, lost>>

(* Mutant: the record is created, the task is left as it is.               *)
RecordOnly ==
  LET d == working["zkVerify"].doc IN
  /\ working["zkVerify"].step = "ready"
  /\ d \notin records
  /\ records' = records \cup {d}
  /\ Done("zkVerify")
  /\ UNCHANGED <<docs, chain, lost>>

(* The transaction of the zkVerify worker: completed, the record created   *)
(* (its unique index aborts a second one) and the proof dropped.           *)
CommitZkVerify ==
  LET d == working["zkVerify"].doc IN
  /\ working["zkVerify"].step = "ready"
  /\ d \notin records
  /\ records' = records \cup {d}
  /\ docs' = [docs EXCEPT ![d].phase = "done", ![docs[d].parent].result = FALSE]
  /\ Done("zkVerify")
  /\ UNCHANGED <<chain, lost>>

(* An attempt ends without its transaction, at any point: it is retried    *)
(* (open), failed, or for zkTLS deferred.                                  *)
Abort(s) ==
  /\ working[s] # Idle
  /\ \E p \in {"open", "failed"} \cup (IF s = "zkTLS" THEN {"parked"} ELSE {}) :
       docs' = [docs EXCEPT ![working[s].doc].phase = p, ![working[s].doc].result = FALSE]
  /\ Done(s)
  /\ UNCHANGED <<records, chain, lost>>

(* Mutant: the clean-up resets every document's result.                    *)
RestartClearsAll ==
  /\ working' = [s \in Stage |-> Idle]
  /\ docs' = [d \in Id |-> [docs[d] EXCEPT !.result = FALSE]]
  /\ UNCHANGED <<records, chain, lost>>

(* A crash and the clean-up of the next boot.                              *)
Restart ==
  /\ working' = [s \in Stage |-> Idle]
  /\ docs' = [d \in Id |-> IF docs[d].phase = "open" THEN [docs[d] EXCEPT !.result = FALSE]
                                                     ELSE docs[d]]
  /\ UNCHANGED <<records, chain, lost>>

RetryFailed(d) ==
  /\ docs[d].phase = "failed"
  /\ docs' = [docs EXCEPT ![d].phase = "open"]
  /\ UNCHANGED <<working, records, chain, lost>>

(* A late markTaskQueued (which keeps the result) or a late 'failed'       *)
(* handler (which clears it) overwrites COMPLETED.                         *)
Lose(d) ==
  /\ docs[d].phase = "done"
  /\ Cardinality(lost) < MaxLost
  /\ \/ docs' = [docs EXCEPT ![d].phase = "open"]
     \/ \E p \in {"open", "failed"} :
          docs' = [docs EXCEPT ![d].phase = p, ![d].result = FALSE]
  /\ lost' = lost \cup {d}
  /\ UNCHANGED <<working, records, chain>>

Next ==
  \/ \E w \in Window : ensureZkTLSTask(w)
  \/ \E d \in Id : Wake(d)
  \/ \E d \in Id : Begin(d)
  \/ \E s \in Stage : Process(s)
  \/ runZkVerifyProcessor
  \/ CommitZkTLS
  \/ CommitNoir
  \/ CommitZkVerify
  \/ \E s \in Stage : Abort(s)
  \/ Restart
  \/ \E d \in Id : RetryFailed(d)
  \/ \E d \in Id : Lose(d)

Spec == Init /\ [][Next]_vars

-----------------------------------------------------------------------------
(* Properties.                                                             *)

Children(d) == {c \in Id : docs[c].parent = d}
Intact(w) == \A d \in lost : docs[d].window # w

(* What a task needs is there when it is attempted: a noir task that is    *)
(* not done still has its circuit input, a zkVerify task that is not done  *)
(* still has the proof on its noir task, through crashes, aborted          *)
(* attempts and retries.                                                   *)
ArtifactsAvailable ==
  \A d \in Id : Intact(docs[d].window) /\ docs[d].phase # "done" =>
    /\ docs[d].stage = "noir" => docs[d].input
    /\ docs[d].stage = "zkVerify" => docs[docs[d].parent].result

(* A window is handed over exactly once: a stage's task has exactly one    *)
(* successor when it is done and none before, and the last stage has a     *)
(* record exactly when it is done.                                         *)
HandedOverOnce ==
  \A d \in Id : Intact(docs[d].window) =>
    IF docs[d].stage = "zkVerify"
    THEN d \in records <=> docs[d].phase = "done"
    ELSE Cardinality(Children(d)) = IF docs[d].phase = "done" THEN 1 ELSE 0

(* A verification record never exists without a submission to zkVerify,    *)
(* whatever completions were lost.                                         *)
RecordIsOnChain == \A d \in records : chain[d] > 0

(* A record is for ever, and so is the completion of its window: the proof *)
(* of a recorded window is not submitted again.                            *)
NoSubmissionAfterRecord ==
  [][\A d \in records : Intact(docs[d].window) => chain'[d] = chain[d]]_vars
=============================================================================
