------------------------------- MODULE PrimusFlow -------------------------------
(***************************************************************************)
(* What a zkTLS worker does with its task: the Primus flow (on-chain       *)
(* submission, attestation in a child process, verification, guard), the   *)
(* checkpoint that lets a later job resume it, the capacity policy of the  *)
(* task contract and the defer budget.                                     *)
(*                                                                         *)
(* PipelineStage says when a task is attempted and how its outcome reaches *)
(* the queue; here a task is open, parked (DEFERRED), failed or done, and  *)
(* the one worker of the stage takes open tasks.  A submission costs money *)
(* and a slot of the contract until it is attested or, timed out,          *)
(* withdrawn; every await of the flow is a point where the daemon may      *)
(* crash, an RPC may fail or a timeout may pass.                           *)
(***************************************************************************)
EXTENDS Naturals, FiniteSets

CONSTANTS
  Task,            \* zkTLS tasks
  Sub,             \* submission identities; bound: one is reused once forgotten
  MaxAttempts,     \* ATTEST_MAX_ATTEMPTS, 3 in processor.ts
  MaxDefers,       \* MAX_DEFERS, 50 in errors.ts
  MaxUnsettled,    \* maxUnsettledTaskCount of the contract
  MinReclaimBatch, \* MIN_RECLAIM_BATCH, 80 in capacity.ts
  SharedAccount,   \* whether somebody else submits for the same account
  None

ASSUME NamesAssumption == None \notin Task \cup Sub
ASSUME LimitsAssumption ==
  /\ MaxAttempts \in Nat \ {0} /\ MaxDefers \in Nat
  /\ MaxUnsettled \in Nat \ {0} /\ MinReclaimBatch \in Nat \ {0}
  /\ SharedAccount \in BOOLEAN

(* Bound: deferCount is only compared with MaxDefers.                      *)
CountCeiling == MaxDefers + 1

Reasons == {"none", "capacity", "rpc", "guard", "unresponsive", "transient", "transport", "error"}
ErrorClass == {"permanent", "transient", "unknown"}
Steps == {"idle", "check", "read", "evaluate", "withdraw", "recheck", "submit",
          "saveSubmit", "attest", "clear", "saveAttest", "verify", "validate", "guard"}

VARIABLES
  status,      \* open, parked, failed or done
  reason,      \* why the last attempt ended as it did, until it submits
  deferCount,  \* Task.deferCount
  checkpoint,  \* Task.primus
  job,         \* the worker: its task and where in the flow it is
  child,       \* the process that attests: none, working, its report, or gone without one
  chain,       \* the contract: unused, open, settled or withdrawn
  age,         \* fresh; timed out for the contract; stale for the daemon too
  excuse,      \* history: a reason to pay again since the last submission
  errorDefers  \* history: defers for an error, a silent child's excepted

task == <<status, reason, deferCount, checkpoint>>
contract == <<chain, age>>
history == <<excuse, errorDefers>>
vars == <<task, job, child, contract, history>>

SubOrNone == Sub \cup {None}
Checkpoint == [submit : SubOrNone, attest : SubOrNone]
NoCheckpoint == [submit |-> None, attest |-> None]
Job == [task : Task \cup {None}, step : Steps, attempt : 1..MaxAttempts, tries : 1..2,
        submit : SubOrNone, attest : SubOrNone, count : 0..CountCeiling]
NoJob == [task |-> None, step |-> "idle", attempt |-> 1, tries |-> 1,
          submit |-> None, attest |-> None, count |-> 0]

ChildErrors == {"transport", "failed"}
ChildStates == {"none", "working", "attested", "gone"} \cup ChildErrors

TypeOK ==
  /\ status \in [Task -> {"open", "parked", "failed", "done"}]
  /\ reason \in [Task -> Reasons]
  /\ deferCount \in [Task -> 0..CountCeiling]
  /\ checkpoint \in [Task -> Checkpoint]
  /\ job \in Job
  /\ child \in ChildStates
  /\ chain \in [Sub -> {"unused", "open", "settled", "withdrawn"}]
  /\ age \in [Sub -> {"fresh", "expired", "stale"}]
  /\ excuse \subseteq Task
  /\ errorDefers \in [Task -> 0..CountCeiling]

Init ==
  /\ status = [t \in Task |-> "parked"]
  /\ reason = [t \in Task |-> "none"]
  /\ deferCount = [t \in Task |-> 0]
  /\ checkpoint = [t \in Task |-> NoCheckpoint]
  /\ job = NoJob
  /\ child = "none"
  /\ chain = [k \in Sub |-> "unused"]
  /\ age = [k \in Sub |-> "fresh"]
  /\ excuse = Task
  /\ errorDefers = [t \in Task |-> 0]

-----------------------------------------------------------------------------
At(s) == job.step = s
Goto(s) == job' = [job EXCEPT !.step = s]

Unsettled == {k \in Sub : chain[k] = "open"}
TimedOut == {k \in Unsettled : age[k] # "fresh"}
FreeSlots == MaxUnsettled - Cardinality(Unsettled)
Known == {job.submit, job.attest}
           \cup UNION {{checkpoint[t].submit, checkpoint[t].attest} : t \in Task}
Unused == Sub \ (Unsettled \cup Known)

(* Identities that nobody refers to any more are free again.               *)
Forget(K) ==
  /\ chain' = [k \in Sub |-> IF k \in K THEN "unused" ELSE chain[k]]
  /\ age' = [k \in Sub |-> IF k \in K THEN "fresh" ELSE age[k]]

(* Mutant: a defer writes back the count it read.                          *)
recordUncounted(s, r, consumesDeferBudget) ==
  LET t == job.task IN
  /\ status' = [status EXCEPT ![t] = s]
  /\ reason' = [reason EXCEPT ![t] = r]
  /\ deferCount' = [deferCount EXCEPT ![t] = job.count]
  /\ job' = NoJob

(* recordOutcome, and the end of the job.  The count written is the one    *)
(* read when the job began.                                                *)
recordOutcome(s, r, consumesDeferBudget) ==
  LET t == job.task IN
  /\ status' = [status EXCEPT ![t] = s]
  /\ reason' = [reason EXCEPT ![t] = r]
  /\ deferCount' = IF s = "parked" /\ consumesDeferBudget /\ job.count < CountCeiling
                   THEN [deferCount EXCEPT ![t] = job.count + 1] ELSE deferCount
  /\ job' = NoJob

(* The decision on a thrown error: permanent failures first, a child that  *)
(* did not report is exempt from the cap, then the cap.                    *)
Deferrable == {"transient", "transport"}

decideZkTLSError(class) ==
  CASE class \in {"permanent", "unknown"} -> recordOutcome("failed", "error", FALSE)
    [] class = "child" -> recordOutcome("parked", "unresponsive", FALSE)
    [] class \in Deferrable /\ job.count < MaxDefers -> recordOutcome("parked", class, TRUE)
    [] class \in Deferrable /\ job.count >= MaxDefers -> recordOutcome("failed", "error", FALSE)

CountErrorDefer(happened) ==
  errorDefers' = IF happened /\ errorDefers[job.task] < CountCeiling
                 THEN [errorDefers EXCEPT ![job.task] = @ + 1] ELSE errorDefers

Charge(class) ==
  CountErrorDefer(class \in Deferrable /\ job.count < MaxDefers)

Excused(t) == excuse' = excuse \cup {t}

(* deferFromSnapshot and primus_capacity_retry.                            *)
CapacityDefer == recordOutcome("parked", "capacity", TRUE)

-----------------------------------------------------------------------------
(* The stage around the worker.                                            *)

Wake(t) ==
  /\ status[t] = "parked"
  /\ status' = [status EXCEPT ![t] = "open"]
  /\ UNCHANGED <<child, reason, deferCount, checkpoint, job, contract, history>>

Begin(t) ==
  /\ At("idle")
  /\ status[t] = "open"
  /\ job' = [NoJob EXCEPT !.task = t, !.step = "check", !.count = deferCount[t]]
  /\ Forget(Unused)
  /\ UNCHANGED <<child, task, history>>

RetryFailed(t) ==
  /\ status[t] = "failed"
  /\ status' = [status EXCEPT ![t] = "open"]
  /\ UNCHANGED <<child, reason, deferCount, checkpoint, job, contract, history>>

(* The task stays open, the child dies with the container.  Between        *)
(* tx.wait and the checkpoint the submission is lost.                      *)
Crash ==
  /\ ~At("idle")
  /\ job' = NoJob
  /\ child' = "none"
  /\ IF At("saveSubmit") THEN Excused(job.task) ELSE UNCHANGED excuse
  /\ UNCHANGED <<task, contract, errorDefers>>

(* taskTimeout passes, for the contract since the block, for the daemon    *)
(* since the receipt.                                                      *)
GrowOld(k) ==
  /\ k \in Unsettled \cup Known
  /\ \/ age[k] = "fresh" /\ age' = [age EXCEPT ![k] = "expired"] /\ UNCHANGED excuse
     \/ /\ age[k] = "expired"
        /\ age' = [age EXCEPT ![k] = "stale"]
        /\ excuse' = excuse \cup {t \in Task : checkpoint[t].submit = k}
                           \cup (IF job.submit = k THEN {job.task} ELSE {})
  /\ UNCHANGED <<child, task, job, chain, errorDefers>>

OpenSubmission(k) ==
  /\ chain' = [chain EXCEPT ![k] = "open"]
  /\ age' = [age EXCEPT ![k] = "fresh"]

(* Another submission for the same account.                                *)
OtherSubmit ==
  /\ SharedAccount
  /\ FreeSlots > 0
  /\ \E k \in Unused : OpenSubmission(k)
  /\ UNCHANGED <<child, task, job, history>>

(* withdrawBalance, from the worker or from the operator's script.         *)
withdrawTimedOut ==
  chain' = [k \in Sub |-> IF k \in TimedOut THEN "withdrawn" ELSE chain[k]]

reclaimTimedOutTasks ==
  /\ TimedOut # {}
  /\ withdrawTimedOut
  /\ UNCHANGED <<child, task, job, age, history>>

-----------------------------------------------------------------------------
(* The flow.                                                               *)

(* rejectIfBeyondCircuitCapacity and taskTimeoutMs.                        *)
Checked ==
  /\ At("check")
  /\ Goto("read")
  /\ UNCHANGED <<child, task, contract, history>>

(* One iteration starts from the checkpoint in the database, if fresh.     *)
ReadCheckpoint ==
  LET c == checkpoint[job.task]
      fresh == c.submit # None /\ age[c.submit] # "stale"
  IN /\ At("read")
     /\ job' = IF fresh
               THEN [job EXCEPT !.submit = c.submit, !.attest = c.attest,
                                !.step = IF c.attest = None THEN "attest" ELSE "verify"]
               ELSE [job EXCEPT !.submit = None, !.attest = None, !.tries = 1,
                                !.step = "evaluate"]
     /\ UNCHANGED <<child, task, contract, history>>

(* Mutant: reclaims only when more than the batch has timed out.           *)
evaluateAbove ==
  /\ At("evaluate")
  /\ \/ FreeSlots > 0 /\ Goto("submit") /\ UNCHANGED task
     \/ FreeSlots <= 0 /\ Cardinality(TimedOut) > MinReclaimBatch
          /\ Goto("withdraw") /\ UNCHANGED task
     \/ FreeSlots <= 0 /\ Cardinality(TimedOut) <= MinReclaimBatch
          /\ CapacityDefer /\ UNCHANGED checkpoint
  /\ UNCHANGED <<child, contract, history>>

(* decideAction on the contract's snapshot.                                *)
evaluate ==
  /\ At("evaluate")
  /\ \/ FreeSlots > 0 /\ Goto("submit") /\ UNCHANGED task
     \/ FreeSlots <= 0 /\ Cardinality(TimedOut) >= MinReclaimBatch
          /\ Goto("withdraw") /\ UNCHANGED task
     \/ FreeSlots <= 0 /\ Cardinality(TimedOut) < MinReclaimBatch
          /\ CapacityDefer /\ UNCHANGED checkpoint
  /\ UNCHANGED <<child, contract, history>>

Withdraw ==
  /\ At("withdraw")
  /\ withdrawTimedOut
  /\ Goto("recheck")
  /\ UNCHANGED <<child, task, age, history>>

Recheck ==
  /\ At("recheck")
  /\ \/ FreeSlots > 0 /\ Goto("submit") /\ UNCHANGED task
     \/ FreeSlots <= 0 /\ CapacityDefer /\ UNCHANGED checkpoint
  /\ UNCHANGED <<child, contract, history>>

(* An RPC of the evaluation fails; a withdrawal may be mined all the same. *)
EvaluateFails ==
  /\ At("evaluate") \/ At("withdraw") \/ At("recheck")
  /\ recordOutcome("parked", "rpc", TRUE)
  /\ CountErrorDefer(TRUE)
  /\ \/ UNCHANGED chain
     \/ At("withdraw") /\ withdrawTimedOut
  /\ UNCHANGED <<child, checkpoint, age, excuse>>

(* submitTask is mined; the receipt arrives, or does not.                  *)
submitPrimusTaskRaw ==
  LET t == job.task IN
  /\ At("submit")
  /\ FreeSlots > 0
  /\ \E k \in Unused :
       /\ OpenSubmission(k)
       /\ \/ /\ job' = [job EXCEPT !.submit = k, !.step = "saveSubmit"]
             /\ reason' = [reason EXCEPT ![t] = "none"]
             /\ excuse' = excuse \ {t}
             /\ UNCHANGED <<status, deferCount, errorDefers>>
          \/ /\ \E c \in {"transient", "unknown"} : decideZkTLSError(c) /\ Charge(c)
             /\ Excused(t)
  /\ UNCHANGED <<child, checkpoint>>

(* A refused submission counts as a full contract when nothing is free, or *)
(* when the view call that would tell fails.                               *)
CapacityExhausted(viewFails) == FreeSlots <= 0 \/ viewFails

(* One more evaluation, then a short defer.                                *)
SubmitRefused(viewFails) ==
  /\ At("submit")
  /\ CapacityExhausted(viewFails)
  /\ \/ /\ job.tries = 1
        /\ job' = [job EXCEPT !.tries = 2, !.step = "evaluate"]
        /\ UNCHANGED task
     \/ job.tries = 2 /\ CapacityDefer /\ UNCHANGED checkpoint
  /\ UNCHANGED <<child, contract, history>>

(* submitTask is refused for another reason and the view call fails.       *)
SubmitUnclear == FreeSlots > 0 /\ SubmitRefused(TRUE)

(* Mutant: merges into the field, so an older attestation stays.           *)
mergePrimusCheckpoint(s, a) ==
  checkpoint' = [checkpoint EXCEPT
    ![job.task] = [submit |-> s, attest |-> IF a = None THEN @.attest ELSE a]]

(* setPrimusCheckpoint replaces the whole field.                           *)
setPrimusCheckpoint(s, a) ==
  checkpoint' = [checkpoint EXCEPT ![job.task] = [submit |-> s, attest |-> a]]

(* Mutant: the submission is checkpointed only with its attestation.       *)
SaveSubmitNever ==
  /\ At("saveSubmit")
  /\ Goto("attest")
  /\ UNCHANGED <<child, task, contract, history>>

SaveSubmit ==
  /\ At("saveSubmit")
  /\ setPrimusCheckpoint(job.submit, None)
  /\ Goto("attest")
  /\ UNCHANGED <<child, status, reason, deferCount, contract, history>>

(* runAttestationInChild: the child is forked and sent its request.        *)
StartChild ==
  /\ At("attest") /\ child = "none"
  /\ child' = "working"
  /\ UNCHANGED <<task, job, contract, history>>

(* The child works by itself: the contract settles its submission; it      *)
(* reports once; or it exits, or is made to, without a report.  It may     *)
(* hang before each.                                                       *)
ChildStep ==
  /\ child = "working"
  /\ \/ chain[job.submit] = "open"
          /\ chain' = [chain EXCEPT ![job.submit] = "settled"] /\ UNCHANGED child
     \/ chain[job.submit] = "settled" /\ child' = "attested" /\ UNCHANGED chain
     \/ child' \in ChildErrors /\ UNCHANGED chain
     \/ child' = "gone" /\ UNCHANGED chain
  /\ UNCHANGED <<task, job, age, history>>

(* The first event of the child settles the attestation; what it reported  *)
(* but was not read is lost with it.                                       *)
settle == child' = "none"

(* The message of a child that attested.                                   *)
Attested ==
  /\ At("attest") /\ child = "attested"
  /\ settle
  /\ job' = [job EXCEPT !.attest = job.submit, !.step = "saveAttest"]
  /\ UNCHANGED <<task, contract, history>>

(* Mutant: one attempt too many.                                           *)
AttestorTransportAgain ==
  /\ At("attest") /\ child = "transport"
  /\ settle
  /\ Goto("clear")
  /\ Excused(job.task)
  /\ UNCHANGED <<task, errorDefers, contract>>

(* The attestor's transport failed: while attempts remain, the checkpoint  *)
(* is dropped so that the next submission gets another attestor.           *)
AttestorTransport ==
  /\ At("attest") /\ child = "transport"
  /\ settle
  /\ \/ job.attempt < MaxAttempts /\ Goto("clear") /\ Excused(job.task)
          /\ UNCHANGED <<task, errorDefers>>
     \/ job.attempt = MaxAttempts /\ decideZkTLSError("transport") /\ Charge("transport")
          /\ UNCHANGED <<checkpoint, excuse>>
  /\ UNCHANGED contract

(* The message of a child whose attestation failed for another reason.     *)
AttestFails(class) ==
  /\ At("attest") /\ child = "failed"
  /\ settle
  /\ decideZkTLSError(class)
  /\ Charge(class)
  /\ UNCHANGED <<checkpoint, excuse, contract>>

ChildSilent ==
  /\ settle
  /\ decideZkTLSError("child")
  /\ UNCHANGED <<checkpoint, contract, history>>

(* The child exits without a report, or never starts.                      *)
ChildExits ==
  /\ At("attest") /\ child \in {"none", "gone"}
  /\ ChildSilent

(* Mutant: the time is limited until the child has taken the request.      *)
ChildStartTimesOut ==
  /\ At("attest") /\ child = "none"
  /\ ChildSilent

(* ATTEST_CHILD_TIMEOUT_MS pass: the child is killed, whatever it does and *)
(* even if its report is on the way.                                       *)
ChildTimesOut ==
  /\ At("attest") /\ child # "none"
  /\ ChildSilent

Clear ==
  /\ At("clear")
  /\ setPrimusCheckpoint(None, None)
  /\ job' = [job EXCEPT !.attempt = @ + 1, !.submit = None, !.step = "read"]
  /\ UNCHANGED <<child, status, reason, deferCount, contract, history>>

SaveAttest ==
  /\ At("saveAttest")
  /\ setPrimusCheckpoint(job.submit, job.attest)
  /\ Goto("verify")
  /\ UNCHANGED <<child, status, reason, deferCount, contract, history>>

(* verifyPrimusTask reads the attested result from the contract.           *)
Verified ==
  /\ At("verify")
  /\ chain[job.submit] = "settled"
  /\ Goto("validate")
  /\ UNCHANGED <<child, task, contract, history>>

(* validateAttestedFills: the body fetched now matches what was attested,  *)
(* and the transaction completes the task and drops the checkpoint.        *)
Validated ==
  /\ At("validate")
  /\ recordOutcome("done", "none", FALSE)
  /\ setPrimusCheckpoint(None, None)
  /\ UNCHANGED <<child, contract, history>>

GuardFails ==
  /\ At("validate")
  /\ Goto("guard")
  /\ Excused(job.task)
  /\ UNCHANGED <<child, task, contract, errorDefers>>

(* deferAfterGuardFailure; its decision does not pass decideZkTLSError.    *)
deferAfterGuardFailure ==
  /\ At("guard")
  /\ setPrimusCheckpoint(None, None)
  /\ recordOutcome("parked", "guard", TRUE)
  /\ CountErrorDefer(TRUE)
  /\ UNCHANGED <<child, contract, excuse>>

(* Any other awaited call of the flow throws.                              *)
Throw(class) ==
  /\ job.step \notin {"idle", "evaluate", "withdraw", "recheck", "attest"}
  /\ decideZkTLSError(class)
  /\ Charge(class)
  /\ IF At("saveSubmit") THEN Excused(job.task) ELSE UNCHANGED excuse
  /\ UNCHANGED <<checkpoint, child, contract>>

(* The completion transaction aborts: nothing catches it, the job fails.   *)
CommitFails ==
  /\ At("validate")
  /\ recordOutcome("failed", "error", FALSE)
  /\ UNCHANGED <<child, checkpoint, contract, history>>

-----------------------------------------------------------------------------
FlowStep ==
  \/ Checked \/ ReadCheckpoint \/ evaluate \/ Withdraw \/ Recheck
  \/ submitPrimusTaskRaw \/ SaveSubmit
  \/ \E viewFails \in BOOLEAN : SubmitRefused(viewFails)
  \/ StartChild \/ Attested \/ AttestorTransport \/ ChildExits \/ ChildTimesOut
  \/ Clear \/ SaveAttest
  \/ Verified \/ Validated \/ GuardFails \/ deferAfterGuardFailure \/ CommitFails
  \/ \E c \in ErrorClass : Throw(c) \/ AttestFails(c)

Next ==
  \/ \E t \in Task : Wake(t) \/ Begin(t) \/ RetryFailed(t)
  \/ \E k \in Sub : GrowOld(k)
  \/ Crash
  \/ ChildStep
  \/ OtherSubmit
  \/ reclaimTimedOutTasks
  \/ EvaluateFails
  \/ FlowStep

Spec == Init /\ [][Next]_vars

(* Time passes, parked tasks are woken, the worker takes every open task   *)
(* and its flow goes on.  Nothing has to fail.                             *)
FairSpec ==
  /\ Spec
  /\ \A t \in Task : WF_vars(Wake(t)) /\ SF_vars(Begin(t))
  /\ \A k \in Sub : WF_vars(GrowOld(k))
  /\ WF_vars(FlowStep)

-----------------------------------------------------------------------------
(* Properties.                                                             *)

(* A task pays for a submission only with a reason: its first one, its     *)
(* last timed out, lost its attestor, failed the guard, or was never       *)
(* recorded because the daemon or the call died after it was sent.  In     *)
(* particular a crash, a silent attestation child or a retry resumes from  *)
(* the checkpoint "so the retry costs no gas" (README.md:60).              *)
PaidOnce ==
  job.step \in {"evaluate", "withdraw", "recheck", "submit"} => job.task \in excuse

(* The attestation a task resumes with is the one of the submission it     *)
(* resumes with; what is about to be verified is what a crash would resume *)
(* with.                                                                   *)
AttestationFitsSubmission ==
  /\ \A t \in Task : checkpoint[t].attest \in {None, checkpoint[t].submit}
  /\ job.step \in {"saveAttest", "verify", "validate"} => job.attest = job.submit
  /\ job.step \in {"verify", "validate"} =>
       checkpoint[job.task] = [submit |-> job.submit, attest |-> job.attest]

(* What may park a task beyond the cap: waiting for capacity, a failed     *)
(* call of the capacity evaluation, a failed guard, a silent child.        *)
BeyondCap == {"capacity", "rpc", "guard", "unresponsive"}

(* The defer budget over crashes, retries and jobs that end in between:    *)
(* the task's count holds every defer for an error except those of a child *)
(* that did not report, which are neither counted nor capped               *)
(* (errors.ts:288-295); and a task that is parked with more than MaxDefers *)
(* in its count is parked for one of BeyondCap.  The count holds defers    *)
(* for capacity too, so that a task may fail at the cap with fewer defers  *)
(* for errors than errors.ts:297-300 says.                                 *)
DefersBudgeted ==
  \A t \in Task :
    /\ errorDefers[t] <= deferCount[t]
    /\ status[t] = "parked" /\ deferCount[t] > MaxDefers => reason[t] \in BeyondCap

(* A full contract does not block the stage for ever: once RPCs answer,    *)
(* submissions are refused for want of slots only and nobody else takes    *)
(* the slots, a task that waits for capacity submits (or fails for another *)
(* reason).                                                                *)
CapacityReturns ==
  <>[][~(Crash \/ OtherSubmit \/ EvaluateFails \/ SubmitUnclear)]_vars =>
    \A t \in Task : reason[t] \in {"capacity", "rpc"} ~> reason[t] \notin {"capacity", "rpc"}

(* attest-runner.ts:16, "a wedged attestation costs one attempt": whatever *)
(* the child does, and when, the worker is not left waiting for it.        *)
AttestationEnds == At("attest") ~> ~At("attest")
=============================================================================
