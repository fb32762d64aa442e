---------------------------- MODULE PrimusFlowProofs ----------------------------
(***************************************************************************)
(* Proofs about PrimusFlow, for every set of tasks and of submissions and  *)
(* every limit: no submission is paid for without a reason, the checkpoint *)
(* is consistent, and the defer budget counts what it says it counts.      *)
(***************************************************************************)
EXTENDS PrimusFlow, TLAPS

(* A worker with a job holds an open task, whose count nobody else writes. *)
InHand ==
  \/ job = NoJob
  \/ /\ ~At("idle")
     /\ job.task \in Task
     /\ status[job.task] = "open"
     /\ job.count = deferCount[job.task]
     /\ At("clear") => job.attempt < MaxAttempts

(* What the worker holds is paid for and not stale, or there is an excuse; *)
(* and the checkpoint is dropped only with one.                            *)
SubmissionInHand ==
  /\ job.step \in {"saveSubmit", "attest", "saveAttest"} =>
       job.submit \in Sub /\ (age[job.submit] = "stale" => job.task \in excuse)
  /\ job.step \in {"clear", "guard"} => job.task \in excuse

(* A task that may be taken again has a checkpoint to resume from, or an   *)
(* excuse, or its worker is about to write the checkpoint.                 *)
PaidFor ==
  \A t \in Task :
    /\ status[t] # "done"
    /\ checkpoint[t].submit = None \/ age[checkpoint[t].submit] = "stale"
    => t \in excuse \/ (At("saveSubmit") /\ job.task = t)

IInv ==
  /\ TypeOK /\ InHand
  /\ SubmissionInHand /\ PaidFor /\ PaidOnce
  /\ AttestationFitsSubmission
  /\ DefersBudgeted

(* A refused submission, whether the view call that follows answers or not.*)
Refused == \E viewFails \in BOOLEAN : SubmitRefused(viewFails)

USE NamesAssumption, LimitsAssumption DEF NamesAssumption, LimitsAssumption

Classes == ErrorClass \cup {"child", "transport"}

(* Whatever class an error is of, the job ends with the task parked or     *)
(* failed; an error that is charged parks it within the budget.            *)
LEMMA ErrorOutcome ==
  ASSUME NEW class \in Classes, decideZkTLSError(class), job.count \in 0..CountCeiling
  PROVE  \E s \in {"parked", "failed"}, r \in Reasons, b \in BOOLEAN :
           /\ recordOutcome(s, r, b)
           /\ s = "parked" /\ r \notin BeyondCap => b /\ job.count < MaxDefers
           /\ class \in Deferrable /\ job.count < MaxDefers => s = "parked" /\ b
<1> USE DEF Reasons, Deferrable, BeyondCap
<1>0. job.count \in Nat /\ (job.count >= MaxDefers <=> ~(job.count < MaxDefers))
  BY DEF CountCeiling
<1>1. CASE class \in {"permanent", "unknown"}
  <2>1. recordOutcome("failed", "error", FALSE)
    BY <1>1 DEF decideZkTLSError
  <2>2. QED
    BY <2>1, <1>1
<1>2. CASE class = "child"
  <2>1. recordOutcome("parked", "unresponsive", FALSE)
    BY <1>2 DEF decideZkTLSError
  <2>2. QED
    BY <2>1, <1>2
<1>3. CASE class \in Deferrable /\ job.count < MaxDefers
  <2>1. recordOutcome("parked", class, TRUE)
    BY <1>3, <1>0 DEF decideZkTLSError
  <2>2. QED
    BY <2>1, <1>3
<1>4. CASE class \in Deferrable /\ job.count >= MaxDefers
  <2>1. recordOutcome("failed", "error", FALSE)
    BY <1>4, <1>0 DEF decideZkTLSError
  <2>2. QED
    BY <2>1, <1>4, <1>0
<1>6. class \in {"permanent", "child", "transient", "transport", "unknown"}
  BY DEF Classes, ErrorClass
<1>7. QED
  BY <1>0, <1>1, <1>2, <1>3, <1>4, <1>6

(* The end of a job, with whatever outcome.                                *)
Ends == \E s \in {"parked", "failed", "done"}, r \in Reasons, b \in BOOLEAN :
          recordOutcome(s, r, b)

LEMMA EndTypes ==
  ASSUME TypeOK, InHand, ~At("idle"), Ends
  PROVE  /\ status' \in [Task -> {"open", "parked", "failed", "done"}]
         /\ reason' \in [Task -> Reasons]
         /\ deferCount' \in [Task -> 0..CountCeiling]
         /\ job' = NoJob /\ job' \in Job
<1> PICK s \in {"parked", "failed", "done"}, r \in Reasons, b \in BOOLEAN :
      recordOutcome(s, r, b)
  BY DEF Ends
<1>1. job' = NoJob
  BY DEF recordOutcome
<1>2. NoJob \in Job
  BY DEF NoJob, Job, Steps, SubOrNone, CountCeiling
<1>3. job.task \in Task /\ job.count \in 0..CountCeiling
  BY DEF InHand, TypeOK, Job, At, NoJob
<1>4. job.count < CountCeiling => job.count + 1 \in 0..CountCeiling
  BY <1>3 DEF CountCeiling
<1>5. QED
  BY <1>1, <1>2, <1>3, <1>4 DEF recordOutcome, TypeOK

LEMMA ErrorEnds ==
  ASSUME NEW class \in Classes, decideZkTLSError(class), TypeOK
  PROVE  Ends
BY ErrorOutcome DEF Ends, TypeOK, Job

LEMMA ChargeTypes ==
  ASSUME TypeOK, InHand, ~At("idle"), NEW happened \in BOOLEAN, CountErrorDefer(happened)
  PROVE  errorDefers' \in [Task -> 0..CountCeiling]
BY DEF TypeOK, InHand, CountErrorDefer, CountCeiling, At, NoJob

(* How a step of the flow changes the job it goes on with.                 *)
LEMMA JobUpdates ==
  ASSUME NEW j \in Job, NEW s \in Steps
  PROVE  /\ [j EXCEPT !.step = s] \in Job
         /\ \A t \in Task, n \in 0..CountCeiling :
              [j EXCEPT !.task = t, !.step = s, !.count = n] \in Job
         /\ \A k \in SubOrNone : [j EXCEPT !.submit = k, !.step = s] \in Job
         /\ \A k \in SubOrNone : [j EXCEPT !.attest = k, !.step = s] \in Job
         /\ [j EXCEPT !.tries = 2, !.step = s] \in Job
         /\ \A k, l \in SubOrNone :
              [j EXCEPT !.submit = k, !.attest = l, !.step = s] \in Job
         /\ [j EXCEPT !.submit = None, !.attest = None, !.tries = 1, !.step = s] \in Job
         /\ j.attempt < MaxAttempts =>
              [j EXCEPT !.attempt = @ + 1, !.submit = None, !.step = s] \in Job
<1> USE DEF Job, SubOrNone
<1>1. [j EXCEPT !.step = s] \in Job
  OBVIOUS
<1>2. \A t \in Task, n \in 0..CountCeiling : [j EXCEPT !.task = t, !.step = s, !.count = n] \in Job
  OBVIOUS
<1>3. \A k \in SubOrNone : [j EXCEPT !.submit = k, !.step = s] \in Job
  OBVIOUS
<1>4. \A k \in SubOrNone : [j EXCEPT !.attest = k, !.step = s] \in Job
  OBVIOUS
<1>5. [j EXCEPT !.tries = 2, !.step = s] \in Job
  <2>1. \A n \in 1..2 : [j EXCEPT !.tries = n, !.step = s] \in Job
    OBVIOUS
  <2>2. 2 \in 1..2
    OBVIOUS
  <2>3. QED
    BY <2>1, <2>2
<1>6. \A k, l \in SubOrNone : [j EXCEPT !.submit = k, !.attest = l, !.step = s] \in Job
  OBVIOUS
<1>7. [j EXCEPT !.submit = None, !.attest = None, !.tries = 1, !.step = s] \in Job
  <2>1. \A n \in 1..2 : [j EXCEPT !.submit = None, !.attest = None, !.tries = n, !.step = s] \in Job
    OBVIOUS
  <2>2. 1 \in 1..2
    OBVIOUS
  <2>3. QED
    BY <2>1, <2>2
<1>8. j.attempt < MaxAttempts => [j EXCEPT !.attempt = @ + 1, !.submit = None, !.step = s] \in Job
  <2>1. \A n \in 1..MaxAttempts : [j EXCEPT !.attempt = n, !.submit = None, !.step = s] \in Job
    OBVIOUS
  <2>2. j.attempt < MaxAttempts => j.attempt + 1 \in 1..MaxAttempts
    OBVIOUS
  <2>3. [j EXCEPT !.attempt = @ + 1, !.submit = None, !.step = s]
          = [j EXCEPT !.attempt = j.attempt + 1, !.submit = None, !.step = s]
    OBVIOUS
  <2>4. QED
    BY <2>1, <2>2, <2>3
<1>9. QED
  BY <1>1, <1>2, <1>3, <1>4, <1>5, <1>6, <1>7, <1>8

(* The flow's steps are those of a worker with a job.                      *)
LEMMA BusyFlow ==
  ASSUME FlowStep \/ EvaluateFails
  PROVE  ~At("idle")
  BY DEF At, FlowStep, EvaluateFails, Checked, ReadCheckpoint, evaluate, Withdraw, Recheck,
         submitPrimusTaskRaw, Refused, SubmitRefused, SaveSubmit, StartChild, Attested,
         AttestorTransport, ChildExits, ChildTimesOut, Clear, SaveAttest, Verified,
         Validated, GuardFails, deferAfterGuardFailure, CommitFails, Throw, AttestFails

(* Types, action by action.                                                *)
LEMMA TypeKept ==
  ASSUME TypeOK, InHand, [Next]_vars
  PROVE  TypeOK'
<1> USE DEF At, Goto
<1>1. CASE \E t \in Task : Wake(t) \/ RetryFailed(t)
  BY <1>1 DEF Wake, RetryFailed, TypeOK, contract, history
<1>2. CASE \E t \in Task : Begin(t)
  <2> PICK t \in Task : Begin(t)
    BY <1>2
  <2>1. job' \in Job
    <3>1. NoJob \in Job
      BY DEF NoJob, Job, Steps, SubOrNone, CountCeiling
    <3>2. QED
      BY <3>1, JobUpdates DEF Begin, Steps, TypeOK
  <2>2. chain' \in [Sub -> {"unused", "open", "settled", "withdrawn"}]
         /\ age' \in [Sub -> {"fresh", "expired", "stale"}]
    BY DEF Begin, Forget, TypeOK
  <2>3. QED
    BY <2>1, <2>2 DEF Begin, TypeOK, task, history
<1>3. CASE \E k \in Sub : GrowOld(k)
  <2> PICK k \in Sub : GrowOld(k)
    BY <1>3
  <2>1. age' \in [Sub -> {"fresh", "expired", "stale"}]
    BY DEF GrowOld, TypeOK
  <2>2. excuse' \subseteq Task
    <3>1. job.submit = k => job.task \in Task
      BY DEF InHand, NoJob
    <3>2. QED
      BY <3>1 DEF GrowOld, TypeOK
  <2>3. QED
    BY <2>1, <2>2 DEF GrowOld, TypeOK, task
<1>4. CASE Crash
  BY <1>4 DEF Crash, TypeOK, InHand, Excused, task, contract, NoJob, Job, Steps, SubOrNone,
              CountCeiling, ChildStates
<1>5. CASE ChildStep \/ OtherSubmit \/ reclaimTimedOutTasks
  BY <1>5 DEF ChildStep, OtherSubmit, reclaimTimedOutTasks, OpenSubmission, withdrawTimedOut,
              Unused, TypeOK, ChildStates, task, history
<1>6. CASE EvaluateFails
  <2>1. recordOutcome("parked", "rpc", TRUE) /\ ~At("idle")
    BY <1>6 DEF EvaluateFails
  <2>2. Ends
    BY <2>1 DEF Ends, Reasons
  <2>3. errorDefers' \in [Task -> 0..CountCeiling]
    BY <1>6, <2>1, ChargeTypes DEF EvaluateFails
  <2>4. chain' \in [Sub -> {"unused", "open", "settled", "withdrawn"}]
    BY <1>6 DEF EvaluateFails, withdrawTimedOut, TypeOK
  <2>5. QED
    BY <1>6, <2>1, <2>2, <2>3, <2>4, EndTypes DEF EvaluateFails, TypeOK
<1>7. CASE FlowStep
  <2> USE DEF task, contract, history
  <2>0. job.task \in Task /\ job \in Job
    <3>1. ~At("idle")
      BY <1>7, BusyFlow
    <3>2. QED
      BY <3>1 DEF InHand, NoJob, TypeOK
  <2>1. CASE Checked \/ Withdraw \/ Verified \/ StartChild
    <3>1. job' \in Job
      <4>1. UNCHANGED job \/ \E s \in {"read", "recheck", "validate"} : job' = [job EXCEPT !.step = s]
        BY <2>1 DEF Checked, Withdraw, Verified, StartChild
      <4>2. \A s \in {"read", "recheck", "validate"} : [job EXCEPT !.step = s] \in Job
        BY <2>0, JobUpdates DEF Steps
      <4>3. QED
        BY <4>1, <4>2, <2>0
    <3>2. QED
      BY <2>1, <3>1
         DEF Checked, Withdraw, Verified, StartChild, withdrawTimedOut, TypeOK, ChildStates
  <2>2. CASE ReadCheckpoint
    <3>1. checkpoint[job.task].submit \in SubOrNone /\ checkpoint[job.task].attest \in SubOrNone
      BY <2>0 DEF TypeOK, Checkpoint
    <3>2. job' \in Job
      <4>1. CASE job' = [job EXCEPT !.submit = None, !.attest = None, !.tries = 1,
                                    !.step = "evaluate"]
        BY <4>1, <2>0, JobUpdates DEF Steps
      <4>2. CASE \E s \in {"attest", "verify"} :
                   job' = [job EXCEPT !.submit = checkpoint[job.task].submit,
                                      !.attest = checkpoint[job.task].attest, !.step = s]
        <5> PICK s \in {"attest", "verify"} :
              job' = [job EXCEPT !.submit = checkpoint[job.task].submit,
                                 !.attest = checkpoint[job.task].attest, !.step = s]
          BY <4>2
        <5>1. s \in Steps
          BY DEF Steps
        <5>2. QED
          BY <5>1, <2>0, <3>1, JobUpdates
      <4>3. QED
        BY <2>2, <4>1, <4>2 DEF ReadCheckpoint
    <3>3. QED
      BY <2>2, <3>2 DEF ReadCheckpoint, TypeOK
  <2>3. CASE evaluate \/ Recheck \/ Refused
    <3>1. CASE UNCHANGED task /\ job' \in Job
      BY <2>3, <3>1 DEF evaluate, Recheck, Refused, SubmitRefused, TypeOK
    <3>2. CASE CapacityDefer /\ UNCHANGED checkpoint
      <4>1. Ends
        BY <3>2 DEF CapacityDefer, Ends, Reasons
      <4>2. QED
        BY <2>3, <3>2, <4>1, EndTypes, BusyFlow DEF evaluate, Recheck, Refused, SubmitRefused, TypeOK
    <3>3. QED
      <4>1. \A s \in {"submit", "withdraw"} : [job EXCEPT !.step = s] \in Job
        BY <2>0, JobUpdates DEF Steps
      <4>2. [job EXCEPT !.tries = 2, !.step = "evaluate"] \in Job
        BY <2>0, JobUpdates DEF Steps
      <4>3. QED
        BY <2>3, <3>1, <3>2, <4>1, <4>2 DEF evaluate, Recheck, Refused, SubmitRefused
  <2>4. CASE submitPrimusTaskRaw
    <3> PICK k \in Unused :
          /\ OpenSubmission(k)
          /\ \/ /\ job' = [job EXCEPT !.submit = k, !.step = "saveSubmit"]
                /\ reason' = [reason EXCEPT ![job.task] = "none"]
                /\ excuse' = excuse \ {job.task}
                /\ UNCHANGED <<status, deferCount, errorDefers>>
             \/ /\ \E c \in {"transient", "unknown"} : decideZkTLSError(c) /\ Charge(c)
                /\ Excused(job.task)
      BY <2>4 DEF submitPrimusTaskRaw
    <3>1. chain' \in [Sub -> {"unused", "open", "settled", "withdrawn"}]
            /\ age' \in [Sub -> {"fresh", "expired", "stale"}]
      BY DEF OpenSubmission, Unused, TypeOK
    <3>2. CASE job' = [job EXCEPT !.submit = k, !.step = "saveSubmit"]
      <4>1. job' \in Job
        BY <3>2, <2>0, JobUpdates DEF Steps, SubOrNone, Unused
      <4>2. QED
        <5>1. job'.step # NoJob.step
          BY <3>2, <2>0 DEF NoJob, Job
        <5>2. /\ reason' = [reason EXCEPT ![job.task] = "none"]
              /\ excuse' = excuse \ {job.task}
              /\ UNCHANGED <<status, deferCount, errorDefers>>
          <6>1. ASSUME NEW c \in Classes, decideZkTLSError(c) PROVE job' = NoJob
            BY <6>1, ErrorEnds DEF Ends, recordOutcome
          <6>2. QED
            BY <5>1, <6>1 DEF Classes, ErrorClass
        <5>3. QED
          BY <2>4, <3>1, <5>2, <4>1, <2>0 DEF submitPrimusTaskRaw, TypeOK, Reasons
    <3>3. CASE \E c \in {"transient", "unknown"} : decideZkTLSError(c) /\ Charge(c)
      <4>1. Ends
        BY <3>3, ErrorEnds DEF Classes, ErrorClass
      <4>2. QED
        BY <2>4, <3>1, <3>3, <4>1, EndTypes, ChargeTypes, BusyFlow, <2>0
           DEF submitPrimusTaskRaw, TypeOK, Charge, Excused
    <3>4. QED
      BY <3>2, <3>3
  <2>5. CASE SaveSubmit \/ SaveAttest \/ Clear
    <3>1. job' \in Job
      <4>1. \A s \in {"attest", "verify"} : [job EXCEPT !.step = s] \in Job
        BY <2>0, JobUpdates DEF Steps
      <4>2. At("clear") =>
              [job EXCEPT !.attempt = @ + 1, !.submit = None, !.step = "read"] \in Job
        <5>1. At("clear") => job.attempt < MaxAttempts
          BY DEF InHand, NoJob
        <5>2. "read" \in Steps
          BY DEF Steps
        <5>3. QED
          BY <5>1, <5>2, <2>0, JobUpdates
      <4>3. QED
        BY <2>5, <4>1, <4>2 DEF SaveSubmit, SaveAttest, Clear
    <3>2. checkpoint' \in [Task -> Checkpoint]
      BY <2>5, <2>0 DEF SaveSubmit, SaveAttest, Clear, setPrimusCheckpoint, TypeOK, Checkpoint,
                        Job, SubOrNone
    <3>3. QED
      BY <2>5, <3>1, <3>2 DEF SaveSubmit, SaveAttest, Clear, TypeOK
  <2>6. CASE Attested
    <3>1. job' \in Job
      <4>1. job.submit \in SubOrNone /\ "saveAttest" \in Steps
        BY <2>0 DEF Job, Steps
      <4>2. QED
        BY <4>1, <2>6, <2>0, JobUpdates DEF Attested
    <3>2. QED
      BY <2>6, <3>1 DEF Attested, settle, TypeOK, ChildStates
  <2>7. CASE AttestorTransport
    <3>1. CASE Goto("clear") /\ Excused(job.task) /\ UNCHANGED <<task, errorDefers>>
      <4>1. job' \in Job
        BY <3>1, <2>0, JobUpdates DEF Steps
      <4>2. QED
        BY <2>7, <3>1, <4>1, <2>0 DEF AttestorTransport, settle, Excused, TypeOK, ChildStates
    <3>2. CASE decideZkTLSError("transport") /\ Charge("transport") /\ UNCHANGED <<checkpoint, excuse>>
      <4>1. Ends
        BY <3>2, ErrorEnds DEF Classes
      <4>2. QED
        BY <2>7, <3>2, <4>1, EndTypes, ChargeTypes, BusyFlow, <1>7
           DEF AttestorTransport, settle, Charge, TypeOK, ChildStates
    <3>3. QED
      BY <2>7, <3>1, <3>2 DEF AttestorTransport
  <2>8. CASE ChildExits \/ ChildTimesOut
    <3>1. Ends
      BY <2>8, ErrorEnds DEF ChildExits, ChildTimesOut, ChildSilent, Classes
    <3>2. QED
      BY <2>8, <3>1, EndTypes, BusyFlow, <1>7
         DEF ChildExits, ChildTimesOut, ChildSilent, settle, TypeOK, ChildStates
  <2>9. CASE GuardFails
    <3>1. job' \in Job
      BY <2>9, <2>0, JobUpdates DEF GuardFails, Steps
    <3>2. QED
      BY <2>9, <3>1, <2>0 DEF GuardFails, Excused, TypeOK
  <2>10. CASE Validated \/ deferAfterGuardFailure
    <3>1. Ends
      BY <2>10 DEF Validated, deferAfterGuardFailure, Ends, Reasons
    <3>2. checkpoint' \in [Task -> Checkpoint]
      <4>1. checkpoint' = [checkpoint EXCEPT ![job.task] = [submit |-> None, attest |-> None]]
        BY <2>10 DEF Validated, deferAfterGuardFailure, setPrimusCheckpoint
      <4>2. QED
        BY <4>1, <2>0 DEF TypeOK, Checkpoint, SubOrNone
    <3>3. errorDefers' \in [Task -> 0..CountCeiling]
      <4>1. CASE CountErrorDefer(TRUE)
        BY <4>1, ChargeTypes, BusyFlow, <1>7
      <4>2. QED
        BY <2>10, <4>1 DEF Validated, deferAfterGuardFailure, TypeOK
    <3>4. QED
      BY <2>10, <3>1, <3>2, <3>3, EndTypes, BusyFlow, <1>7
         DEF Validated, deferAfterGuardFailure, TypeOK
  <2>11. CASE CommitFails
    <3>1. Ends
      BY <2>11 DEF CommitFails, Ends, Reasons
    <3>2. QED
      BY <2>11, <3>1, EndTypes, BusyFlow, <1>7 DEF CommitFails, TypeOK
  <2>12. CASE \E c \in ErrorClass : Throw(c) \/ AttestFails(c)
    <3> PICK c \in ErrorClass : Throw(c) \/ AttestFails(c)
      BY <2>12
    <3>1. decideZkTLSError(c) /\ Charge(c)
      BY DEF Throw, AttestFails
    <3>2. Ends
      BY <3>1, ErrorEnds DEF Classes
    <3>3. errorDefers' \in [Task -> 0..CountCeiling]
      BY <3>1, ChargeTypes, BusyFlow, <1>7 DEF Charge
    <3>4. QED
      BY <3>2, <3>3, EndTypes, BusyFlow, <1>7, <2>0
         DEF Throw, AttestFails, Excused, settle, TypeOK, ChildStates
  <2>13. QED
    BY <1>7, <2>1, <2>2, <2>3, <2>4, <2>5, <2>6, <2>7, <2>8, <2>9, <2>10, <2>11, <2>12
       DEF FlowStep, Refused
<1>8. CASE UNCHANGED vars
  BY <1>8 DEF vars, TypeOK, task, contract, history
<1>9. QED
  BY <1>1, <1>2, <1>3, <1>4, <1>5, <1>6, <1>7, <1>8 DEF Next

-----------------------------------------------------------------------------
(* What a step of the flow does to the task and its count: it ends the job *)
(* with an outcome, or goes on with it.                                    *)
EndsCharged ==
  \E s \in {"parked", "failed", "done"}, r \in Reasons, b \in BOOLEAN :
    /\ recordOutcome(s, r, b)
    /\ s = "parked" /\ r \notin BeyondCap => b /\ job.count < MaxDefers
    /\ errorDefers' = errorDefers \/ (s = "parked" /\ b /\ CountErrorDefer(TRUE))

GoesOn ==
  /\ UNCHANGED <<status, deferCount, errorDefers>>
  /\ reason' = reason \/ reason' = [reason EXCEPT ![job.task] = "none"]
  /\ job'.task = job.task /\ job'.count = job.count /\ job'.step # "idle"
  /\ job'.step = "clear" => job'.attempt < MaxAttempts

LEMMA ErrorCharged ==
  ASSUME TypeOK, InHand, ~At("idle"), NEW class \in Classes, decideZkTLSError(class),
         Charge(class) \/ UNCHANGED errorDefers
  PROVE  EndsCharged
<1>1. job.count \in 0..CountCeiling /\ job.task \in Task
  BY DEF TypeOK, Job, InHand, NoJob, At
<1>2. PICK s \in {"parked", "failed"}, r \in Reasons, b \in BOOLEAN :
        /\ recordOutcome(s, r, b)
        /\ s = "parked" /\ r \notin BeyondCap => b /\ job.count < MaxDefers
        /\ class \in Deferrable /\ job.count < MaxDefers => s = "parked" /\ b
  BY <1>1, ErrorOutcome
<1>3. errorDefers' = errorDefers \/ (s = "parked" /\ b /\ CountErrorDefer(TRUE))
  <2>1. CASE class \in Deferrable /\ job.count < MaxDefers
    BY <2>1, <1>2 DEF Charge
  <2>2. CASE ~(class \in Deferrable /\ job.count < MaxDefers)
    BY <2>2 DEF Charge, CountErrorDefer
  <2>3. QED
    BY <2>1, <2>2
<1>4. QED
  BY <1>2, <1>3 DEF EndsCharged

LEMMA FlowOutcome ==
  ASSUME TypeOK, InHand, FlowStep \/ EvaluateFails
  PROVE  EndsCharged \/ GoesOn
<1> USE DEF task, contract, history, Goto
<1>0. ~At("idle") /\ job \in Job /\ job.task \in Task
  BY BusyFlow DEF TypeOK, InHand, NoJob, At
<1>1. CASE Checked \/ ReadCheckpoint \/ Withdraw \/ SaveSubmit \/ StartChild \/ Attested \/ Clear
             \/ SaveAttest \/ Verified \/ GuardFails
  <2>1. UNCHANGED <<status, deferCount, errorDefers, reason>>
    BY <1>1 DEF Checked, ReadCheckpoint, Withdraw, SaveSubmit, StartChild, Attested, Clear,
                SaveAttest, Verified, GuardFails
  <2>2. job'.task = job.task /\ job'.count = job.count /\ job'.step \notin {"idle", "clear"}
    BY <1>1, <1>0 DEF Checked, ReadCheckpoint, Withdraw, SaveSubmit, StartChild, Attested, Clear,
                SaveAttest, Verified, GuardFails, At, Job
  <2>3. QED
    BY <2>1, <2>2 DEF GoesOn
<1>2. CASE evaluate \/ Recheck \/ Refused
  <2>1. CASE CapacityDefer /\ UNCHANGED errorDefers
    BY <2>1 DEF CapacityDefer, EndsCharged, Reasons, BeyondCap
  <2>2. CASE UNCHANGED <<task, errorDefers>> /\ job'.task = job.task /\ job'.count = job.count
               /\ job'.step \notin {"idle", "clear"}
    BY <2>2 DEF GoesOn
  <2>3. QED
    BY <1>2, <1>0, <2>1, <2>2 DEF evaluate, Recheck, Refused, SubmitRefused, Job
<1>3. CASE submitPrimusTaskRaw
  <2>1. CASE \E c \in {"transient", "unknown"} : decideZkTLSError(c) /\ Charge(c)
    BY <2>1, <1>0, ErrorCharged DEF Classes, ErrorClass
  <2>2. CASE /\ \E k \in Unused : job' = [job EXCEPT !.submit = k, !.step = "saveSubmit"]
             /\ reason' = [reason EXCEPT ![job.task] = "none"]
             /\ UNCHANGED <<status, deferCount, errorDefers>>
    BY <2>2, <1>0 DEF GoesOn, Job
  <2>3. QED
    BY <1>3, <2>1, <2>2 DEF submitPrimusTaskRaw
<1>4. CASE AttestorTransport
  <2>1. CASE decideZkTLSError("transport") /\ Charge("transport")
    BY <2>1, <1>0, ErrorCharged DEF Classes
  <2>2. CASE job.attempt < MaxAttempts /\ Goto("clear") /\ UNCHANGED <<task, errorDefers>>
    BY <2>2, <1>0 DEF GoesOn, Job
  <2>3. QED
    BY <1>4, <2>1, <2>2 DEF AttestorTransport
<1>5. CASE ChildExits \/ ChildTimesOut
  BY <1>5, <1>0, ErrorCharged DEF ChildExits, ChildTimesOut, ChildSilent, Classes
<1>6. CASE Validated \/ deferAfterGuardFailure \/ CommitFails
  BY <1>6 DEF Validated, deferAfterGuardFailure, CommitFails, EndsCharged, Reasons, BeyondCap
<1>7. CASE \E c \in ErrorClass : Throw(c) \/ AttestFails(c)
  BY <1>7, <1>0, ErrorCharged DEF Throw, AttestFails, Classes
<1>8. CASE EvaluateFails
  BY <1>8 DEF EvaluateFails, EndsCharged, Reasons, BeyondCap
<1>9. QED
  BY <1>1, <1>2, <1>3, <1>4, <1>5, <1>6, <1>7, <1>8 DEF FlowStep, Refused

LEMMA HandKept ==
  ASSUME TypeOK, InHand, [Next]_vars
  PROVE  InHand'
<1> USE DEF InHand, At
<1>1. CASE \E t \in Task : Wake(t) \/ RetryFailed(t)
  BY <1>1 DEF Wake, RetryFailed, TypeOK
<1>2. CASE \E t \in Task : Begin(t)
  <2> PICK t \in Task : Begin(t)
    BY <1>2
  <2>1. job'.task = t /\ job'.step = "check" /\ job'.count = deferCount[t]
    BY DEF Begin, NoJob
  <2>2. status' = status /\ deferCount' = deferCount /\ status[t] = "open"
    BY DEF Begin, task
  <2>3. QED
    BY <2>1, <2>2
<1>3. CASE \/ \E k \in Sub : GrowOld(k)
           \/ ChildStep \/ OtherSubmit \/ reclaimTimedOutTasks \/ UNCHANGED vars
  BY <1>3 DEF GrowOld, ChildStep, OtherSubmit, reclaimTimedOutTasks, task, vars
<1>4. CASE Crash
  BY <1>4 DEF Crash
<1>5. CASE FlowStep \/ EvaluateFails
  <2>1. CASE EndsCharged
    BY <2>1 DEF EndsCharged, recordOutcome
  <2>2. CASE GoesOn
    BY <2>2, <1>5, BusyFlow DEF GoesOn, NoJob
  <2>3. QED
    BY <1>5, <2>1, <2>2, FlowOutcome
<1>6. QED
  BY <1>1, <1>2, <1>3, <1>4, <1>5 DEF Next

LEMMA BudgetKept ==
  ASSUME TypeOK, InHand, DefersBudgeted, [Next]_vars
  PROVE  DefersBudgeted'
<1> USE DEF DefersBudgeted
<1>1. CASE \E t \in Task : Wake(t) \/ RetryFailed(t)
  BY <1>1 DEF Wake, RetryFailed, history, TypeOK
<1>2. CASE \/ \E t \in Task : Begin(t)
           \/ \E k \in Sub : GrowOld(k)
           \/ Crash \/ ChildStep \/ OtherSubmit \/ reclaimTimedOutTasks \/ UNCHANGED vars
  BY <1>2 DEF Begin, GrowOld, Crash, ChildStep, OtherSubmit, reclaimTimedOutTasks, task, history,
              vars
<1>3. CASE FlowStep \/ EvaluateFails
  <2>0. job.task \in Task /\ job.count = deferCount[job.task] /\ status[job.task] = "open"
    BY <1>3, BusyFlow DEF InHand, NoJob, At
  <2>1. CASE EndsCharged
    <3> PICK s \in {"parked", "failed", "done"}, r \in Reasons, b \in BOOLEAN :
          /\ recordOutcome(s, r, b)
          /\ s = "parked" /\ r \notin BeyondCap => b /\ job.count < MaxDefers
          /\ errorDefers' = errorDefers \/ (s = "parked" /\ b /\ CountErrorDefer(TRUE))
      BY <2>1 DEF EndsCharged
    <3>1. ASSUME NEW t \in Task, t # job.task
          PROVE  status'[t] = status[t] /\ reason'[t] = reason[t]
                   /\ deferCount'[t] = deferCount[t] /\ errorDefers'[t] = errorDefers[t]
      BY <3>1, <2>0 DEF recordOutcome, CountErrorDefer, TypeOK
    <3>2. errorDefers'[job.task] <= deferCount'[job.task]
      <4>1. deferCount[job.task] \in 0..CountCeiling /\ errorDefers[job.task] \in 0..CountCeiling
        BY <2>0 DEF TypeOK
      <4>2. CASE errorDefers' = errorDefers
        BY <4>1, <4>2, <2>0 DEF recordOutcome, TypeOK, CountCeiling
      <4>3. CASE s = "parked" /\ b /\ CountErrorDefer(TRUE)
        BY <4>1, <4>3, <2>0 DEF recordOutcome, CountErrorDefer, TypeOK, CountCeiling
      <4>4. QED
        BY <4>2, <4>3
    <3>3. status'[job.task] = "parked" /\ deferCount'[job.task] > MaxDefers =>
            reason'[job.task] \in BeyondCap
      <4>1. status'[job.task] = s /\ reason'[job.task] = r
        BY <2>0 DEF recordOutcome, TypeOK
      <4>2. CASE s = "parked" /\ r \notin BeyondCap
        <5>1. deferCount'[job.task] = job.count + 1 /\ job.count \in Nat
          BY <4>2, <2>0 DEF recordOutcome, TypeOK, CountCeiling
        <5>2. QED
          BY <4>2, <5>1
      <4>3. QED
        BY <4>1, <4>2
    <3>4. QED
      BY <3>1, <3>2, <3>3
  <2>2. CASE GoesOn
    <3>1. /\ UNCHANGED <<status, deferCount, errorDefers>> /\ status[job.task] # "parked"
          /\ \A t \in Task : t = job.task \/ reason'[t] = reason[t]
      BY <2>2, <2>0 DEF GoesOn, TypeOK
    <3>2. QED
      BY <3>1
  <2>3. QED
    BY <1>3, <2>1, <2>2, FlowOutcome
<1>4. QED
  BY <1>1, <1>2, <1>3 DEF Next

LEMMA FitsKept ==
  ASSUME TypeOK, InHand, AttestationFitsSubmission, [Next]_vars
  PROVE  AttestationFitsSubmission'
<1> USE DEF AttestationFitsSubmission, At, Goto, task, contract, history
<1>1. CASE \/ \E t \in Task : Wake(t) \/ RetryFailed(t)
           \/ \E k \in Sub : GrowOld(k)
           \/ ChildStep \/ OtherSubmit \/ reclaimTimedOutTasks \/ UNCHANGED vars
  BY <1>1 DEF Wake, RetryFailed, GrowOld, ChildStep, OtherSubmit, reclaimTimedOutTasks, vars
<1>2. CASE Crash \/ \E t \in Task : Begin(t)
  <2>1. UNCHANGED checkpoint
    BY <1>2 DEF Crash, Begin
  <2>2. job'.step \in {"idle", "check"}
    <3>1. CASE Crash
      BY <3>1 DEF Crash, NoJob
    <3>2. ASSUME NEW t \in Task, Begin(t) PROVE job'.step = "check"
      BY <3>2 DEF Begin, NoJob
    <3>3. QED
      BY <1>2, <3>1, <3>2
  <2>3. QED
    BY <2>1, <2>2
<1>3. CASE FlowStep \/ EvaluateFails
  <2>0. job \in Job /\ job.task \in Task
    BY <1>3, BusyFlow DEF InHand, NoJob, TypeOK
  <2>1. CASE EndsCharged
    <3>1. job'.step = "idle"
      BY <2>1 DEF EndsCharged, recordOutcome, NoJob
    <3>2. UNCHANGED checkpoint \/ setPrimusCheckpoint(None, None)
      BY <1>3, <3>1, <2>0
         DEF FlowStep, EvaluateFails, Checked, ReadCheckpoint, evaluate, Withdraw, Recheck,
             submitPrimusTaskRaw, Refused, SubmitRefused, SaveSubmit, StartChild, Attested,
             AttestorTransport, ChildExits, ChildTimesOut, ChildSilent, Clear, SaveAttest,
             Verified, Validated, GuardFails, deferAfterGuardFailure, CommitFails, Throw,
             AttestFails, Job
    <3>3. QED
      BY <3>1, <3>2, <2>0 DEF setPrimusCheckpoint, TypeOK
  <2>2. CASE Checked \/ Withdraw \/ evaluate \/ Recheck \/ Refused \/ submitPrimusTaskRaw
               \/ StartChild \/ AttestorTransport \/ GuardFails
    <3>1. CASE GoesOn
      <4>1. UNCHANGED checkpoint
        BY <2>2 DEF Checked, Withdraw, evaluate, Recheck, Refused, SubmitRefused, submitPrimusTaskRaw,
                    StartChild, AttestorTransport, GuardFails
      <4>2. job' = job \/ job'.step \notin {"saveAttest", "verify", "validate"}
        <5>1. job' # NoJob
          BY <3>1 DEF GoesOn, NoJob
        <5>2. CASE Checked \/ Withdraw \/ StartChild \/ GuardFails
          BY <5>2, <2>0 DEF Checked, Withdraw, StartChild, GuardFails, Job
        <5>3. CASE evaluate \/ Recheck \/ Refused
          BY <5>1, <5>3, <2>0
             DEF evaluate, Recheck, Refused, SubmitRefused, CapacityDefer, recordOutcome, Job
        <5>4. CASE submitPrimusTaskRaw \/ AttestorTransport
          <6>1. \A c \in Classes : ~decideZkTLSError(c)
            BY <5>1, ErrorEnds DEF Ends, recordOutcome
          <6>2. QED
            BY <5>4, <6>1, <2>0
               DEF submitPrimusTaskRaw, AttestorTransport, Classes, ErrorClass, Job
        <5>5. QED
          BY <2>2, <5>2, <5>3, <5>4
      <4>3. QED
        BY <4>1, <4>2
    <3>2. QED
      BY <3>1, <2>1, <1>3, FlowOutcome
  <2>3. CASE ReadCheckpoint
    <3>1. UNCHANGED checkpoint
      BY <2>3 DEF ReadCheckpoint
    <3>2. job'.step \in {"evaluate", "attest"} \/
            /\ job'.task = job.task /\ job'.step = "verify"
            /\ job'.submit = checkpoint[job.task].submit
            /\ job'.attest = checkpoint[job.task].attest
            /\ checkpoint[job.task].attest # None
      BY <2>3, <2>0 DEF ReadCheckpoint, Job
    <3>3. checkpoint[job.task] \in Checkpoint
      BY <2>0 DEF TypeOK
    <3>4. QED
      BY <3>1, <3>2, <3>3, <2>0 DEF Checkpoint
  <2>4. CASE SaveSubmit \/ Clear
    <3>1. job'.step \in {"attest", "read"}
      BY <2>4, <2>0 DEF SaveSubmit, Clear, Job
    <3>2. \E k \in SubOrNone :
            checkpoint' = [checkpoint EXCEPT ![job.task] = [submit |-> k, attest |-> None]]
      BY <2>4, <2>0 DEF SaveSubmit, Clear, setPrimusCheckpoint, Job, SubOrNone
    <3>3. QED
      BY <3>1, <3>2, <2>0 DEF TypeOK
  <2>5. CASE Attested \/ Verified
    <3>1. UNCHANGED checkpoint
      BY <2>5 DEF Attested, Verified
    <3>2. CASE Attested
      <4>1. job'.step = "saveAttest" /\ job'.attest = job'.submit
        BY <2>0, <3>2 DEF Attested, Job
      <4>2. QED
        BY <2>0, <3>1, <4>1
    <3>3. CASE Verified
      <4>1. /\ job.step = "verify" /\ job'.step = "validate" /\ job'.task = job.task
            /\ job'.submit = job.submit /\ job'.attest = job.attest
        BY <2>0, <3>3 DEF Verified, Job
      <4>2. QED
        BY <2>0, <3>1, <4>1
    <3>4. QED
      BY <2>5, <3>2, <3>3
  <2>6. CASE SaveAttest
    <3>1. job' = [job EXCEPT !.step = "verify"] /\ job.attest = job.submit
      BY <2>6 DEF SaveAttest
    <3>2. checkpoint' = [checkpoint EXCEPT
                           ![job.task] = [submit |-> job.submit, attest |-> job.attest]]
      BY <2>6 DEF SaveAttest, setPrimusCheckpoint
    <3>3. QED
      BY <3>1, <3>2, <2>0 DEF TypeOK, Job
  <2>7. CASE \/ EvaluateFails \/ ChildExits \/ ChildTimesOut
             \/ Validated \/ deferAfterGuardFailure \/ CommitFails
             \/ \E c \in ErrorClass : Throw(c) \/ AttestFails(c)
    <3>1. EndsCharged
      <4>1. CASE Validated \/ deferAfterGuardFailure \/ CommitFails \/ EvaluateFails
        BY <4>1 DEF Validated, deferAfterGuardFailure, CommitFails, EvaluateFails, EndsCharged,
                    Reasons, BeyondCap
      <4>2. CASE ChildExits \/ ChildTimesOut
        BY <4>2, <1>3, BusyFlow, ErrorCharged DEF ChildExits, ChildTimesOut, ChildSilent, Classes
      <4>3. CASE \E c \in ErrorClass : Throw(c) \/ AttestFails(c)
        BY <4>3, <1>3, BusyFlow, ErrorCharged DEF Throw, AttestFails, Classes
      <4>4. QED
        BY <2>7, <4>1, <4>2, <4>3
    <3>2. QED
      BY <3>1, <2>1
  <2>8. QED
    BY <1>3, <2>2, <2>3, <2>4, <2>5, <2>6, <2>7 DEF FlowStep, Refused
<1>4. QED
  BY <1>1, <1>2, <1>3 DEF Next

-----------------------------------------------------------------------------
Paid == SubmissionInHand /\ PaidFor /\ PaidOnce

(* A step that leaves the job, the task and the clocks alone and only adds *)
(* excuses.                                                                *)
LEMMA PaidUnmoved ==
  ASSUME Paid, UNCHANGED <<status, checkpoint, job, age>>, excuse \subseteq excuse'
  PROVE  Paid'
BY DEF Paid, SubmissionInHand, PaidFor, PaidOnce, At

LEMMA CheckpointKnown ==
  ASSUME NEW t \in Task
  PROVE  checkpoint[t].submit \in Known
<1>1. checkpoint[t].submit \in {checkpoint[t].submit, checkpoint[t].attest}
  OBVIOUS
<1>2. checkpoint[t].submit \in
        UNION {{checkpoint[u].submit, checkpoint[u].attest} : u \in Task}
  BY <1>1
<1>3. QED
  BY <1>2 DEF Known

LEMMA JobKnown == job.submit \in Known
  BY DEF Known

(* The end of a job: nothing is in hand any more, and the task has its     *)
(* checkpoint still, or an excuse, or is done.                             *)
LEMMA PaidAtEnd ==
  ASSUME TypeOK, InHand, Paid, ~At("idle"), job' = NoJob,
         \A t \in Task \ {job.task} : status'[t] = status[t],
         UNCHANGED checkpoint \/ setPrimusCheckpoint(None, None),
         \A k \in Sub : k \in Known => age'[k] = age[k],
         excuse \subseteq excuse',
         job.task \in excuse' \/ status'[job.task] = "done"
           \/ (~At("saveSubmit") /\ UNCHANGED checkpoint)
  PROVE  Paid'
<1>0. job.task \in Task /\ status[job.task] = "open"
  BY DEF InHand, NoJob, At
<1>1. job'.step = "idle"
  BY DEF NoJob
<1>2. SubmissionInHand' /\ PaidOnce'
  BY <1>1 DEF SubmissionInHand, PaidOnce
<1>3. ASSUME NEW t \in Task, t # job.task, status'[t] # "done",
             checkpoint'[t].submit = None \/ age'[checkpoint'[t].submit] = "stale"
      PROVE  t \in excuse'
  <2>1. checkpoint'[t] = checkpoint[t] /\ checkpoint[t] \in Checkpoint
    BY <1>0, <1>3 DEF setPrimusCheckpoint, TypeOK
  <2>2. checkpoint[t].submit # None => age'[checkpoint[t].submit] = age[checkpoint[t].submit]
    BY <2>1, CheckpointKnown DEF Checkpoint, SubOrNone
  <2>3. QED
    BY <1>3, <2>1, <2>2 DEF Paid, PaidFor
<1>4. ASSUME status'[job.task] # "done",
             checkpoint'[job.task].submit = None \/ age'[checkpoint'[job.task].submit] = "stale"
      PROVE  job.task \in excuse'
  <2>1. CASE ~At("saveSubmit") /\ UNCHANGED checkpoint
    <3>1. checkpoint[job.task] \in Checkpoint
      BY <1>0 DEF TypeOK
    <3>2. checkpoint[job.task].submit # None =>
            age'[checkpoint[job.task].submit] = age[checkpoint[job.task].submit]
      BY <1>0, <3>1, CheckpointKnown DEF Checkpoint, SubOrNone
    <3>3. QED
      BY <1>0, <1>4, <2>1, <3>2 DEF Paid, PaidFor
  <2>2. QED
    BY <1>4, <2>1
<1>5. QED
  BY <1>2, <1>3, <1>4 DEF Paid, PaidFor

(* Action by action: every step leaves each task with a way not to pay.    *)
LEMMA PaidKept ==
  ASSUME TypeOK, InHand, Paid, [Next]_vars
  PROVE  Paid'
<1> USE DEF At, Goto, task, contract, history
<1>1. CASE ChildStep \/ OtherSubmit \/ reclaimTimedOutTasks \/ UNCHANGED vars
  <2>1. CASE OtherSubmit
    <3> PICK k \in Unused : OpenSubmission(k)
      BY <2>1 DEF OtherSubmit
    <3>1. UNCHANGED <<status, checkpoint, job, excuse>>
      BY <2>1 DEF OtherSubmit
    <3>2. \A n \in Known : n \in Sub => age'[n] = age[n]
      BY DEF OpenSubmission, Unused, TypeOK
    <3>3. job.submit \in Known
      BY JobKnown
    <3>4. SubmissionInHand'
      BY <3>1, <3>2, <3>3 DEF Paid, SubmissionInHand
    <3>5. PaidFor'
      <4>1. \A t \in Task : checkpoint[t].submit \in SubOrNone
        BY DEF TypeOK, Checkpoint
      <4>2. QED
        BY <3>1, <3>2, <4>1, CheckpointKnown DEF Paid, PaidFor, SubOrNone
    <3>6. QED
      BY <3>1, <3>4, <3>5 DEF Paid, PaidOnce
  <2>2. CASE ChildStep \/ reclaimTimedOutTasks \/ UNCHANGED vars
    BY <2>2, PaidUnmoved DEF ChildStep, reclaimTimedOutTasks, vars
  <2>3. QED
    BY <1>1, <2>1, <2>2
<1>2. CASE \E t \in Task : Wake(t) \/ RetryFailed(t)
  <2>1. \A t \in Task : status'[t] # "done" => status[t] # "done"
    BY <1>2 DEF Wake, RetryFailed, TypeOK
  <2>2. UNCHANGED <<checkpoint, job, age, excuse>>
    BY <1>2 DEF Wake, RetryFailed
  <2>3. QED
    BY <2>1, <2>2 DEF Paid, SubmissionInHand, PaidFor, PaidOnce
<1>3. CASE \E t \in Task : Begin(t)
  <2> PICK t \in Task : Begin(t)
    BY <1>3
  <2>1. UNCHANGED <<status, checkpoint, excuse>> /\ job'.step = "check" /\ job.step = "idle"
    BY DEF Begin, NoJob
  <2>2. \A n \in Known : n \in Sub => age'[n] = age[n]
    BY DEF Begin, Forget, Unused, TypeOK
  <2>3. \A u \in Task : checkpoint[u].submit \in SubOrNone
    BY DEF TypeOK, Checkpoint
  <2>4. PaidFor'
    BY <2>1, <2>2, <2>3, CheckpointKnown DEF Paid, PaidFor, SubOrNone
  <2>5. QED
    BY <2>1, <2>4 DEF Paid, SubmissionInHand, PaidOnce
<1>4. CASE \E k \in Sub : GrowOld(k)
  <2> PICK k \in Sub : GrowOld(k)
    BY <1>4
  <2>1. UNCHANGED <<status, checkpoint, job>> /\ excuse \subseteq excuse'
    BY DEF GrowOld
  <2>2. \A n \in Sub : age'[n] = "stale" /\ age[n] # "stale" =>
          /\ \A u \in Task : checkpoint[u].submit = n => u \in excuse'
          /\ job.submit = n => job.task \in excuse'
    BY DEF GrowOld, TypeOK
  <2>3. \A u \in Task : checkpoint[u].submit \in SubOrNone
    BY DEF TypeOK, Checkpoint
  <2>4. QED
    BY <2>1, <2>2, <2>3 DEF Paid, SubmissionInHand, PaidFor, PaidOnce, SubOrNone
<1>5. CASE Crash
  <2>1. job.step = "saveSubmit" => job.task \in excuse'
    BY <1>5 DEF Crash, Excused
  <2>2. UNCHANGED <<status, checkpoint, age>> /\ job' = NoJob /\ excuse \subseteq excuse'
    BY <1>5 DEF Crash, Excused
  <2>3. QED
    BY <1>5, <2>1, <2>2, PaidAtEnd DEF Crash
<1>6. CASE FlowStep \/ EvaluateFails
  <2>0. job \in Job /\ job.task \in Task /\ job.step # "idle" /\ status[job.task] = "open"
    BY <1>6, BusyFlow DEF InHand, NoJob, TypeOK
  <2>1. ASSUME Ends
        PROVE  job' = NoJob /\ \A t \in Task \ {job.task} : status'[t] = status[t]
    BY <2>1 DEF Ends, recordOutcome, TypeOK
  <2>2. CASE EvaluateFails \/ ChildExits \/ ChildTimesOut \/ CommitFails
    <3>1. Ends
      BY <2>2, ErrorEnds
         DEF EvaluateFails, ChildExits, ChildTimesOut, ChildSilent, CommitFails, Ends, Reasons,
             Classes
    <3>2. UNCHANGED <<checkpoint, age, excuse>> /\ job.step # "saveSubmit"
      BY <2>2 DEF EvaluateFails, ChildExits, ChildTimesOut, ChildSilent, CommitFails
    <3>3. QED
      BY <2>0, <2>1, <3>1, <3>2, PaidAtEnd
  <2>3. CASE evaluate \/ Recheck \/ Refused
    <3>1. UNCHANGED <<checkpoint, age, excuse>>
            /\ job.step \in {"evaluate", "withdraw", "recheck", "submit"}
      BY <2>3 DEF evaluate, Recheck, Refused, SubmitRefused
    <3>2. CASE CapacityDefer
      <4>1. Ends
        BY <3>2 DEF CapacityDefer, Ends, Reasons
      <4>2. QED
        BY <2>0, <2>1, <3>1, <4>1, PaidAtEnd
    <3>3. CASE /\ UNCHANGED status /\ job'.task = job.task
               /\ job'.step \in {"evaluate", "withdraw", "submit"}
      BY <3>1, <3>3 DEF Paid, SubmissionInHand, PaidFor, PaidOnce
    <3>4. QED
      BY <2>0, <2>3, <3>2, <3>3 DEF evaluate, Recheck, Refused, SubmitRefused, Job
  <2>4. CASE Checked \/ Withdraw \/ Verified \/ StartChild
    <3>1. UNCHANGED <<status, checkpoint, age, excuse>>
      BY <2>4 DEF Checked, Withdraw, Verified, StartChild
    <3>2. \/ UNCHANGED job
          \/ job.step = "check" /\ job'.step = "read"
          \/ job.step = "withdraw" /\ job'.step = "recheck" /\ job'.task = job.task
          \/ job.step = "verify" /\ job'.step = "validate"
      BY <2>0, <2>4 DEF Checked, Withdraw, Verified, StartChild, Job
    <3>3. QED
      BY <3>1, <3>2 DEF Paid, SubmissionInHand, PaidFor, PaidOnce
  <2>5. CASE ReadCheckpoint
    <3>1. UNCHANGED <<status, checkpoint, age, excuse>> /\ job.step = "read"
      BY <2>5 DEF ReadCheckpoint
    <3>2. checkpoint[job.task].submit \in SubOrNone
      BY <2>0 DEF TypeOK, Checkpoint
    <3>3. \/ /\ checkpoint[job.task].submit = None \/ age[checkpoint[job.task].submit] = "stale"
             /\ job'.task = job.task /\ job'.step = "evaluate"
          \/ /\ checkpoint[job.task].submit # None /\ age[checkpoint[job.task].submit] # "stale"
             /\ job'.step \in {"attest", "verify"}
             /\ job'.submit = checkpoint[job.task].submit
      BY <2>0, <2>5 DEF ReadCheckpoint, Job
    <3>4. QED
      BY <2>0, <3>1, <3>2, <3>3 DEF Paid, SubmissionInHand, PaidFor, PaidOnce, SubOrNone
  <2>6. CASE submitPrimusTaskRaw
    <3> PICK k \in Unused : /\ OpenSubmission(k)
          /\ \/ /\ job' = [job EXCEPT !.submit = k, !.step = "saveSubmit"]
                /\ excuse' = excuse \ {job.task}
                /\ UNCHANGED status
             \/ /\ \E c \in {"transient", "unknown"} : decideZkTLSError(c)
                /\ Excused(job.task)
      BY <2>6 DEF submitPrimusTaskRaw
    <3>1. UNCHANGED checkpoint /\ job.step = "submit"
      BY <2>6 DEF submitPrimusTaskRaw
    <3>2. \A n \in Sub : n \in Known => age'[n] = age[n]
      BY DEF OpenSubmission, Unused, TypeOK
    <3>3. CASE \E c \in {"transient", "unknown"} : decideZkTLSError(c) /\ Excused(job.task)
      <4>1. Ends /\ job.task \in excuse' /\ excuse \subseteq excuse'
        BY <3>3, ErrorEnds DEF Excused, Classes, ErrorClass
      <4>2. QED
        BY <2>0, <2>1, <3>1, <3>2, <4>1, PaidAtEnd
    <3>4. CASE /\ job' = [job EXCEPT !.submit = k, !.step = "saveSubmit"]
               /\ excuse' = excuse \ {job.task}
               /\ UNCHANGED status
      <4>1. job'.task = job.task /\ job'.step = "saveSubmit" /\ job'.submit = k /\ k \in Sub
        BY <2>0, <3>4 DEF Job, Unused
      <4>2. age'[k] = "fresh"
        BY <4>1 DEF OpenSubmission, TypeOK
      <4>3. \A u \in Task : checkpoint[u].submit \in SubOrNone
        BY DEF TypeOK, Checkpoint
      <4>4. PaidFor'
        BY <3>1, <3>2, <3>4, <4>1, <4>3, CheckpointKnown DEF Paid, PaidFor, SubOrNone
      <4>5. QED
        BY <4>1, <4>2, <4>4 DEF Paid, SubmissionInHand, PaidOnce
    <3>5. QED
      BY <3>3, <3>4
  <2>7. CASE SaveSubmit \/ SaveAttest
    <3>1. UNCHANGED <<status, age, excuse>> /\ job.step \in {"saveSubmit", "saveAttest"}
      BY <2>7 DEF SaveSubmit, SaveAttest
    <3>2. /\ job'.task = job.task /\ job'.submit = job.submit
          /\ job'.step \in {"attest", "verify"}
      BY <2>0, <2>7 DEF SaveSubmit, SaveAttest, Job
    <3>3. \E a \in SubOrNone :
            checkpoint' = [checkpoint EXCEPT ![job.task] = [submit |-> job.submit, attest |-> a]]
      BY <2>0, <2>7 DEF SaveSubmit, SaveAttest, setPrimusCheckpoint, Job, SubOrNone
    <3>4. checkpoint'[job.task].submit = job.submit
            /\ \A u \in Task \ {job.task} : checkpoint'[u] = checkpoint[u]
      BY <2>0, <3>3 DEF TypeOK
    <3>5. QED
      BY <2>0, <3>1, <3>2, <3>4 DEF Paid, SubmissionInHand, PaidFor, PaidOnce
  <2>8. CASE Attested
    <3>1. UNCHANGED <<status, checkpoint, age, excuse>> /\ job.step = "attest"
      BY <2>8 DEF Attested
    <3>2. job'.task = job.task /\ job'.submit = job.submit /\ job'.step = "saveAttest"
      BY <2>0, <2>8 DEF Attested, Job
    <3>3. QED
      BY <3>1, <3>2 DEF Paid, SubmissionInHand, PaidFor, PaidOnce
  <2>9. CASE AttestorTransport
    <3>1. UNCHANGED <<checkpoint, age>> /\ job.step = "attest"
      BY <2>9 DEF AttestorTransport
    <3>2. CASE decideZkTLSError("transport") /\ UNCHANGED excuse
      <4>1. Ends
        BY <3>2, ErrorEnds DEF Classes
      <4>2. QED
        BY <2>0, <2>1, <3>1, <3>2, <4>1, PaidAtEnd
    <3>3. CASE job' = [job EXCEPT !.step = "clear"] /\ Excused(job.task) /\ UNCHANGED status
      <4>1. job'.task = job.task /\ job'.step = "clear"
        BY <2>0, <3>3 DEF Job
      <4>2. QED
        BY <3>1, <3>3, <4>1 DEF Paid, SubmissionInHand, PaidFor, PaidOnce, Excused
    <3>4. QED
      BY <2>9, <3>2, <3>3 DEF AttestorTransport
  <2>10. CASE Clear
    <3>1. UNCHANGED <<status, age, excuse>> /\ job.step = "clear"
      BY <2>10 DEF Clear
    <3>2. job'.task = job.task /\ job'.step = "read"
      BY <2>0, <2>10 DEF Clear, Job
    <3>3. \A u \in Task \ {job.task} : checkpoint'[u] = checkpoint[u]
      BY <2>0, <2>10 DEF Clear, setPrimusCheckpoint, TypeOK
    <3>4. QED
      BY <2>0, <3>1, <3>2, <3>3 DEF Paid, SubmissionInHand, PaidFor, PaidOnce
  <2>11. CASE GuardFails
    <3>1. UNCHANGED <<status, checkpoint, age>> /\ Excused(job.task) /\ job.step = "validate"
      BY <2>11 DEF GuardFails
    <3>2. job'.task = job.task /\ job'.step = "guard"
      BY <2>0, <2>11 DEF GuardFails, Job
    <3>3. QED
      BY <3>1, <3>2 DEF Paid, SubmissionInHand, PaidFor, PaidOnce, Excused
  <2>12. CASE Validated \/ deferAfterGuardFailure
    <3>1. Ends /\ UNCHANGED <<age, excuse>> /\ setPrimusCheckpoint(None, None)
      BY <2>12 DEF Validated, deferAfterGuardFailure, Ends, Reasons
    <3>2. job.task \in excuse' \/ status'[job.task] = "done"
      <4>1. CASE Validated
        BY <2>0, <4>1 DEF Validated, recordOutcome, TypeOK
      <4>2. CASE deferAfterGuardFailure
        BY <3>1, <4>2 DEF deferAfterGuardFailure, Paid, SubmissionInHand
      <4>3. QED
        BY <2>12, <4>1, <4>2
    <3>3. QED
      BY <2>0, <2>1, <3>1, <3>2, PaidAtEnd
  <2>13. CASE \E c \in ErrorClass : Throw(c) \/ AttestFails(c)
    <3> PICK c \in ErrorClass : Throw(c) \/ AttestFails(c)
      BY <2>13
    <3>1. Ends
      BY ErrorEnds DEF Throw, AttestFails, Classes
    <3>2. UNCHANGED <<checkpoint, age>> /\ excuse \subseteq excuse'
            /\ (job.step = "saveSubmit" => job.task \in excuse')
      BY DEF Throw, AttestFails, Excused
    <3>3. QED
      BY <2>0, <2>1, <3>1, <3>2, PaidAtEnd
  <2>14. QED
    BY <1>6, <2>2, <2>3, <2>4, <2>5, <2>6, <2>7, <2>8, <2>9, <2>10, <2>11, <2>12, <2>13
       DEF FlowStep, Refused
<1>7. QED
  BY <1>1, <1>2, <1>3, <1>4, <1>5, <1>6 DEF Next

-----------------------------------------------------------------------------
LEMMA InitIInv == Init => IInv
<1> SUFFICES ASSUME Init PROVE IInv
  OBVIOUS
<1>1. TypeOK
  BY DEF Init, TypeOK, Reasons, Checkpoint, NoCheckpoint, SubOrNone, Job, NoJob, Steps,
         ChildStates, CountCeiling
<1>2. InHand
  BY DEF Init, InHand
<1>3. job.step = "idle"
  BY DEF Init, NoJob
<1>4. SubmissionInHand /\ PaidFor /\ PaidOnce
  BY <1>3 DEF Init, SubmissionInHand, PaidFor, PaidOnce
<1>5. AttestationFitsSubmission
  BY <1>3 DEF Init, AttestationFitsSubmission, NoCheckpoint
<1>6. DefersBudgeted
  BY DEF Init, DefersBudgeted
<1>7. QED
  BY <1>1, <1>2, <1>4, <1>5, <1>6 DEF IInv

LEMMA StepIInv == IInv /\ [Next]_vars => IInv'
BY TypeKept, HandKept, PaidKept, FitsKept, BudgetKept DEF IInv, Paid

(* The invariant the properties below rest on holds in every run.          *)
THEOREM InvariantHolds == Spec => []IInv
<1>1. Init => IInv
  BY InitIInv
<1>2. IInv /\ [Next]_vars => IInv'
  BY StepIInv
<1>3. QED
  BY <1>1, <1>2, PTL DEF Spec

(* Every variable of the flow keeps its type, the counts their bounds.     *)
THEOREM TypeCorrect == Spec => []TypeOK
<1>1. IInv => TypeOK
  BY DEF IInv
<1>2. QED
  BY <1>1, InvariantHolds, PTL

(* No crash, silent child, lost receipt or retry makes a task pay for a    *)
(* second submission without one of the reasons the code has for it.       *)
THEOREM NeverPaidTwice == Spec => []PaidOnce
<1>1. IInv => PaidOnce
  BY DEF IInv
<1>2. QED
  BY <1>1, InvariantHolds, PTL

(* No crash between the two writes leaves a checkpoint with an attestation *)
(* of another submission.                                                  *)
THEOREM CheckpointConsistent == Spec => []AttestationFitsSubmission
<1>1. IInv => AttestationFitsSubmission
  BY DEF IInv
<1>2. QED
  BY <1>1, InvariantHolds, PTL

(* The count that is compared with MAX_DEFERS holds every defer for an     *)
(* error except those of a silent child, and beyond the cap a task is      *)
(* parked for capacity, a failed capacity call, the guard or such a child  *)
(* only.                                                                   *)
THEOREM BudgetCharged == Spec => []DefersBudgeted
<1>1. IInv => DefersBudgeted
  BY DEF IInv
<1>2. QED
  BY <1>1, InvariantHolds, PTL

-----------------------------------------------------------------------------
(* The flow begins with tasks that have been created and parked; from then *)
(* on it takes a task from phase to phase as a stage promises: an outcome  *)
(* is written for a task that is open, and for no other.  No step of it    *)
(* makes the stage unreliable.                                             *)
Promise == INSTANCE TaskPromise WITH phase <- status, reliable <- TRUE

KeepsPromise == [][Promise!Next]_<<status, TRUE>>

LEMMA TaskMoves ==
  ASSUME TypeOK, NEW t \in Task, NEW p \in Promise!Phases,
         <<status[t], p>> \in Promise!Moves, status' = [status EXCEPT ![t] = p]
  PROVE  Promise!Next
<1>1. Promise!Move(t)
  BY DEF Promise!Move
<1>2. QED
  BY <1>1 DEF Promise!Next

LEMMA StepKeepsPromise ==
  ASSUME IInv, [Next]_vars
  PROVE  UNCHANGED status \/ Promise!Next
<1>0. TypeOK /\ InHand
  BY DEF IInv
<1>1. ASSUME NEW t \in Task, Wake(t) \/ RetryFailed(t) PROVE Promise!Next
  <2>1. /\ status[t] \in {"parked", "failed"} /\ status' = [status EXCEPT ![t] = "open"]
    BY <1>1 DEF Wake, RetryFailed
  <2>2. <<status[t], "open">> \in Promise!Moves /\ "open" \in Promise!Phases
    BY <2>1 DEF Promise!Moves, Promise!Phases
  <2>3. QED
    BY <1>0, <2>1, <2>2, TaskMoves
<1>2. CASE FlowStep \/ EvaluateFails
  <2>1. job.task \in Task /\ status[job.task] = "open"
    BY <1>0, <1>2, BusyFlow DEF InHand, At, NoJob
  <2>2. CASE GoesOn
    BY <2>2 DEF GoesOn
  <2>3. CASE EndsCharged
    <3>1. PICK p \in {"parked", "failed", "done"} : status' = [status EXCEPT ![job.task] = p]
      BY <2>3 DEF EndsCharged, recordOutcome
    <3>2. <<status[job.task], p>> \in Promise!Moves /\ p \in Promise!Phases
      BY <2>1 DEF Promise!Moves, Promise!Phases
    <3>3. QED
      BY <1>0, <2>1, <3>1, <3>2, TaskMoves
  <2>4. QED
    BY <1>0, <1>2, <2>2, <2>3, FlowOutcome
<1>3. QED
  BY <1>1, <1>2 DEF Next, vars, task, Begin, GrowOld, Crash, ChildStep, OtherSubmit,
                    reclaimTimedOutTasks

(* Whatever the contract, the child and the RPCs do, and wherever the      *)
(* daemon dies, the flow moves a task as its stage promises: an outcome is *)
(* written over an open task only, and nothing moves one that is done.     *)
THEOREM FlowKeepsPromise == Spec => KeepsPromise
<1>1. IInv /\ [Next]_vars => [Promise!Next]_<<status, TRUE>>
  BY StepKeepsPromise
<1>2. QED
  BY <1>1, InvariantHolds, PTL DEF Spec, KeepsPromise
=============================================================================
