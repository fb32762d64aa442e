----------------------------- MODULE PipelineStage -----------------------------
(***************************************************************************)
(* One stage of the proof pipeline (zkTLS, noir or zkVerify): the tasks    *)
(* of that type in MongoDB, the BullMQ queue in Redis, the master loop     *)
(* that moves eligible tasks into the queue, the workers that run the      *)
(* jobs, the asynchronous 'failed' handler, and the boot sequence that     *)
(* obliterates the queue and resets the tasks after a crash.               *)
(*                                                                         *)
(* MongoDB and Redis are two stores that no transaction spans.  Every      *)
(* await in the code is a point where another actor may act, so every      *)
(* single round trip is an action.  `faults` records, since the last boot, *)
(* the events that the code does not order by itself; the properties say   *)
(* which of them a guarantee survives.                                     *)
(***************************************************************************)
EXTENDS Naturals, FiniteSets

CONSTANTS
  Kind,             \* the stage: "zkTLS", "noir" or "zkVerify"
  Task,             \* task documents of this type, ordered by input.endTime
  Worker,           \* BullMQ workers of the stage
  BatchLimit,       \* documents one find() of the master returns at most
  OperatorRetries,  \* whether `pnpm tasks:retry` is run
  None              \* no task

Places == {"none", "waiting", "finished"}

ASSUME KindAssumption == Kind \in {"zkTLS", "noir", "zkVerify"}
ASSUME TaskAssumption == Task \subseteq Nat /\ None \notin Task
ASSUME WorkerAssumption == Worker \cap Places = {}
ASSUME OptionAssumption == BatchLimit \in Nat \ {0} /\ OperatorRetries \in BOOLEAN

(***************************************************************************)
(* Stage options: attempts per job (app.ts), whether the queue keeps       *)
(* finished jobs, whether the processor reports its own failures.          *)
(***************************************************************************)
RetryAttempts == IF Kind = "zkTLS" THEN 1 ELSE 3
KeepsFinishedJobs == Kind # "zkTLS"
ReportsOwnOutcome == Kind = "zkTLS"

Status == {"ABSENT", "PENDING", "QUEUED", "RUNNING", "DEFERRED", "COMPLETED", "FAILED"}
WorkerStep == {"idle", "fetched", "admitted", "running", "returning",
               "throwing", "throwingPermanent"}
FaultName == {"stale", "overwrite", "stall", "retained"}

VARIABLES
  sys,       \* the daemon: "down", "cleaning" (boot) or "up"
  status,    \* Task.status
  due,       \* deferUntil <= now
  job,       \* where the BullMQ job of the task is; a worker: active, locked by it
  attempts,  \* job.attemptsMade
  at,        \* the task each worker works on
  step,      \* where in its processor each worker is
  batch,     \* tasks the master has read and not yet added
  cur,       \* the task the master has added and not yet marked
  handlers,  \* 'failed' handlers whose status write has not landed
  faults     \* what went wrong since the last boot

mongo == <<status, due>>
queue == <<job, attempts>>
workers == <<at, step>>
master == <<batch, cur>>
vars == <<sys, mongo, queue, workers, master, handlers, faults>>

Pending == [task : Task, status : {"QUEUED", "FAILED"}]

TypeOK ==
  /\ sys \in {"down", "cleaning", "up"}
  /\ status \in [Task -> Status]
  /\ due \in [Task -> BOOLEAN]
  /\ job \in [Task -> Places \cup Worker]
  /\ attempts \in [Task -> 0..RetryAttempts]
  /\ at \in [Worker -> Task \cup {None}]
  /\ step \in [Worker -> WorkerStep]
  /\ batch \subseteq Task
  /\ cur \in Task \cup {None}
  /\ handlers \subseteq Pending
  /\ faults \subseteq FaultName

Init ==
  /\ sys = "down"
  /\ status = [t \in Task |-> "ABSENT"]
  /\ due = [t \in Task |-> FALSE]
  /\ job = [t \in Task |-> "none"]
  /\ attempts = [t \in Task |-> 0]
  /\ at = [w \in Worker |-> None]
  /\ step = [w \in Worker |-> "idle"]
  /\ batch = {}
  /\ cur = None
  /\ handlers = {}
  /\ faults = {}

-----------------------------------------------------------------------------
(* Predicates on one task.                                                 *)

Settled(t) ==
  \/ status[t] \in {"COMPLETED", "FAILED"}
  \/ status[t] = "DEFERRED" /\ ~due[t]

Eligible(t) ==
  \/ status[t] = "PENDING"
  \/ ReportsOwnOutcome /\ status[t] = "DEFERRED" /\ due[t]

Live(t) == job[t] = "waiting" \/ job[t] \in Worker
Reporting(t) == \E h \in handlers : h.task = t
InHand(t) == t \in batch \/ cur = t
Busy(t) == InHand(t) \/ Live(t) \/ Reporting(t)

Fault(f, happened) == faults' = IF happened THEN faults \cup {f} ELSE faults

SetStatus(t, s) == status' = [status EXCEPT ![t] = s]
Goto(w, s) == step' = [step EXCEPT ![w] = s]

-----------------------------------------------------------------------------
(* The world around the stage.                                             *)

(* Mutant: the upsert sets the status also on a document that exists.      *)
CreateOverwrites(t) ==
  /\ sys = "up"
  /\ SetStatus(t, IF Kind = "zkTLS" THEN "DEFERRED" ELSE "PENDING")
  /\ UNCHANGED <<sys, due, queue, workers, master, handlers, faults>>

(* A task document appears: upserted DEFERRED by the scheduler for zkTLS,  *)
(* created PENDING by the previous stage's transaction otherwise.          *)
Create(t) ==
  /\ sys = "up"
  /\ status[t] = "ABSENT"
  /\ SetStatus(t, IF Kind = "zkTLS" THEN "DEFERRED" ELSE "PENDING")
  /\ UNCHANGED <<sys, due, queue, workers, master, handlers, faults>>

(* deferUntil passes.  A defer lasts a second or more: if an actor of the  *)
(* attempt that wrote it is still busy with the task then, it is late.     *)
Elapse(t) ==
  /\ status[t] = "DEFERRED" /\ ~due[t]
  /\ due' = [due EXCEPT ![t] = TRUE]
  /\ Fault("stale", Busy(t))
  /\ UNCHANGED <<sys, status, queue, workers, master, handlers>>

(* `pnpm tasks:retry` touches the FAILED document and nothing in Redis.    *)
RetryFailed(t) ==
  /\ OperatorRetries
  /\ status[t] = "FAILED"
  /\ SetStatus(t, "PENDING")
  /\ faults' = faults \cup (IF Busy(t) THEN {"stale"} ELSE {})
                      \cup (IF job[t] = "finished" THEN {"retained"} ELSE {})
  /\ UNCHANGED <<sys, due, queue, workers, master, handlers>>

(* BullMQ drops a retained finished job once 100 newer ones are retained.  *)
Trim(t) ==
  /\ sys = "up"
  /\ job[t] = "finished"
  /\ job' = [job EXCEPT ![t] = "none"]
  /\ UNCHANGED <<sys, mongo, attempts, workers, master, handlers, faults>>

(* A worker loses the lock of its job; the queue hands the job out again   *)
(* while the first worker goes on.                                         *)
Stall(t) ==
  /\ sys = "up"
  /\ job[t] \in Worker
  /\ job' = [job EXCEPT ![t] = "waiting"]
  /\ faults' = faults \cup {IF step[job[t]] = "running" THEN "stall" ELSE "stale"}
  /\ UNCHANGED <<sys, mongo, attempts, workers, master, handlers>>

-----------------------------------------------------------------------------
(* Crash and boot.                                                         *)

Crash ==
  /\ sys # "down"
  /\ sys' = "down"
  /\ at' = [w \in Worker |-> None]
  /\ step' = [w \in Worker |-> "idle"]
  /\ batch' = {}
  /\ cur' = None
  /\ handlers' = {}
  /\ UNCHANGED <<mongo, queue, faults>>

resetPipelineQueues ==
  /\ sys = "down"
  /\ sys' = "cleaning"
  /\ job' = [t \in Task |-> "none"]
  /\ attempts' = [t \in Task |-> 0]
  /\ UNCHANGED <<mongo, workers, master, handlers, faults>>

runCleanupOnce(t) ==
  /\ sys = "cleaning"
  /\ status[t] \in {"QUEUED", "RUNNING"}
  /\ SetStatus(t, "PENDING")
  /\ due' = [due EXCEPT ![t] = FALSE]
  /\ UNCHANGED <<sys, queue, workers, master, handlers, faults>>

StartMasters ==
  /\ sys = "cleaning"
  /\ \A t \in Task : status[t] \notin {"QUEUED", "RUNNING"}
  /\ sys' = "up"
  /\ faults' = {}
  /\ UNCHANGED <<mongo, queue, workers, master, handlers>>

-----------------------------------------------------------------------------
(* The master loop: find, then per task queue.add and markTaskQueued.      *)

Batches ==
  LET E == {t \in Task : Eligible(t)}
  IN IF Kind = "zkTLS"
     THEN {{t} : t \in {u \in E : \A v \in E : u <= v}}
     ELSE {B \in SUBSET E : B = E \/ Cardinality(B) = BatchLimit} \ {{}}

Find ==
  /\ sys = "up"
  /\ batch = {} /\ cur = None
  /\ batch' \in Batches
  /\ UNCHANGED <<sys, mongo, queue, workers, cur, handlers, faults>>

(* queue.add with jobId = taskId: ignored when a job of that id exists,    *)
(* also when it is a finished one the queue retains.                       *)
Add(t) ==
  /\ t \in batch /\ cur = None
  /\ batch' = batch \ {t}
  /\ cur' = t
  /\ IF job[t] = "none"
     THEN /\ job' = [job EXCEPT ![t] = "waiting"]
          /\ attempts' = [attempts EXCEPT ![t] = 0]
     ELSE UNCHANGED queue
  /\ Fault("stale", Settled(t) \/ Reporting(t))
  /\ UNCHANGED <<sys, mongo, workers, handlers>>

(* markTaskQueued has no condition on the status it overwrites.            *)
markTaskQueued ==
  /\ cur \in Task
  /\ SetStatus(cur, "QUEUED")
  /\ due' = [due EXCEPT ![cur] = FALSE]
  /\ cur' = None
  /\ faults' = faults \cup (IF Settled(cur) THEN {"stale"} ELSE {})
                      \cup (IF status[cur] = "RUNNING" THEN {"overwrite"} ELSE {})
  /\ UNCHANGED <<sys, queue, workers, batch, handlers>>

(* Redis or MongoDB refuses: the rest of the batch is dropped.             *)
MasterError ==
  /\ batch # {} \/ cur # None
  /\ batch' = {}
  /\ cur' = None
  /\ UNCHANGED <<sys, mongo, queue, workers, handlers, faults>>

-----------------------------------------------------------------------------
(* A worker with one job.                                                  *)

Take(w, t) ==
  /\ sys = "up"
  /\ step[w] = "idle"
  /\ job[t] = "waiting"
  /\ job' = [job EXCEPT ![t] = w]
  /\ at' = [at EXCEPT ![w] = t]
  /\ Goto(w, "fetched")
  /\ Fault("stale", Reporting(t))
  /\ UNCHANGED <<sys, mongo, attempts, master, handlers>>

(* Mutants of the skip guard: a running task is not skipped; only a pending*)
(* one is not.                                                             *)
HandledWhenCompleted(t) == status[t] = "COMPLETED"
HandledUnlessPending(t) == status[t] # "PENDING"

AlreadyHandled(t) == status[t] \in {"COMPLETED", "RUNNING"}

(* findById and the skip guard.                                            *)
Load(w) ==
  /\ step[w] = "fetched"
  /\ Goto(w, IF AlreadyHandled(at[w]) THEN "returning" ELSE "admitted")
  /\ UNCHANGED <<sys, mongo, queue, at, master, handlers, faults>>

MarkRunning(w) ==
  /\ step[w] = "admitted"
  /\ SetStatus(at[w], "RUNNING")
  /\ due' = [due EXCEPT ![at[w]] = FALSE]
  /\ Goto(w, "running")
  /\ UNCHANGED <<sys, queue, at, master, handlers, faults>>

(* The final write of an attempt that reports for itself: the completion   *)
(* transaction, or (zkTLS) recordOutcome with DEFERRED or FAILED.          *)
Report(w, s) ==
  /\ step[w] = "running"
  /\ SetStatus(at[w], s)
  /\ due' = [due EXCEPT ![at[w]] = FALSE]
  /\ Goto(w, "returning")
  /\ UNCHANGED <<sys, queue, at, master, handlers, faults>>

Complete(w) == Report(w, "COMPLETED")
recordOutcome(w) == ReportsOwnOutcome /\ \E s \in {"DEFERRED", "FAILED"} : Report(w, s)

(* Any awaited call may throw: findById, the parse, a status write, the    *)
(* processor, the transaction.  A PermanentTaskError leaves the processor  *)
(* only in the noir stage; the zkTLS processor's errors are caught.        *)
Throw(w) ==
  /\ step[w] \in {"fetched", "admitted", "running"}
  /\ \/ Goto(w, "throwing")
     \/ Kind = "noir" /\ step[w] = "running" /\ Goto(w, "throwingPermanent")
  /\ Fault("stale", \E v \in Worker \ {w} : at[v] = at[w])
  /\ UNCHANGED <<sys, mongo, queue, at, master, handlers>>

(* The final write landed but its acknowledgement was lost: the processor  *)
(* throws although the outcome is recorded.                                *)
LostAck(w) ==
  /\ step[w] = "returning"
  /\ Goto(w, "throwing")
  /\ faults' = faults \cup {"stale"}
  /\ UNCHANGED <<sys, mongo, queue, at, master, handlers>>

Release(w) ==
  /\ Goto(w, "idle")
  /\ at' = [at EXCEPT ![w] = None]

FinishedPlace == IF KeepsFinishedJobs THEN "finished" ELSE "none"

(* BullMQ moveToCompleted; a worker that lost the lock only logs an error. *)
JobCompleted(w) ==
  /\ step[w] = "returning"
  /\ job' = IF job[at[w]] = w THEN [job EXCEPT ![at[w]] = FinishedPlace] ELSE job
  /\ Release(w)
  /\ UNCHANGED <<sys, mongo, attempts, master, handlers, faults>>

(* BullMQ's own decision in moveToFailed: another attempt, or none.        *)
RetriesJob(permanent, made) == ~permanent /\ made + 1 < RetryAttempts

(* Mutants: the handler counts one attempt too many; one too few.          *)
resolveOneTooMany(permanent, attemptsMade) ==
  IF ~permanent /\ attemptsMade <= RetryAttempts THEN "QUEUED" ELSE "FAILED"

resolveOneTooFew(permanent, attemptsMade) ==
  IF ~permanent /\ attemptsMade + 1 < RetryAttempts THEN "QUEUED" ELSE "FAILED"

(* What the handler writes.  It guesses BullMQ's decision from the counter *)
(* that BullMQ has raised by then.                                         *)
resolveFailedJobStatus(permanent, attemptsMade) ==
  IF ~permanent /\ attemptsMade < RetryAttempts THEN "QUEUED" ELSE "FAILED"

(* BullMQ moveToFailed, then the 'failed' event, whose handler nobody      *)
(* awaits.                                                                 *)
JobFailed(w) ==
  LET t == at[w]
      permanent == step[w] = "throwingPermanent"
      s == resolveFailedJobStatus(permanent, attempts[t] + 1)
  IN /\ step[w] \in {"throwing", "throwingPermanent"}
     /\ IF job[t] = w
        THEN /\ attempts' = [attempts EXCEPT ![t] = attempts[t] + 1]
             /\ job' = [job EXCEPT ![t] =
                          IF RetriesJob(permanent, attempts[t]) THEN "waiting" ELSE FinishedPlace]
             /\ handlers' = handlers \cup {[task |-> t, status |-> s]}
        ELSE UNCHANGED <<queue, handlers>>
     /\ Release(w)
     /\ UNCHANGED <<sys, mongo, master, faults>>

(* The 'failed' handler's updateTaskStatus lands, or throws and is logged. *)
HandlerWrites(h) ==
  /\ h \in handlers
  /\ SetStatus(h.task, h.status)
  /\ due' = [due EXCEPT ![h.task] = FALSE]
  /\ handlers' = handlers \ {h}
  /\ UNCHANGED <<sys, queue, workers, master, faults>>

HandlerLost(h) ==
  /\ h \in handlers
  /\ handlers' = handlers \ {h}
  /\ faults' = faults \cup {"stale"}
  /\ UNCHANGED <<sys, mongo, queue, workers, master>>

-----------------------------------------------------------------------------
WorkerAction(w) ==
  \/ Load(w) \/ MarkRunning(w) \/ Complete(w) \/ recordOutcome(w)
  \/ Throw(w) \/ LostAck(w) \/ JobCompleted(w) \/ JobFailed(w)

Next ==
  \/ \E t \in Task : Create(t)
  \/ \E t \in Task : Elapse(t)
  \/ \E t \in Task : RetryFailed(t)
  \/ \E t \in Task : Trim(t)
  \/ \E t \in Task : Stall(t)
  \/ Crash
  \/ resetPipelineQueues
  \/ \E t \in Task : runCleanupOnce(t)
  \/ StartMasters
  \/ Find
  \/ \E t \in Task : Add(t)
  \/ markTaskQueued
  \/ MasterError
  \/ \E w \in Worker, t \in Task : Take(w, t)
  \/ \E w \in Worker : WorkerAction(w)
  \/ \E h \in Pending : HandlerWrites(h)
  \/ \E h \in Pending : HandlerLost(h)

Spec == Init /\ [][Next]_vars

(***************************************************************************)
(* Docker restarts the daemon, the master loops for ever and Redis answers *)
(* again after an outage (SF on Add), BullMQ hands jobs out in order (SF   *)
(* on Take), a processor returns or throws, a handler's write lands.       *)
(* Nobody has to crash, stall or retry.                                    *)
(***************************************************************************)
Fairness ==
  /\ WF_vars(resetPipelineQueues)
  /\ WF_vars(\E t \in Task : runCleanupOnce(t))
  /\ WF_vars(StartMasters)
  /\ WF_vars(markTaskQueued)
  /\ \A t \in Task :
       /\ SF_vars(Find /\ t \in batch')
       /\ SF_vars(Add(t))
       /\ SF_vars(\E w \in Worker : Take(w, t))
  /\ \A w \in Worker : WF_vars(WorkerAction(w))
  /\ \A h \in Pending : WF_vars(HandlerWrites(h))

FairSpec == Spec /\ Fairness

-----------------------------------------------------------------------------
(* Properties.                                                             *)

Ordered == faults \subseteq {"overwrite"}

(* No task is stranded: as long as every actor's write landed before the   *)
(* attempt it speaks of was over, a QUEUED or RUNNING task always has a    *)
(* job in the queue, or a 'failed' handler about to settle it.  A RUNNING  *)
(* one is in the hands of the worker that will report its outcome.         *)
NoStrandedTask ==
  sys = "up" /\ Ordered =>
    \A t \in Task :
      /\ status[t] = "QUEUED" => Live(t) \/ Reporting(t)
      /\ status[t] = "RUNNING" =>
           \/ Reporting(t)
           \/ /\ job[t] \in Worker
              /\ step[job[t]] \in {"running", "throwing", "throwingPermanent"}

(* The handler's count and BullMQ's agree: while the writes keep their     *)
(* order nobody attempts a task that is FAILED.  Its job is gone, or in    *)
(* the hands of the worker that has just recorded the failure.             *)
FailedIsOver ==
  sys = "up" /\ Ordered =>
    \A t \in Task : status[t] = "FAILED" =>
      /\ job[t] # "waiting"
      /\ job[t] \in Worker => step[job[t]] = "returning"

(* The skip guard of the workers: a task is not processed twice at the     *)
(* same time, even after a stalled job is handed to a second worker,       *)
(* unless markTaskQueued overwrote the RUNNING status the guard looks at.  *)
Guarded == "stale" \notin faults /\ ~({"stall", "overwrite"} \subseteq faults)

NoConcurrentProcessing ==
  Guarded =>
    \A v, w \in Worker :
      step[v] = "running" /\ step[w] = "running" /\ at[v] = at[w] => v = w

(* The stage implements TaskPromise: PENDING, QUEUED, RUNNING and a        *)
(* DEFERRED task whose deferral is over are all one open task.             *)
PhaseOf(t) ==
  CASE status[t] = "ABSENT" -> "absent"
    [] status[t] = "COMPLETED" -> "done"
    [] status[t] = "FAILED" -> "failed"
    [] status[t] = "DEFERRED" /\ ~due[t] -> "parked"
    [] OTHER -> "open"

Promise ==
  INSTANCE TaskPromise WITH phase <- [t \in Task |-> PhaseOf(t)], reliable <- Ordered

ImplementsPromise == Promise!Spec

(* Once the daemon stays up and writes keep their order, every open task   *)
(* is eventually settled: completed, failed or deferred.  This also says   *)
(* that one restart repairs whatever an earlier fault stranded.            *)
Calm == sys = "up" /\ Ordered

Settles ==
  <>[]Calm =>
    \A t \in Task : (status[t] \notin {"ABSENT"} /\ ~Settled(t)) ~> Settled(t)

(* README.md: `pnpm tasks:retry` "Retry all failed tasks (resets them to   *)
(* PENDING)": a task that the operator reset is attempted again.           *)
RetriedTaskIsAttempted ==
  <>[](sys = "up" /\ faults \subseteq {"overwrite", "retained"}) =>
    \A t \in Task : status[t] = "PENDING" ~> Settled(t)
=============================================================================
