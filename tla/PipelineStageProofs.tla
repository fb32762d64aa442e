-------------------------- MODULE PipelineStageProofs --------------------------
(***************************************************************************)
(* Proofs about PipelineStage, for every number of tasks and workers and   *)
(* every kind of stage.                                                    *)
(***************************************************************************)
EXTENDS PipelineStage, TLAPS

(***************************************************************************)
(* The inductive invariant, in three layers.  Structure holds always; the  *)
(* lock layer as long as the stage is Guarded (a stalled job is tolerated);*)
(* the order layer as long as it is Ordered.                               *)
(***************************************************************************)
Throwing(w) == step[w] \in {"throwing", "throwingPermanent"}

Structure ==
  /\ \A w \in Worker : step[w] = "idle" <=> at[w] = None
  /\ sys # "up" =>
       /\ batch = {} /\ cur = None /\ handlers = {}
       /\ \A w \in Worker : at[w] = None
  /\ sys = "cleaning" => \A t \in Task : job[t] = "none"
  /\ \A t \in Task :
       /\ Live(t) => attempts[t] < RetryAttempts
       /\ status[t] = "DEFERRED" => Kind = "zkTLS"
       /\ job[t] = "finished" => Kind # "zkTLS"
       /\ status[t] = "ABSENT" => job[t] = "none" /\ ~InHand(t) /\ ~Reporting(t)
  /\ \A w \in Worker : at[w] \in Task => status[at[w]] # "ABSENT"
  /\ sys = "up" => \A t \in Task : job[t] \in Worker => at[job[t]] = t

LockLayer ==
  \A w \in Worker : at[w] \in Task =>
    /\ job[at[w]] # w => "stall" \in faults /\ step[w] \notin {"fetched", "admitted"}
    /\ step[w] = "running" /\ "overwrite" \notin faults => status[at[w]] = "RUNNING"
    /\ ~Reporting(at[w])
    /\ \A v \in Worker \ {w} : at[v] = at[w] =>
         /\ Throwing(w) => job[at[w]] # w
         /\ step[w] = "running" => step[v] \notin {"admitted", "running"}

(* Read and not begun: what a worker may find when it looks a task up.     *)
Startable(t) ==
  status[t] \in {"PENDING", "QUEUED"} \/ (status[t] = "DEFERRED" /\ due[t])

WorkerOrder(w) ==
  /\ step[w] \in {"fetched", "admitted"} => Startable(at[w])
  /\ step[w] = "running" => status[at[w]] \in {"RUNNING", "QUEUED"}
  /\ step[w] = "returning" => Settled(at[w])
  /\ Throwing(w) => ~Settled(at[w])

HandlerOrder(h) ==
  /\ h.status = "QUEUED" => job[h.task] = "waiting"
  /\ h.status = "FAILED" => ~Live(h.task)
  /\ ~Settled(h.task)
  /\ \A g \in handlers : g.task = h.task => g = h

TaskOrder(t) ==
  /\ job[t] = "waiting" => Reporting(t) \/ Startable(t)
  /\ job[t] = "finished" => Reporting(t) \/ Settled(t)
  /\ cur = t /\ ~Settled(t) => Live(t) \/ Reporting(t)
  /\ status[t] = "QUEUED" => Live(t) \/ Reporting(t)
  /\ status[t] = "RUNNING" =>
       Reporting(t) \/ (job[t] \in Worker /\ (step[job[t]] = "running" \/ Throwing(job[t])))

OrderLayer ==
  /\ \A w \in Worker : at[w] \in Task => WorkerOrder(w)
  /\ \A h \in handlers : HandlerOrder(h)
  /\ \A t \in Task : TaskOrder(t)

IInv ==
  /\ TypeOK
  /\ Structure
  /\ Guarded => LockLayer
  /\ sys = "up" /\ Ordered => OrderLayer

-----------------------------------------------------------------------------
(* Types.                                                                  *)

USE KindAssumption, TaskAssumption, WorkerAssumption, OptionAssumption

LEMMA WorkerNotPlace == \A w \in Worker : w # "none" /\ w # "waiting" /\ w # "finished"
  BY DEF Places

LEMMA BatchesType == TypeOK => \A B \in Batches : B \subseteq Task
  BY DEF TypeOK, Batches

(* The stage never leaves its types: in particular a job is never attempted*)
(* more often than the stage's options say.                                *)
LEMMA TypeStep == TypeOK /\ Structure /\ [Next]_vars => TypeOK'
<1> SUFFICES ASSUME TypeOK, Structure, [Next]_vars
             PROVE  TypeOK'
  OBVIOUS
<1> USE DEF TypeOK, mongo, queue, workers, master, Places, Status, WorkerStep,
            FaultName, Fault, SetStatus, Goto, Release
<1>1. CASE UNCHANGED vars
  BY <1>1 DEF vars
<1>2. ASSUME NEW t \in Task, Create(t) PROVE TypeOK'
  BY <1>2 DEF Create
<1>3. ASSUME NEW t \in Task, Elapse(t) PROVE TypeOK'
  BY <1>3 DEF Elapse
<1>4. ASSUME NEW t \in Task, RetryFailed(t) PROVE TypeOK'
  BY <1>4 DEF RetryFailed
<1>5. ASSUME NEW t \in Task, Trim(t) PROVE TypeOK'
  BY <1>5 DEF Trim
<1>6. ASSUME NEW t \in Task, Stall(t) PROVE TypeOK'
  BY <1>6 DEF Stall
<1>7. CASE Crash
  BY <1>7 DEF Crash
<1>8. CASE resetPipelineQueues
  BY <1>8 DEF resetPipelineQueues, RetryAttempts
<1>9. ASSUME NEW t \in Task, runCleanupOnce(t) PROVE TypeOK'
  BY <1>9 DEF runCleanupOnce
<1>10. CASE StartMasters
  BY <1>10 DEF StartMasters
<1>11. CASE Find
  BY <1>11, BatchesType DEF Find
<1>12. ASSUME NEW t \in Task, Add(t) PROVE TypeOK'
  BY <1>12 DEF Add, RetryAttempts
<1>13. CASE markTaskQueued
  BY <1>13 DEF markTaskQueued
<1>14. CASE MasterError
  BY <1>14 DEF MasterError
<1>15. ASSUME NEW w \in Worker, NEW t \in Task, Take(w, t) PROVE TypeOK'
  BY <1>15 DEF Take
<1>16. ASSUME NEW w \in Worker, WorkerAction(w) PROVE TypeOK'
  <2>1. CASE Load(w)
    BY <2>1 DEF Load
  <2>2. CASE MarkRunning(w)
    BY <2>2 DEF MarkRunning
  <2>3. ASSUME NEW s \in {"COMPLETED", "DEFERRED", "FAILED"}, Report(w, s) PROVE TypeOK'
    BY <2>3 DEF Report
  <2>4. CASE Throw(w)
    BY <2>4 DEF Throw
  <2>5. CASE LostAck(w)
    BY <2>5 DEF LostAck
  <2>6. CASE JobCompleted(w)
    BY <2>6 DEF JobCompleted, FinishedPlace
  <2>7. CASE JobFailed(w)
    BY <2>7 DEF JobFailed, FinishedPlace, Structure, Live, Pending, RetriesJob, resolveFailedJobStatus, RetryAttempts
  <2>8. QED
    BY <1>16, <2>1, <2>2, <2>3, <2>4, <2>5, <2>6, <2>7
    DEF WorkerAction, Complete, recordOutcome
<1>17. ASSUME NEW h \in Pending, HandlerWrites(h) PROVE TypeOK'
  BY <1>17 DEF HandlerWrites, Pending
<1>18. ASSUME NEW h \in Pending, HandlerLost(h) PROVE TypeOK'
  BY <1>18 DEF HandlerLost
<1>19. QED
  BY <1>1, <1>2, <1>3, <1>4, <1>5, <1>6, <1>7, <1>8, <1>9, <1>10, <1>11, <1>12,
     <1>13, <1>14, <1>15, <1>16, <1>17, <1>18 DEF Next

-----------------------------------------------------------------------------
(* Structure.                                                              *)

LEMMA BatchesEligible ==
  TypeOK => \A B \in Batches : \A t \in B : t \in Task /\ status[t] # "ABSENT"
  BY DEF TypeOK, Batches, Eligible

(* Locks point to the worker that works on the task, nothing refers to an  *)
(* absent task, and outside the "up" phase no actor is active.             *)
LEMMA StructureStep == TypeOK /\ Structure /\ [Next]_vars => Structure'
<1> SUFFICES ASSUME TypeOK, Structure, [Next]_vars
             PROVE  Structure'
  OBVIOUS
<1> USE DEF TypeOK, Structure, mongo, queue, workers, master, Places, Status, WorkerStep,
            Fault, SetStatus, Goto, Release, Live, InHand, Reporting
<1>1. CASE UNCHANGED vars
  BY <1>1 DEF vars
<1>2. ASSUME NEW t \in Task, Create(t) PROVE Structure'
  BY <1>2 DEF Create, ReportsOwnOutcome
<1>3. ASSUME NEW t \in Task, Elapse(t) PROVE Structure'
  BY <1>3 DEF Elapse
<1>4. ASSUME NEW t \in Task, RetryFailed(t) PROVE Structure'
  BY <1>4 DEF RetryFailed
<1>5. ASSUME NEW t \in Task, Trim(t) PROVE Structure'
  BY <1>5 DEF Trim
<1>6. ASSUME NEW t \in Task, Stall(t) PROVE Structure'
  BY <1>6 DEF Stall
<1>7. CASE Crash
  BY <1>7 DEF Crash
<1>8. CASE resetPipelineQueues
  BY <1>8 DEF resetPipelineQueues, RetryAttempts
<1>9. ASSUME NEW t \in Task, runCleanupOnce(t) PROVE Structure'
  BY <1>9 DEF runCleanupOnce
<1>10. CASE StartMasters
  BY <1>10 DEF StartMasters
<1>11. CASE Find
  BY <1>11, BatchesEligible DEF Find
<1>12. ASSUME NEW t \in Task, Add(t) PROVE Structure'
  BY <1>12 DEF Add, RetryAttempts
<1>13. CASE markTaskQueued
  BY <1>13 DEF markTaskQueued
<1>14. CASE MasterError
  BY <1>14 DEF MasterError
<1>15. ASSUME NEW w \in Worker, NEW t \in Task, Take(w, t) PROVE Structure'
  BY <1>15 DEF Take
<1>16. ASSUME NEW w \in Worker, WorkerAction(w) PROVE Structure'
  <2>1. CASE Load(w)
    BY <2>1 DEF Load
  <2>2. CASE MarkRunning(w)
    BY <2>2 DEF MarkRunning
  <2>3. ASSUME NEW s \in {"COMPLETED", "DEFERRED", "FAILED"},
              s = "DEFERRED" => ReportsOwnOutcome, Report(w, s)
       PROVE  Structure'
    BY <2>3 DEF Report, ReportsOwnOutcome
  <2>4. CASE Throw(w)
    BY <2>4 DEF Throw
  <2>5. CASE LostAck(w)
    BY <2>5 DEF LostAck
  <2>6. CASE JobCompleted(w)
    BY <2>6 DEF JobCompleted, FinishedPlace, KeepsFinishedJobs
  <2>7. CASE JobFailed(w)
    BY <2>7 DEF JobFailed, FinishedPlace, KeepsFinishedJobs, Pending, RetriesJob, resolveFailedJobStatus, RetryAttempts
  <2>8. QED
    BY <1>16, <2>1, <2>2, <2>3, <2>4, <2>5, <2>6, <2>7
    DEF WorkerAction, Complete, recordOutcome
<1>17. ASSUME NEW h \in Pending, HandlerWrites(h) PROVE Structure'
  BY <1>17 DEF HandlerWrites, Pending
<1>18. ASSUME NEW h \in Pending, HandlerLost(h) PROVE Structure'
  BY <1>18 DEF HandlerLost
<1>19. QED
  BY <1>1, <1>2, <1>3, <1>4, <1>5, <1>6, <1>7, <1>8, <1>9, <1>10, <1>11, <1>12,
     <1>13, <1>14, <1>15, <1>16, <1>17, <1>18 DEF Next

-----------------------------------------------------------------------------
(* Locks.                                                                  *)

(* As long as the stage is Guarded a worker that has not begun holds the   *)
(* lock of its job, and only a worker whose job stalled while it was       *)
(* processing may share its task with another one.                         *)
LEMMA LockStep ==
  TypeOK /\ Structure /\ (Guarded => LockLayer) /\ [Next]_vars => (Guarded' => LockLayer')
<1> SUFFICES ASSUME TypeOK, Structure, Guarded => LockLayer, [Next]_vars, Guarded'
             PROVE  LockLayer'
  OBVIOUS
<1> USE DEF TypeOK, Structure, Guarded, LockLayer, mongo, queue, workers, master, Places,
            Status, WorkerStep, Fault, SetStatus, Goto, Release, Live, InHand, Reporting, Throwing
<1>1. CASE UNCHANGED vars
  BY <1>1 DEF vars
<1>2. ASSUME NEW t \in Task, Create(t) PROVE LockLayer'
  BY <1>2 DEF Create, ReportsOwnOutcome
<1>3. ASSUME NEW t \in Task, Elapse(t) PROVE LockLayer'
  BY <1>3 DEF Elapse
<1>4. ASSUME NEW t \in Task, RetryFailed(t) PROVE LockLayer'
  BY <1>4 DEF RetryFailed
<1>5. ASSUME NEW t \in Task, Trim(t) PROVE LockLayer'
  BY <1>5 DEF Trim
<1>6. ASSUME NEW t \in Task, Stall(t) PROVE LockLayer'
  BY <1>6 DEF Stall
<1>7. CASE Crash
  BY <1>7 DEF Crash
<1>8. CASE resetPipelineQueues
  BY <1>8 DEF resetPipelineQueues
<1>9. ASSUME NEW t \in Task, runCleanupOnce(t) PROVE LockLayer'
  BY <1>9 DEF runCleanupOnce
<1>10. CASE StartMasters
  BY <1>10 DEF StartMasters
<1>11. CASE Find
  BY <1>11 DEF Find
<1>12. ASSUME NEW t \in Task, Add(t) PROVE LockLayer'
  <2>1. UNCHANGED <<status, at, step, handlers, faults>>
    BY <1>12 DEF Add
  <2>2. \A u \in Task : job'[u] = job[u] \/ (job[u] = "none" /\ job'[u] = "waiting")
    BY <1>12 DEF Add
  <2>3. \A w \in Worker : at[w] \in Task => (job'[at[w]] = w <=> job[at[w]] = w)
    <3> HIDE DEF TypeOK, Structure, LockLayer, Guarded
    <3>1. QED
      BY <2>2, WorkerNotPlace
  <2>4. LockLayer
    BY <2>1
  <2> HIDE DEF TypeOK, Structure
  <2>5. QED
    BY <2>1, <2>3, <2>4
<1>13. CASE markTaskQueued
  BY <1>13 DEF markTaskQueued
<1>14. CASE MasterError
  BY <1>14 DEF MasterError
<1>15. ASSUME NEW w \in Worker, NEW t \in Task, Take(w, t) PROVE LockLayer'
  BY <1>15 DEF Take
<1>16. ASSUME NEW w \in Worker, WorkerAction(w) PROVE LockLayer'
  <2>1. CASE Load(w)
    BY <2>1 DEF Load, AlreadyHandled
  <2>2. CASE MarkRunning(w)
    BY <2>2 DEF MarkRunning
  <2>3. ASSUME NEW s \in {"COMPLETED", "DEFERRED", "FAILED"},
              s = "DEFERRED" => ReportsOwnOutcome, Report(w, s)
       PROVE  LockLayer'
    BY <2>3 DEF Report, ReportsOwnOutcome
  <2>4. CASE Throw(w)
    BY <2>4 DEF Throw
  <2>5. CASE LostAck(w)
    BY <2>5 DEF LostAck
  <2>6. CASE JobCompleted(w)
    BY <2>6 DEF JobCompleted, FinishedPlace, KeepsFinishedJobs
  <2>7. CASE JobFailed(w)
    <3>1. at[w] \in Task /\ Throwing(w) /\ UNCHANGED <<status, faults>>
      BY <2>7 DEF JobFailed
    <3>2. at' = [at EXCEPT ![w] = None] /\ step' = [step EXCEPT ![w] = "idle"]
      BY <2>7 DEF JobFailed
    <3>3. CASE job[at[w]] = w
      <4>1. \A v \in Worker \ {w} : at[v] # at[w]
        BY <3>1, <3>3
      <4>2. \A u \in Task \ {at[w]} : job'[u] = job[u]
        BY <2>7 DEF JobFailed
      <4>3. \A h \in handlers' : h \in handlers \/ h.task = at[w]
        BY <2>7, <3>3 DEF JobFailed
      <4>4. QED
        <5>1. LockLayer
          BY <3>1
        <5>2. \A v \in Worker : at'[v] \in Task => v # w /\ at'[v] = at[v] /\ at[v] # at[w]
          BY <3>2, <4>1
        <5>3. \A v \in Worker : at'[v] \in Task => 
                job'[at[v]] = job[at[v]] /\ step'[v] = step[v] /\ (Reporting(at[v])' => Reporting(at[v]))
          <6> HIDE DEF TypeOK, Structure, LockLayer, Guarded
          <6>1. ASSUME NEW v \in Worker, at'[v] \in Task
                PROVE  job'[at[v]] = job[at[v]] /\ step'[v] = step[v]
            BY <3>2, <4>2, <5>2, <6>1 DEF TypeOK
          <6>2. ASSUME NEW v \in Worker, at'[v] \in Task, Reporting(at[v])'
                PROVE  Reporting(at[v])
            BY <4>3, <5>2, <6>2, <3>2 DEF TypeOK
          <6>3. QED
            BY <6>1, <6>2
        <5> HIDE DEF TypeOK, Structure
        <5>4. QED
          BY <3>1, <5>1, <5>2, <5>3
    <3>4. CASE job[at[w]] # w
      <4>1. UNCHANGED <<job, handlers>>
        BY <2>7, <3>4 DEF JobFailed
      <4>2. QED
        BY <3>1, <3>2, <4>1
    <3>5. QED
      BY <3>3, <3>4
  <2>8. QED
    BY <1>16, <2>1, <2>2, <2>3, <2>4, <2>5, <2>6, <2>7
    DEF WorkerAction, Complete, recordOutcome
<1>17. ASSUME NEW h \in Pending, HandlerWrites(h) PROVE LockLayer'
  BY <1>17 DEF HandlerWrites, Pending
<1>18. ASSUME NEW h \in Pending, HandlerLost(h) PROVE LockLayer'
  BY <1>18 DEF HandlerLost
<1>19. QED
  BY <1>1, <1>2, <1>3, <1>4, <1>5, <1>6, <1>7, <1>8, <1>9, <1>10, <1>11, <1>12,
     <1>13, <1>14, <1>15, <1>16, <1>17, <1>18 DEF Next

-----------------------------------------------------------------------------
(* Order of the writes.                                                    *)

LEMMA OrderStep ==
  IInv /\ [Next]_vars => (sys' = "up" /\ Ordered' => OrderLayer')
<1> SUFFICES ASSUME IInv, [Next]_vars, sys' = "up", Ordered'
             PROVE  OrderLayer'
  OBVIOUS
<1> USE DEF IInv, TypeOK, Structure, Guarded, Ordered, OrderLayer, WorkerOrder, HandlerOrder,
            TaskOrder, Startable, Settled, mongo, queue, workers, master, Places,
            Status, WorkerStep, Fault, SetStatus, Goto, Release, Live, InHand, Reporting, Throwing
<1>1. CASE UNCHANGED vars
  BY <1>1 DEF vars
<1>2. ASSUME NEW t \in Task, Create(t) PROVE OrderLayer'
  BY <1>2 DEF Create, ReportsOwnOutcome
<1>3. ASSUME NEW t \in Task, Elapse(t) PROVE OrderLayer'
  <2>1. ~Busy(t) /\ Ordered /\ sys = "up"
    BY <1>3 DEF Elapse
  <2>2. status[t] = "DEFERRED" /\ job[t] = "none" /\ cur # t /\ ~Reporting(t)
    BY <1>3, <2>1 DEF Elapse, Busy
  <2>3. \A w \in Worker : at[w] # t
    BY <2>1, <2>2 DEF LockLayer
  <2>4. /\ UNCHANGED <<status, job, cur, at, step, handlers>>
        /\ \A u \in Task \ {t} : due'[u] = due[u]
    BY <1>3 DEF Elapse
  <2>9. OrderLayer /\ \A h \in handlers : h.task \in Task
    BY <2>1 DEF Pending
  <2> HIDE DEF IInv, TypeOK, Structure, Guarded
  <2>5. ASSUME NEW w \in Worker, at'[w] \in Task PROVE WorkerOrder(w)'
    <3>1. at'[w] = at[w] /\ step'[w] = step[w] /\ at[w] \in Task \ {t} /\ WorkerOrder(w)
      BY <2>9, <2>3, <2>4, <2>5
    <3>2. status'[at[w]] = status[at[w]] /\ due'[at[w]] = due[at[w]]
      BY <3>1, <2>4
    <3>3. QED
      BY <3>1, <3>2
  <2>6. ASSUME NEW h \in handlers' PROVE HandlerOrder(h)'
    <3>1. h \in handlers /\ h.task \in Task /\ HandlerOrder(h) /\ h.task # t
      BY <2>9, <2>2, <2>4, <2>6
    <3>2. /\ status'[h.task] = status[h.task] /\ due'[h.task] = due[h.task]
          /\ UNCHANGED <<job, handlers>>
      BY <3>1, <2>4
    <3> HIDE DEF OrderLayer, WorkerOrder, TaskOrder, Structure, TypeOK
    <3>3. QED
      BY <3>1, <3>2
  <2>7. ASSUME NEW u \in Task PROVE TaskOrder(u)'
    BY <2>9, <2>2, <2>4
  <2>8. QED
    BY <2>5, <2>6, <2>7
<1>4. ASSUME NEW t \in Task, RetryFailed(t) PROVE OrderLayer'
  <2>1. ~Busy(t) /\ job[t] # "finished" /\ Ordered /\ sys = "up"
    BY <1>4 DEF RetryFailed
  <2>2. job[t] = "none" /\ cur # t /\ ~Reporting(t)
    BY <2>1 DEF Busy
  <2>3. \A w \in Worker : at[w] # t
    BY <2>1, <2>2 DEF LockLayer
  <2>4. /\ UNCHANGED <<due, job, cur, at, step, handlers>>
        /\ status'[t] = "PENDING"
        /\ \A u \in Task \ {t} : status'[u] = status[u]
    BY <1>4 DEF RetryFailed
  <2>9. OrderLayer /\ \A h \in handlers : h.task \in Task
    BY <2>1 DEF Pending
  <2> HIDE DEF IInv, TypeOK, Structure, Guarded
  <2>5. ASSUME NEW w \in Worker, at'[w] \in Task PROVE WorkerOrder(w)'
    <3>1. at'[w] = at[w] /\ step'[w] = step[w] /\ at[w] \in Task \ {t} /\ WorkerOrder(w)
      BY <2>9, <2>3, <2>4, <2>5
    <3>2. status'[at[w]] = status[at[w]] /\ due'[at[w]] = due[at[w]]
      BY <3>1, <2>4
    <3>3. QED
      BY <3>1, <3>2
  <2>6. ASSUME NEW h \in handlers' PROVE HandlerOrder(h)'
    <3>1. h \in handlers /\ h.task \in Task /\ HandlerOrder(h) /\ h.task # t
      BY <2>9, <2>2, <2>4, <2>6
    <3>2. /\ status'[h.task] = status[h.task] /\ due'[h.task] = due[h.task]
          /\ UNCHANGED <<job, handlers>>
      BY <3>1, <2>4
    <3> HIDE DEF OrderLayer, WorkerOrder, TaskOrder, Structure, TypeOK
    <3>3. QED
      BY <3>1, <3>2
  <2>7. ASSUME NEW u \in Task PROVE TaskOrder(u)'
    BY <2>9, <2>2, <2>4
  <2>8. QED
    BY <2>5, <2>6, <2>7
<1>5. ASSUME NEW t \in Task, Trim(t) PROVE OrderLayer'
  BY <1>5 DEF Trim
<1>6. ASSUME NEW t \in Task, Stall(t) PROVE OrderLayer'
  BY <1>6 DEF Stall
<1>7. CASE Crash
  BY <1>7 DEF Crash
<1>8. CASE resetPipelineQueues
  BY <1>8 DEF resetPipelineQueues
<1>9. ASSUME NEW t \in Task, runCleanupOnce(t) PROVE OrderLayer'
  BY <1>9 DEF runCleanupOnce
<1>10. CASE StartMasters
  BY <1>10 DEF StartMasters
<1>11. CASE Find
  BY <1>11, BatchesEligible DEF Find
<1>12. ASSUME NEW t \in Task, Add(t) PROVE OrderLayer'
  <2>1. /\ ~Settled(t) /\ ~Reporting(t) /\ status[t] # "ABSENT"
        /\ Ordered /\ sys = "up"
    BY <1>12 DEF Add
  <2>2. UNCHANGED <<status, due, at, step, handlers>> /\ cur' = t
    BY <1>12 DEF Add
  <2>3. /\ \A u \in Task \ {t} : job'[u] = job[u]
        /\ job'[t] = IF job[t] = "none" THEN "waiting" ELSE job[t]
    BY <1>12 DEF Add
  <2>4. OrderLayer /\ \A h \in handlers : h.task \in Task \ {t}
    BY <2>1 DEF Pending
  <2>5. job[t] \in Places \cup Worker /\ status[t] \in Status
    OBVIOUS
  <2> HIDE DEF IInv, TypeOK, Structure, Guarded
  <2>6. \A w \in Worker : at'[w] \in Task => WorkerOrder(w)'
    BY <2>4, <2>2
  <2>7. ASSUME NEW h \in handlers PROVE HandlerOrder(h)'
    <3>1. HandlerOrder(h) /\ job'[h.task] = job[h.task]
      BY <2>4, <2>3
    <3>2. QED
      BY <3>1, <2>2
  <2>8. TaskOrder(t)'
    <3>1. job[t] = "none" => Startable(t)
      BY <2>1, <2>4, <2>5, WorkerNotPlace
    <3>2. job[t] # "none" => Live(t)
      BY <2>1, <2>4, <2>5
    <3>3. QED
      BY <2>1, <2>2, <2>3, <2>4, <3>1, <3>2, WorkerNotPlace
  <2>9. ASSUME NEW u \in Task \ {t} PROVE TaskOrder(u)'
    <3>1. TaskOrder(u) /\ job'[u] = job[u] /\ cur' # u
      BY <2>4, <2>2, <2>3
    <3>2. UNCHANGED <<Reporting(u), Startable(u), Settled(u), Live(u)>>
      BY <2>2, <3>1
    <3>3. QED
      BY <2>2, <3>1, <3>2
  <2>10. QED
    BY <2>2, <2>6, <2>7, <2>8, <2>9
<1>13. CASE markTaskQueued
  BY <1>13 DEF markTaskQueued, LockLayer
<1>14. CASE MasterError
  BY <1>14 DEF MasterError
<1>15. ASSUME NEW w \in Worker, NEW t \in Task, Take(w, t) PROVE OrderLayer'
  BY <1>15 DEF Take, LockLayer
<1>16. ASSUME NEW w \in Worker, WorkerAction(w) PROVE OrderLayer'
  <2>1. CASE Load(w)
    BY <2>1 DEF Load, AlreadyHandled, LockLayer
  <2>2. CASE MarkRunning(w)
    BY <2>2 DEF MarkRunning, LockLayer
  <2>3. ASSUME NEW s \in {"COMPLETED", "DEFERRED", "FAILED"},
              s = "DEFERRED" => ReportsOwnOutcome, Report(w, s)
       PROVE  OrderLayer'
    BY <2>3 DEF Report, ReportsOwnOutcome, LockLayer
  <2>4. CASE Throw(w)
    BY <2>4 DEF Throw, LockLayer
  <2>5. CASE LostAck(w)
    BY <2>5 DEF LostAck
  <2>6. CASE JobCompleted(w)
    BY <2>6 DEF JobCompleted, FinishedPlace, KeepsFinishedJobs
  <2>7. CASE JobFailed(w)
    <3>1. at[w] \in Task /\ Throwing(w) /\ ~Settled(at[w]) /\ Ordered /\ sys = "up"
      BY <2>7 DEF JobFailed
    <3>2. /\ job[at[w]] = w /\ ~Reporting(at[w])
          /\ \A v \in Worker \ {w} : at[v] # at[w]
      BY <3>1 DEF LockLayer
    <3>3. PICK s \in {"QUEUED", "FAILED"} :
            /\ handlers' = handlers \cup {[task |-> at[w], status |-> s]}
            /\ job' = [job EXCEPT ![at[w]] = IF s = "QUEUED" THEN "waiting" ELSE FinishedPlace]
      <4>1. attempts[at[w]] \in 0..RetryAttempts /\ RetryAttempts \in Nat
        <5> HIDE DEF Structure, LockLayer, OrderLayer
        <5>1. RetryAttempts \in Nat
          BY DEF RetryAttempts
        <5>2. QED
          BY <3>1, <5>1
      <4>2. RetriesJob(step[w] = "throwingPermanent", attempts[at[w]]) <=>
              resolveFailedJobStatus(step[w] = "throwingPermanent", attempts[at[w]] + 1) = "QUEUED"
        BY <4>1 DEF RetriesJob, resolveFailedJobStatus
      <4> DEFINE r == resolveFailedJobStatus(step[w] = "throwingPermanent", attempts[at[w]] + 1)
      <4>3. r \in {"QUEUED", "FAILED"}
        BY DEF resolveFailedJobStatus
      <4>4. /\ handlers' = handlers \cup {[task |-> at[w], status |-> r]}
            /\ job' = [job EXCEPT ![at[w]] = IF r = "QUEUED" THEN "waiting" ELSE FinishedPlace]
        BY <2>7, <3>2, <4>2 DEF JobFailed
      <4>5. QED
        BY <4>3, <4>4
    <3>4. /\ UNCHANGED <<status, due, cur>>
          /\ at' = [at EXCEPT ![w] = None] /\ step' = [step EXCEPT ![w] = "idle"]
      BY <2>7 DEF JobFailed
    <3>5. [task |-> at[w], status |-> s] \in handlers' /\ FinishedPlace \in {"none", "finished"}
      BY <3>3 DEF FinishedPlace
    <3>6. \A h \in handlers' : HandlerOrder(h)'
      <4>1. TAKE h \in handlers'
      <4>2. CASE h \in handlers
        <5>1. h.task # at[w] /\ HandlerOrder(h)
          BY <3>1, <3>2, <4>2
        <5>2. h.task \in Task
          BY <4>2 DEF Pending
        <5>3. QED
          BY <3>1, <3>3, <3>4, <5>1, <5>2, <4>2
      <4>3. CASE h = [task |-> at[w], status |-> s]
        BY <3>1, <3>2, <3>3, <3>4, <3>5, <4>3
      <4>4. QED
        BY <3>3, <4>2, <4>3
    <3>7. \A t \in Task : TaskOrder(t)'
      <4>1. TAKE t \in Task
      <4>2. Reporting(t) => Reporting(t)'
        BY <3>3
      <4>3. CASE t = at[w]
        <5>1. Reporting(t)'
          BY <3>5, <4>3
        <5>2. QED
          BY <5>1
      <4>4. CASE t # at[w]
        <5>1. job'[t] = job[t]
          BY <3>3, <4>4
        <5>2. job[t] \in Worker => step'[job[t]] = step[job[t]]
          BY <3>4, <4>4, <3>1
        <5>3. QED
          BY <3>1, <3>4, <4>2, <5>1, <5>2
      <4>5. QED
        BY <4>3, <4>4
    <3>8. \A v \in Worker : at'[v] \in Task => WorkerOrder(v)'
      BY <3>1, <3>4
    <3>9. QED
      BY <3>6, <3>7, <3>8
  <2> HIDE DEF IInv, TypeOK, Structure, Guarded, Ordered, OrderLayer, WorkerOrder, HandlerOrder,
               TaskOrder, Startable, Settled, SetStatus, Goto, Release
  <2>8. QED
    BY <1>16, <2>1, <2>2, <2>3, <2>4, <2>5, <2>6, <2>7
    DEF WorkerAction, Complete, recordOutcome
<1>17. ASSUME NEW h \in Pending, HandlerWrites(h) PROVE OrderLayer'
  BY <1>17 DEF HandlerWrites, Pending, LockLayer
<1>18. ASSUME NEW h \in Pending, HandlerLost(h) PROVE OrderLayer'
  BY <1>18 DEF HandlerLost
<1>19. QED
  BY <1>1, <1>2, <1>3, <1>4, <1>5, <1>6, <1>7, <1>8, <1>9, <1>10, <1>11, <1>12,
     <1>13, <1>14, <1>15, <1>16, <1>17, <1>18 DEF Next

-----------------------------------------------------------------------------
(* Theorems.                                                               *)

LEMMA IInvInit == Init => IInv
  BY DEF Init, IInv, TypeOK, Structure, LockLayer, OrderLayer, WorkerOrder, TaskOrder,
         Places, Status, WorkerStep, FaultName, Pending, RetryAttempts, Live, InHand, Reporting

LEMMA IInvStep == IInv /\ [Next]_vars => IInv'
  BY TypeStep, StructureStep, LockStep, OrderStep DEF IInv

(* The inductive invariant holds in every reachable state.                 *)
THEOREM Inductive == Spec => []IInv
  BY IInvInit, IInvStep, PTL DEF Spec

(* The variables of a stage keep their types for every kind of stage, any  *)
(* set of tasks and any number of workers.                                 *)
THEOREM TypeCorrect == Spec => []TypeOK
<1>1. IInv => TypeOK
  BY DEF IInv
<1>2. QED
  BY <1>1, Inductive, PTL

(* No QUEUED or RUNNING task is without a job, a worker or a failed        *)
(* handler that will settle it, as long as the writes keep their order.    *)
THEOREM NothingStranded == Spec => []NoStrandedTask
<1>1. IInv => NoStrandedTask
  BY DEF IInv, OrderLayer, TaskOrder, NoStrandedTask, Throwing
<1>2. QED
  BY <1>1, Inductive, PTL

(* Nobody attempts a FAILED task as long as the writes keep their order:   *)
(* the status the handler writes agrees with BullMQ's decision to retry.   *)
THEOREM FailedStaysOver == Spec => []FailedIsOver
<1>1. IInv => FailedIsOver
  <2> SUFFICES ASSUME IInv, sys = "up", Ordered, NEW t \in Task, status[t] = "FAILED"
               PROVE  job[t] # "waiting" /\ (job[t] \in Worker => step[job[t]] = "returning")
    BY DEF FailedIsOver
  <2>1. TypeOK /\ Structure /\ OrderLayer /\ Settled(t) /\ ~Startable(t)
    BY DEF IInv, Settled, Startable
  <2>2. ~Reporting(t)
    BY <2>1 DEF OrderLayer, HandlerOrder, Reporting
  <2>3. job[t] # "waiting"
    BY <2>1, <2>2 DEF OrderLayer, TaskOrder
  <2>4. ASSUME NEW w \in Worker, job[t] = w PROVE step[w] = "returning"
    <3>1. at[w] = t /\ WorkerOrder(w) /\ step[w] \in WorkerStep /\ step[w] # "idle"
      BY <2>1, <2>4 DEF Structure, OrderLayer, TypeOK
    <3>2. QED
      BY <2>1, <3>1 DEF WorkerOrder, Throwing, WorkerStep
  <2>5. QED
    BY <2>3, <2>4
<1>2. QED
  BY <1>1, Inductive, PTL

(* Two workers never process one task at the same time, stalled jobs       *)
(* included, as long as nothing overwrote the RUNNING status.              *)
THEOREM NoneConcurrent == Spec => []NoConcurrentProcessing
<1>1. IInv => NoConcurrentProcessing
  BY DEF IInv, TypeOK, Structure, LockLayer, NoConcurrentProcessing
<1>2. QED
  BY <1>1, Inductive, PTL

-----------------------------------------------------------------------------
(* The stage implements TaskPromise.                                       *)

LEMMA PhaseType == \A t \in Task : PhaseOf(t) \in Promise!Phases
  BY DEF PhaseOf, Promise!Phases

(* A step that changes the phase of one task by an allowed move is a Move. *)
LEMMA MoveStep ==
  ASSUME NEW t \in Task, <<PhaseOf(t), PhaseOf(t)'>> \in Promise!Moves,
         \A u \in Task \ {t} : PhaseOf(u)' = PhaseOf(u)
  PROVE  Promise!Next
<1> DEFINE ph == [u \in Task |-> PhaseOf(u)]
<1>1. PhaseOf(t)' \in Promise!Phases /\ Ordered' \in BOOLEAN
  BY DEF PhaseOf, Promise!Phases, Ordered
<1>2. ph' = [ph EXCEPT ![t] = PhaseOf(t)']
  OBVIOUS
<1>3. <<ph[t], PhaseOf(t)'>> \in Promise!Moves
  OBVIOUS
<1>4. Promise!Move(t)
  BY <1>1, <1>2, <1>3 DEF Promise!Move
<1>5. QED
  BY <1>4 DEF Promise!Next

PromiseStep == [Promise!Next]_<<[t \in Task |-> PhaseOf(t)], Ordered>>

LEMMA OneTask ==
  ASSUME NEW t \in Task, Ordered, Ordered',
         \A u \in Task \ {t} : status'[u] = status[u] /\ due'[u] = due[u],
         PhaseOf(t)' = PhaseOf(t) \/ <<PhaseOf(t), PhaseOf(t)'>> \in Promise!Moves
  PROVE  PromiseStep
<1>1. \A u \in Task \ {t} : PhaseOf(u)' = PhaseOf(u)
  BY DEF PhaseOf
<1>2. CASE PhaseOf(t)' = PhaseOf(t)
  BY <1>1, <1>2 DEF PromiseStep
<1>3. CASE <<PhaseOf(t), PhaseOf(t)'>> \in Promise!Moves
  BY <1>1, <1>3, MoveStep DEF PromiseStep
<1>4. QED
  BY <1>2, <1>3

LEMMA NoTask ==
  ASSUME Ordered, Ordered', UNCHANGED <<status, due>>
  PROVE  PromiseStep
  BY DEF PromiseStep, PhaseOf

(* Every step of the stage is a step of the promise or leaves it alone.    *)
LEMMA RefinesStep == IInv /\ [Next]_vars => PromiseStep
<1> SUFFICES ASSUME IInv, [Next]_vars PROVE PromiseStep
  OBVIOUS
<1>1. CASE ~Ordered'
  <2>1. [t \in Task |-> PhaseOf(t)]' \in [Task -> Promise!Phases]
    BY DEF PhaseOf, Promise!Phases
  <2>2. QED
    BY <1>1, <2>1 DEF PromiseStep, Promise!Next, Promise!Break
<1>2. CASE StartMasters
  BY <1>2 DEF StartMasters, mongo, PromiseStep, Promise!Next, Promise!Repair, PhaseOf, Ordered
<1>3. CASE Ordered' /\ ~StartMasters
  <2> USE <1>3 DEF mongo, queue, workers, master, Fault, SetStatus, Ordered
  <2>1. Ordered
    BY DEF Next, vars, Create, Elapse, RetryFailed, Trim, Stall, Crash, resetPipelineQueues,
           runCleanupOnce, Find, Add, markTaskQueued, MasterError, Take, WorkerAction, Load,
           MarkRunning, Report, Complete, recordOutcome, Throw, LostAck, JobCompleted, JobFailed,
           HandlerWrites, HandlerLost
  <2>2. sys = "up" => OrderLayer
    BY <2>1 DEF IInv
  <2> USE DEF IInv, TypeOK, Status, PhaseOf, Promise!Moves
  <2>3. ASSUME NEW t \in Task, Create(t) PROVE PromiseStep
    BY <2>1, <2>3, OneTask DEF Create
  <2>4. ASSUME NEW t \in Task, Elapse(t) PROVE PromiseStep
    BY <2>1, <2>4, OneTask DEF Elapse
  <2>5. ASSUME NEW t \in Task, RetryFailed(t) PROVE PromiseStep
    BY <2>1, <2>5, OneTask DEF RetryFailed
  <2>6. ASSUME NEW t \in Task, runCleanupOnce(t) PROVE PromiseStep
    BY <2>1, <2>6, OneTask DEF runCleanupOnce
  <2>7. CASE markTaskQueued
    <3>1. cur \in Task /\ ~Settled(cur) /\ status[cur] # "ABSENT"
      BY <2>7 DEF markTaskQueued, Structure, InHand
    <3>2. QED
      BY <2>1, <2>7, <3>1, OneTask DEF markTaskQueued, Settled
  <2>8. ASSUME NEW w \in Worker, WorkerAction(w) PROVE PromiseStep
    <3>1. step[w] # "idle"
      BY <2>8 DEF WorkerAction, Load, MarkRunning, Report, Complete, recordOutcome, Throw,
                  LostAck, JobCompleted, JobFailed
    <3>2. at[w] \in Task /\ sys = "up" /\ WorkerOrder(w)
      BY <3>1, <2>2 DEF Structure, OrderLayer
    <3>3. CASE MarkRunning(w)
      BY <2>1, <3>2, <3>3, OneTask DEF MarkRunning, WorkerOrder, Startable
    <3>4. ASSUME NEW s \in {"COMPLETED", "DEFERRED", "FAILED"}, Report(w, s) PROVE PromiseStep
      BY <2>1, <3>2, <3>4, OneTask DEF Report, WorkerOrder
    <3>5. CASE UNCHANGED <<status, due>>
      BY <2>1, <3>5, NoTask
    <3>6. QED
      BY <2>8, <3>3, <3>4, <3>5
      DEF WorkerAction, Complete, recordOutcome, Load, Throw, LostAck, JobCompleted, JobFailed
  <2>9. ASSUME NEW h \in Pending, HandlerWrites(h) PROVE PromiseStep
    <3>1. h \in handlers /\ h.task \in Task /\ h.status \in {"QUEUED", "FAILED"} /\ sys = "up"
      BY <2>9 DEF HandlerWrites, Pending, Structure
    <3>2. ~Settled(h.task) /\ status[h.task] # "ABSENT"
      BY <3>1, <2>2 DEF OrderLayer, HandlerOrder, Structure, Reporting
    <3>3. QED
      BY <2>1, <2>9, <3>1, <3>2, OneTask DEF HandlerWrites, Settled
  <2>10. CASE UNCHANGED <<status, due>>
    BY <2>1, <2>10, NoTask
  <2>11. QED
    BY <2>3, <2>4, <2>5, <2>6, <2>7, <2>8, <2>9, <2>10
    DEF Next, vars, Trim, Stall, Crash, resetPipelineQueues, Find, Add, MasterError, Take,
        HandlerLost
<1>4. QED
  BY <1>1, <1>2, <1>3

(* The queue, the master, the workers, the handlers and the boot sequence  *)
(* together implement the promise a stage makes about a task.              *)
THEOREM Implements == Spec => ImplementsPromise
<1>1. Init => Promise!Init
  BY DEF Init, Promise!Init, PhaseOf, Ordered
<1>2. QED
  BY <1>1, RefinesStep, Inductive, PTL DEF Spec, ImplementsPromise, Promise!Spec, PromiseStep
=============================================================================
