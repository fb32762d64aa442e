# A TLA+ model of knidos-zk

knidos-zk runs a daemon that proves, for every time window of a Hyperliquid account, that the
account's fills satisfy a circuit, and verifies the proof on zkVerify. A window travels through
three pipelines: **zkTLS** (buy and run a Primus attestation of the API response), **noir** (prove
the circuit over the attested body) and **zkVerify** (submit the proof). MongoDB holds the tasks,
Redis the BullMQ queues; the Primus contract on Base Sepolia and the zkVerify chain are external.

The hard part of the program is not any one of these steps. It is that MongoDB and Redis share no
transaction, that every `await` is a point where another worker, a timer, an event handler or a
crash may act, and that the external steps cost money. This project models that.

Paths below are relative to `src/packages/zk-node/src` unless they start with `src/`.

## 1. Inventory

| Component | State | Operations | Talks to |
|---|---|---|---|
| Masters (`pipelines/*/master.ts`) | the batch of one iteration | `find`, `queue.add`, `markTaskQueued`, sleep on error | MongoDB, Redis |
| Workers (`pipelines/master.ts`, `pipelines/*/worker.ts`) | the job in hand, `attemptsMade` | skip guard, `RUNNING`, processor, completion transaction, `failed` handler | MongoDB, Redis, processors |
| Boot and clean-up (`app.ts`, `services/cleanup.ts`, `utils/reset-pipeline-queues.ts`) | – | obliterate queues, reset `QUEUED`/`RUNNING`, start masters | MongoDB, Redis |
| Task documents (`db/task.ts`, `db/task-helpers.ts`) | status, `deferUntil`, `deferCount`, `primus` checkpoint, input, result | `createTask`, `markTaskQueued`, `updateTaskStatus`, `setPrimusCheckpoint` | – |
| zkTLS processor (`pipelines/zk-tls/processor.ts`) | attempt counter, submit/attest results | resume from checkpoint, submit, attest, verify, guard | Primus contract, attestation child, Hyperliquid |
| Capacity policy (`primus/capacity.ts`) | a snapshot of the contract | evaluate, reclaim, submit, short defer | Primus contract |
| Error policy (`primus/errors.ts`) | – | classify, defer or fail, defer cap | – |
| Attestation child (`primus/attest-runner.ts`, `attest-child.ts`) | a `settled` flag, a timer | fork, report, exit, spawn error, timeout | child process |
| RPC provider and client caches (`primus/rpc-provider.ts`, `client.ts`) | cached SDK and providers | fail over to the next URL | RPC endpoints |
| zkVerify session (`pipelines/zk-verify/processor.ts`) | shared session promise, owner | open, invalidate on disconnect or timeout, submit | zkVerify |
| VK registration (`db/registered-vk-helpers.ts`) | `registered_vk` documents | find, register on chain, adopt, persist | MongoDB, zkVerify |
| Noir runtime (`pipelines/noir/runtime.ts`) | proving slots, shared artifact, key cache | initialise, prove, reset a slot | native prover |
| Scheduler (`services/scheduler.ts`) | – | ensure the task of each window, catch up | MongoDB |
| Monitoring, retention (`success-monitor.ts`, `services/*`) | – | reports, pruning of old waves | MongoDB |
| HTTP server (`server.ts`) | key cache | pages of verification records, health | MongoDB |
| Testnet challenge (`src/packages/testnet-challenge`) | the tool's issued messages, its attempt and answers; recorded scores | sign in with a wallet, present corrupted records, grade, record, leaderboard | wallet page, MongoDB |
| Circuit (`src/circuit`) | – | parse fills, check window and PnL | – |

What makes each part correct:

* **stages** – no task is left `QUEUED` or `RUNNING` without somebody who will move it; no two
  workers process one task at the same time; a settled task stays settled; every open task is
  eventually settled;
* **hand-over** – exactly one successor per completed task, none before; the data a stage needs
  survives until it has used it; a verification record means a submission, and ends submissions;
* **Primus flow** – no submission is paid for without a reason; the checkpoint's attestation is that
  of its submission; every defer for an error is charged to the budget the cap compares, but for a
  child that did not report; a full contract frees itself;
* **session, runtime, registration** – a failed shared resource is dropped, and only the one that
  failed, and its connection is closed; a key registered on chain is adopted, and the hash on record
  is the chain's;
* **scheduler** – the windows leave no gap, also after a stop, and do not overlap;
* **circuit** – amounts mean what they say, no sum wraps; of what the daemon checks before it pays
  (fills and bytes) the circuit asks no more, and what it turns away for good could not be proved;
* **noir runtime** – a proof goes out with the key of its own circuit, whatever files killed boots
  have left; the daemon comes up on them; a proving slot that failed is not used again;
* **challenge** – who is listed has signed; the score is of the records that were shown; what was
  reported as recorded is listed, and not lowered (documents from before scores are an exception,
  against what the code says of them: section 5);
* **serving** – a reader that follows the pages gets every entry.

The places in the code where these can go wrong without a test noticing are the `hazards` of
`PROJECT.json`, each at its line.

## 2. Modules

| Module | Models | Built on |
|---|---|---|
| `PipelineStage` | one stage: tasks, queue, master, workers, `failed` handlers, crash and boot | – |
| `TaskPromise` | what a stage promises about a task (abstract) | – |
| `PipelineStageProofs` | the proofs about `PipelineStage` | `PipelineStage`, TLAPS |
| `Pipeline` | the three stages as a chain: documents, payloads, transactions, records | stages at the level of `TaskPromise` |
| `PipelineProofs` | the proofs about `Pipeline`, and that its stages keep `TaskPromise` | `Pipeline`, `TaskPromise`, TLAPS |
| `PrimusFlow` | what a zkTLS worker does with its task: submission, attestation, capacity, budget | a stage at the level of open/parked/failed/done |
| `PrimusFlowProofs` | the proofs about `PrimusFlow`, and that it keeps `TaskPromise` | `PrimusFlow`, `TaskPromise`, TLAPS |
| `MCPrimusFlow` | symmetry of submissions for TLC | `PrimusFlow` |
| `Scheduler` | which windows get a task: boot, cron, catch-up, changes of the length | – |
| `SchedulerProofs` | the proofs about `Scheduler` | `Scheduler`, TLAPS |
| `ZkVerifySession` | the shared zkVerify session and the registration of the key | – |
| `ZkVerifySessionProofs` | the proofs about `ZkVerifySession` | `ZkVerifySession`, TLAPS |
| `NoirRuntime` | what a boot compiles, writes and reads; the proving slots of the noir workers | – |
| `NoirRuntimeProofs` | the proofs about `NoirRuntime` | `NoirRuntime`, TLAPS |
| `Circuit` | what the circuit accepts, with the daemon's checks around it | – |
| `MCCircuit` | the fills TLC builds bodies from | `Circuit` |
| `CircuitProofs` | the proofs about the parser and the sum of `Circuit` | `Circuit`, TLAPS |
| `Leaderboard` | recorded scores and the pages they are read in | – |
| `Challenge` | a participant's run of the tool, the sign-in page, and the API that grades | `Leaderboard` |
| `MCChallenge` | the kinds of corruption for TLC | `Challenge` |
| `ChallengeProofs` | the proofs about `Challenge` and the entries it records | `Challenge`, TLAPS |

The definitions named `...: Mutant` in comments are plausible bugs of the definition that follows
them. They are used by nothing; each shows that some property notices the bug.

### PipelineStage

The module is instantiated per stage with `Kind`. The three stages differ in what the constants at
its top derive: zkTLS gives a job one attempt, keeps no finished job and reports its failures itself
(`DEFERRED`/`FAILED`); noir and zkVerify have three attempts, keep the last 100 jobs in Redis and
leave failures to the `failed` handler. The zkTLS master takes the oldest eligible task, the others a
batch.

| State | In the code |
|---|---|
| `status`, `due` | `Task.status`; `deferUntil <= now` |
| `job`, `attempts` | the BullMQ job with `jobId = taskId`: absent, waiting, finished and retained, or active and locked by a worker; `attemptsMade` |
| `at`, `step` | the task a worker has and where in `processJob` it is, between two awaits |
| `batch`, `cur` | the documents the master has read; the one it has added and not yet marked |
| `handlers` | `failed` handlers whose status write is under way: nobody awaits them |
| `sys` | down; obliterating and cleaning up; up |
| `faults` | history: what happened since boot that the code does not order |

One round trip is one action. `Add` and `markTaskQueued` are two, so a worker may take, run and
finish the job between them; `Load` and `MarkRunning` are two, so the status may change between the
skip guard and the write that follows it; a failure is first an event of the queue (`JobFailed`) and
only later a write (`HandlerWrites`), or none (`HandlerLost`). `Crash` may happen at every point and
loses everything except MongoDB and Redis; `resetPipelineQueues`, `runCleanupOnce` (which finds the
tasks and loops over `updateTaskStatus`: one document per step) and `StartMasters` are the boot
sequence.

Two parties decide about a failed attempt, each from a count of its own: BullMQ whether it hands the
job out again (`RetriesJob`, external), and the `failed` handler which status it writes
(`resolveFailedJobStatus`, `pipelines/retry-policy.ts`), from the counter that BullMQ has raised by then.
Nothing but arithmetic keeps them in step. Were the handler's count one too high, a task would wait as
`QUEUED` without a job (`NoStrandedTask`); were it one too low, BullMQ would run a task that is `FAILED`
(`FailedIsOver`). Both are mutants of the handler alone.

`faults` separates what the code guarantees from what it relies on timing for:

* `stale` – a write of an attempt landed, was lost, or is still to come after that attempt was over
  (a late `markTaskQueued` over a settled status, a handler still pending when its retry starts, an
  acknowledgement that was lost);
* `overwrite` – `markTaskQueued` wrote `QUEUED` over `RUNNING`;
* `stall` – a running job lost its lock and was handed out again;
* `retained` – the operator reset a failed task whose job Redis still retains.

A boot empties the set. The properties say precisely which of these a guarantee survives, which is
what a maintainer would want to know: `overwrite` alone, for example, is harmless for
`NoStrandedTask` and, combined with a stalled job, defeats the skip guard.

### TaskPromise

Five phases and the moves between them. `PENDING`, `QUEUED`, `RUNNING` and a `DEFERRED` task whose
time has come are one phase, `open`: the abstract specification knows no queue. `done` has no move
out of it. While `reliable` is false anything may happen; `Repair` (a restart) ends that.

### Pipeline

Documents are a sequence in order of creation; each carries its phase, whether its circuit input and
its result are still in the database, and its parent. The three completion transactions are one step
each, because they are MongoDB transactions; `Abort` ends an attempt at any earlier point. `Lose` is
the one thing an unreliable stage may do to a done task: its `COMPLETED` is overwritten, either by
`markTaskQueued`, which keeps the result, or by a `failed` handler, which drops it. For such a task a
master may still hold the input it read before completion (the second choice of the payload in
`Begin`).

### PrimusFlow

The flow of one worker, one step per awaited call, with the checkpoint written after the submission
and after the attestation. A submission of the contract is unused, open, settled or withdrawn; its
`age` tells the two clocks apart: it times out for the contract when its block is old enough
(`expired`) and for the daemon, which counts from the receipt, only later (`stale`). Between the two
the daemon resumes a submission that anybody may already have withdrawn. `excuse` and `errorDefers`
are history variables for the properties and guard nothing.

Error classes stand for the token lists of `primus/errors.ts`: permanent, a child that did not
report, transient, attestor transport, unknown. `decideZkTLSError` keeps their order, which decides
what counts toward the cap. A task has one budget and several ways around it. A child that did not
report parks the task without being charged and whatever the count. Waiting for capacity, a failed
call of the capacity evaluation and a failed guard are charged, and park the task whatever the count
(`BeyondCap`): their decision does not pass the cap. Every other error that may be retried is charged
and capped. `DefersBudgeted` says exactly this, and no more.

A `submitTask` that is refused asks the contract once more (`primus/capacity.ts:222-234`): it counts as a full
contract if nothing is free, and also if that view call fails (`SubmitRefused`, `CapacityExhausted`), so
that a task may wait for capacity although slots are free.

The attestation runs in a process of its own, and `child` is all the parent knows of it: none,
working, a report that has not been read, or gone without one. The child's steps and the parent's are
separate: the contract may have settled the submission while the child hangs, is killed on time or
dies before it reports. Report, exit, a failed start and the timeout are four actions of the parent;
the first to happen settles the attestation (`settle`), after which the others find nothing. The
daemon is PID 1 of its container, so a crash of it ends the child too.

### Scheduler

Time is counted in units that divide every window length. One action is one round trip of
`catchUpMissedSlots`: `Read` finds the latest window, `Ensure` upserts one window and goes on to the
next. `Fail` and `Crash` may end a run after any of them; `Cron` is skipped while a run is going on
(`protect`). A boot may bring another `ZKTLS_WINDOW_MINUTES`, in which case the latest window may end
off the new grid and windows overlap: `EveryMomentCovered` still has to hold, `NoMomentTwice` is
stated for an unchanged length. `first` and `changed` are history variables.

### ZkVerifySession

The worker's steps are those between two awaits of `runZkVerifyProcessor`. The session a job has is
also the `owner` it answers for: the code reads `owner` in the same microtask in which `getSession`
returns. A connection is opening, up, down, or closed; the provider reconnects by itself until it is
closed. A `disconnected` event is queued when a connection is lost or closed and handled at any later
point, and `close()` ends, or fails, at any later point. `leaked` names the sessions whose `close()`
failed, which `invalidate` only warns of. Sessions are identities: one nobody refers to any more is
used again.

A statement hash is the chain's or the one computed locally; with `Drift` they differ. `Crash`
may come back with an empty database, and `RegisteredElsewhere` is the one-off script with another
`MONGO_URI`; `unheard` records that the chain's answer did not reach this database.

### NoirRuntime

`circuit.json`, `vk` and `vk_fields.json` are files that nargo and bb write in place: a boot that is
killed leaves a file torn, and the next decides by the files' dates which it may use. Only the
comparison with the date of `circuit.json` matters, so a key file has a content (a version of the
circuit, `Torn`, or none) and is recent or not; writing `circuit.json` makes both key files old. Each
read and each write of the boot is a step, and a write has a beginning and an end. `Update` is a
checkout of another version of the circuit at any time, also while a boot is under way. After the
boot, workers prove on the slot of their number: a slot is initialised on demand, cleared when it
fails to initialise, and reset when its prover fails. `bb prove` reads `circuit.json` again, while the
program and the key are those in memory; `Prove` is restricted to the case that nobody has compiled in
the meantime, which only another daemon on the same directory could do. `made` is what a worker last
returned, `failed` is history.

`bb write_vk` is external. That it writes the key before the key's fields
(`--output_format bytes_and_fields`) is an assumption about it, and the argument for `KeyFitsProof`
rests on it.

### Circuit

`stringToSignedInteger1e8`, the checks of a fill and the sum are operators over sequences of
characters and of fills; the circuit's loops of fixed size are folds. The state is only the input,
which grows by a character or by a fill, so that TLC enumerates inputs. `IsDecimal`, `Scaled` and
`Profit` say what should be computed, by place values and without accumulation; `ten` is the table of
powers both sides scale with. A sum that leaves `Width` bits has no proof: the constraint system has no
wrapping addition. `GoodBodiesAccepted` therefore has two hypotheses about width, one for the running
sums of the fills and one for the final balance: the base balance is added in the same checked
arithmetic (`src/circuit/src/parser.nr:185`), and a body whose profits fit may have a balance that does
not. With the amounts of `circuit.cfg` the second never bites; with other constants the property fails
without it, which is how the proof found it.

A body has three sizes. Fills and bytes are limited twice, by the daemon before it pays
(`rejectIfBeyondCircuitCapacity`, `circuit-limits.ts`) and by the circuit (`main`: the width of
`rawFills`, and `MAX_FILLS` of `parser.nr`); each pair has constants of its own. That they are equal is
`MirrorAssumption`: the two files say that they mirror each other, and a test reads the circuit's
source to compare them (`tests/circuit-limits.test.ts`). Tokens are limited by the circuit only
(`MaxNumTokens`, 1024 in `JSON8kb`), and the daemon does not count them. That 16 fills of the exchange
fit is a measurement (about 60 tokens a fill, `README.md:56`), which `MirrorAssumption` and `InOrder`
state. `GoodBodiesAccepted` goes both ways: what the daemon lets through, if its fills are in order, is
within every limit of the circuit; and what the daemon refuses for good could not have been proved. Two
things pass the daemon and have no proof, and `InOrder` names them: a fill of unusually many tokens, and
an amount longer than the 16 characters the JSON parser hands out. The task then fails at the noir
stage, after the attestation was paid for.

### Leaderboard

Documents in the order of their `_id`. A reader follows `next_cursor` while scores are recorded. The
node's `GET /api/verifications` pages in the same way, without the filter.
`Legacy` are addresses with a document from before scores were kept, when only a perfect run was
recorded. Such a document has no score: it is listed with `RECORD_COUNT`, but `$max` takes any score for
better than none, so that the first attempt after that lowers what is listed. The code says it cannot
(section 5). `submitted` is history: the best score of an address since scores are kept. `Due` says what an
address is listed with, this case included, and `ListedIsBest` that it is.

### Challenge

One run of the tool, from the sign-in page to the last attempt. The page is the hard part: several
tabs may be open, each with a message for the account its wallet then had; the server keeps, per
address, the message it issued last, and the post of a tab that holds an older one is refused. The
tool takes signer and message as they come and does not verify the signature; only the API does. The
records are corrupted for the address in the *message*, graded for the *signer*, and it is
`verifySiwePersonalSig` that makes the two the same: `GradedAsPresented` and `ListedHaveSigned` say
what follows from it. `signed` is history. `getCorruptionMask` is the code's shuffle, with the random
numbers as inputs: `Masks` is everything it can return. A message expires for good; the oldest
first.

## 3. Runs

| Run | Instance | What it shows |
|---|---|---|
| `stage_zktls` | 2 tasks, 1 worker, zkTLS, operator retries | `NoStrandedTask`; the stage implements `TaskPromise` |
| `stage_noir` | 1 task, 2 workers, noir, operator retries, fair | `FailedIsOver`: the handler's status agrees with BullMQ's decision to retry; `NoConcurrentProcessing` with stalled jobs; `Settles`: once the daemon stays up and writes keep their order, every open task is settled, whatever an earlier fault left behind |
| `stage_retry` | 1 task, 1 worker, noir, operator retries, fair | **violated**: `RetriedTaskIsAttempted` |
| `pipeline` | 2 windows, 6 documents, 1 lost completion | `TypeOK`, `ArtifactsAvailable`, `HandedOverOnce`, `RecordIsOnChain`, `NoSubmissionAfterRecord` |
| `primus_flow` | 1 task, 3 identities, 2 slots, 3 attempts, cap 1, other submitters | `TypeOK`, `PaidOnce`, `AttestationFitsSubmission`, `DefersBudgeted` |
| `primus_capacity` | as above, 1 attempt, cap 0, nobody else submits, fair | `CapacityReturns`: a full contract frees itself; `AttestationEnds`: an attestation ends whatever its child does |
| `scheduler` | lengths 1 and 3, clock up to 8, fair | `TypeOK`, `EveryMomentCovered`, `OnlyFullWindows`, `NoMomentTwice`, `CatchesUp` |
| `zkverify_session` | 3 sessions, drifted formula, 1 failed close, fair | `TypeOK`, `ReplacementKept`, `NoConnectionLeft`, `DeadSessionReplaced`; `KeyIsOnChain`, `WrongHashUnheard` |
| `circuit` | strings up to 5 characters, bodies up to 3 fills, 8 bytes and 5 tokens, 16 bits | `ParsesDecimals`, `GoodBodiesAccepted`, `AcceptedBodiesGood` |
| `noir_runtime` | 2 versions, 2 workers, fair | `TypeOK`, `KeyFitsProof`, `FailedSlotReplaced`; `WarmsUp`: the daemon comes up on what killed boots left; `SlotsReturn`: a slot that failed proves again |
| `challenge` | 1 run, 2 addresses of which 1 from before scores, 3 records, 2 kinds, 2 attempts, 2 messages | `TypeOK`, `ListedHaveSigned`, `GradedAsPresented`, `NoBlindPerfection`, `RecordedIsBest` |
| `leaderboard_pages` | 4 addresses, pages of 2 | **violated**: `SyncIsComplete` |

### Bounds, and why they are enough

* *Tasks.* Tasks of a stage interact only through the master's batch and the workers. Two tasks show
  the order of the zkTLS master and a batch that is dropped half way; the concurrency of workers on
  one task needs one task and two workers. The theorems cover any number of either.
* *`MaxDocs = 6`* is both windows in all three stages. *`MaxLost = 1`* lets one window be corrupted
  beside an intact one, which is what `Intact` separates. *`MaxChain = 2`* lets a submission be
  repeated.
* *`MaxAttempts = 3`* is the code's own value. *`MaxDefers = 1`* (50 in the code) puts the cap within
  reach of a capacity defer, an error defer and a further error; the count is only ever compared with
  the cap, so `CountCeiling = MaxDefers + 1` loses nothing. *`MaxUnsettled = 2`, `MinReclaimBatch = 2`*
  are the smallest values at which some, but not enough, slots can be timed out. Three identities
  are two unsettled submissions and the one a checkpoint still refers to; an identity nobody refers
  to is reused (`Forget`).
* *Window lengths 1 and 3, `MaxTime = 8`*: eight units hold a change of length to and fro, a long
  window that ends off the grid of the other, and a stop of several windows. At `MaxTime` the clock
  stands still, and `CatchesUp` leaves out the last windows before it. (`SchedulerProofs` holds for any
  lengths and any bound of the clock.)
* *Three sessions* are the shared one, one that is being closed or was leaked, and one whose late
  event is still to be handled. *`MaxLeaks = 1`*: a leaked session keeps an identity for ever.
* *Two versions of the circuit* are the one the files are of and another one; a third would again be
  "another one" to every file. *Two workers* show that one slot's failure leaves the other alone. (The
  safety properties are proved for any number of either.)
* *The challenge*: three records (5 in the code) hold both verdicts and one place that is drawn; two
  kinds of corruption are what grading distinguishes. *`MaxMessages = 2`* is a message that was
  replaced and the one that replaced it, for the same address or another. *`MAX_RETRIES = 2`* (50 in
  the code) is a better or weaker second attempt and the end of attempts.
* *The circuit's sizes* (16 characters, 10 and 8 digits, 16 fills, 64 bits) are scaled to 5, 2 and 2, 2
  and 16, such that the relations that matter stay: an amount of full length fits, the difference of
  two fits, the sum of full bodies does not; a string may have a digit too many on either side of the
  point; a body may have a fill too many, or as many as it may and too many bytes or tokens (a plain
  fill has 3 bytes and 2 tokens; two of them and the bracket make 7 of 8 and 5 of 5). Digits 0, 4 and 9 are an empty place, an ordinary one and
  the largest. (`CircuitProofs` holds for the code's sizes as well.)
* *For the safety properties* none of these bounds is the last word: each is proved for all values of
  the constants (section 4), the code's own among them. The bounds matter for liveness, and they have to
  be large enough for each property to notice its mutant.
* *`CHECK_DEADLOCK FALSE`* appears where the modelled system really may stop: the operator need not
  retry, all tasks of the instance may be done and their jobs trimmed; an input of full length does
  not grow.

### Fairness

`PipelineStage.FairSpec`: docker restarts the daemon (`restart: unless-stopped`) and the boot
sequence goes on; the masters loop for ever and Redis answers again after an outage, so `Find` and
`Add` for a task that is enabled again and again happen (strong fairness); BullMQ hands waiting jobs
out in order (strong fairness of `Take`); a worker's step and a handler's write do not hang. No
fairness on crashes, stalls, lost writes, the operator, or the passing of `deferUntil`.

`PrimusFlow.FairSpec`: time passes, parked tasks wake, the single worker gets to every open task (the
master takes the oldest, and a defer moves a task out of the way), and the steps of the flow go on;
which way a step goes is never constrained. The child has no fairness: it may hang for ever at every
point. What ends the attestation is the parent's timer (`ATTEST_CHILD_TIMEOUT_MS`), which is a step of
the flow. `CapacityReturns` assumes in its antecedent that from
some point on the daemon does not crash, RPCs of the capacity evaluation answer, a submission is
refused only for want of slots (`SubmitUnclear`) and nobody else submits for the account. It also needs `MinReclaimBatch <= MaxUnsettled`: if the contract allowed
fewer open tasks than `MIN_RECLAIM_BATCH` (80), a contract full of dead submissions would never be
reclaimed.

`Scheduler.FairSpec`: time passes, docker restarts the daemon, croner fires a due job, and the round
trips of a run end. `CatchesUp` assumes in its antecedent that from some point on runs do not fail.

`ZkVerifySession.FairSpec`: there is always another proof to submit, event handlers run, closes end,
and the worker's awaited calls settle one way or the other. For the verification the code sees to
that itself (60 s); for the connection and the registration it relies on zkverifyjs: a registration
whose `transactionResult` never settles would block the only zkVerify worker.

`NoirRuntime.FairSpec`: docker restarts the daemon and its boot goes on; there is always another
window to prove; nargo, bb and noir_js do not hang (nothing in the code bounds them). `WarmsUp`
assumes in its antecedent that from some point on nothing kills the daemon, `SlotsReturn` that it stays
up and that noir_js initialises. `WarmsUp` has one exception, `BlockedByFields`: a daemon killed while
`vk_fields.json` was being written leaves a torn file that is newer than `circuit.json`; every later
boot then takes the key for cached and fails to parse it, until nargo writes `circuit.json` again.

`Challenge` has no liveness: the participant may stop at any point.

## 4. Theorems

Every invariant and every action property of the passing runs is a theorem; this section says for which
constants, from which assumptions and along which argument. A module's `Spec` is the one without
fairness, so that nothing here depends on what the scheduler of the code does.

### The stage

`PipelineStageProofs` proves, for every kind of stage, every set of tasks and of workers and every
batch limit:

* `TypeCorrect` – `Spec => []TypeOK`;
* `NothingStranded` – `Spec => []NoStrandedTask`;
* `FailedStaysOver` – `Spec => []FailedIsOver`;
* `NoneConcurrent` – `Spec => []NoConcurrentProcessing`;
* `Implements` – `Spec => Promise!Spec`, the refinement of `TaskPromise`;
* `Inductive` – `Spec => []IInv`, the invariant behind the others.

Assumptions: those on the constants in `PipelineStage` (`KindAssumption`, `TaskAssumption`,
`WorkerAssumption`, `OptionAssumption`). They say that names are distinct and the limit is positive.

None of the safety properties is inductive. `IInv` is

    TypeOK /\ Structure /\ (Guarded => LockLayer) /\ (sys = "up" /\ Ordered => OrderLayer)

* `Structure` holds whatever goes wrong: a worker that is not idle has a task, nothing is in hand
  while the daemon is down, a job locked by a worker is that worker's task, and so on;
* `LockLayer` is the argument for the skip guard: of the workers on one task at most one is past the
  guard, and while it runs the document says `RUNNING` (or the lock is still its own, which is why an
  overwritten status is harmful only together with a stall);
* `OrderLayer` is the argument for no stranded task, and for leaving a failed one alone: it says, for each position of the master, the
  worker and the handler, which status the document can have and where the job then is.

The two conditional layers are separate because they survive different faults. Each layer has a lemma
with one case per action; a step that adds a fault leaves a conditional layer vacuous, and a boot,
which empties `faults`, re-establishes them from the empty queue. `Implements` is step simulation:
under `IInv` every step is a move, a break, a repair or a stutter of `TaskPromise`.

### The scheduler

`SchedulerProofs` proves, for any set of window lengths and any bound of the clock:

* `TypeCorrect` – `Spec => []TypeOK`;
* `NothingLeftOut` – `Spec => []EveryMomentCovered`;
* `NothingTooEarly` – `Spec => []OnlyFullWindows`;
* `NothingTwice` – `Spec => []NoMomentTwice`;
* `InvariantHolds` – `Spec => []IInv`, where `IInv` is the first three with

      RunTouches: what a run in progress ensures next begins no later than some window on record ends
      RunIsPast:  what it ensures next, and the last full window it works toward, are over

Assumptions: lengths are positive (`LengthsAssumption`), the clock's bound is natural
(`TimeAssumption`). Without `RunTouches`, `EveryMomentCovered` is not inductive: a run that was about
to ensure a window further on would leave a gap. That it survives a change of length is the point of
the proof: the loop starts at the *end* of the latest window and steps back by the *new* length.

`NoMomentTwice` holds for another reason and has an invariant of its own (`GridHolds`), `IInv` with

    WindowsAreCells: while the length is unchanged, every window is a cell of its grid
    RunOnGrid:       the end a run works toward is on the grid, and, while the length is unchanged,
                     so is the window it ensures next

Two cells of one grid are the same or apart (`CellsApart`). After a change of length the invariant says
nothing of the windows: the code does overlap them then.

### The noir runtime

`NoirRuntimeProofs` proves, for any set of versions and of workers:

* `TypeCorrect` – `Spec => []TypeOK`;
* `ProofsWithTheirKey` – `Spec => []KeyFitsProof`;
* `FailedSlotsReplaced` – `Spec => []FailedSlotReplaced`;
* `InvariantHolds` – `Spec => []IInv`, where `IInv` is `TypeOK /\ KeyFitsProof` with

      KeyBeforeFields: fields that are recent were begun after a complete key of circuit.json
      BootOrder:       what the boot has already made sure of, for each of its steps
      OnlyWhenUp, FailedSlotGone: workers work in a daemon that is up; a slot that failed is gone

Assumptions: there is a version, and `Torn` and `None` are none (`CircuitAssumption`,
`TornAssumption`). `KeyBeforeFields` is the point: it is what makes the comparison of dates at
`runtime.ts:177` sound after any sequence of killed boots. A key alone may be recent and torn, and it
may be taken for recent by nobody because the fields are not.

### The Primus flow

`PrimusFlowProofs` proves, for any tasks, submissions and limits, with or without other submitters:

* `TypeCorrect` – `Spec => []TypeOK`;
* `NeverPaidTwice` – `Spec => []PaidOnce`;
* `CheckpointConsistent` – `Spec => []AttestationFitsSubmission`;
* `BudgetCharged` – `Spec => []DefersBudgeted`;
* `FlowKeepsPromise` – `Spec => KeepsPromise`, see *How the levels fit*;
* `InvariantHolds` – `Spec => []IInv`, where `IInv` is the first four with

      InHand:           the worker's task is open and its count is still the one the worker read
      SubmissionInHand: the submission in hand is fresh or excused; a checkpoint is dropped with an excuse
      PaidFor:          a task that may be taken again has a fresh checkpoint or an excuse, or its
                        worker is about to write the checkpoint

Assumptions: `None` is no task or submission (`NamesAssumption`), the limits are positive and the cap
natural (`LimitsAssumption`). `PaidOnce` alone says nothing of a worker that has only begun; `PaidFor`
is what every crash and every outcome has to leave behind. The proof needs the count in hand to be the
one on record because `recordOutcome` writes what was read when the job began, and it needs that a
submission somebody else makes never takes over an identity a checkpoint still names. The proof has a
lemma for the end of a job (`PaidAtEnd`, `FlowOutcome`), which most steps share.

### The chain

`PipelineProofs` proves, for any windows and any number of documents, lost completions and submissions:

* `TypeCorrect` – `Spec => []TypeOK`;
* `AlwaysAvailable` – `Spec => []ArtifactsAvailable`;
* `OneSuccessor` – `Spec => []HandedOverOnce`;
* `RecordsAreOnChain` – `Spec => []RecordIsOnChain`;
* `RecordedOnce` – `Spec => NoSubmissionAfterRecord`, an action property;
* `StagesKeepPromises` – `Spec => KeepsPromises`, see *How the levels fit*;
* `InvariantHolds` – `Spec => []IInv`, where `IInv == TypeOK /\ Structure /\ Course`.

Assumption: `BoundsAssumption`. `Structure` holds whatever completions are lost:

    Lineage:   a document's parent is of the same window and the stage before
    JobsMatch: a worker is on a document of its own stage
    Submitted: a zkVerify worker that is ready to commit has submitted
    RecordIsOnChain

`Course` is about windows whose completions were not lost:

    AttemptedIsOpen: the document a worker is on is open until the worker is done with it
    Handed:          HandedOverOnce, document by document and without counting
    ArtifactsAvailable

`AttemptedIsOpen` is the point. It is why a transaction completes a document that is not completed yet,
so that it gets its first successor and clears no proof that is still needed. It is also what a lost
completion breaks, and the reason the properties leave such windows out. Each action has a lemma that
says what it does to the documents (`CommitNoirEffect`, `RestartEffect`, ...), after which the layers are
proved without sequences.

### How the levels fit

`PipelineStage` is the code's queue, workers and restarts; `TaskPromise` is what a stage promises;
`Pipeline` and `PrimusFlow` start from that promise. Three theorems tie them together:

* `Implements` (`PipelineStageProofs`): the detailed stage implements `TaskPromise`;
* `StagesKeepPromises` (`PipelineProofs`): in `Pipeline`, the documents of each of the three stages
  implement `TaskPromise`, with the loss of a completion as the only unreliable thing. A transaction
  moves two documents, but of two stages, so that at each stage one moves at a time;
* `FlowKeepsPromise` (`PrimusFlowProofs`): every step of `PrimusFlow` is a move of `TaskPromise` or
  leaves the phases alone; an outcome is written over an open task only. The initial states differ,
  because `PrimusFlow` begins with tasks that exist: this one is about the steps.

So a task never moves, in any of the three, in a way another of them rules out. What is not proved is a
composition: that the chain with three detailed stages in place of its phases is the chain.

### Session and registration

`ZkVerifySessionProofs` proves, for any sessions, any number of failed closes, drifted formula or not:

* `TypeCorrect` – `Spec => []TypeOK`;
* `NoneLeftBehind` – `Spec => []NoConnectionLeft`;
* `RecordedIsRegistered` – `Spec => []KeyIsOnChain`;
* `WrongOnlyUnheard` – `Spec => []WrongHashUnheard`;
* `ReplacementsStay` – `Spec => ReplacementKept`, an action property;
* `InvariantHolds` – `Spec => []IInv`, where `IInv == SInv /\ KInv`.

Assumptions: `SessionAssumption`, `ConstantAssumption`, `HashAssumption` (`None` is neither a session
nor a hash). `SInv` is about connections:

    TypeOK, NoConnectionLeft
    Opening:        only the worker opens one, and the one it opens is the shared one
    EventsAreLate:  a queued event is of a session that has been connected
    ClosingIsApart: what is being closed is connected and no longer shared

`KInv` is about the key:

    KeyIsOnChain
    AnswerInHand: an answer is in hand exactly while it is being written down
    Heard:        a key on chain whose answer from the chain is neither on record nor in hand, or a
                  hash that was derived locally, means that an answer did not reach this database

`Heard` is what the adoption of a registered key needs: the local formula is used only after an answer
was lost.

### The challenge

`ChallengeProofs` proves, for any number of runs, addresses, records, kinds of corruption and attempts:

* `TypeCorrect` – `ChallengeSpec => []TypeOK`;
* `NobodyUnsigned` – `ChallengeSpec => []ListedHaveSigned`;
* `GradesArePresented` – `ChallengeSpec => []GradedAsPresented`;
* `BestIsRecorded` – `ChallengeSpec => []RecordedIsBest`;
* `PerfectionIsJudged` – `ChallengeSpec => []NoBlindPerfection`;
* `EntriesOnlyGrow` – no step removes an entry, gives it to another address or lowers what is listed of
  it, but for one: a first score that is stored in a document from before scores (`FirstScore`);
* `InvariantHolds` – `ChallengeSpec => []IInv`.

Assumptions: `StatesAssumption`, `RetriesAssumption`, `ScoreAssumption`, `LegacyAssumption`.
`IInv == Types /\ Entries /\ \A r \in Run : Course(r)`:

* `Types` has the masks in `Slots`: in *every* mask in use, every kind has a record. This is what the
  shuffle has to deliver for `NoBlindPerfection`, and it is proved of the fold that models it
  (`getCorruptionMask`), for any order of draws;
* `Entries` is `ListedHaveSigned`, `StoredIsBest` and `UnstoredIsNone`: what is stored is the best score
  submitted; an address without a stored score has submitted none, and is listed from before scores;
* `Course(r)` says of each step of a run what it has behind it: a message and a signer (`SignedIn`); a
  verdict on every record (`Answered`); and once it is graded, that signer and message are of the same
  address and that the entry is no lower than the score reported (`Reported`).

### The circuit

`CircuitProofs` proves, for limits of any size, any alphabet of digits and any width that holds the
difference of two amounts:

* `ParserHolds` – `Spec => []ParsesDecimals`;
* `CompletenessHolds` – `Spec => []GoodBodiesAccepted`;
* `SoundnessHolds` – `Spec => []AcceptedBodiesGood`.

Assumptions: `LimitsAssumption`, `MirrorAssumption` (for completeness: the daemon's limits are the
circuit's), `DigitAssumption`, `WindowAssumption`, `ResponseAssumption`, and `WidthAssumption`: twice the largest amount fits (in the code `2 * 10^18 < 2^63`), without which the
difference of a profit and a fee might not. The invariant (`Input`) only says what the input is; the
work is in the arithmetic:

1. what the loops of fixed size read is the run of digits before and after the point (`DigitsCounted`);
2. the circuit's positions, after a sign was cut off, are those of the decimal (`UnsignedIs`, `PointIs`,
   `PointPositionIs`), and it refuses exactly what is not one (`AllowedIs`, `RunsAre`);
3. accumulating digit by digit gives the sum of the place values, below a power of ten (`DigitRun`,
   `ScaleAddsUp`); together with the sign this is `ParserRight`;
4. the checked sum is the sum of the profits, and exists exactly when every running sum fits
   (`ProfitSums`, `TotalIs`, `BodyIs`);
5. the sizes of a body are bounded by those of its fills (`SizesAdd`, `SizesAre`): within the number of
   fills, tokens cannot exceed their limit.

### Induction

The library's induction theorems take an operator as a parameter, which the installed provers cannot
instantiate. `SetInduction` (in `ChallengeProofs` and `CircuitProofs`) is induction for a *set* of
natural numbers, proved from the pigeonhole principle of `FiniteSetTheorems`: were `k` missing, adding
one would map the members below `k` one-to-one into themselves without reaching 0. Folds and recursive
functions are `CHOOSE`s of a function; the proofs show first that the function exists (`FoldExists`,
`SumExists`, `TenExists`) and may unfold it from there.

### What stays with TLC

* Liveness and fairness: `Settles`, `CapacityReturns`, `AttestationEnds`, `CatchesUp`,
  `DeadSessionReplaced`, `WarmsUp`, `SlotsReturn`. The proof system does not reason about ENABLED.
* What the code does not do: `RetriedTaskIsAttempted` and `SyncIsComplete` are violated.
* That each property notices a bug: the mutants.

## 5. Where code and documentation disagree

1. **`pnpm tasks:retry` does not retry a noir or zkVerify task whose job Redis still keeps**
   (`stage_retry`). `removeOnFail: 100` retains the failed job under `jobId = taskId`; `queue.add` for
   the reset task is a no-op, the task is marked `QUEUED`, and nothing runs it until the daemon is
   restarted.
2. **Following `next_cursor` skips an entry at every page boundary** (`leaderboard_pages`). The cursor
   is the `_id` of the first entry that is *not* shown, and the next request asks for `_id < cursor`,
   so that entry is on no page (`src/packages/testnet-challenge/src/api/index.ts:244,262,267`; the same
   in `server.ts:216,236,241`). `api/index.ts:91` calls it the cursor for the next page.

Remarks without a run:

* The last attempt keeps the checkpoint of an unreachable attestor (`pipelines/zk-tls/processor.ts:156`),
  although the comment in `primus/errors.ts:34-39` says that no waiting on the same submission helps.
* Capacity waits and guard failures consume the defer budget (`primus/capacity.ts:174`;
  `consumesDeferBudget` is true by default, `primus/errors.ts:157`), although `primus/errors.ts:297-300`
  says "Tasks that have rotated through this many error-driven defers are effectively stuck; failing
  them bounds the queue [...]. Capacity defers go through a separate path and are not capped here." They
  are not capped, but they count: a task that waited for capacity often enough fails for good at its
  first transient error (`errors.ts:301`).
* A torn `vk_fields.json` that is newer than `circuit.json` blocks every later boot
  (`BlockedByFields`, see *Fairness*).
* `primus/client.ts:77,84` caches the limit and the timeout of the contract for as long as the daemon
  runs: a change of either by the contract's owner is seen after the next restart only.
* An address from before scores can be downgraded. It is listed with `RECORD_COUNT`
  (`testnet-challenge/src/api/index.ts:241`), "stored under the old perfect-run rule" (`:80`); its
  document has no score, and `$max` (`:211`) stores that of the next attempt, however low. The comment
  at `:206-207` says that "an address that already scored 5 can't be downgraded by a later, weaker run",
  and `api/db/completed-address.ts:14-19` that later runs can only raise a score. `ListedIsBest` and
  `EntriesOnlyGrow` are stated with this one exception.
* An amount of more than 16 characters passes every check of the daemon and no proof exists for it (see
  *Circuit*); `circuit-limits.ts` mirrors the limits of bytes and fills only.
* `README.md:210` of the repository says scores are recorded on 5/5; the code records from
  `RECORD_THRESHOLD = 1`.

## 6. Not modelled

Serialisation, logging, environment, HTTP rendering, prompts and notifications are pure I/O
or conversions no property here depends on; a parse that throws is `Throw`. The proof system, the
attestation protocol, BullMQ, MongoDB and the two chains are external: they appear as steps with the
outcomes the code distinguishes. Delays are abstracted to order. Of the circuit, hashing,
commitments and zero padding are not modelled; of the JSON tokeniser, only how many tokens a body has:
a body is a sequence of fills.

Components left out, and why:

* *RPC provider and client caches* (`primus/rpc-provider.ts`, `client.ts`): the provider tries its URLs
  in order within one call and keeps nothing for the next, so that an RPC is one step that answers or
  fails. The caches are filled once and hold constants of the model.
* *Monitoring* (`success-monitor.ts`, queue status, the scripts that print): they read and report.
  Nothing in the pipeline reads what they produce.
* *Retention of waves*: a script for development databases, run by hand.
* *HTTP server of the node*: read-only, except for the cache of one key. Its pages are those of
  `Leaderboard`.
* *Validation and serialisation of payloads*: pure functions without state; an error is `Throw` of
  the worker.
* *Docker, deployment, the snapshot scripts of the challenge*: no program state.

## 7. Plan

Done: the stage and its promise, the chain of stages, the Primus flow with the attestation child, the
scheduler, the zkVerify session and registration, the noir runtime, the circuit's arithmetic, the
challenge and the pages are modelled and checked; every invariant and action property that holds of them
is proved, and so is what the levels have to do with each other.

Left:

1. A theorem about paging: what a reader of `Leaderboard` is guaranteed in spite of the skipped entry.
2. `SetInduction` and the lemmas on folds are in two modules; they belong in one.
3. Shorter proofs in `CircuitProofs` and `ChallengeProofs`.
