# Frameleaf: a verification project for the job queue and what surrounds it

Frameleaf is a self-hosted photo and video server. Almost everything it does with media
(thumbnails, transcoding, metadata, machine learning, imports, backups, sealing of locked
items) is a *job*: a row of a PostgreSQL table, claimed by a worker process, executed by a
handler, and settled in a transaction that publishes its result. The queue decides what runs,
how often, what is published, and what happens when processes die. Around it stand the parts
it relies on or that rely on it: the processes and their supervisor, the proof that a worker
has stopped, the files executions leave behind, the operations that own renders and remote
work, and the restore that replaces the database under all of them. These are the parts of the
server whose mistakes are hardest to test and worst to meet, and what this project models.

Paths below are relative to `server/src/` unless they start with `docs/` or `server/`.

## 1. Inventory

### The parts, their state and their operations

| Part | State | Operations | Hard because of | Module |
|---|---|---|---|---|
| Job store, `queue/store.ts`, `queue/schema.ts`, `queue/types.ts` | tables `job`, `job_attempt`, `job_run`, `job_queue`, `job_worker` | `enqueue`, `claim`, `heartbeat`, `complete`, `defer`, `fail`, `recoverExpired`, `deadlines`, `wakeDeferred`, `startNow`, `clear`, `retryFailed`, `retryRun`, `pause`, `setSchedule` | concurrent transactions of several processes; rows reused for several requests; leases | `JobStore`, `ConcurrentEnqueue` |
| Run completion, `queue/run-summary.ts` | `job_run.finishedAt`, `summary` | `finishRuns` | races with whatever reopens a run | `JobStore`, `RunHolds` |
| Run holds, in `queue/store.ts`, `library-import/` | `job_run.selection.holds`, dirty mark, cursor; `availableAt` | `setRunHolds`, `releaseRun`, `reconcileHolds`, activation of an import | paged passes while every other writer interleaves | `RunHolds` |
| Coordinator thread, `workers/queue-coordinator.ts` | `active` map, watchdog entries, timers | claim loop, heartbeat, sweep, deadlines, messages | its own connections and timers; messages keyed by job id | `JobQueue` |
| Claim execution, `repositories/job.repository.ts` | `active` map with abort controllers | `execute`, `stopWorkers`, checkpoints | every await may be overtaken by expiry, cancellation or death | `JobQueue` |
| Watchdog, `queue/watchdog.ts` | deadline entries | `inspect`, `monitorQueueProgress` | the last resort for handlers that never return | `JobQueue` |
| Admission, `queue/admission.ts` | slots, waiters, capacity | `acquire`, `release`, `resize`, abort | abort after grant; resize under load | `QueueAdmission` |
| Worker supervision, `queue/supervisor.ts`, `queue/child-process.ts` | worker identity, native children | register, terminate, kill, confirm | children outlive the worker; messages are under way when it exits | `StopProof` |
| Stop proof recorder, `queue/worker-stop-proof.ts` | pending and retained proofs, retry timer | `record`, `republish`, `flush`, `write` | database away; maintenance mode; restore | `StopProof` |
| Stop evidence, `utils/attempt-evidence.ts`; retention, `queue/retention.ts`; output cleanup, `utils/attempt-sweep.ts`, `attempt-tree.ts`, `attempt-directory.ts` | evidence in `system_metadata`, history, files under `.attempts/`, the pass's cursor | record, preserve, prune; delete history; sweep | an executor may still run when its claim, its row and its lease are gone | `AttemptOutputs` |
| Media operations, `repositories/media-operation.repository.ts`, `utils/media-operation.ts` | `media_operation` with claims of its own | create, claim, progress, complete, fail, pause, resume, cancel, recover, dispatch, remote cleanup, reset after a restore | guarded updates that race; two claim systems over one piece of work | `MediaOperations` |
| Database restore, `services/database-backup.service.ts`, `maintenance/maintenance-worker.service.ts`, `resetQueueAfterRestore` | dump, restore point, maintenance mode, the whole queue | save a point, load, reset, check, roll back | the rows know nothing of what ran after the dump; the mode is itself in the database | `DatabaseRestore` |
| Process supervisor, `supervisor.ts`, `utils/shutdown.ts`, `services/maintenance.service.ts` | workers, timers, restart and stop flags | bootstrap, `onExit`, restart, maintenance, stop | exits, timers, signals in any order | `ServerWorkers` |
| Observers `queue/observers.ts`; image process pool `queue/sharp-pool.ts`; Locked keys `utils/locked-key-ipc.ts` | deliveries; child slots; keys in memory | deliver; run one operation per child; relay | cancellation owns a slot until the child closes | not modelled |
| Imports, cloud and Buddy backups, edge, API, web, mobile, Studio, manager, machine learning, iCloud bridge | their own | their own | mostly I/O, or request handling around the queue | not modelled |

### How they interact

The API and handlers **call** `enqueue`. Each worker's coordinator **claims** rows in short
transactions and **posts** `execute` messages to its main thread, which runs the handler and
settles the claim with `complete`, `defer` or `fail`, then **posts** `settled`. The
coordinator renews the leases of the claims in its map, posts `cancel` for claims past their
deadline, and asks the supervisor, over a port of its own, to terminate the worker when a
cancelled claim does not end. Executions write *attempt evidence* when their handler has
returned; the supervisor writes *worker evidence* when a worker and its native processes are
gone. Any coordinator's sweep recovers any expired claim, and chooses between a retry and
waiting for a person by that evidence. All of them **share** the rows. Retention deletes old
rows and the cleanup old files on the strength of the same evidence. A media operation's
worker calls the repository with its own claim token, or is itself a queue job, whose recovery
by the queue **writes** the operation. The process supervisor starts and ends the processes in
which all of this happens, and a restore exchanges the tables between two of their lives.

### What makes them correct

* Publication is fenced: only the claim that holds a row publishes, once per request.
* Work that may not be repeated is never started while an executor of it may still run, nor a
  second time after its worker was lost or the database restored.
* What is on record as stopped has stopped; nothing a possible executor or an asset uses is
  deleted; what is abandoned can be told so, and goes.
* Nothing is held for ever or lost: claims, cancels, recorded requests, released work, pending
  proofs, failed workers.
* Runs finish exactly when their work has ended; holds that count as applied are applied.
* A worker's slots are all used, never leaked, and given in order.
* One process per worker, maintenance alone, and a stop that reaches everything.

## 2. Modules

    FencedClaims                abstract: a job is held by one claim, only the holder publishes
      ^ implemented by (refinement, checked and proved)
    JobStore                    rows and transactions of the store, each one step
      |-- MCJobStore            MCStages, MCOrphans
      v extended by; JobQueue implements JobStore's StoreSpec (proved)
    JobQueue                    store + coordinators + executions + supervisors + evidence
      |-- JobQueueProofs        the store, then the queue around it
      |-- MCJobQueue            MCRecovery, MCStage
    ConcurrentEnqueue           the statements inside JobStore's enqueue and retries
      |-- ConcurrentEnqueueProofs
      |-- MCConcurrentEnqueue   MCEnqueue
    RunHolds                    the holds of a run and what holds or releases its jobs
      |-- RunHoldsProofs
      |-- MCRunHolds            MCHolds
    QueueAdmission              the slots of one worker
      |-- QueueAdmissionProofs
      |-- MCQueueAdmission      MCAdmission
    StopProof                   where JobQueue's worker evidence comes from
      |-- SupervisorProofs      also about ServerWorkers
      |-- MCStopProof           MCStopProof
    AttemptOutputs              evidence, retention and files
      |-- AttemptOutputsProofs
      |-- MCAttemptOutputs      MCOutputs
    MediaOperations             the table of operations
      |-- MediaOperationsProofs
      |-- MCMediaOperations     MCOperations
    DatabaseRestore             the queue under a restore
      |-- DatabaseRestoreProofs
      |-- MCDatabaseRestore     MCRestore
    ServerWorkers               the process supervisor; proofs in SupervisorProofs
      |-- MCServerWorkers       MCWorkers

The modules meet where one assumes what another shows. `JobQueue` takes a worker's stop proof
to be true when it is written (`RecordWorkerStopped`); `StopProof` derives that from messages,
exits and kills. `JobStore` takes an enqueue or a retry to be one step; `ConcurrentEnqueue`
opens both. `AttemptOutputs` assumes of the queue only that a claim may be settled at any time,
with its executor running or not. `MediaOperations` sees the queue as jobs that start, end and are
fenced by `fail()`, whose conditions are `JobQueue`'s `ReleasedOperationStopped`.

### JobStore

One row of `job` is one record. Its fields are the columns the queue decides by: `state`,
`token`, `attempt`, `base` (`retryBaseAttempt`), `worker`, `lease`, `cancel`
(`cancelRequestedAt` with `cancelReason`), `avail` (`availableAt`: due, in the future, or
started by hand), `dep`, the request (`req`: deduplication key, run, item and stage,
`safeToRetry`, whether it belongs to a media operation, and what it does on meeting a live
job), `parent`, `latest` (`latestPending`), `owns` (a producer checkpoint in `data`), and
`oper`, the state of the request's media operation as far as the queue writes it. `armed` and
`granted` are history: the attempt count when the row took on its request, and when it was
last given a budget.

A step is one committed transaction. Row locks (`for update`) make each of them atomic, except
enqueues and the retries: these look at the table without a lock and write later, and what
commits in between may make `job_dedup_live` refuse them. What that means for their callers is
`ConcurrentEnqueue`'s subject. Here a refused transaction, a whole `retryFailed` or `retryRun`
included, leaves no trace; `Admitted` says which retries are not refused, and a retry finds the
rows it writes as it chose them (the exception is `RetriesFailedOnly` in section 3). `holds` is
the queue's pause and the parked stages of runs: a job that waits in a parked stage does not
keep its run open (`LiveWork`). A claim's random token is represented by its attempt number,
which identifies it just as well because attempts are never reused. The store makes no
assumption about its callers: in `StoreSpec` any claim ever issued may call `complete`, `defer`
or `fail` at any time, and whether the executor's stop is on record is an arbitrary argument.
What is shown of it therefore holds for any executor.

| Action | Code |
|---|---|
| `Request` / `Enqueue` | `enqueue`, `insertBatch`, `rearmRunStage` |
| `Claim`, `CancelQueued` | `claim`, `claimPending` |
| `Renew`, `Deadline`, `RecoverExpired` | `heartbeat`, `deadlines`, `recoverExpired` |
| `Complete` with `FollowUp`, `ScheduleLatest` | `complete`, `enqueueFollowups`, `scheduleLatest` |
| `Defer`, `WakeDeferred`, `DelayPasses` | `defer`, `wakeDeferred`, `deferralDelay` |
| `Fail` / `Settle` with `SettleDependencies` | `fail`, `settleDependencies` |
| `Clear`, `RetryFailed`, `RetryRun`, `StartNow`, `Pause` | `clear`/`cancelQueued`, `retryFailed`, `retryRun`, `startNow`, `pause`/`setSchedule` |
| `Checkpoint` | `JobRepository.prepareCheckpoint` |
| `FinishRun` with `LiveWork` | `finishRuns`, `run-summary.ts` |
| `SetRunHolds`, `ReleaseRun` | `setRunHolds`, `releaseRun`, as far as stages are parked; the rest is `RunHolds` |
| `RequestCancel` | external: a stop request on the row; the current code reads it and no longer writes it |
| `LeaseAges` | time |

### JobQueue

Adds to the store what decides who calls it and with which evidence: `claimant`
(`job_attempt.workerId`), `proven` and `workerStopped` (the two kinds of evidence), the `life`
of each worker (new, up, stopping, dying: exited with native processes left, gone), the
`phase` of each claim's `execute()`, each coordinator's `watched` map and its unread `settled`
messages. `unsafe` is history: the claims of work that may not be repeated.

The phases follow `execute()` from await to await: *admitting* (waiting for capacity),
*running*, *ok*/*deferred*/*refused*/*failed* (handler returned, evidence written or not),
*unsettled* (nothing settled; the last attempt in `finally`), *finishing* (about to post
`settled`). The variants `...Settling` carry registered failure settlements. A bounded write
that does not happen, or whose answer is lost, is a step of its own: `PublishRefused`,
`PutOffRefused`, `ReportRefused`, `LeaveToRecovery`. `Crash` and `Terminate` end every
execution of a worker at once, except that any subset of the running handlers may leave native
processes behind (`native`), which end with `ChildrenAbsent`. `RecordWorkerStopped` needs
those to be gone, and may come late or never.

### QueueAdmission

`acquire()` as *idle*, *waiting*, *granted* (promise resolved, continuation not yet run) and
*held*. Everything runs on one event loop, so only the gap after a grant can interleave.
`Resize` grants all waiters that fit in one step, as the loop in `resize()` does.

### ConcurrentEnqueue

`insertBatch`, `rearmRunStage` and the retries statement by statement, for callers of one key,
under PostgreSQL's read committed isolation. A caller *looks* for a live row of its key, and
waits for the row's lock if another transaction holds it (`Look`; `TakeEnded` when the row
ended while it waited); it *records* itself as the running job's latest request, *moves into* a
waiting one, or *inserts*. An insert waits for the transaction that owns the unique entry it
meets, and then does nothing (`Conflict`) or re-arms the run's ended row. A retry chooses a
failed row in a snapshot, under no lock (`RetryLook`), and updates it later (`PutBack`): when a
job of the key is live by then the index refuses, and the retry fails as a whole. `Commit`,
`Abort` and `Fail` end the transaction; meanwhile an executor claims, completes, fails and is
put back to try again (`Claim`, `Complete`, `FailJob`, `TryAgain`), and a job that settles
schedules the latest request or drops it with a finished stage. `changed` is what the request
is about: committed before the call, or, for callers in `InTx`, in the same transaction, as
`complete()` does with published files and follow-ups. `seen` is what an execution looked at;
`noted` is whose request has been a row's latest.

`Covered` is the promise, with three exceptions, named by what the code does to such a caller:
its stage was finished (`dropped`); another's latest request replaced its own and was then
dropped (`displaced`; without this exception `LatestRuns` fails); its change commits with its
request, and the request met a job that another caller inserted meanwhile (`raced`; without it
`PublicationCovered` fails). One key and single-request batches; a producer that owns a
checkpoint behaves like a running job.

### RunHolds

One run with its jobs in page order. `held` is `availableAt = 'infinity'`, `fresh` is
`attempt = 0`. Writing a descriptor (`SetRunHolds`, `ReleaseRun`, `Activate`, `RetryRun`) marks
the run dirty and resets its cursor; a coordinator's pass is `ReadDirty`, `ApplyPage`,
`RecordPage`, a statement each, and may fail between any two (`FailPass`). Several coordinators
may have passes under way, and a descriptor may return to a former value: a pass is `old` once
the descriptor has changed since it read it, and `overtaken` is the history that an old pass has
written its page or its record among those of the present descriptor. Both retries put jobs
back: `RetryFailed` reads the holds and `CommitRetry` writes them later, as that transaction
does; the caller of `retryRun` locks the run's row before the holds are read
(`library-import-execution.repository.ts`), so that `RetryRun`, with the descriptor it may
write, is one step. Claims, completions, failures with the work they block, deferrals,
cancels, new work and `finishRuns` go on throughout. The two remaining writers of
`availableAt`, `startNow` and `wakeDeferred`, change only jobs that are not held and leave them
so: steps of `JobStore`, stutters here. A run always has a `holds` key; budgets and leases are
`JobStore`'s; the dirty import that an old migration may leave is not modelled.

### StopProof

The worker thread, its native children, the `queue-child` messages under way (`told`), the
supervisor's set (`tracked`), and the recorder: `pending` with the identity of each entry,
`retained`, the write in flight with the entries it took, the retry timer, the caller that
waits. `Exit` leaves messages to be delivered before the exit event, as Node does;
`Confirm` needs every known child to be absent, `ConfirmNever` is its deadline. `Restore`
replaces the proofs in the database by none, `EnterMaintenance` and `Boot` keep the recorder,
which lives in the supervising process. `Torn` says whether a thread that is being terminated
may stop between a spawn and its message.

### AttemptOutputs

A token is an attempt with a directory and one file in it. Claims are settled by their owner, by
recovery while the executor still runs, or after it has gone. A worker's exit (`WorkerExit`)
ends its handlers, and any subset of what they ran may live on as native processes that still
write, until `NativeEnds`; its stop is proved after that, or never. Retention is a transaction
(`RetentionBegin`, `RetentionCommit` or `RetentionAbort`) that deletes a settled job with its
attempts once evidence of each is preserved; the rows it holds are locked. The sweep keeps a
pass and a cursor between slices and reads the names in windows of `NameWindow`, the next from
the cursor on (`ReadNames`); for each name it marks evidence, keeps (`Keep`), removes the file
(`Remove`) or, in a later pass, the empty directory (`RemoveDirectory`), as
`sweepAttemptOutputs` decides. A name that is gone when its turn comes, and a job's directory
that goes with its last attempt, make the pass incomplete; a complete one prunes the evidence
it did not mark. Ages (a day's grace, a week of history) are the choice of the step. One
sweeping process; a changed set of roots, which only restarts the pass, and the 250 pieces of
evidence that a slice prunes at most, are not modelled.

### MediaOperations

A row with the columns its statements test: `status`, claim token, owner and lease, `cancel`
and its acknowledgement, `pause`, automatic retries, `retryAt`, `updatedAt` (`old`), remote id
and its release. A step is one guarded `UPDATE` or transaction; `fail()` and
`recoverExpiredClaims()` are several statements and several actions (`FailRetrying`,
`FailFinally`; `RecoverPaused`, `RecoverRetried`, `RecoverFailed`, `AbandonCancel`), so that a
pause or a cancel may arrive between them. A claim whose worker has not vanished may call at
any time, however long ago its row was taken away; so may its runner release its remote job
(`ReleaseOwn`) or record one that was admitted too late. The cleanup pass releases the oldest
rows in `Unreleased`, completed batches among them, as many as its limit; `ReleaseRemote` leaves
open which, and nothing is claimed about when. Edits run as queue jobs: `JobStarts`, `JobEnds`,
`BeginJobQueueRun`, the dispatcher (`ClaimDispatch`, `ReleaseDispatch`) and the write of the
queue's `fail()` (`QueueFences`); edits have no deduplication key, so that a row may have
several jobs. `Restore` is `resetMediaOperationsAfterRestore` applied to the current rows; rows
of an older dump, whose claims the history here no longer matches, are `DatabaseRestore`'s
subject for jobs and not modelled for operations. Optional fences of a call only narrow when it
matches. Not modelled: retries as new rows, dismissal, checkpoints, admission refusals, the
`attempt` column.

### DatabaseRestore

The columns of the job rows that `resetQueueAfterRestore` tests, the maintenance mode, a dump
taken at any time (`TakeDump`, also by the backup job itself) and the restore point, a file that
outlives the process. The queue's life before and after is `Request`, `Claim` (which clears the
stop that was asked for before), `Complete`, `Fail`, `CancelQueued`, `Stop`, `Prove`, `Retry`.
The restore is `Accept`, `SavePoint`, `Load` or `Refuse`, `Reset`, `Check` or `CheckFailed`, and
`Rollback`, which fails when `psql` refuses the restore point or the maintenance lock is lost
(`RollbackFails`). `End` may follow a restore that failed, and may fail itself (`EndFails`);
`Crash` comes at any step; `BootMaintenance` and `BootServer` go by the stored mode, which a
loaded dump has replaced. Three histories: `began` counts the executions of a request, which no
table does; `found` is what a restore that has not succeeded replaced; `unreset` says that one
went wrong and left a dump whose jobs were not reset (*left*), and that the server has opened on
it (*served*). Left out: the restore point as the dump of a later restore, children of reset
rows (not blocked by the reset), `latestPending` (dropped), what other servers do with a lost
lock, cloud recovery, whose caller passes no lock, and Buddy recovery.

### ServerWorkers

`proc` is a worker's process from *starting* to its exit code, which stays until its exit is
handled: ends and `exit` events are separate steps. The rest are the fields of `Workers` under
their own names. `HandleExit` is `onExit` with its branches (`ExitStopping`, `ExitRestarting`,
`ExitEdge`, `ExitLocal`, `ExitFatal`), the timers are actions, `Restart` is a restart published
to the workers that listen, `Bootstrap` is `bootstrap()` with its awaits. `strays` counts starts
beside a living process of the same name; `ClearTimers` is what a stop does to the timers that
would start a worker. `Unheard` says whether a worker may be starting when a restart is
published. Left out: exit codes towards the operating system, the native owner, the relay of
Locked keys, spawn errors, the length of the back-off.

## 3. What the runs check

| Run | Bounds | States | Shows |
|---|---|---|---|
| `recovery` | 1 row, 2 workers, 2 attempts, lease of 1 tick; crash, expiry, cancel; fairness | 172,146 | `QueueInv` (types, `UnsafeRunsAlone`, `ReleasedOperationStopped`), `EvidenceIsTrue`, `CancelledIsStopped`, `EveryClaimSettles`, `CancelRequestHonoured` |
| `stage` | 1 row, 1 worker; one stage of a run asked for as repeatable and as operation-owned work; clear, retry, producer, stop, expiry, a key released | 1,172,169 | `UnsafeRunsAlone` and `PublishedOnce` when a row changes its request; refinement of `FencedClaims` by the composed system |
| `stages` | 2 rows, 1 stage in a run, which may be parked, and outside it, 2 claims in all; every kind of input of the store | 1,723,148 | `FinishedRunsQuiet`, `LatestKept`, `AuditIsFinal` |
| `admission` | 4 callers, capacity 1 to 2, 3 waiting; fairness | 2,688 | `AdmissionInv`, `ArrivalOrder`, `WaitersServed` |
| `operations` | 5 kinds (edit, export, bulk, cloud export, cloud batch), one row at a time, 3 claims, 2 jobs; fairness | 7,279 | `OperationInv`, `OutcomeIsFinal`, `LostClaimRecovered`, `CancelSettles` |
| `holds` | 2 jobs of 2 stages, pages of 1, 2 changes of the holds, which may return, 1 failed pass, 2 coordinators; fairness | 854,088 | `AppliedWhenClean`, `ImportWaits`, `ReleasedWorkRuns` |
| `stop_proof` | 3 workers, 2 children, 4 entries, 2 failed writes, 1 restore; fairness | 311,549 | `ProofIsTrue`, `ProofDelivered`, `PendingWritten` |
| `enqueue` | 5 callers of one key (two latest, one seal, one plain, one retry; one in a run, two publishing), 3 rows | 4,784,061 | `EnqueueInv` |
| `outputs` | 2 attempts of 1 job, 1 worker, names read one at a time; fairness | 171,019 | `EvidenceIsTrue`, `OutputsKept`, `Reclaimable`, `LeftoversCleared` |
| `restore` | 1 unrepeatable job and 1 backup of an older server, 2 attempts each; crashes and failed rollbacks | 5,319,381 | `UnsafeOnce`, `OverIsOver`, `RestoreInv` |
| `workers` | API, edge, job and maintenance worker, 2 failures in a row; fairness | 132,840 | `GroupSound`, `StopReachesAll`, `RestartCompletes`, `WorkersComeBack` |
| `orphaned_latest` | 3 rows, 2 stages; clear | violated | `NoOrphans` |

A few invariants are conjunctions of the named parts above them in their module, so that one
run checks what belongs together: `QueueInv`, `AdmissionInv`, `OperationInv`, `ProofDelivered`,
`EnqueueInv`, `OutputsKept`, `RestoreInv`, `GroupSound`.

**Why the bounds are enough.** A row interacts with other rows only through keys, stages,
parents and the count of active rows, which `stages` covers with two rows; everything about
claims and evidence concerns one row and its successive claims, so `recovery` uses one. Two
workers make every interleaving of an old executor, its replacement and a third party's sweep
possible. Each lease has the stages *valid*, *expired* and *30 seconds past*: the code compares
with nothing else. `Inputs` switches kinds of outside event off where a run does not need them.
`BudgetKept`, that a budget is neither exceeded nor lost, needs three attempts; it holds on the
instance of `MCStages` with `MaxAttempts = 3`, `MaxClaims = 3` and `Inputs = {"hand", "key",
"cancel", "expiry", "producer", "retry"}` (932,590 states). Operations do not read each other's
rows, so one row of each kind suffices. In `holds`, two jobs in pages of one put work before and
after every cursor and end with an empty page; two changes bring the holds back to what they
were, and with two coordinators an old pass then meets a new one. In `enqueue`, three rows let
the key be inserted twice beside the run's finished row, and every mode meets every other. Three
workers let a proof outlive the worker after its own. In `outputs`, two tokens and windows of
one name make the sweep continue from its cursor between directories, with work that appears and
goes on both sides of it; two attempts of one job also share the job's directory. In `restore`,
two jobs are one that must not be repeated and one backup: rows do not read each other. Deadlock
is checked for the admission only: elsewhere bounded attempts, workers or changes end, and a
system with nothing to do is idle.

**Fairness**, and why the code justifies it:

* `JobQueue`. Timers keep firing while some coordinator is up (`Sweep`, `SettleQueued`), leases
  run down (`LeaseAges`), messages between threads of a live process arrive
  (`SettledMessage`), and whatever `execute()` does after the handler's return is bounded by
  statement timeouts (`Settles`). `WatchDeadline` is fair because `deadlineMs` bounds a handler
  without progress. `Terminate` is only fair for a worker whose watched claim has a persisted
  stop (`Outlived`): that is what `QueueWatchdog.inspect` and the supervisor's timer guarantee.
  *Not* fair: the handler's return, the end of native processes, the writing of evidence,
  crashes. Both properties assume `[]<>SomeWorkerUp`, that a worker keeps coming back.
* `QueueAdmission`. Continuations run and executions end.
* `MediaOperations`. The lease of a vanished worker lapses, the sweep keeps coming, the queue
  ends or fences the job of a dead run, and a worker that is alive answers a cancel. Workers
  need not finish, or live.
* `RunHolds`. Each coordinator's loop runs its passes, and what can be claimed is claimed.
* `StopProof`. A write ends and the retry timer fires; since failures are bounded, this says
  that the database answers in the end.
* `AttemptOutputs`. The sweep begins again and again; a slice may be lost at any step with what
  it did, but one that got somewhere is not always lost (strong fairness); every file and
  directory grows old; retention transactions end.
* `ServerWorkers`. Exit events and timers are handled, the boot's lock is obtained, and a
  worker that heard of a restart or was killed ends. A worker that was asked to stop may hang.
* `JobStore`, `ConcurrentEnqueue` and `DatabaseRestore` state no fairness: only safety is claimed
  of them.

### Disagreements found

One is kept as a run, `orphaned_latest`, because no assumption of another run stands for it:

* **`NoOrphans`** (code). A request recorded on a running job keeps its parent; when the parent
  ends without success before the request is scheduled, `scheduleLatest` (`queue/store.ts:714`)
  creates a row that is pending, never claimable and blocked by nobody; its run never finishes.
  `server/test/medium/specs/repositories/sql-queue.spec.ts:1615`: "a poison parent settles
  unstarted descendants while other selected items continue".

The others are stated as properties in the modules, or are the reason why a passing run makes
an assumption. Each is reproduced by checking the property named, alone and without fairness
(except `RestartCompletes`), on the configuration named with the change named.

| Property | Configuration | What the code does, and what is said |
|---|---|---|
| `RecoveryConfirmed` | `MCRecovery` | `fail()` gives repeatable work up to its retry 30 seconds after expiry although nothing confirms that its executor stopped (`queue/store.ts:617-629`). `docs/docs/administration/jobs-workers.md:21`: "Automatic recovery also requires confirmation that the handler returned, or that its executor and registered native processes stopped." The code's comment defends the behaviour, and what matters holds: the work that overlaps is repeatable and publishes once. The document is out of date. |
| `RunningClaimIsRenewed` | `MCRecovery` | The coordinator's `active` map and the `settled` message are keyed by job id (`workers/queue-coordinator.ts:72-74`). A deferred job may be claimed again before its first execution ends; the late message then drops the second claim: no renewal, no watchdog, no abort. `docs/docs/administration/jobs-workers.md:29`: "Claims last 60 seconds and renew every 15 seconds". Expiry recovers the claim (`EveryClaimSettles`), but a long handler loses its work and its budget. |
| `LegalTransitions` | `MCOperations` | The progress statements take a row from `preparing` straight to `validating`, and a restore fails paused rows; neither is in the table of which `utils/media-operation.ts:54` says: "The only legal transitions." |
| `CancelledIsAcknowledged` | `MCOperations` | Recovery and a restore settle a cancelling row as cancelled without an answer (`repositories/media-operation.repository.ts:2302-2319`, `utils/media-operation-restore.ts:26`). `utils/media-operation.ts:56-58`: "it leads only to `cancelled` — after the remote acknowledges — or to `failed` when the worker dies before it can answer". |
| `AppliedAlways` | `MCHolds` | The record of a page compares descriptors, so holds that change from A to B and back to A between a page and its record pass for unchanged, and a second coordinator's page may land among those of a newer pass; a job enqueued under B stays as B had it. `queue/store.ts:1038`: "Written only while the descriptor is the one this page applied; a newer one starts its own pass." |
| `RetriedHeld` | `MCHolds` | `fail()` and `defer()` put a job that will be tried again at a time, whatever its run holds (`queue/store.ts:648`, `:547`). `queue/store.ts:66`: "Whether the run holds this stage: its jobs are inserted or retried held." |
| `HeldHasHold` | `MCHolds` | `retryFailed()` reads the holds without the run's row lock and commits later; a release in between leaves its job at 'infinity' in a clean run without holds. `queue/store.ts:167`: "A run's holds are read under its row, so a concurrent `setRunHolds` cannot be overwritten by an older view." |
| `LiveRunOpen` | `MCHolds` | `finishRuns()` does not count pending jobs of a parked stage, also those the pass has not yet moved to 'infinity': the run is finished and such a job is claimed all the same. `queue/store.ts:162-164`: "the caller's own live run cannot finish under it and is left unlocked." |
| `LatestCarried` | `MCStopProof` | Every boot republishes the retained proof and forgets it once written; when the next worker exits without a confirmed stop and a restore follows, the restored database lacks the latest confirmed stop. `queue/worker-stop-proof.ts:13-14`: "Carry only its latest confirmed stop across the maintenance cycle, until normal bootstrap republishes it into the restored database." |
| `ProofIsTrue` | `MCStopProof`, `Torn = TRUE` | `worker.terminate()` may stop the JavaScript between the spawn of a native process and the message that registers it (`queue/child-process.ts:7`); the supervisor then proves the stop while the process runs. `queue/supervisor.ts:79`: "A reported close is useful, but only OS absence permits durable stop evidence." |
| `PublicationCovered` | `MCEnqueue`, `Mode <- SealMode`, `RunOf <- SealRunOf`, `Parent <- SealParent` | A completing job publishes a file and requests its sealing in one transaction. The request is dropped in favour of a waiting seal, which may be claimed and look at the files before that transaction commits; nobody seals the file. `repositories/job.repository.ts:1351-1352`: "a request while one runs (a new derived file, a key load) is picked up after it". |
| `LatestRuns` | `MCEnqueue` | A running job keeps one latest request. A second caller's replaces the first's; when it is for a stage its run has finished it is dropped at settlement, and the first, promised and committed, never runs. `queue/store.ts:198`: "A running job, or a producer that may own a checkpoint, settles first; the latest request runs after it." |
| `Reclaimable` | `MCOutputs`, `LongCommit = TRUE` | `recordedAt` is the clock inside a transaction that commits later; a pass that starts after that moment and walks before the commit deletes evidence it never saw, and the file can never be told abandoned. `utils/attempt-evidence.ts:45`: "Concurrently created evidence waits for the next pass." |
| `RetriesFailedOnly` | `MCEnqueue` | A retry chooses its rows in a subquery and updates them by id, so that the update, having waited for the row's lock, does not ask again whether it failed: a job that was retried meanwhile and has completed or been cancelled waits once more. `queue/store.ts:1127`: "Puts failed jobs back with their saved data". |
| `RecordedIsFindable` | `MCOperations` | A runner that knows of no remote job acknowledges a cancel as released (`services/cloud-ml-job.service.ts:2511`); when a job that was admitted for an earlier claim is recorded on the row afterwards, the row says that it is released and the cleanup never looks at it. `services/cloud-ml-job.service.ts:1686-1687`: "keep the job's id on the row first so the cleanup pass can always find it". |
| `RepeatsNothing` | `MCRestore` | The dump replaces the stored maintenance mode. A process that ends after the load and before the reset boots normally (`supervisor.ts:120`) on a queue that was never reset; so does End after a reset that failed and whose rollback failed as well. `docs/docs/administration/backup-and-restore.md:65`: "This avoids automatically repeating a remote effect after restoring an older recovery point." `maintenance/maintenance-worker.service.ts:302-303`: "A restore that failed has cleared the flag, so End and another restore stay available as the safe exit". |
| `RestartCompletes` | `MCWorkers`, `Unheard = TRUE` | A restart reaches workers over their websocket adapter, which one that is still starting has not attached; it never exits, and the group waits for it. `utils/shutdown.ts:26-28`: "then jobs still running go back to waiting and the worker exits by 2 s." |
| `FailureStops` | `MCWorkers` | The mark that a worker was killed for an unusable database is deleted only where its exit leads to a local restart; otherwise it outlives its process, and a later ordinary failure of the API restarts it. `server/src/supervisor.spec.ts:489`: "still stops the server when the API worker fails for any other reason". |

So the passing runs of `StopProof`, `AttemptOutputs` and `ServerWorkers` hold under the
assumptions `Torn`, `LongCommit` and `Unheard` false: each excludes exactly the race described in
its line. The proofs that need one of them have it as a hypothesis; `Unheard` is needed for
liveness only. The passing runs of the other modules make no such assumption: what goes wrong is
part of their behaviour, and the property names the exception (`overtaken`, `raced` and
`displaced`, `unreset`), except that retries in `JobStore` find failed what they chose as failed.

## 4. What is proved

TLAPS proves the following for every value of the constants (jobs, workers, runs, keys,
attempts, rows, stages, pages, children, entries, tokens, kinds of job), from the assumptions
named in the modules: nulls are not values, bounds are positive, operation-owned requests are
never repeatable (`safeToRetry` is not set on them), callers are finitely many, kinds of
operation relate as the code classifies them.

**JobQueueProofs, the store.** `StoreInv` is inductive: besides the types it says that a row
has a token exactly while it is active and that this is its last attempt (`Shape`), that a
published request is over until the row takes on another (`PublishedIsOver`), and that the open
audit of a row is the one of its token (`AuditMatches`). `PublishedOnce` alone is not
inductive: that a completed row is not claimed again for the same request needs all three.
Every operator on the table (`Enqueue`, `ScheduleLatest`, `SettleDependencies`, `Clear`,
retries) is a composition of rewrites of single rows that leave running claims alone; `Quiet`
states that once, the row lemmas establish it, and only `Claim`, `Complete`, `Defer` and
`Settle` need arguments of their own. From it follow `StoreCorrect` and `StoreTypeCorrect`,
`PublishedOnceCorrect` (one publication per request), `AuditIsFinalCorrect` (an audited outcome
is never rewritten) and `FencedPublicationCorrect` (the store implements `FencedClaims`).

`FinishedRunsStayQuiet` (`FinishedRunsQuiet`) is about several rows at once. A finished run stays
quiet because every operator that makes a row live reopens the run it belongs to, in the same
transaction, or acts for a job that keeps the run open. The one exception is in the property,
as it is in the code: while a stage of the run is parked, its waiting jobs do not count; setting
such a stage free reopens the run.

`BudgetIsKept` (`BudgetKept`) counts over the history of outcomes: between two grants a row is
executed at most twice, deferrals aside. The bound alone is not inductive, since `claim()` never
looks at the history. `Solvent` says what it looks at instead: `retryBaseAttempt` trails the
attempts by exactly the executions spent since the grant, a waiting row has spent at most one of
its two, and no other row more than both. A claim spends one, a deferral refunds it by raising
the base, `fail()` lets the row wait only with something left, and everything else either
leaves the counters alone or grants afresh.

`LatestNeverLost` (`LatestKept`) is an action property: a request recorded on a live job
outlives that job. When a step takes it off the row, the request is the row's own by then, or
has a job that waits, is held for attention or is blocked with its parent; sealing may join any
such job of its key; or its stage has had a row all along, which has ended or runs under another
key, so that the index `job_run_stage` admits no second one. Otherwise the settled job itself is
held for attention, or was cleared. The argument is `Indexed`, an invariant about the whole
table: no two live rows have a key, no two rows a stage of a run, and a request noted on a row
has the key of that row. Without the last a running row that puts its noted request back on
itself could bring a second live row of a key. Hence when the job settles no other live row has
the key, so that the request meets nobody (`SettleHonours`), or only the follow-up that the same
transaction enqueued, which waits, owns nothing and therefore takes the request in
(`FollowUpWaits`, `CompleteHonours`); no request is noted which its caller asked to drop
(`NotesKept`); and blocking descendants or holding rows takes neither a note nor a job from
anybody (`Ends`). What becomes of a blocked row's own note is outside the property.

**QueueAdmissionProofs.** `AdmissionInv` (types, `QueueMatches`, `SlotsAccounted`,
`NoIdleSlot`) is inductive: `AdmissionCorrect`. `HowAdmitted` lists the three ways to get a
slot; from it and the invariant follow `NeverOverfilledCorrect` and `ArrivalOrderCorrect`.

**MediaOperationsProofs.** Rows do not depend on each other, so `IInv` is the type of the table
and `RowInv` of each row. `OperationInv` is not inductive by itself: a row at *cancelling* must
have been asked to cancel, an unused row must have no pause, only rows with a remote runner may
name a remote job, and rows in `lost` are never repeatable. One lemma per statement shows that
the row it writes is a row and keeps `RowInv`. `Invariant`, `OperationsCorrect`
(`Spec => []OperationInv`) and the action property `Outcomes` (`OutcomeIsFinal`) follow.

**RunHoldsProofs.** `ImportHeld` (`ImportWaits`) needs only that everything of an import is
held while it waits (`Waiting`), that only failed jobs have a retry under way and that what
ran is not fresh. `CleanIsApplied` (`AppliedWhenClean`) rests on `Passes`, the rest of `IInv`: a
pass that is not old was read under the present descriptor; unless an old pass has written in
between, the holds are applied up to the recorded cursor, and by a pass that is not old up to
its own. It has no hypothesis: any number of jobs, stages, coordinators, descriptors and
returns of a descriptor, any page size.

**ConcurrentEnqueueProofs.** `ReturnedCallsAreCovered` (`EnqueueInv`), for any number of callers
and rows and any modes (retries included), runs and parents of the requests: a caller that has
returned is covered, but for the three exceptions of `Covered`. `Covered` speaks of calls that
have returned; what makes it inductive is what the statements before the commit leave behind:
what a caller has at each statement (`Places`), that the key is live once and written once at a
time (`Single`), that a caller which found no job, or lost the one it waited for, meets none that
is blind to its change (`Noticed`), that one which writes nothing relies on a row that carries its
request (`Kept`), and that rows name only callers that still count on them (`RowsNamed`).

**SupervisorProofs, the stop proof.** `ProofsAreTrue` (`ProofIsTrue`), with `~Torn` as
hypothesis. The invariant `Truth` has three parts: the supervisor knows, or is about to be told
of, every living child of the current worker until its exit is confirmed, and nothing is under
way then (`Known`); whatever is pending, retained, being written or written is about a worker
that is gone (`Carried`); and the types these need (`Shape`).

`StopsAreDelivered` (`ProofDelivered`) needs no such hypothesis. Its invariant `Delivery`
numbers the entries as they are made (`Numbered`), so that the end of a write takes away only
what it wrote; relates the stages of server, worker and call (`Staged`); says that the proof of
a stop whose call is under way waits for a later write, or is in the present one (`Waiting`);
and that the latest stop is in hand whenever no restore can come between, and otherwise
retained, to be republished (`Safe`). `PrecedingCarried` alone does not say what a restore that
is still to come will find.

**SupervisorProofs, the processes.** `GroupStaysSound` (`GroupSound`): one process for each
worker, maintenance alone, nothing out of reach. The invariant `GroupInv` adds what holds while
the supervisor lives (`Tended`): `this.workers` names exactly the processes whose exit was not
handled, maintenance mode has neither another worker nor the edge timer, a restart has no timer
pending, and failures are within their bound; and what it leaves when it exits (`Abandoned`):
forks only, each of them on its way out. No timer can then start a worker beside a living one.
`StopsReachAll` (`StopReachesAll`): once a stop has begun, whatever boots, timers and exits are
still to come, every worker has been asked to stop and none is started that is not. Its
invariant `Stopped` says what a stop leaves behind, a group in which nothing starts a worker.

**JobQueueProofs, the queue.** `NextIsStoreStep` shows that each step of a coordinator, an
execution or a supervisor is one transaction of the store or leaves the store alone; hence
`QueueImplementsStore` (`Spec => StoreSpec`), and with it every theorem about the store is one
about the queue (`QueueKeepsPromises`). `IInv` adds to `StoreInv` what ties executors to rows:
an execution lives in the worker that claimed it, and a stop is on record only of a worker that
is gone (`Housed`); neither evidence nor a final audit is ahead of an execution (`Truthful`);
an active row names the worker its claim was made by (`Held`), without which the sweep could
judge a claim by the evidence of another worker; and an executor of unrepeatable work is its
row's last attempt, on a row that is active for that work or waits for a person, whose
operation is not released (`Alone`). `UnsafeRunsAlone` alone says nothing of a row whose
executor is cut off, which is where recovery acts. `NoSecondExecutor` (`QueueInv`),
`UnrepeatableRunsAlone` and `EvidenceNeverAhead` follow from it, and so does the action
property `CancelledMeansStopped` (`CancelledIsStopped`), step by step over what may write
'cancelled'.

**AttemptOutputsProofs.** `Outputs` is the invariant behind `RecordedIsStopped`
(`EvidenceIsTrue`) and `SweepTakesNoLiveOutput` (`OutputsKept`): the owner of a row is an open
attempt (`Owners`), nothing says of an executor, or of what it left running, that it has stopped
(`Executors`), the jobs of an open retention transaction stay settled with all attempts on
record (`Locked`), and only completed attempts are published (`Published`). `Reclaimable` is
about a whole pass of the sweep, and needs its history (`Swept`): every directory whose evidence
is older than the pass and that lies up to the cursor has been met and its evidence marked; none
lies between the cursor and the last name of the window without being in the window. Hence a
complete pass prunes no evidence of a directory that is there. `LeftoversStayReclaimable` has
`~LongCommit` as hypothesis. The run has two tokens and windows of one name; the theorems hold
for any number of both.

**DatabaseRestoreProofs.** `RestoreSafe` (`RestoreInv`) rests on `Copies`: every copy of the
rows, live, dumped or in the restore point, is a table of jobs; from the loading of the dump on
the restore point is what the restore found, and when the process has ended, either the database
is unchanged or the restore point still is that and the stored mode is the dump's. So whether a
rollback succeeds, fails or never comes, the rows found are in one place or the other until the
server opens. `RestoreRepeatsNothing` (`UnsafeOnce`) and `RestoreRevivesNothing` (`OverIsOver`)
have no hypothesis. `Restored` adds `Timeline` for as long as no server has opened on a dump
without its reset: what any copy of a row knows however old it is (`Honest`), and what only the
rows that workers use know, that unrepeatable work which waits was never begun (`Current`). A
loaded dump is honest and not current; the reset makes it so, and until then no worker reads it.

**Only model-checked**: liveness under fairness, which is out of the prover's reach, as is
`ENABLED`. Every safety property of a passing run is stated by a theorem.

## 5. Limits

* One queue; concurrency is a constant. Claim order (`availableAt`, `createdAt`) is left open:
  any claimable row may be next. `waiting` is read like `pending` and written nowhere.
* Moving a request into a waiting job can violate `job_run_stage` and abort the caller's
  transaction (`queue/store.ts:204`), a retry can violate `job_dedup_live` (`queue/schema.ts:40`),
  and so can `complete()`, which enqueues its follow-ups before `scheduleLatest` puts the
  completed row back under a key that a follow-up has taken. An aborted transaction changes
  nothing, so that `JobStore` has no step for it (`StageCollision`, `Admitted`, `KeyCollision`
  are the guards), and nothing here says that the indexes refuse no write. `ConcurrentEnqueue`
  has the aborts of enqueue and retry, and their callers are told (`Fail`); a publication that is
  aborted is the `PublishRefused` of its claim in `JobQueue`.
* A completion enqueues at most one follow-up; `Fits` bounds the rows. Runs of `JobStore` are
  enumerated from the start; of their holds it has the parked stages, the rest is `RunHolds`.
  Progress reports only move deadlines, which are left to time. In `JobQueue` an execution may
  wait in *admitting* for any time.
* The modules are composed by assumption (section 2), not in one specification: their product
  is beyond TLC.

### Not modelled

* The rest of the server, the web and mobile applications, Studio, the SDK, machine learning
  and the manager: user interface, generated clients, request handling, image and model code,
  storage and network protocols. They are most of the repository's 878,000 lines, keep no
  state whose interleavings a model would explore, or keep it behind services out of the
  repository; only a small share of the lines can be mapped for that reason.
* The paging of retention through history, observers, the image process pool, the relay of
  Locked keys, the journals of imports, cloud backups. These are small state machines of their
  own and candidates for later models.

## 6. Plan

1. `StopProof` shown to implement `JobQueue`'s evidence, as a refinement.
2. Models of the Locked keys' relay, the image process pool, retention's paging, the trash of
   files and the commands of edits.

## 7. Running

    tlc -workers 2 -config MCRecovery.cfg MCJobQueue
    tlapm JobQueueProofs.tla

`PROJECT.json` lists every run with its module and configuration, the mutant that shows each
property can fail, the source lines of every definition, the hazards, and the theorems.
