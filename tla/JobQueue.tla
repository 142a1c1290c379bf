------------------------------ MODULE JobQueue ------------------------------
(***************************************************************************)
(* The queue at work: the rows of JobStore together with the worker         *)
(* processes that execute claims.  Each worker has a coordinator thread     *)
(* (server/src/workers/queue-coordinator.ts) that claims, renews, sweeps    *)
(* and watches, executions (JobRepository.execute, server/src/repositories/ *)
(* job.repository.ts) that run handlers and settle their claims, and a      *)
(* supervisor that outlives it.  Settlement rests on evidence that an       *)
(* executor has stopped, which executions (server/src/utils/                *)
(* attempt-evidence.ts) and the supervisor write.                           *)
(*                                                                         *)
(* A step is one committed transaction of JobStore, one message, one move   *)
(* of an execution between two awaits, or the passing of time.              *)
(***************************************************************************)
EXTENDS JobStore

VARIABLES claimant,       \* job_attempt.workerId per claim
          proven,         \* claims with frameleaf-attempt-evidence
          workerStopped,  \* workers with frameleaf-worker-stopped
          life,           \* life of each worker process
          phase,          \* where each claim's execute() stands, in its worker
          watched,        \* the coordinator's active map: job -> claim
          settledMsgs,    \* 'settled' messages on their way to the coordinator
          unsafe          \* history: claims of unrepeatable or operation work

evidence == <<claimant, proven, workerStopped>>
memory == <<life, phase, watched, settledMsgs>>
vars == <<storeVars, evidence, memory, unsafe>>

Phases == {"none", "admitting", "running", "native", "ok", "refused", "deferred", "failed",
           "failedSettling", "unsettled", "unsettledSettling", "finishing"}

\* An executor that has the claim and may still touch the world: its handler has not
\* returned, or its native processes outlive the worker that started them.
Executing(c) == phase[c] \in {"admitting", "running", "native"}

Init == /\ StoreInit
        /\ claimant = [c \in Claims |-> NoWorker]
        /\ proven = {}
        /\ workerStopped = {}
        /\ life = [w \in Workers |-> "new"]
        /\ phase = [c \in Claims |-> "none"]
        /\ watched = [w \in Workers |-> [j \in Jobs |-> 0]]
        /\ settledMsgs = [w \in Workers |-> [j \in Jobs |-> 0]]
        /\ unsafe = {}

-----------------------------------------------------------------------------
(* Evidence that an executor has stopped, as fail() reads it. *)

ProofOf(c) == c \in proven \/ claimant[c] \in workerStopped
Stopped(j) == <<j, row[j].token>> \in proven \/ row[j].worker \in workerStopped
\* A waiting row carries no token: its whole audit must be proven.
StoppedJobAttempts(j) ==
    \A a \in 1..row[j].attempt : outcome[<<j, a>>] = "completed" \/ ProofOf(<<j, a>>)

-----------------------------------------------------------------------------
(* The coordinator of a worker. *)

Up(w) == life[w] = "up"
Alive(w) == life[w] \in {"up", "stopping"}
SomeWorkerUp == \E w \in Workers : Up(w)

\* initialize() registers a new worker id.
Start(w) == /\ life[w] = "new"
            /\ life' = [life EXCEPT ![w] = "up"]
            /\ UNCHANGED <<storeVars, evidence, phase, watched, settledMsgs, unsafe>>

\* A claim is put in the active map and handed to the main thread.
Dispatch(w, j) ==
    LET c == <<j, row[j].attempt + 1>>
    IN  /\ Up(w) /\ Claim(w, j)
        /\ claimant' = [claimant EXCEPT ![c] = w]
        /\ phase' = [phase EXCEPT ![c] = "admitting"]
        /\ watched' = [watched EXCEPT ![w][j] = c[2]]
        /\ unsafe' = IF row[j].req.safe /\ ~row[j].req.op THEN unsafe ELSE unsafe \cup {c}
        /\ UNCHANGED <<proven, workerStopped, life, settledMsgs>>

\* Only claims in the active map are renewed, under their tokens.
Renewable(w) == {j \in Jobs : /\ watched[w][j] # 0 /\ Owned(j, watched[w][j])
                              /\ row[j].worker = w /\ row[j].lease > 0}
Heartbeat(w) == /\ Alive(w)
                /\ \E S \in SUBSET Renewable(w) : Renew(w, S)
                /\ UNCHANGED <<evidence, memory, unsafe>>

WatchDeadline(w, j) == /\ Alive(w) /\ Deadline(w, j)
                       /\ UNCHANGED <<evidence, memory, unsafe>>

Sweep(j) == /\ SomeWorkerUp /\ RecoverExpired(j, Stopped(j))
            /\ UNCHANGED <<evidence, memory, unsafe>>

SettleQueued(j) == /\ SomeWorkerUp /\ CancelQueued(j, StoppedJobAttempts(j))
                   /\ UNCHANGED <<evidence, memory, unsafe>>

SweepRun(r) == /\ SomeWorkerUp /\ FinishRun(r)
               /\ UNCHANGED <<evidence, memory, unsafe>>

\* The active map is keyed by job id, and so is the message.
SettledMessage(w, j) ==
    /\ settledMsgs[w][j] > 0
    /\ settledMsgs' = [settledMsgs EXCEPT ![w][j] = @ - 1]
    /\ watched' = [watched EXCEPT ![w][j] = 0]
    /\ UNCHANGED <<storeVars, evidence, life, phase, unsafe>>

-----------------------------------------------------------------------------
(* JobRepository.execute for the claim <<j, a>>, in the worker that claimed it. *)

In(j, a, ps) == phase[<<j, a>>] \in ps
Goes(j, a, p) == phase' = [phase EXCEPT ![<<j, a>>] = p]
\* The step moves this execution on and leaves the rest of its worker alone.
Moves(j, a, p) == Goes(j, a, p) /\ UNCHANGED <<evidence, life, watched, settledMsgs, unsafe>>

\* Admitted: the handler starts.  Nothing is read again from the database.
StartHandler(j, a) == /\ In(j, a, {"admitting"}) /\ Moves(j, a, "running")
                      /\ UNCHANGED storeVars

\* The handler has returned, or admission was refused; the stop is recorded unless
\* the bounded write fails.
ReturnsTo(p) == IF p = "admitting" THEN {"refused"}
                ELSE {"ok", "deferred", "failed", "failedSettling"}
Return(j, a) ==
    /\ In(j, a, {"admitting", "running"})
    /\ \E p \in ReturnsTo(phase[<<j, a>>]) : Goes(j, a, p)
    /\ proven' \in {proven, proven \cup {<<j, a>>}}
    /\ UNCHANGED <<storeVars, claimant, workerStopped, life, watched, settledMsgs, unsafe>>

SaveCheckpoint(j, a) == /\ In(j, a, {"running"}) /\ Checkpoint(j, a)
                        /\ UNCHANGED <<evidence, memory, unsafe>>

Publish(j, a) == In(j, a, {"ok"}) /\ Complete(j, a) /\ Moves(j, a, "finishing")

\* The fence refused the publication, or the transaction threw (an adoption, a lost
\* deadlock, an abort): the first goes to the last settlement, the second to fail().
PublishRefused(j, a) ==
    /\ In(j, a, {"ok"})
    /\ \/ ~Fenced(j, a) /\ \E p \in {"unsettled", "unsettledSettling"} : Moves(j, a, p)
       \/ \E p \in {"failed", "failedSettling"} : Moves(j, a, p)
    /\ UNCHANGED storeVars

PutOff(j, a) == In(j, a, {"refused", "deferred"}) /\ Defer(j, a) /\ Moves(j, a, "finishing")

\* Refused by the fence, or not written; a handler may have registered settlements, an
\* admission that was refused has not.
PutOffRefused(j, a) ==
    /\ \/ In(j, a, {"refused", "deferred"}) /\ Moves(j, a, "unsettled")
       \/ In(j, a, {"deferred"}) /\ Moves(j, a, "unsettledSettling")
    /\ UNCHANGED storeVars

Report(j, a) == /\ In(j, a, {"failed", "failedSettling"})
                /\ Fail(j, a, Stopped(j), In(j, a, {"failedSettling"}), FALSE)
                /\ Moves(j, a, "finishing")

\* Not settled: not owned, not stopped, a diagnostic lost its claim, or nothing was written.
ReportRefused(j, a) ==
    /\ In(j, a, {"failed", "failedSettling"})
    /\ Moves(j, a, IF In(j, a, {"failed"}) THEN "unsettled" ELSE "unsettledSettling")
    /\ UNCHANGED storeVars

\* The last settlement of an execution that settled nothing: only a requested stop, or
\* a domain settlement.
SettleStopped(j, a) ==
    /\ In(j, a, {"unsettled", "unsettledSettling"})
    /\ LET settling == In(j, a, {"unsettledSettling"})
       IN  Fail(j, a, Stopped(j), settling, ~settling)
    /\ Moves(j, a, "finishing")

\* Nothing to settle, or not written: lease recovery owns the claim now.
LeaveToRecovery(j, a) == /\ In(j, a, {"unsettled", "unsettledSettling"}) /\ Moves(j, a, "finishing")
                         /\ UNCHANGED storeVars

\* execute() is over: the coordinator is told the job's id.
Finish(j, a) ==
    /\ In(j, a, {"finishing"}) /\ Goes(j, a, "none")
    /\ settledMsgs' = [settledMsgs EXCEPT ![claimant[<<j, a>>]][j] = @ + 1]
    /\ UNCHANGED <<storeVars, evidence, life, watched, unsafe>>

-----------------------------------------------------------------------------
(* Worker processes and their supervisor. *)

\* stopWorkers(): the coordinator claims and sweeps no more; heartbeats go on.
StopWorker(w) == /\ Up(w)
                 /\ life' = [life EXCEPT ![w] = "stopping"]
                 /\ UNCHANGED <<storeVars, evidence, phase, watched, settledMsgs, unsafe>>

\* A worker's executions end with it, but for handlers whose native processes survive.
Exit(w) ==
    /\ Alive(w)
    /\ \E native \in SUBSET {c \in Claims : claimant[c] = w /\ phase[c] = "running"} :
         /\ life' = [life EXCEPT ![w] = IF native = {} THEN "gone" ELSE "dying"]
         /\ phase' = [c \in Claims |-> IF claimant[c] # w THEN phase[c]
                                      ELSE IF c \in native THEN "native" ELSE "none"]
    /\ watched' = [watched EXCEPT ![w] = [j \in Jobs |-> 0]]
    /\ settledMsgs' = [settledMsgs EXCEPT ![w] = [j \in Jobs |-> 0]]
    /\ UNCHANGED <<storeVars, evidence, unsafe>>

\* The last native process of a dead worker is absent.
ChildrenAbsent(w) ==
    /\ life[w] = "dying"
    /\ life' = [life EXCEPT ![w] = "gone"]
    /\ phase' = [c \in Claims |-> IF claimant[c] = w THEN "none" ELSE phase[c]]
    /\ UNCHANGED <<storeVars, evidence, watched, settledMsgs, unsafe>>

\* The worker dies: crash, kill, replaced container, end of a graceful stop.
Crash(w) == Exit(w)

\* The watchdog saw a watched claim outlive its deadline, or the database stay away, and
\* then the grace of its cancellation; the supervisor terminates the worker.
Terminate(w) == (\E j \in Jobs : watched[w][j] # 0) /\ Exit(w)

\* Mutant: the exit of the worker alone is taken for the stop of its executors.
RecordOnExit(w) == /\ life[w] \in {"dying", "gone"} /\ w \notin workerStopped
                   /\ workerStopped' = workerStopped \cup {w}
                   /\ UNCHANGED <<storeVars, claimant, proven, memory, unsafe>>

\* The supervisor survived the worker and persists that it and its children are gone.
RecordWorkerStopped(w) == /\ life[w] = "gone" /\ w \notin workerStopped
                          /\ workerStopped' = workerStopped \cup {w}
                          /\ UNCHANGED <<storeVars, claimant, proven, memory, unsafe>>

-----------------------------------------------------------------------------
Settles(j, a) ==
    \/ Publish(j, a) \/ PublishRefused(j, a)
    \/ PutOff(j, a) \/ PutOffRefused(j, a)
    \/ Report(j, a) \/ ReportRefused(j, a)
    \/ SettleStopped(j, a) \/ LeaveToRecovery(j, a) \/ Finish(j, a)

Execute(j, a) ==
    \/ StartHandler(j, a) \/ Return(j, a) \/ ("producer" \in Inputs /\ SaveCheckpoint(j, a))
    \/ Settles(j, a)

Coordinate ==
    \/ \E w \in Workers : Start(w) \/ Heartbeat(w)
    \/ \E w \in Workers, j \in Jobs : Dispatch(w, j) \/ WatchDeadline(w, j) \/ SettledMessage(w, j)
    \/ \E j \in Jobs : SettleQueued(j) \/ Sweep(j)
    \/ \E r \in Runs : SweepRun(r)

Supervise ==
    \/ "stop" \in Inputs /\ \E w \in Workers : StopWorker(w)
    \/ "crash" \in Inputs /\ \E w \in Workers : Crash(w)
    \/ \E w \in Workers : Terminate(w) \/ ChildrenAbsent(w) \/ RecordWorkerStopped(w)

Next ==
    \/ Administer /\ UNCHANGED <<evidence, memory, unsafe>>
    \/ Coordinate
    \/ \E j \in Jobs, a \in Attempts : Execute(j, a)
    \/ Supervise

Spec == Init /\ [][Next]_vars

\* A handler may run for ever; everything after its return is bounded by timeouts.  A
\* watchdog terminates a worker whose claim outlives its cancellation, timers keep
\* sweeping while some coordinator is up, leases run down, and messages arrive.
Outlived(w) == \E j \in Jobs : /\ watched[w][j] # 0 /\ Owned(j, watched[w][j])
                               /\ row[j].cancel # "none"
Fairness ==
    /\ \A w \in Workers : /\ WF_vars(Start(w))
                          /\ WF_vars(Outlived(w) /\ Terminate(w))
    /\ \A w \in Workers, j \in Jobs : /\ WF_vars(WatchDeadline(w, j))
                                      /\ WF_vars(SettledMessage(w, j))
    /\ \A j \in Jobs : /\ WF_vars(LeaseAges(j) /\ UNCHANGED <<evidence, memory, unsafe>>)
                       /\ WF_vars(Sweep(j)) /\ WF_vars(SettleQueued(j))
    /\ \A j \in Jobs, a \in Attempts : WF_vars(Settles(j, a))
FairSpec == Spec /\ Fairness

-----------------------------------------------------------------------------
(* Properties. *)

\* Columns, audit, evidence and worker memory keep their types.
TypeOK ==
    /\ StoreTypeOK
    /\ claimant \in [Claims -> Workers \cup {NoWorker}]
    /\ proven \subseteq Claims /\ workerStopped \subseteq Workers
    /\ life \in [Workers -> {"new", "up", "stopping", "dying", "gone"}]
    /\ phase \in [Claims -> Phases]
    /\ watched \in [Workers -> [Jobs -> 0..MaxAttempts]]
    /\ settledMsgs \in [Workers -> [Jobs -> Nat]]
    /\ unsafe \subseteq Claims

\* Work that may not be repeated is never started again for the same request while an
\* executor of it may still run: fail() holds it for attention, defer() only follows the
\* handler's return, and no sweep, retry or restart gets past that.
UnsafeRunsAlone ==
    \A c \in unsafe : Executing(c) => \/ c[2] = row[c[1]].attempt
                                      \/ c[2] <= row[c[1]].armed

\* Stop evidence is never ahead of the executor: neither recordStoppedAttempt, nor the
\* supervisor's worker proof, nor a completed or deferred audit exists for a claim whose
\* executor may still run.  Every recovery decision rests on this.
EvidenceIsTrue ==
    \A c \in Claims : Executing(c) => ~ProofOf(c) /\ outcome[c] \notin {"completed", "deferred"}

\* The sweep hands a media operation back to its dispatcher (claimExpiresAt = now) only
\* when no executor of the request that owned it can still run.
ReleasedOperationStopped ==
    \A j \in Jobs : row[j].oper = "released" =>
        \A a \in Attempts : (<<j, a>> \in unsafe /\ a > row[j].armed) => ~Executing(<<j, a>>)

\* What recovery may not break: neither a row nor an operation is given to a second executor
\* of unrepeatable work while the first may run.
QueueInv == TypeOK /\ UnsafeRunsAlone /\ ReleasedOperationStopped

\* A stop a person asked for ends as cancelled only when the claim's executor has really
\* stopped, and every executor a waiting row ever had; without proof it waits for
\* attention.  Clear() makes no such claim.
CancelledIsStopped ==
    [][\A j \in Jobs : (/\ row[j].state # "cancelled" /\ row'[j].state = "cancelled"
                        /\ ~\E S \in SUBSET Jobs : j \in S /\ Clear(S))
          => \A a \in Attempts : (a = row[j].attempt \/ row[j].state = "pending")
                                   => ~Executing(<<j, a>>)']_vars

\* While some worker keeps coming back, no claim is held for ever: whatever its handler,
\* its worker, its messages or its evidence write do, the row leaves 'active'.
EveryClaimSettles ==
    []<>SomeWorkerUp =>
        \A j \in Jobs, a \in Attempts : Owned(j, a) ~> ~Owned(j, a)

\* Likewise a stop a person asked for on waiting or running work takes effect, or the
\* claim completes first and the request is overtaken.
CancelRequestHonoured ==
    []<>SomeWorkerUp =>
        \A j \in Jobs : (IsLive(row[j]) /\ Cancelled(row[j])) ~> ~(IsLive(row[j]) /\ Cancelled(row[j]))

\* Documented (jobs-workers.md): no replacement starts before the old executor's stop is confirmed.
RecoveryConfirmed ==
    \A c \in Claims : Executing(c) => c[2] = row[c[1]].attempt

\* Documented (jobs-workers.md): a claim is renewed every 15 seconds; while its worker runs it
\* has to be in the coordinator's active map for that.
RunningClaimIsRenewed ==
    \A c \in Claims : (Executing(c) /\ Owned(c[1], c[2]) /\ Up(claimant[c]))
                         => watched[claimant[c]][c[1]] = c[2]
=============================================================================
