--------------------------- MODULE MediaOperations ---------------------------
(***************************************************************************)
(* MediaOperationRepository: the rows of media_operation (exports, bulk     *)
(* jobs, cloud batches, edits) and the guarded UPDATEs that move them.  A   *)
(* step is one statement or transaction; the fail() and the                 *)
(* recoverExpiredClaims() of the code run several, and anything may happen  *)
(* between them.                                                            *)
(*                                                                         *)
(* A claim's random token is a number never issued twice for its row.  Any  *)
(* claim whose worker has not vanished may call at any time, however long   *)
(* ago its row was taken away.  An opt-in fence of a call (requireActive-   *)
(* Claim, a result asset that must be the owner's) only makes the statement *)
(* match less often, which is the call not being made here.                 *)
(***************************************************************************)
EXTENDS Integers, FiniteSets

CONSTANTS Ops,        \* media_operation rows
          Safe,       \* kind in SAFE_MEDIA_OPERATION_REPLAY_KINDS, destination local
          Pausable,   \* kind in PAUSABLE_MEDIA_OPERATION_KINDS
          Edits,      \* snapshot.executor is 'job_queue'
          Remote,     \* the runner starts a remote job
          Batches,    \* CloudDescriptionBatch, CloudLibraryBatch: released after completion too
          Resumable,  \* the runner reports its failures as resumable
          MaxClaims,  \* bound: claims of one row
          MaxRows,    \* bound: rows created together
          MaxJobs     \* bound: deliveries of one row's jobs

ASSUME KindsAssumption ==
    /\ Safe \subseteq Ops /\ Pausable \subseteq Ops /\ Remote \subseteq Ops
    /\ Edits \subseteq Safe \ Pausable        \* QuickEdit, local, one-shot
    /\ Remote \cap Safe = {} /\ Resumable \subseteq Remote /\ Batches \subseteq Remote
ASSUME BoundsAssumption == MaxClaims \in Nat \ {0} /\ MaxRows \in Nat /\ MaxJobs \in Nat

VARIABLES op,         \* the table
          issued,     \* how many claims each row has had: source of fresh tokens
          vanished,   \* claims whose worker died
          active,     \* how many active jobs of the queue carry the row's id
          delivered,  \* how many jobs of the row the queue has ever started
          published,  \* history: claims whose output was adopted
          lost        \* history: unsafe rows whose worker was lost and whose owner has not resumed

vars == <<op, issued, vanished, active, delivered, published, lost>>

Claims == 1..MaxClaims
Working == {"preparing", "rendering", "validating"}
Claimed == Working \cup {"cancelling"}
Terminal == {"completed", "cancelled", "failed"}
Unclaimed == {"queued", "paused"}
Statuses == {"absent"} \cup Unclaimed \cup Claimed \cup Terminal
AutoRetries == 1

\* wait: retryAt lies ahead; old: not updated for EDIT_OPERATION_REDISPATCH_MS.
Row == [status : Statuses, token : 0..MaxClaims, owner : {"none", "worker", "queue"},
        lease : {"none", "live", "lapsed"}, cancel : BOOLEAN, ack : BOOLEAN, pause : BOOLEAN,
        retries : 0..AutoRetries, wait : BOOLEAN, old : BOOLEAN,
        remote : BOOLEAN, released : BOOLEAN]

NewRow(o) == [status |-> "absent", token |-> 0, owner |-> IF o \in Edits THEN "queue" ELSE "none",
              lease |-> "none", cancel |-> FALSE, ack |-> FALSE, pause |-> FALSE, retries |-> 0,
              wait |-> FALSE, old |-> FALSE, remote |-> FALSE, released |-> FALSE]

Init == /\ op = [o \in Ops |-> NewRow(o)]
        /\ issued = [o \in Ops |-> 0]
        /\ vanished = [o \in Ops |-> {}]
        /\ active = [o \in Ops |-> 0] /\ delivered = [o \in Ops |-> 0]
        /\ published = [o \in Ops |-> {}]
        /\ lost = {}

\* Every statement touches updatedAt.
Write(o, row) == op' = [op EXCEPT ![o] = [row EXCEPT !.old = FALSE]]
Others == UNCHANGED <<issued, vanished, active, delivered, published, lost>>

\* claimToken, claimedBy and claimExpiresAt become null.
Freed(row) == [row EXCEPT !.token = 0, !.owner = "none", !.lease = "none"]

\* safeAutomaticReplay
Replayable(o) == o \in Safe /\ ~op[o].remote
\* executionOwnerSettled
OwnerSettled(o) == op[o].owner # "queue" \/ active[o] = 0
\* pausedIfRequested
PausedIfRequested(row) == IF row.pause THEN "paused" ELSE "queued"

-----------------------------------------------------------------------------
(* Claim lifecycle. *)

Create(o) == /\ op[o].status = "absent"
             /\ Cardinality({p \in Ops : op[p].status # "absent"}) < MaxRows
             /\ Write(o, [op[o] EXCEPT !.status = "queued"]) /\ Others

\* A fresh token, a fresh lease, the retry delay gone.
Take(o, owner) == /\ issued[o] < MaxClaims
                  /\ issued' = [issued EXCEPT ![o] = @ + 1]
                  /\ Write(o, [op[o] EXCEPT !.status = "preparing", !.token = issued[o] + 1,
                                            !.owner = owner, !.lease = "live", !.wait = FALSE])
                  /\ UNCHANGED <<vanished, active, delivered, published, lost>>

\* claimNext: the poll of a worker for its kinds.
ClaimNext(o) == /\ op[o].status = "queued" /\ ~op[o].cancel /\ ~op[o].wait
                /\ o \notin Edits
                /\ Take(o, "worker")

\* beginJobQueueRun: the delivery of an edit's job; the queue kept the retry delay.
BeginJobQueueRun(o) == /\ op[o].status = "queued" /\ op[o].owner = "queue" /\ ~op[o].cancel
                       /\ o \in Edits
                       /\ Take(o, "queue")

Holds(o, c) == op[o].token = c /\ c \notin vanished[o]
\* heartbeat, setBulkResult: also while cancelling, never once the lease has lapsed.
Heartbeat(o, c) == /\ Holds(o, c) /\ op[o].lease = "live" /\ op[o].status \in Claimed
                   /\ Write(o, op[o]) /\ Others

\* PROGRESS_FROM
ProgressFrom(status) == CASE status = "preparing" -> {"preparing"}
                          [] status = "rendering" -> {"preparing", "rendering"}
                          [] status = "validating" -> Working

ReportProgress(o, c, status) == /\ Holds(o, c) /\ op[o].status \in ProgressFrom(status)
                                /\ Write(o, [op[o] EXCEPT !.status = status]) /\ Others

BeginValidation(o, c) == /\ Holds(o, c) /\ op[o].status \in {"preparing", "rendering"}
                         /\ Write(o, [op[o] EXCEPT !.status = "validating"]) /\ Others

\* Mutant: the finished row keeps the token of the claim that finished it.
CompleteKeepsToken(o, c) ==
    /\ Holds(o, c) /\ op[o].status = "validating"
    /\ Write(o, [op[o] EXCEPT !.status = "completed", !.lease = "none", !.pause = FALSE])
    /\ published' = [published EXCEPT ![o] = @ \cup {c}]
    /\ UNCHANGED <<issued, vanished, active, delivered, lost>>

\* complete, publishValidated: the output is adopted in the transaction that completes the row.
Complete(o, c) ==
    /\ Holds(o, c) /\ op[o].status = "validating"
    /\ Write(o, [op[o] EXCEPT !.status = "completed", !.token = 0, !.lease = "none", !.pause = FALSE])
    /\ published' = [published EXCEPT ![o] = @ \cup {c}]
    /\ UNCHANGED <<issued, vanished, active, delivered, lost>>

\* fail, first statement: the automatic retry.
FailRetrying(o, c) ==
    /\ Holds(o, c) /\ op[o].status \in Working /\ ~op[o].cancel
    /\ Replayable(o) \/ o \in Resumable
    /\ op[o].retries < AutoRetries
    /\ Write(o, [Freed(op[o]) EXCEPT !.status = PausedIfRequested(op[o]),
                                     !.retries = @ + 1, !.wait = TRUE])
    /\ Others

\* fail, second statement: reached when the first matched nothing (which stays so: retries,
\* a cancel and a lost claim never go back) or the caller asked for no retry.
FailFinally(o, c) ==
    /\ Holds(o, c) /\ op[o].status \notin Terminal
    /\ Write(o, [op[o] EXCEPT !.status = "failed", !.wait = FALSE, !.token = 0,
                              !.lease = "none", !.pause = FALSE])
    /\ Others

\* requeue: handed back on purpose, after a delay.
Requeue(o, c) ==
    /\ Holds(o, c) /\ op[o].status \in Working /\ ~op[o].cancel
    /\ Write(o, [Freed(op[o]) EXCEPT !.status = PausedIfRequested(op[o]), !.wait = TRUE])
    /\ Others

-----------------------------------------------------------------------------
(* The owner: cancel, pause, resume. *)

RequestCancel(o) ==
    /\ op[o].status \notin Terminal \cup {"absent"}
    /\ LET idle == op[o].status \in Unclaimed
       IN  Write(o, [op[o] EXCEPT !.status = IF idle THEN "cancelled" ELSE "cancelling",
                                  !.cancel = TRUE, !.ack = @ \/ idle, !.pause = FALSE,
                                  !.token = IF idle THEN 0 ELSE @,
                                  !.lease = IF idle THEN "none" ELSE @])
    /\ Others

\* The runner says whether the remote has let go; one that knows of no remote job may say so too.
AcknowledgeCancel(o, c) ==
    /\ Holds(o, c) /\ op[o].status = "cancelling"
    /\ \E released \in BOOLEAN :
         Write(o, [Freed(op[o]) EXCEPT !.status = "cancelled", !.ack = TRUE, !.released = @ \/ released])
    /\ Others

RequestPause(o) ==
    /\ o \in Pausable /\ op[o].status \in {"queued", "preparing", "rendering"} /\ ~op[o].cancel
    /\ Write(o, [op[o] EXCEPT !.status = IF @ = "queued" THEN "paused" ELSE @, !.pause = TRUE])
    /\ Others

Resume(o) ==
    /\ ~op[o].cancel
    /\ op[o].status = "paused" \/ (op[o].pause /\ op[o].status \in Working)
    /\ Write(o, [op[o] EXCEPT !.status = IF @ = "paused" THEN "queued" ELSE @, !.pause = FALSE])
    /\ lost' = lost \ {o}
    /\ UNCHANGED <<issued, vanished, active, delivered, published>>

\* Mutant: a worker's late settle throws away a validated output and a later cancel.
SettlePauseLate(o, c) ==
    /\ Holds(o, c) /\ op[o].status \in Claimed
    /\ Write(o, [Freed(op[o]) EXCEPT !.status = "paused"]) /\ Others

SettlePause(o, c) ==
    /\ Holds(o, c) /\ op[o].status \in {"preparing", "rendering"} /\ op[o].pause /\ ~op[o].cancel
    /\ Write(o, [Freed(op[o]) EXCEPT !.status = "paused"]) /\ Others

-----------------------------------------------------------------------------
(* Remote jobs. *)

\* setRemoteJobId under the claim, recordRemoteJobId when the claim is already gone.
RecordRemoteJob(o, c) ==
    /\ o \in Remote /\ c <= issued[o] /\ c \notin vanished[o]
    /\ Write(o, [op[o] EXCEPT !.remote = TRUE]) /\ Others

\* markRemoteReleased by the runner: its finished job is acknowledged, or the one it was admitted
\* after it had lost the claim is stopped.
ReleaseOwn(o, c) ==
    /\ o \in Remote /\ c <= issued[o] /\ c \notin vanished[o]
    /\ op[o].remote /\ ~op[o].released
    /\ Write(o, [op[o] EXCEPT !.released = TRUE]) /\ Others

\* getUnreleasedRemoteOperations
Unreleased(o) == /\ op[o].remote /\ ~op[o].released
                 /\ \/ op[o].status \in {"cancelling", "cancelled", "failed"}
                    \/ op[o].status = "completed" /\ o \in Batches

\* The cleanup pass takes the oldest of them, as many as its limit; which those are is left open.
\* Then the remote confirms and markRemoteReleased.
ReleaseRemote(o) == Unreleased(o) /\ Write(o, [op[o] EXCEPT !.released = TRUE]) /\ Others

-----------------------------------------------------------------------------
(* Recovery: recoverExpiredClaims, one statement each. *)

Lapsed(o) == op[o].lease = "lapsed" /\ OwnerSettled(o)

LostUnsafe(o) == IF Replayable(o) THEN lost ELSE lost \cup {o}

RecoverPaused(o) ==
    /\ Lapsed(o) /\ op[o].status \in Working /\ op[o].pause /\ ~op[o].cancel
    /\ Write(o, [Freed(op[o]) EXCEPT !.status = "paused"])
    /\ lost' = LostUnsafe(o)
    /\ UNCHANGED <<issued, vanished, active, delivered, published>>

RecoverRetried(o) ==
    /\ Lapsed(o) /\ op[o].status \in Claimed /\ ~op[o].cancel
    /\ Replayable(o) /\ op[o].retries < AutoRetries
    /\ Write(o, [Freed(op[o]) EXCEPT !.status = PausedIfRequested(op[o]),
                                     !.retries = @ + 1, !.wait = TRUE])
    /\ lost' = LostUnsafe(o)
    /\ UNCHANGED <<issued, vanished, active, delivered, published>>

\* Mutant: only rows that ran out of retries are reported.
RecoverFailedSpent(o) ==
    /\ Lapsed(o) /\ op[o].status \in Claimed /\ ~op[o].cancel
    /\ op[o].retries >= AutoRetries
    /\ Write(o, [Freed(op[o]) EXCEPT !.status = "failed"]) /\ Others

RecoverFailed(o) ==
    /\ Lapsed(o) /\ op[o].status \in Claimed /\ ~op[o].cancel
    /\ op[o].retries >= AutoRetries \/ ~Replayable(o)
    /\ Write(o, [Freed(op[o]) EXCEPT !.status = "failed"]) /\ Others

\* Mutant: a cancel nobody can answer any more is left to its worker.
AbandonCancelNever(o) == FALSE /\ UNCHANGED vars

AbandonCancel(o) ==
    /\ Lapsed(o) /\ op[o].status \in Claimed /\ op[o].cancel
    /\ Write(o, [Freed(op[o]) EXCEPT !.status = "cancelled"]) /\ Others

Sweep(o) == RecoverPaused(o) \/ RecoverRetried(o) \/ RecoverFailed(o) \/ AbandonCancel(o)

-----------------------------------------------------------------------------
(* Edits: dispatch to the job queue, and what the queue does to the row. *)

Dispatchable(o) == /\ o \in Edits /\ op[o].status = "queued" /\ ~op[o].cancel
                   /\ \/ op[o].owner = "none" /\ ~op[o].wait
                      \/ op[o].owner = "queue" /\ op[o].old

\* claimJobQueueDispatch
ClaimDispatch(o) == Dispatchable(o) /\ Write(o, [op[o] EXCEPT !.owner = "queue"]) /\ Others

\* releaseJobQueueDispatch: the enqueue failed.
ReleaseDispatch(o) == /\ o \in Edits /\ op[o].status = "queued" /\ op[o].owner = "queue"
                      /\ Write(o, [op[o] EXCEPT !.owner = "none"]) /\ Others

\* store.fail with expiredRecovery or queuedCancellation: the queue fences its claim.
QueueFences(o, stopped) ==
    /\ active[o] > 0 /\ active' = [active EXCEPT ![o] = @ - 1]
    /\ IF op[o].owner = "queue" /\ op[o].token # 0
         THEN Write(o, IF stopped THEN [op[o] EXCEPT !.lease = "lapsed"]
                                  ELSE [Freed(op[o]) EXCEPT !.status = "failed"])
         ELSE UNCHANGED op
    /\ UNCHANGED <<issued, vanished, delivered, published, lost>>

\* external: a job of the row starts; a row may have several, for the queue does not
\* deduplicate edits and a dispatch repeats a job it takes for lost.
JobStarts(o) == /\ o \in Edits /\ op[o].status # "absent" /\ delivered[o] < MaxJobs
                /\ active' = [active EXCEPT ![o] = @ + 1]
                /\ delivered' = [delivered EXCEPT ![o] = @ + 1]
                /\ UNCHANGED <<op, issued, vanished, published, lost>>

\* external: a job ends and leaves the row alone.
JobEnds(o) == /\ active[o] > 0
              /\ active' = [active EXCEPT ![o] = @ - 1]
              /\ UNCHANGED <<op, issued, vanished, delivered, published, lost>>

-----------------------------------------------------------------------------
(* Time, death and restore. *)

LeaseLapses(o) == /\ op[o].lease = "live"
                  /\ op' = [op EXCEPT ![o].lease = "lapsed"] /\ Others
RetryDue(o) == op[o].wait /\ op' = [op EXCEPT ![o].wait = FALSE] /\ Others
GrowsOld(o) == /\ op[o].status = "queued" /\ op[o].owner = "queue" /\ ~op[o].old
               /\ op' = [op EXCEPT ![o].old = TRUE] /\ Others
Vanish(o, c) == /\ c <= issued[o] /\ c \notin vanished[o]
                /\ vanished' = [vanished EXCEPT ![o] = @ \cup {c}]
                /\ UNCHANGED <<op, issued, active, delivered, published, lost>>

\* The decision of resetMediaOperationsAfterRestore, then its reset of every lease.
Restored(o) ==
    LET row == op[o]
        interrupted == row.token # 0 \/ row.status \in Claimed
        status == IF ~Replayable(o) THEN "failed"
                  ELSE IF row.cancel THEN "cancelled"
                  ELSE IF row.status = "paused" \/ row.pause THEN "paused"
                  ELSE IF interrupted /\ row.retries >= AutoRetries THEN "failed"
                  ELSE "queued"
        again == interrupted /\ status = "queued"
        reset == [row EXCEPT !.status = status, !.retries = IF again THEN @ + 1 ELSE @,
                             !.wait = IF again THEN TRUE ELSE status = "queued" /\ @]
    IN  Freed(IF row.status \in Terminal \cup {"absent"} THEN row ELSE reset)

\* A dump of this very state is loaded: every process of the old one is gone.
Restore ==
    /\ op' = [o \in Ops |-> IF op[o].status = "absent" THEN op[o] ELSE Restored(o)]
    /\ vanished' = [o \in Ops |-> 1..issued[o]]
    /\ active' = [o \in Ops |-> 0]
    /\ UNCHANGED <<issued, delivered, published, lost>>

-----------------------------------------------------------------------------
Worker(o, c) ==
    \/ Heartbeat(o, c) \/ BeginValidation(o, c) \/ Complete(o, c)
    \/ \E status \in Working : ReportProgress(o, c, status)
    \/ FailRetrying(o, c) \/ FailFinally(o, c) \/ Requeue(o, c)
    \/ AcknowledgeCancel(o, c) \/ SettlePause(o, c)
    \/ RecordRemoteJob(o, c) \/ ReleaseOwn(o, c) \/ Vanish(o, c)

RowStep(o) ==
    \/ Create(o) \/ ClaimNext(o) \/ BeginJobQueueRun(o)
    \/ RequestCancel(o) \/ RequestPause(o) \/ Resume(o)
    \/ ReleaseRemote(o) \/ Sweep(o)
    \/ ClaimDispatch(o) \/ ReleaseDispatch(o)
    \/ \E stopped \in BOOLEAN : QueueFences(o, stopped)
    \/ JobStarts(o) \/ JobEnds(o)
    \/ LeaseLapses(o) \/ RetryDue(o) \/ GrowsOld(o)

Next == \/ \E o \in Ops : RowStep(o)
        \/ \E o \in Ops, c \in Claims : Worker(o, c)
        \/ Restore

\* MEDIA_OPERATION_TRANSITIONS
Transitions == [queued |-> {"preparing", "cancelling", "cancelled", "failed", "paused"},
                preparing |-> {"rendering", "queued", "cancelling", "failed", "paused"},
                rendering |-> {"validating", "queued", "cancelling", "failed", "paused"},
                validating |-> {"completed", "queued", "cancelling", "failed", "paused"},
                cancelling |-> {"cancelled", "failed"},
                paused |-> {"queued", "cancelled"},
                completed |-> {}, cancelled |-> {}, failed |-> {}, absent |-> {"queued"}]

Spec == Init /\ [][Next]_vars

\* The lease of a vanished worker runs down, sweeps keep coming, the queue fences the job of
\* a dead run, and a worker that is alive answers a cancel.
\* Nothing forces a render to end, an owner to resume or a worker to poll.
Fairness ==
    /\ \A o \in Ops : /\ WF_vars(op[o].token \in vanished[o] /\ LeaseLapses(o))
                      /\ WF_vars(op[o].token \in vanished[o] /\ (JobEnds(o) \/ QueueFences(o, TRUE)))
                      /\ WF_vars(Sweep(o))
    /\ \A o \in Ops, c \in Claims : WF_vars(AcknowledgeCancel(o, c))
FairSpec == Spec /\ Fairness

-----------------------------------------------------------------------------
(* Properties. *)

\* Columns keep their types; in particular no row is retried automatically twice.
TypeOK == /\ op \in [Ops -> Row]
          /\ issued \in [Ops -> 0..MaxClaims]
          /\ vanished \in [Ops -> SUBSET Claims]
          /\ active \in [Ops -> 0..MaxJobs] /\ delivered \in [Ops -> 0..MaxJobs]
          /\ published \in [Ops -> SUBSET Claims]
          /\ lost \subseteq Ops

\* A row that waits for a worker to settle it carries a token and a lease, so that the
\* sweep can find it; a row nobody works on carries neither, so that no late call matches.
ClaimsRecoverable ==
    \A o \in Ops : /\ op[o].status \in Claimed <=> op[o].token # 0
                   /\ op[o].token # 0 <=> op[o].lease # "none"
                   /\ op[o].token <= issued[o]

\* A cancel outranks everything that races it: the row never completes, is never queued,
\* paused or claimed again, whichever of worker, sweep, pause and resume comes late.
CancelWins ==
    \A o \in Ops : op[o].cancel => op[o].status \in {"cancelling", "cancelled", "failed"}

\* The worry of recoverExpiredClaims: a queued row with a pause pending that nothing would
\* ever settle, after a pause that arrived between two of its statements.
NoPauseInQueue == \A o \in Ops : op[o].status = "queued" => ~op[o].pause

\* At most one claim's output is ever adopted, and the row says completed from then on.
AdoptedOnce ==
    \A o \in Ops : /\ \A c, d \in published[o] : c = d
                   /\ published[o] # {} <=> op[o].status = "completed"

\* Work that is not audited as repeatable does not run again by itself after its worker was
\* lost: it waits, settled or paused, until its owner resumes it.
LostUnsafeWaits == \A o \in lost : op[o].status \in Terminal \cup {"paused"}

\* What every statement of the repository may rely on, whoever raced it: rows that are
\* recoverable or out of reach, cancels that win, pauses that are not stranded, one adopted
\* output and unsafe work that is not replayed.
OperationInv == /\ TypeOK /\ ClaimsRecoverable /\ CancelWins /\ NoPauseInQueue
                /\ AdoptedOnce /\ LostUnsafeWaits

\* A finished row never changes its outcome, whatever late worker, sweep, queue recovery or
\* restore reaches it.
OutcomeIsFinal ==
    [][\A o \in Ops : op[o].status \in Terminal => op'[o].status = op[o].status]_vars

\* A claim whose worker vanished is always taken away from it.
LostClaimRecovered ==
    \A o \in Ops, c \in Claims :
        (op[o].token = c /\ c \in vanished[o]) ~> op[o].token # c

\* A requested cancel always ends the row: by its worker's answer or by the sweep.
CancelSettles == \A o \in Ops : op[o].cancel ~> op[o].status \in Terminal

\* Documented (utils/media-operation.ts): MEDIA_OPERATION_TRANSITIONS lists "the only legal
\* transitions".
LegalTransitions ==
    [][\A o \in Ops : op'[o].status # op[o].status
                         => op'[o].status \in Transitions[op[o].status]]_vars

\* Documented (utils/media-operation.ts): cancelling leads to cancelled only "after the
\* remote acknowledges", and to failed "when the worker dies before it can answer".
CancelledIsAcknowledged == \A o \in Ops : op[o].status = "cancelled" => op[o].ack

\* Documented (services/cloud-ml-job.service.ts): the id of a job admitted after its claim was lost
\* is kept on the row "so the cleanup pass can always find it".  A row that an acknowledged cancel
\* has marked as released is never looked at again.
RecordedIsFindable ==
    [][\A o \in Remote : op'[o].remote /\ ~op[o].remote => ~op'[o].released]_vars
=============================================================================
