------------------------------ MODULE JobStore ------------------------------
(***************************************************************************)
(* SqlQueueStore (server/src/queue/store.ts): the rows of the job table and *)
(* the transactions that change them.  A step is one committed transaction  *)
(* or the passing of time; row locks make each transaction atomic.  One     *)
(* that is aborted, by a unique index or for another reason, changes        *)
(* nothing and is no step: its caller is told.  ConcurrentEnqueue has the   *)
(* statements of enqueues and retries that overlap.                         *)
(*                                                                         *)
(* A claim's random token is modelled by its attempt number: the attempts   *)
(* of a job are numbered once and for all (primary key of job_attempt), so  *)
(* <<job, attempt>> identifies a claim as its token does.                   *)
(*                                                                         *)
(* Who calls is left open: any claim ever issued may try to settle its job  *)
(* at any time, and whether an executor's stop is on record is the caller's *)
(* argument "stopped".  JobQueue composes the store with the executors, the *)
(* coordinators and the evidence that decide both.                          *)
(***************************************************************************)
EXTENDS Integers, FiniteSets

CONSTANTS Jobs,         \* rows of the job table, numbered in order of creation
          Workers,      \* incarnations of the microservices worker
          Runs,         \* job_run rows
          Items,        \* (itemKey, name) of a run's stages
          Keys,         \* deduplication keys
          Requests,     \* the intents callers enqueue
          NoJob, NoWorker, NoRun, NoKey, NoRequest,
          Concurrency,  \* job_queue.concurrency of the one queue modelled
          LeaseTicks,   \* how many times a lease can age before it expires
          MaxAttempts,  \* bound: claims of one row
          MaxClaims,    \* bound: claims of all rows together
          Inputs        \* bound: the kinds of outside event an instance includes

\* An intent.  JobRepository.intent never classifies operation-owned work as safe to retry.
RequestType == {r \in [key : Keys \cup {NoKey}, run : Runs \cup {NoRun}, item : Items,
                       safe : BOOLEAN, op : BOOLEAN, keep : {"drop", "last", "seal"}] :
                  r.op => ~r.safe}

ASSUME RequestsAssumption == Requests \subseteq RequestType
ASSUME NullsAssumption ==
    /\ Jobs \subseteq Nat /\ NoJob \notin Jobs /\ NoWorker \notin Workers
    /\ NoRun \notin Runs /\ NoKey \notin Keys /\ NoRequest \notin RequestType
ASSUME NumbersAssumption ==
    /\ LeaseTicks \in Nat \ {0} /\ MaxAttempts \in Nat \ {0}
    /\ MaxClaims \in Nat \ {0} /\ Concurrency \in Nat \ {0}

VARIABLES row,        \* the job table
          outcome,    \* job_attempt.outcome per claim
          holds,      \* held back: the queue (paused, or closed by its schedule), parked stages of runs
          runDone,    \* job_run.finishedAt is set
          published   \* history: claims whose adoption committed

storeVars == <<row, outcome, holds, runDone, published>>

Attempts == 1..MaxAttempts
Claims == Jobs \X Attempts
Holds == [queue : BOOLEAN, parked : SUBSET (Runs \X Items)]

Live == {"pending", "active"}
Unsuccessful == {"failed", "needs_attention", "cancelled", "blocked"}
Terminal == Unsuccessful \cup {"completed"}
States == {"absent"} \cup Live \cup Terminal

\* media_operation of the row's request: none, held by the queue, handed back, failed.
OperationStates == {"none", "claimed", "released", "failed"}

\* The columns the queue decides by.  'waiting' is accepted wherever 'pending' is
\* and written nowhere.  armed and granted are history: the attempt count when the
\* row took on its request, and when it was last given a fresh retry budget.
Row == [state : States,
        token : 0..MaxAttempts, attempt : 0..MaxAttempts, base : 0..MaxAttempts,
        worker : Workers \cup {NoWorker}, lease : -1..LeaseTicks,
        cancel : {"none", "deadline", "request"},
        avail : {"due", "later", "hand"}, dep : {"none", "locked", "other"},
        req : RequestType \cup {NoRequest}, parent : Jobs \cup {NoJob},
        latest : RequestType \cup {NoRequest}, latestParent : Jobs \cup {NoJob},
        owns : BOOLEAN, oper : OperationStates,
        armed : 0..MaxAttempts, granted : 0..MaxAttempts]

AbsentRow == [state |-> "absent", token |-> 0, attempt |-> 0, base |-> 0,
              worker |-> NoWorker, lease |-> 0, cancel |-> "none", avail |-> "due",
              dep |-> "none", req |-> NoRequest, parent |-> NoJob,
              latest |-> NoRequest, latestParent |-> NoJob, owns |-> FALSE,
              oper |-> "none", armed |-> 0, granted |-> 0]

StoreInit == /\ row = [j \in Jobs |-> AbsentRow]
             /\ outcome = [c \in Claims |-> "none"]
             /\ holds = [queue |-> FALSE, parked |-> {}]
             /\ runDone = [r \in Runs |-> FALSE]
             /\ published = {}

-----------------------------------------------------------------------------
(* Enqueueing: what one intent does to the job table. *)

IsLive(rw) == rw.state \in Live
LiveKey(rows, key) == {k \in Jobs : /\ key # NoKey /\ IsLive(rows[k])
                                    /\ rows[k].req.key = key}
OnStage(rows, r) == {k \in Jobs : /\ r.run # NoRun /\ rows[k].state # "absent"
                                  /\ rows[k].req.run = r.run /\ rows[k].req.item = r.item}
Oldest(S) == CHOOSE x \in S : \A y \in S : x <= y
ActiveJobs == {j \in Jobs : row[j].state = "active"}
Absent(rows) == {k \in Jobs : rows[k].state = "absent"}
OperationOf(r) == IF r.op THEN "claimed" ELSE "none"

NewRow(r, p) ==
    [AbsentRow EXCEPT !.state = "pending", !.req = r, !.parent = p, !.oper = OperationOf(r)]

\* A finished row takes its item/stage on again with a fresh budget (rearmRunStage).
Rearmed(rw, r, p) ==
    [rw EXCEPT !.state = "pending", !.req = r, !.parent = p, !.avail = "due",
               !.base = rw.attempt, !.cancel = "none", !.worker = NoWorker,
               !.latest = NoRequest, !.latestParent = NoJob, !.dep = "none",
               !.owns = FALSE, !.oper = OperationOf(r),
               !.armed = rw.attempt, !.granted = rw.attempt]
MayRearm(rw, p) == /\ rw.state \in Terminal
                   /\ rw.state = "cancelled" \/ (p # NoJob /\ rw.parent = p)

\* Meets a live job of the same key: recorded for after it, moved into it, or dropped.
Coalesced(rw, r, p) ==
    CASE r.keep = "drop" -> rw
      [] r.keep # "drop" /\ (rw.state = "active" \/ rw.owns) ->
            [rw EXCEPT !.latest = r, !.latestParent = p]
      [] r.keep = "last" /\ rw.state = "pending" /\ ~rw.owns ->
            [rw EXCEPT !.req = r, !.avail = "due", !.oper = OperationOf(r), !.armed = rw.attempt]
      [] OTHER -> rw

\* Moving a request into a live job may collide with the run's own row for that
\* stage: the unique index job_run_stage then aborts the caller's transaction.
StageCollision(rows, r) ==
    \E k \in LiveKey(rows, r.key) :
        /\ r.keep = "last" /\ rows[k].state = "pending" /\ ~rows[k].owns
        /\ OnStage(rows, r) \ {k} # {}

\* Bound: an insert needs an unused row.
Fits(rows, r) == (LiveKey(rows, r.key) = {} /\ OnStage(rows, r) = {}) => Absent(rows) # {}

Enqueue(rows, r, p) ==
    LET same  == LiveKey(rows, r.key)
        stage == OnStage(rows, r)
        k     == Oldest(IF same # {} THEN same ELSE IF stage # {} THEN stage ELSE Absent(rows))
    IN  [rows EXCEPT ![k] = IF same # {} THEN Coalesced(@, r, p)
                            ELSE IF stage = {} THEN NewRow(r, p)
                            ELSE IF MayRearm(@, p) THEN Rearmed(@, r, p) ELSE @]

\* enqueue() reopens the intent's run, except the one the caller keeps open itself.
Reopened(done, runs) == [r \in Runs |-> done[r] /\ r \notin runs]

-----------------------------------------------------------------------------
(* Settling: what complete() and fail() do beyond the claimed row. *)

\* Pending descendants of a parent that ended without success, transitively.
Dependents(rows, parents) ==
    LET waits(c, S) == rows[c].state = "pending" /\ rows[c].parent \in S
        first == {c \in Jobs : waits(c, {p \in parents : rows[p].state \in Unsuccessful})}
        closed == {S \in SUBSET Jobs : /\ first \subseteq S
                                       /\ \A c \in Jobs : waits(c, S) => c \in S}
    IN  {c \in Jobs : \A S \in closed : c \in S}

SettleDependencies(rows, parents) ==
    LET blocked == Dependents(rows, parents)
    IN  [k \in Jobs |-> IF k \in blocked THEN [rows[k] EXCEPT !.state = "blocked"] ELSE rows[k]]

\* The row itself takes the latest request when it is the same item/stage of the same run.
SameStage(rw, r) == r.run # NoRun /\ rw.req.run = r.run /\ rw.req.item = r.item

TakeLatest(rw, r) ==
    [rw EXCEPT !.state = "pending", !.req = r, !.avail = "due", !.base = rw.attempt,
               !.cancel = "none", !.worker = NoWorker, !.latest = NoRequest,
               !.latestParent = NoJob, !.owns = FALSE, !.oper = OperationOf(r),
               !.armed = rw.attempt, !.granted = rw.attempt]

\* scheduleLatest: r arrived, asked for by p, while job j ran; rows already has j settled.
Requeued(rows, j, r, p) ==
    IF SameStage(rows[j], r) THEN [rows EXCEPT ![j] = TakeLatest(@, r)]
    ELSE Enqueue(rows, r, IF p = j THEN NoJob ELSE p)

\* An unsafe latest request is not run after a predecessor that did not succeed: every
\* waiting job of its key is held for attention.
LatestHeld(rows, j, r, p, succeeded) ==
    IF succeeded \/ r.safe \/ r.key = NoKey THEN {}
    ELSE LET next == Requeued(rows, j, r, p)
         IN  {k \in Jobs : next[k].state = "pending" /\ next[k].req.key = r.key}
\* Mutant: the latest request is only scheduled after success.
ScheduleLatestOnSuccess(rows, j, r, p, succeeded) ==
    IF r = NoRequest \/ ~succeeded THEN rows ELSE Requeued(rows, j, r, p)
ScheduleLatest(rows, j, r, p, succeeded) ==
    IF r = NoRequest THEN rows
    ELSE LET next == Requeued(rows, j, r, p)
             held == LatestHeld(rows, j, r, p, succeeded)
         IN  [k \in Jobs |-> IF k \in held THEN [next[k] EXCEPT !.state = "needs_attention"]
                             ELSE next[k]]

\* Bound and collision guard for the enqueue inside scheduleLatest.
LatestFits(rows, j, r) ==
    r # NoRequest => SameStage(rows[j], r) \/ (Fits(rows, r) /\ ~StageCollision(rows, r))

\* The row taking the latest request on again may collide with a live follow-up of its key:
\* the unique index job_dedup_live then aborts the publication, which goes on to fail().
KeyCollision(rows, j, r) == r # NoRequest /\ SameStage(rows[j], r) /\ LiveKey(rows, r.key) # {}

-----------------------------------------------------------------------------
(* The fences every settlement passes. *)

\* Mutant: a settlement does not compare claim tokens.
OwnedByAnyClaim(j, a) == row[j].state = "active" /\ row[j].attempt >= a
Owned(j, a) == row[j].state = "active" /\ row[j].token = a
Fenced(j, a) == Owned(j, a) /\ row[j].lease > 0 /\ row[j].cancel = "none"

StopRequested(rw) == rw.cancel # "none"
Cancelled(rw) == rw.cancel = "request"
GraceElapsed(rw) == rw.lease = -1
RetryAvailable(rw) == rw.attempt < rw.base + 2

\* Cancelled, operation-owned and unclassified work waits for a person when its
\* executor's stop is unconfirmed.
UnconfirmedAttention(rw, unconfirmed) ==
    unconfirmed /\ (Cancelled(rw) \/ ~rw.req.safe \/ rw.req.op)

\* Mutant: cancellation is decided before the confirmation is looked at.
FailStateCancelFirst(rw, unconfirmed) ==
    IF Cancelled(rw) THEN "cancelled"
    ELSE IF UnconfirmedAttention(rw, unconfirmed) \/ ~rw.req.safe THEN "needs_attention"
    ELSE IF RetryAvailable(rw) THEN "pending" ELSE "failed"
FailState(rw, unconfirmed) ==
    IF UnconfirmedAttention(rw, unconfirmed) THEN "needs_attention"
    ELSE IF Cancelled(rw) THEN "cancelled"
    ELSE IF ~rw.req.safe THEN "needs_attention"
    ELSE IF RetryAvailable(rw) THEN "pending" ELSE "failed"

\* Mutant: the sweep releases an operation without asking for the stop.
FailedRowReleases(rw, unconfirmed, handOver) ==
    LET s == FailState(rw, unconfirmed)
    IN  [rw EXCEPT !.state = s, !.avail = "later", !.dep = "none", !.token = 0, !.lease = 0,
                   !.latest = IF s = "pending" THEN @ ELSE NoRequest,
                   !.latestParent = IF s = "pending" THEN @ ELSE NoJob,
                   !.oper = IF handOver /\ @ = "claimed" THEN "released" ELSE @]
\* The row after fail(); handOver: recovery also settles the row's media operation.
FailedRow(rw, unconfirmed, handOver) ==
    LET s == FailState(rw, unconfirmed)
    IN  [rw EXCEPT !.state = s, !.avail = "later", !.dep = "none", !.token = 0, !.lease = 0,
                   !.latest = IF s = "pending" THEN @ ELSE NoRequest,
                   !.latestParent = IF s = "pending" THEN @ ELSE NoJob,
                   !.oper = IF handOver /\ @ = "claimed"
                            THEN IF unconfirmed THEN "failed" ELSE "released" ELSE @]

\* The transaction of fail() once it has decided to settle job j; cs are the claims
\* whose audit it closes.
Settle(j, unconfirmed, handOver, cs) ==
    LET s     == FailState(row[j], unconfirmed)
        rows  == [row EXCEPT ![j] = FailedRow(@, unconfirmed, handOver)]
        r     == IF s = "pending" \/ UnconfirmedAttention(row[j], unconfirmed)
                 THEN NoRequest ELSE row[j].latest
        p     == row[j].latestParent
        ended == {j} \cup (IF r = NoRequest THEN {} ELSE LatestHeld(rows, j, r, p, FALSE))
    IN  /\ LatestFits(rows, j, r)
        /\ row' = IF s = "pending" THEN rows
                  ELSE SettleDependencies(ScheduleLatest(rows, j, r, p, FALSE), ended)
        /\ outcome' = [c \in Claims |-> IF c \in cs THEN s ELSE outcome[c]]
        /\ runDone' = Reopened(runDone, IF r = NoRequest THEN {} ELSE {r.run})
        /\ UNCHANGED <<holds, published>>

-----------------------------------------------------------------------------
(* Requests and administration: transactions of the API and of handlers. *)

\* JobRepository.queue -> enqueue, in a transaction of its own.
Request(r) ==
    /\ Fits(row, r) /\ ~StageCollision(row, r)
    /\ row' = Enqueue(row, r, NoJob)
    /\ runDone' = Reopened(runDone, {r.run})
    /\ UNCHANGED <<outcome, holds, published>>

\* pause() and setSchedule(): both only keep new claims away.
Pause(b) == /\ holds.queue # b
            /\ holds' = [holds EXCEPT !.queue = b]
            /\ UNCHANGED <<row, outcome, runDone, published>>

ParentReady(j) == row[j].parent # NoJob => row[row[j].parent].state = "completed"
Claimable(j) == row[j].state = "pending" /\ row[j].cancel # "request" /\ ParentReady(j)

StartNow(j) == /\ Claimable(j) /\ row[j].avail # "hand"
               /\ row' = [row EXCEPT ![j].avail = "hand"]
               /\ UNCHANGED <<outcome, holds, runDone, published>>

\* A locked key was loaded: its deferred jobs need not wait their hour out.
WakeDeferred(j) == /\ row[j].state = "pending" /\ row[j].dep = "locked" /\ row[j].avail = "later"
                   /\ row' = [row EXCEPT ![j].avail = "due"]
                   /\ UNCHANGED <<outcome, holds, runDone, published>>

\* A stop requested by a person.  Nothing in the current code writes it to a job; rows
\* of earlier releases carry it, and the constraint job_cancel_reason_check admits it.
RequestCancel(j) == /\ IsLive(row[j]) /\ row[j].cancel # "request"
                    /\ row' = [row EXCEPT ![j].cancel = "request"]
                    /\ UNCHANGED <<outcome, holds, runDone, published>>

\* cancel(): Empty takes waiting jobs (all, or the ones about removed items), Clear
\* failed takes every failed, unsettled and blocked one.
Clear(S) ==
    LET rows == [k \in Jobs |-> IF k \in S
                    THEN [row[k] EXCEPT !.state = "cancelled", !.latest = NoRequest, !.latestParent = NoJob]
                    ELSE row[k]]
    IN  /\ S # {}
        /\ \/ S \subseteq {k \in Jobs : row[k].state = "pending"}
           \/ S = {k \in Jobs : row[k].state \in {"failed", "needs_attention", "blocked"}}
        /\ row' = SettleDependencies(rows, S)
        /\ UNCHANGED <<outcome, holds, runDone, published>>

Retried(rw) == [rw EXCEPT !.state = "pending", !.avail = "due", !.base = rw.attempt,
                          !.granted = rw.attempt]

\* What job_dedup_live admits when the rows S are made to wait again; else the retry is
\* aborted as a whole.  The retries look for live and older jobs of a key before they write,
\* under no lock, so that only the index decides in the end, and which of several jobs of one
\* key is put back depends on when they looked.
Admitted(S) ==
    \A j \in S : row[j].req.key # NoKey =>
        LiveKey(row, row[j].req.key) = {} /\ \A k \in S \ {j} : row[k].req.key # row[j].req.key

\* Mutants: every ended job, or every held one, is taken for a failed one.
EndedJobs == {j \in Jobs : row[j].state \in Terminal /\ row[j].req.safe}
HeldJobs == {j \in Jobs : row[j].state \in {"failed", "needs_attention"}}
\* retryFailed(): a page of failed repeatable jobs, or one of them.
Failed == {j \in Jobs : row[j].state = "failed" /\ row[j].req.safe}
RetryFailed(S) ==
    /\ S # {} /\ Admitted(S)
    /\ row' = [k \in Jobs |-> IF k \in S THEN Retried(row[k]) ELSE row[k]]
    /\ runDone' = Reopened(runDone, {row[j].req.run : j \in S})
    /\ UNCHANGED <<outcome, holds, published>>

\* retryRun(): of the run's failed and blocked repeatable work, what has a parent that can run
\* again; eligible is the work that no other job of its key kept out when the retry looked.
Repeatable(r) == {j \in Jobs : /\ row[j].state \in {"failed", "blocked"} /\ row[j].req.run = r
                               /\ row[j].req.safe /\ ~row[j].req.op}
Recoverable(eligible) ==
    LET root(j) == \/ row[j].state = "failed" /\ row[j].parent = NoJob
                   \/ row[j].parent # NoJob /\ row[row[j].parent].state \in Live \cup {"completed"}
        closed == {S \in SUBSET eligible : \A j \in eligible : (root(j) \/ row[j].parent \in S) => j \in S}
    IN  {j \in eligible : \A S \in closed : j \in S}
RetryRun(r, eligible) ==
    LET S == Recoverable(eligible)
    IN  /\ S # {} /\ Admitted(S)
        /\ row' = [k \in Jobs |-> IF k \in S THEN [Retried(row[k]) EXCEPT !.cancel = "none"] ELSE row[k]]
        /\ runDone' = Reopened(runDone, {r})
        /\ UNCHANGED <<outcome, holds, published>>

Parked(r) == {i \in Items : <<r, i>> \in holds.parked}
Park(r, items) == [holds EXCEPT !.parked = {x \in @ : x[1] # r} \cup ({r} \X items)]

\* Mutant: a run whose parked stage is released stays finished.
SetRunHoldsFinished(r, items) ==
    /\ items # Parked(r)
    /\ holds' = Park(r, items)
    /\ UNCHANGED <<row, outcome, runDone, published>>
\* setRunHolds(), as far as runs are concerned: which stages are parked.  Releasing one reopens
\* the run.  What the other reasons hold, and how jobs are kept from claims, is RunHolds.
SetRunHolds(r, items) ==
    /\ items # Parked(r)
    /\ holds' = Park(r, items)
    /\ runDone' = Reopened(runDone, IF Parked(r) \subseteq items THEN {} ELSE {r})
    /\ UNCHANGED <<row, outcome, published>>

\* releaseRun(): whatever was held.
ReleaseRun(r) ==
    /\ holds' = Park(r, {})
    /\ runDone' = Reopened(runDone, {r})
    /\ UNCHANGED <<row, outcome, published>>

\* liveWork: waiting jobs of a parked stage do not keep a run open.
LiveWork(r) == {j \in Jobs : /\ IsLive(row[j]) /\ row[j].req.run = r
                             /\ row[j].state = "pending" => row[j].req.item \notin Parked(r)}
\* finishRuns(): the run's row lock orders this with whatever reopens the run.
FinishRun(r) ==
    /\ ~runDone[r] /\ LiveWork(r) = {}
    /\ runDone' = [runDone EXCEPT ![r] = TRUE]
    /\ UNCHANGED <<row, outcome, holds, published>>

-----------------------------------------------------------------------------
(* Claims: the transactions of coordinators and executors. *)

ClaimedRow(rw, w) ==
    [rw EXCEPT !.state = "active", !.token = rw.attempt + 1, !.attempt = rw.attempt + 1,
               !.worker = w, !.lease = LeaseTicks, !.cancel = "none", !.dep = "none"]

\* claim(): a page of claims is that many of these steps under one queue-row lock.
\* Started by hand, a job is claimed even when the queue is paused, closed or full.
Claim(w, j) ==
    /\ Claimable(j)
    /\ row[j].attempt < MaxAttempts /\ Cardinality({c \in Claims : outcome[c] # "none"}) < MaxClaims
    /\ \/ row[j].avail = "hand"
       \/ row[j].avail = "due" /\ ~holds.queue /\ Cardinality(ActiveJobs) < Concurrency
    /\ row' = [row EXCEPT ![j] = ClaimedRow(@, w)]
    /\ outcome' = [outcome EXCEPT ![<<j, row[j].attempt + 1>>] = "open"]
    /\ UNCHANGED <<holds, runDone, published>>

\* heartbeat(): unexpired claims of the worker; rows a publication has locked are skipped.
Renew(w, S) ==
    /\ \A j \in S : row[j].state = "active" /\ row[j].worker = w /\ row[j].lease > 0
    /\ row' = [k \in Jobs |-> IF k \in S THEN [row[k] EXCEPT !.lease = LeaseTicks] ELSE row[k]]
    /\ UNCHANGED <<outcome, holds, runDone, published>>

\* deadlines(): the worker's own claim has expired or has run for too long.
Deadline(w, j) ==
    /\ row[j].state = "active" /\ row[j].worker = w /\ row[j].cancel = "none"
    /\ row' = [row EXCEPT ![j].cancel = "deadline"]
    /\ UNCHANGED <<outcome, holds, runDone, published>>

\* prepareCheckpoint() and the selection cursor: a producer's progress, under its claim.
Checkpoint(j, a) ==
    /\ Fenced(j, a) /\ ~row[j].owns
    /\ row' = [row EXCEPT ![j].owns = TRUE]
    /\ UNCHANGED <<outcome, holds, runDone, published>>

\* A follow-up without a run of its own joins the claim's run.
FollowUp(j, f) == IF f.run = NoRun THEN [f EXCEPT !.run = row[j].req.run] ELSE f
CompletedRow(rw) == [rw EXCEPT !.state = "completed", !.token = 0, !.lease = 0, !.dep = "none",
                               !.latest = NoRequest, !.latestParent = NoJob]

\* complete(): adoption, at most one follow-up (bound) and the latest request commit together.
Complete(j, a) ==
    /\ Fenced(j, a)
    /\ \E f \in Requests \cup {NoRequest}, p \in {j, NoJob} :
         LET done  == [row EXCEPT ![j] = CompletedRow(@)]
             next  == FollowUp(j, f)
             later == IF f = NoRequest THEN done ELSE Enqueue(done, next, p)
             r     == row[j].latest
             runs  == (IF f = NoRequest THEN {} ELSE {next.run} \ {row[j].req.run})
                      \cup (IF r = NoRequest THEN {} ELSE {r.run})
         IN  /\ f # NoRequest => (Fits(done, next) /\ ~StageCollision(done, next))
             /\ LatestFits(later, j, r) /\ ~KeyCollision(later, j, r)
             /\ row' = ScheduleLatest(later, j, r, row[j].latestParent, TRUE)
             /\ runDone' = Reopened(runDone, runs)
    /\ outcome' = [outcome EXCEPT ![<<j, a>>] = "completed"]
    /\ published' = published \cup {<<j, a>>}
    /\ UNCHANGED holds

\* defer(): back to waiting, with the retry credit refunded.
DeferredRow(rw, d) ==
    [rw EXCEPT !.state = "pending", !.token = 0, !.lease = 0, !.worker = NoWorker,
               !.cancel = "none", !.base = rw.base + 1, !.dep = d, !.avail = "later"]
Defer(j, a) ==
    /\ Fenced(j, a)
    /\ \E d \in {"locked", "other"} : row' = [row EXCEPT ![j] = DeferredRow(@, d)]
    /\ outcome' = [outcome EXCEPT ![<<j, a>>] = "deferred"]
    /\ UNCHANGED <<holds, runDone, published>>

\* fail() by the claim's own execution.  It settles nothing while a requested stop is
\* unconfirmed and its grace lasts, nor a domain settlement without that confirmation;
\* onlyStopped: the last settlement of an execution that settled nothing else.
Fail(j, a, stopped, settling, onlyStopped) ==
    /\ Owned(j, a)
    /\ onlyStopped => StopRequested(row[j])
    /\ settling => stopped
    /\ StopRequested(row[j]) => stopped \/ GraceElapsed(row[j])
    /\ Settle(j, StopRequested(row[j]) /\ ~stopped, FALSE, {<<j, a>>})

\* Mutant: recovery waits for the stop for ever.
RecoverOnlyStopped(j, stopped) ==
    /\ row[j].state = "active" /\ row[j].lease <= 0
    /\ \/ /\ ~stopped /\ row[j].cancel = "none"
          /\ row' = [row EXCEPT ![j].cancel = "deadline"]
          /\ UNCHANGED <<outcome, holds, runDone, published>>
       \/ stopped /\ Settle(j, FALSE, TRUE, {<<j, row[j].token>>})
\* recoverExpired(): one claim of a sweep.  Expiry alone revokes the claim; a second
\* execution waits for the stop, or for the end of the grace.
RecoverExpired(j, stopped) ==
    /\ row[j].state = "active" /\ row[j].lease <= 0
    /\ \/ /\ ~stopped /\ ~GraceElapsed(row[j]) /\ row[j].cancel = "none"
          /\ row' = [row EXCEPT ![j].cancel = "deadline"]
          /\ UNCHANGED <<outcome, holds, runDone, published>>
       \/ /\ stopped \/ GraceElapsed(row[j])
          /\ Settle(j, ~stopped, TRUE, {<<j, row[j].token>>})

\* Mutant: a waiting job whose audit is unproven is passed over.
CancelQueuedOnlyStopped(j, stopped) ==
    /\ row[j].state = "pending" /\ Cancelled(row[j]) /\ stopped
    /\ Settle(j, FALSE, FALSE, {<<j, a>> : a \in {b \in Attempts : outcome[<<j, b>>] = "open"}})
\* claim() first settles the queue's waiting jobs whose stop was requested.
CancelQueued(j, stopped) ==
    /\ row[j].state = "pending" /\ Cancelled(row[j])
    /\ Settle(j, ~stopped, ~stopped, {<<j, a>> : a \in {b \in Attempts : outcome[<<j, b>>] = "open"}})

\* A lease runs down unless renewed; -1 is 30 seconds past expiry.
LeaseAges(j) == /\ row[j].state = "active" /\ row[j].lease > -1
                /\ row' = [row EXCEPT ![j].lease = @ - 1]
                /\ UNCHANGED <<outcome, holds, runDone, published>>

\* A retry or deferral delay is over.
DelayPasses(j) == /\ row[j].state = "pending" /\ row[j].avail = "later"
                  /\ row' = [row EXCEPT ![j].avail = "due"]
                  /\ UNCHANGED <<outcome, holds, runDone, published>>

-----------------------------------------------------------------------------
\* What callers, administrators, keys and time do to the queue, outside any claim.
Administer ==
    \/ \E r \in Requests : Request(r)
    \/ "pause" \in Inputs /\ \E b \in BOOLEAN : Pause(b)
    \/ "clear" \in Inputs /\ \E S \in SUBSET Jobs : Clear(S)
    \/ "retry" \in Inputs /\ \/ \E S \in SUBSET Failed : RetryFailed(S)
                             \/ \E r \in Runs, S \in SUBSET Jobs : S \subseteq Repeatable(r) /\ RetryRun(r, S)
    \/ "park" \in Inputs /\ \E r \in Runs : ReleaseRun(r) \/ \E S \in SUBSET Items : SetRunHolds(r, S)
    \/ "hand" \in Inputs /\ \E j \in Jobs : StartNow(j)
    \/ "key" \in Inputs /\ \E j \in Jobs : WakeDeferred(j)
    \/ "cancel" \in Inputs /\ \E j \in Jobs : RequestCancel(j)
    \/ "expiry" \in Inputs /\ \E j \in Jobs : LeaseAges(j)
    \/ \E j \in Jobs : DelayPasses(j)

\* The store on its own: every claim ever issued may call, with any evidence.
StoreNext ==
    \/ Administer
    \/ \E r \in Runs : FinishRun(r)
    \/ \E w \in Workers : \/ \E j \in Jobs : Claim(w, j) \/ Deadline(w, j)
                          \/ \E S \in SUBSET Jobs : Renew(w, S)
    \/ \E j \in Jobs, a \in Attempts :
          \/ "producer" \in Inputs /\ Checkpoint(j, a)
          \/ Complete(j, a) \/ Defer(j, a)
          \/ \E stopped, settling, onlyStopped \in BOOLEAN : Fail(j, a, stopped, settling, onlyStopped)
    \/ \E j \in Jobs, stopped \in BOOLEAN : RecoverExpired(j, stopped) \/ CancelQueued(j, stopped)

StoreSpec == StoreInit /\ [][StoreNext]_storeVars

-----------------------------------------------------------------------------
(* Properties. *)

Outcomes == {"none", "open", "completed", "deferred", "pending"} \cup Unsuccessful

\* Every column, audit and run keeps its type.
StoreTypeOK ==
    /\ row \in [Jobs -> Row]
    /\ outcome \in [Claims -> Outcomes]
    /\ holds \in Holds /\ runDone \in [Runs -> BOOLEAN]
    /\ published \subseteq Claims

\* A row holds a token exactly while it is active, and the token is that of its last attempt.
\* Only a request that owns a media operation holds one, and the row of an operation that was
\* handed back does not run again by itself.
Shape(x) ==
    /\ x \in Row
    /\ x.state = "active" <=> x.token # 0
    /\ x.token # 0 => (x.token = x.attempt /\ x.base < x.attempt)
    /\ x.base <= x.attempt /\ x.armed <= x.attempt
    /\ x.state = "absent" => (x.attempt = 0 /\ x.token = 0)
    /\ x.state # "absent" => x.req \in RequestType
    /\ x.oper = "claimed" => (x.state # "absent" /\ x.req.op)
    /\ x.oper = "released" => x.state \in {"needs_attention", "cancelled"}

\* A published request is over: its row is completed, or has taken on another request.
PublishedIsOver ==
    \A c \in published :
        /\ c[2] <= row[c[1]].attempt
        /\ c[2] > row[c[1]].armed => (row[c[1]].state = "completed" /\ c[2] = row[c[1]].attempt)

\* The audit agrees with the row: attempts made are audited, and the open one holds the token.
AuditMatches ==
    \A j \in Jobs, a \in Attempts :
        /\ outcome[<<j, a>>] = "none" <=> a > row[j].attempt
        /\ outcome[<<j, a>>] = "open" <=> row[j].token = a

\* The inductive invariant of the store's proofs: what fail(), complete() and claim() take
\* for granted about the row whose token they check.
StoreInv == StoreTypeOK /\ (\A j \in Jobs : Shape(row[j])) /\ PublishedIsOver /\ AuditMatches

\* One request of a row is published at most once, however many claims and executors it
\* went through: a zombie's output is never adopted beside its replacement's.
PublishedOnce ==
    \A c, d \in published : (c[1] = d[1] /\ c[2] > row[c[1]].armed /\ d[2] > row[c[1]].armed) => c = d

\* Between two grants of a retry budget a row is executed at most twice, deferrals
\* aside: retryBaseAttempt accounts for every path back to pending.
BudgetKept ==
    \A j \in Jobs : Cardinality({a \in (row[j].granted + 1)..row[j].attempt :
                                     outcome[<<j, a>>] # "deferred"}) <= 2

\* A run stamped finished has no live job, unless one of its stages is parked: follow-ups,
\* latest requests, retries, recoveries and released stages either reopen it or belong to a job
\* that kept it open.  With a parked stage there may be its waiting jobs, and what they lead to
\* when one is claimed all the same.
FinishedRunsQuiet ==
    \A j \in Jobs : (IsLive(row[j]) /\ row[j].req.run # NoRun /\ runDone[row[j].req.run])
                       => Parked(row[j].req.run) # {}

\* A claim's audited outcome is written once.
AuditIsFinal ==
    [][\A c \in Claims : outcome[c] \notin {"none", "open"} => outcome'[c] = outcome[c]]_storeVars

\* Request r has a job: its own, which waits, is held for attention or is blocked with its parent;
\* with keep "seal" any such job of its key; or the row of its stage that was there before,
\* ended or under another key.
Carried(rows, j, r) ==
    \/ \E k \in Jobs : /\ rows[k].state \in {"pending", "needs_attention", "blocked"}
                       /\ rows[k].req = r \/ (r.keep = "seal" /\ rows[k].req.key = r.key)
    \/ \E k \in OnStage(rows, r) \ {j} : rows[k].state \in Terminal \/ rows[k].req.key # r.key

\* A request recorded on a live job is not lost when that job settles: it is carried by a job,
\* or stays behind work held for attention; only Clear() drops it otherwise.
LatestKept ==
    [][\A j \in Jobs :
         (/\ IsLive(row[j]) /\ row[j].latest # NoRequest /\ row'[j].latest = NoRequest
          /\ ~\E S \in SUBSET Jobs : j \in S /\ Clear(S))
         => Carried(row', j, row[j].latest) \/ row'[j].state = "needs_attention"]_storeVars

\* Only the claim that holds a job publishes: the queue implements FencedClaims.
Fence == INSTANCE FencedClaims WITH holder <- [j \in Jobs |-> row[j].token],
                                    issued <- [j \in Jobs |-> row[j].attempt]
FencedPublication == Fence!Spec

\* Tested (sql-queue.spec.ts): a poison parent settles its unstarted descendants.
NoOrphans ==
    \A j \in Jobs : (row[j].state = "pending" /\ row[j].parent # NoJob)
        => row[row[j].parent].state \notin Unsuccessful

=============================================================================
