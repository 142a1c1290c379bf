-------------------------- MODULE ConcurrentEnqueue --------------------------
(***************************************************************************)
(* The statements of enqueue (server/src/queue/store.ts, insertBatch and   *)
(* rearmRunStage) and of the retries (retryFailed, retryRun) when several  *)
(* callers want a job of one deduplication key at once, and an executor    *)
(* claims, completes and fails it meanwhile.  JobStore treats each as one  *)
(* step; here each statement is one, under PostgreSQL's read committed     *)
(* isolation: a lookup waits for the row lock and looks at that row again, *)
(* an insert waits for the transaction that holds the unique entry it      *)
(* meets, and an update by a retry waits for the row its snapshot chose    *)
(* without asking again why it chose it.                                   *)
(*                                                                         *)
(* A caller has changed something its job must look at: before the call,   *)
(* or in the transaction that also makes the request (InTx), as            *)
(* complete() does with the files a job publishes and its follow-ups.      *)
(***************************************************************************)
EXTENDS Integers, FiniteSets

CONSTANTS
  Callers,      \* requests of the key, each made once
  Mode,         \* "drop", "last" (keepLastIfActive), "seal" (LockedSeal), or "retry" of what failed
  RunOf,        \* the run a request joins, or NoRun
  Parent,       \* the job that asks for it, or Nobody
  InTx,         \* callers whose change commits with their request
  Runs,
  MaxJobs       \* bound on rows of the key
Jobs == 1..MaxJobs
NoRun == "noRun"
Nobody == "nobody"
NoJob == 0

Live == {"pending", "active"}
Terminal == {"completed", "failed", "cancelled"}
Promised == {c \in Callers : Mode[c] \in {"last", "seal"}}

ASSUME EnqueueAssumption ==
  /\ MaxJobs \in Nat \ {0}
  /\ Mode \in [Callers -> {"drop", "last", "seal", "retry"}]
  /\ RunOf \in [Callers -> Runs \cup {NoRun}] /\ NoRun \notin Runs
  /\ Parent \in [Callers -> Callers \cup {Nobody}] /\ Nobody \notin Callers
  /\ InTx \subseteq Callers

VARIABLES
  row,        \* the committed rows of the key
  phase,      \* where each caller is in insertBatch
  target,     \* the row its lookup found, locked from "write" on
  write,      \* what its transaction has written: a row number and the row
  changed,    \* callers whose change is committed
  processed,  \* callers whose change an execution that is over has looked at
  dropped,    \* callers whose request met the finished row of its stage: not new work
  displaced,  \* callers whose latest request another's replaced, which was then dropped
  raced       \* callers that found no live job, and one in the way of their insert
past == <<processed, dropped, displaced, raced>>
vars == <<row, phase, target, write, changed, past>>

AbsentRow == [state |-> "absent", run |-> NoRun, parent |-> Nobody, latest |-> Nobody, noted |-> {},
              seen |-> {}]
NoWrite == [job |-> NoJob, row |-> AbsentRow]
RowType == [state : {"absent"} \cup Live \cup Terminal, run : Runs \cup {NoRun},
            parent : Callers \cup {Nobody}, latest : Promised \cup {Nobody},
            noted : SUBSET Callers,     \* whose request has been the row's latest
            seen : SUBSET Callers]      \* whose change its execution looks at

\* Well-typed rows; only a job that runs, or runs again, carries a latest request.
TypeOK ==
  /\ row \in [Jobs -> RowType]
  /\ \A j \in Jobs : row[j].latest # Nobody => row[j].state \in Live
  /\ phase \in [Callers -> {"idle", "look", "wait", "insert", "write", "done", "failed"}]
  /\ target \in [Callers -> Jobs \cup {NoJob}]
  /\ write \in [Callers -> [job : Jobs \cup {NoJob}, row : RowType]]
  /\ changed \subseteq Callers /\ processed \subseteq Callers
  /\ dropped \subseteq Callers /\ displaced \subseteq Callers /\ raced \subseteq Callers

\* The run of a request may hold its stage's row already: finished in some way, for
\* a job that asks for it now or for none.
Init ==
  /\ \E r \in Runs, s \in Terminal \cup {"absent"}, p \in {Parent[c] : c \in Callers} :
        row = [j \in Jobs |-> IF j = 1 /\ s # "absent"
                              THEN [AbsentRow EXCEPT !.state = s, !.run = r, !.parent = p]
                              ELSE AbsentRow]
  /\ phase = [c \in Callers |-> "idle"]
  /\ target = [c \in Callers |-> NoJob]
  /\ write = [c \in Callers |-> NoWrite]
  /\ changed = {} /\ processed = {} /\ dropped = {} /\ displaced = {} /\ raced = {}

-----------------------------------------------------------------------------
LiveRows == {j \in Jobs : row[j].state \in Live}
OnStage(r) == {j \in Jobs : r # NoRun /\ row[j].state # "absent" /\ row[j].run = r}
Free(j) == \A c \in Callers : ~(phase[c] = "write" /\ j \in {target[c], write[c].job})
Others(c) == {d \in Callers \ {c} : write[d].job # NoJob}
\* Unique entries an open transaction of another caller has changed: of the key, or of the stage.
KeyHeld(c) == \E d \in Others(c) : row[write[d].job].state \in Live \/ write[d].row.state \in Live
StageHeldBy(c, r) == \E d \in Others(c) : r # NoRun /\ r \in {row[write[d].job].run, write[d].row.run}
Unused == {j \in Jobs : row[j].state = "absent" /\ \A c \in Callers : write[c].job # j}
Least(S) == CHOOSE x \in S : \A y \in S : x <= y

Begin(c) ==
  /\ phase[c] = "idle"
  /\ phase' = [phase EXCEPT ![c] = "look"]
  /\ changed' = IF c \in InTx THEN changed ELSE changed \cup {c}
  /\ UNCHANGED <<row, target, write, past>>

\* The lookup's snapshot: the live row of the key, if one is committed.
Look(c) ==
  /\ phase[c] = "look" /\ Mode[c] # "retry"
  /\ IF LiveRows = {}
       THEN phase' = [phase EXCEPT ![c] = "insert"] /\ UNCHANGED target
       ELSE /\ phase' = [phase EXCEPT ![c] = "wait"]
            /\ target' = [target EXCEPT ![c] = Least(LiveRows)]
  /\ UNCHANGED <<row, write, changed, past>>

Fail(c) ==
  /\ phase' = [phase EXCEPT ![c] = "failed"]
  /\ target' = [target EXCEPT ![c] = NoJob]
  /\ write' = [write EXCEPT ![c] = NoWrite]
  /\ UNCHANGED <<row, changed, past>>

Written(c, j, rw) ==
  /\ phase' = [phase EXCEPT ![c] = "write"]
  /\ write' = [write EXCEPT ![c] = [job |-> j, row |-> rw]]
  /\ UNCHANGED <<row, target, changed, past>>
NothingWritten(c) ==
  /\ phase' = [phase EXCEPT ![c] = "write"]
  /\ UNCHANGED <<row, target, write, changed, past>>

\* The row is locked, but on a second look its job has ended: as if none had been found.
TakeEnded(c) ==
  /\ phase[c] = "wait" /\ Mode[c] # "retry" /\ Free(target[c]) /\ row[target[c]].state \notin Live
  /\ phase' = [phase EXCEPT ![c] = "insert"]
  /\ target' = [target EXCEPT ![c] = NoJob]
  /\ UNCHANGED <<row, write, changed, past>>

\* A running job: a request that must not be lost is recorded to run after it.
RecordLatest(c) ==
  LET j == target[c] IN
  /\ phase[c] = "wait" /\ Mode[c] # "retry" /\ Free(j) /\ row[j].state = "active"
  /\ IF Mode[c] = "drop" THEN NothingWritten(c)
     ELSE Written(c, j, [row[j] EXCEPT !.latest = c, !.noted = @ \cup {c}])

\* Mutant: a collision is taken for a request that was coalesced.
MoveIntoSwallows(c) ==
  LET j == target[c] IN
  /\ phase[c] = "wait" /\ Mode[c] # "retry" /\ Free(j) /\ row[j].state = "pending"
  /\ ~StageHeldBy(c, RunOf[c])
  /\ IF Mode[c] = "last" /\ OnStage(RunOf[c]) \subseteq {j}
       THEN Written(c, j, [row[j] EXCEPT !.run = RunOf[c]])
       ELSE /\ phase' = [phase EXCEPT ![c] = "write"]
            /\ target' = [target EXCEPT ![c] = NoJob]
            /\ UNCHANGED <<row, write, changed, past>>
\* A waiting job: a latest request moves into it; any other, and a seal, leaves it as it is
\* and keeps it locked until it commits.  A move may collide with the run's own row for the
\* stage, and the transaction aborts.
MoveInto(c) ==
  LET j == target[c] IN
  /\ phase[c] = "wait" /\ Mode[c] # "retry" /\ Free(j) /\ row[j].state = "pending"
  /\ IF Mode[c] # "last" THEN NothingWritten(c)
     ELSE /\ ~StageHeldBy(c, RunOf[c])
          /\ IF OnStage(RunOf[c]) \subseteq {j}
               THEN Written(c, j, [row[j] EXCEPT !.run = RunOf[c]])
               ELSE Fail(c)

Fresh(c) == [AbsentRow EXCEPT !.state = "pending", !.run = RunOf[c], !.parent = Parent[c]]

\* No unique entry in the way: a row of its own.
Insert(c) ==
  /\ phase[c] = "insert" /\ ~KeyHeld(c) /\ ~StageHeldBy(c, RunOf[c])
  /\ LiveRows = {} /\ OnStage(RunOf[c]) = {} /\ Unused # {}
  /\ Written(c, Least(Unused), Fresh(c))

MayRearm(j, c) == /\ row[j].state \in Terminal
                  /\ row[j].state = "cancelled" \/ (Parent[c] # Nobody /\ row[j].parent = Parent[c])

\* on conflict do nothing, then rearmRunStage: the run's finished row takes the request on,
\* unless the key is live elsewhere, which the unique index refuses; otherwise it is dropped.
Conflict(c) ==
  LET stage == OnStage(RunOf[c]) IN
  /\ phase[c] = "insert" /\ ~KeyHeld(c) /\ ~StageHeldBy(c, RunOf[c])
  /\ LiveRows # {} \/ stage # {}
  /\ IF \E j \in stage : MayRearm(j, c)
       THEN \E j \in stage : /\ MayRearm(j, c) /\ Free(j)
                             /\ IF LiveRows # {} THEN Fail(c) ELSE Written(c, j, Fresh(c))
       ELSE /\ phase' = [phase EXCEPT ![c] = "write"]
            /\ IF LiveRows = {} THEN dropped' = dropped \cup {c} /\ UNCHANGED raced
                              ELSE raced' = raced \cup {c} /\ UNCHANGED dropped
            /\ UNCHANGED <<row, target, write, changed, processed, displaced>>

\* A retry's snapshot: the key's first failed row, unless a job of the key is live.
FailedRows == {j \in Jobs : row[j].state = "failed"}
RetryLook(c) ==
  /\ phase[c] = "look" /\ Mode[c] = "retry"
  /\ IF LiveRows # {} \/ FailedRows = {} THEN NothingWritten(c)
     ELSE /\ phase' = [phase EXCEPT ![c] = "wait"]
          /\ target' = [target EXCEPT ![c] = Least(FailedRows)]
          /\ UNCHANGED <<row, write, changed, past>>

\* Its update of that row, once nobody holds it.  A job of the key that is live by then is refused
\* by job_dedup_live, a running row by the check of state and token: the retry fails.  Otherwise
\* the row waits again, also when it has been retried and has ended in another way meanwhile.
PutBack(c) ==
  LET j == target[c] IN
  /\ phase[c] = "wait" /\ Mode[c] = "retry" /\ Free(j) /\ ~KeyHeld(c)
  /\ IF LiveRows \ {j} # {} \/ row[j].state = "active" THEN Fail(c)
     ELSE Written(c, j, [row[j] EXCEPT !.state = "pending", !.seen = {}])

Commit(c) ==
  /\ phase[c] = "write"
  /\ phase' = [phase EXCEPT ![c] = "done"]
  /\ row' = IF write[c].job = NoJob THEN row ELSE [row EXCEPT ![write[c].job] = write[c].row]
  /\ target' = [target EXCEPT ![c] = NoJob]
  /\ write' = [write EXCEPT ![c] = NoWrite]
  /\ changed' = changed \cup {c}
  /\ UNCHANGED past

\* A lock timeout, a lost connection, or a failure of the caller's own statements.
Abort(c) == phase[c] \in {"look", "wait", "insert", "write"} /\ Fail(c)

-----------------------------------------------------------------------------
(* The executor *)

\* claimPending, for update skip locked; the handler looks at what is committed then.
Claim(j) ==
  /\ row[j].state = "pending" /\ Free(j)
  /\ row' = [row EXCEPT ![j].state = "active", ![j].seen = changed]
  /\ UNCHANGED <<phase, target, write, changed, past>>

Ended(j, s) == [row[j] EXCEPT !.state = s, !.latest = Nobody, !.noted = {}, !.seen = {}]
\* scheduleLatest: the same row when it is the same stage of the same run, a row of its own, or
\* the run's finished row if that may be taken on again; otherwise the request is dropped.
SameStage(j, c) == RunOf[c] # NoRun /\ row[j].run = RunOf[c]
LatestDropped(j, c) ==
  /\ ~SameStage(j, c) /\ OnStage(RunOf[c]) # {}
  /\ \A k \in OnStage(RunOf[c]) : ~MayRearm(k, c)
WithLatest(j, s, c) ==
  LET ended == [row EXCEPT ![j] = Ended(j, s)]
      stage == OnStage(RunOf[c])
  IN IF SameStage(j, c) THEN {[ended EXCEPT ![j].state = "pending"]}
     ELSE {[ended EXCEPT ![k] = Fresh(c)] :
              k \in IF stage = {} THEN {k \in Unused : k = Least(Unused)}
                    ELSE {k \in stage : MayRearm(k, c)}}

\* complete(), or fail() with no attempt left: the request that arrived meanwhile is scheduled.
Settle(j, s) ==
  LET c == row[j].latest
      lost == c # Nobody /\ LatestDropped(j, c)
  IN
  /\ row[j].state = "active" /\ Free(j)
  /\ IF c = Nobody \/ lost
       THEN row' = [row EXCEPT ![j] = Ended(j, s)]
       ELSE (\A k \in OnStage(RunOf[c]) : Free(k)) /\ row' \in WithLatest(j, s, c)
  /\ dropped' = IF lost THEN dropped \cup {c} ELSE dropped
  /\ displaced' = IF lost THEN displaced \cup (row[j].noted \ {c}) ELSE displaced
  /\ processed' = processed \cup row[j].seen
  /\ UNCHANGED <<phase, target, write, changed, raced>>
Complete(j) == Settle(j, "completed")
FailJob(j) == Settle(j, "failed")

\* fail() with an attempt left: the row waits again and keeps its latest request.
TryAgain(j) ==
  /\ row[j].state = "active" /\ Free(j)
  /\ row' = [row EXCEPT ![j].state = "pending", ![j].seen = {}]
  /\ UNCHANGED <<phase, target, write, changed, past>>

-----------------------------------------------------------------------------
Next ==
  \/ \E c \in Callers : \/ Begin(c) \/ Look(c) \/ TakeEnded(c) \/ RecordLatest(c) \/ MoveInto(c)
                        \/ Insert(c) \/ Conflict(c) \/ RetryLook(c) \/ PutBack(c) \/ Commit(c) \/ Abort(c)
  \/ \E j \in Jobs : Claim(j) \/ Complete(j) \/ FailJob(j) \/ TryAgain(j)
Spec == Init /\ [][Next]_vars

-----------------------------------------------------------------------------
(* Properties *)

\* A waiting job looks at everything committed when it starts, a running one at what was
\* committed then, and at the rest for those whose request has been recorded to follow it.
CarriedBy(j, c) ==
  \/ row[j].state = "pending"
  \/ row[j].state = "active" /\ c \in row[j].seen \cup row[j].noted

Looked(c) == c \in processed \/ \E j \in Jobs : CarriedBy(j, c)

\* A caller whose request returned, and that asked for it not to be lost, has its change looked
\* at, by an execution that is over or by the job that carries the request, whatever was enqueued,
\* retried or settled between its statements.  Three callers are excepted, and no others: one whose
\* own stage was finished, one whose latest request another's replaced that met a finished stage,
\* and one whose change commits only after its request raced another's insert.  Whoever loses a
\* request to an abort or a collision is told.
Covered ==
  \A c \in Promised :
    phase[c] = "done" /\ c \notin dropped \cup displaced \cup (InTx \cap raced) => Looked(c)

\* What a caller may rely on once its call has returned, in every interleaving of the calls.
EnqueueInv == TypeOK /\ Covered

\* repositories/job.repository.ts:1351, "a request while one runs (a new derived file, a key load)
\* is picked up after it": no exception for changes that commit with their requests.
PublicationCovered ==
  \A c \in Promised : phase[c] = "done" /\ c \notin dropped \cup displaced => Looked(c)

\* store.ts:198, "the latest request runs after it": a request that was not dropped itself is
\* not lost to a later one that was.
LatestRuns ==
  \A c \in Promised : phase[c] = "done" /\ c \notin dropped \cup (InTx \cap raced) => Looked(c)

\* store.ts:1127, "Puts failed jobs back with their saved data": a retry revives no job that
\* completed or was cancelled.
RetriesFailedOnly ==
  [][\A c \in Callers, j \in Jobs :
       Mode[c] = "retry" /\ Commit(c) /\ write[c].job = j => row[j].state \in {"failed", "pending"}]_vars
=============================================================================
