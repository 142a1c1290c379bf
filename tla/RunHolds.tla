------------------------------ MODULE RunHolds ------------------------------
(***************************************************************************)
(* The holds of one job run (server/src/queue/store.ts).  A run names the  *)
(* stages it holds and why: 'setup' until an import is activated, 'paused' *)
(* while setup is paused, 'parked' for a stage set aside.  A held job      *)
(* waits at availableAt = 'infinity', where no claim reaches it.  Writing  *)
(* the descriptor only marks the run dirty; the coordinator then moves the *)
(* run's jobs to and from 'infinity' one keyset page at a time, each page  *)
(* in three statements of their own (read the run, apply the page, record  *)
(* the cursor), so that every other writer of the queue interleaves.       *)
(*                                                                         *)
(* A job is its place 1..LastJob in the (itemKey, name) order of the       *)
(* pages; Stage gives its name.  Attempt budgets, tokens and leases are    *)
(* JobStore's: here a failed claim simply may be tried again or not.       *)
(***************************************************************************)
EXTENDS Integers, FiniteSets

CONSTANTS
  LastJob,        \* the run's jobs are 1..LastJob, in page order
  Stages,         \* job names
  Stage,          \* the stage of each job
  Descriptors,    \* the descriptors setup may write
  Coordinators,   \* coordinators that reconcile holds on this database
  HoldPage,       \* HOLD_PAGE, jobs per page
  MaxChanges,     \* bound on descriptor writes
  MaxFailures     \* bound on failed or interrupted passes

Jobs == 1..LastJob
Reasons == {"none", "setup", "paused", "parked"}
NoHolds == [s \in Stages |-> "none"]
SetupHolds == [s \in Stages |-> "setup"]
States == {"absent", "pending", "active", "failed", "blocked", "ended"}

ASSUME HoldsAssumption ==
  /\ LastJob \in Nat
  /\ Stage \in [Jobs -> Stages]
  /\ Descriptors \subseteq [Stages -> Reasons]
  /\ HoldPage \in Nat \ {0}
  /\ MaxChanges \in Nat
  /\ MaxFailures \in Nat

VARIABLES
  run,        \* the job_run row: holds, dirty, cursor, finished, activated journal
  job,        \* the job rows: state, held (availableAt = infinity), fresh (attempt = 0)
  retry,      \* retryFailed's uncommitted update: the availability it read, or "none"
  pass,       \* each coordinator's reconcileHolds pass; old: the descriptor changed since it read it
  overtaken,  \* has an old pass written among those of the present descriptor?
  changes,    \* descriptor writes so far
  failures    \* failed passes so far
passes == <<pass, overtaken>>
vars == <<run, job, retry, passes, changes, failures>>

Idle == [at |-> "idle", holds |-> NoHolds, cursor |-> 0, done |-> FALSE, old |-> FALSE]

Run == [holds : [Stages -> Reasons], dirty : BOOLEAN, cursor : 0..LastJob,
        finished : BOOLEAN, activated : BOOLEAN]
Job == [state : States, held : BOOLEAN, fresh : BOOLEAN]
Pass == [at : {"idle", "read", "paged"}, holds : [Stages -> Reasons],
         cursor : 0..LastJob, done : BOOLEAN, old : BOOLEAN]

\* Well-typed rows and passes.
TypeOK ==
  /\ run \in Run
  /\ job \in [Jobs -> Job]
  /\ retry \in [Jobs -> {"none", "held", "ready"}]
  /\ pass \in [Coordinators -> Pass] /\ overtaken \in BOOLEAN
  /\ changes \in 0..MaxChanges
  /\ failures \in 0..MaxFailures

-----------------------------------------------------------------------------
\* stageHeld: whether the descriptor holds the job's stage.
StageHeld(holds, j) == holds[Stage[j]] # "none"

\* Work of the run that keeps it open: waiting jobs of a parked stage do not.
LiveWork ==
  \E j \in Jobs : \/ job[j].state = "active"
                  \/ /\ job[j].state = "pending"
                     /\ run.holds[Stage[j]] # "parked"

\* A prepared import: every stage is held for setup, its first jobs wait at infinity.
Init ==
  /\ run = [holds |-> SetupHolds, dirty |-> FALSE, cursor |-> 0,
            finished |-> FALSE, activated |-> FALSE]
  /\ \E prepared \in SUBSET Jobs :
       job = [j \in Jobs |-> IF j \in prepared
                THEN [state |-> "pending", held |-> TRUE, fresh |-> TRUE]
                ELSE [state |-> "absent", held |-> FALSE, fresh |-> TRUE]]
  /\ retry = [j \in Jobs |-> "none"]
  /\ pass = [c \in Coordinators |-> Idle] /\ overtaken = FALSE
  /\ changes = 0
  /\ failures = 0

-----------------------------------------------------------------------------
(* The descriptor *)

\* Another descriptor makes the passes in flight old; all of it is still to be applied.
PassesAged(h) ==
  /\ pass' = [c \in Coordinators |-> [pass[c] EXCEPT !.old = pass[c].at # "idle" /\ (@ \/ h # run.holds)]]
  /\ overtaken' = (overtaken /\ h = run.holds)

Reopens(h) == \E s \in Stages : run.holds[s] = "parked" /\ h[s] # "parked"

\* Mutant: the descriptor is changed and the old pass's cursor is kept.
SetRunHoldsKeepsCursor(h) ==
  /\ run.activated /\ changes < MaxChanges /\ h # run.holds
  /\ run' = [run EXCEPT !.holds = h, !.dirty = TRUE, !.finished = IF Reopens(h) THEN FALSE ELSE @]
  /\ changes' = changes + 1
  /\ PassesAged(h)
  /\ UNCHANGED <<job, retry, failures>>

\* setRunHolds, called once the import is activated and its setup has started.
SetRunHolds(h) ==
  /\ run.activated /\ changes < MaxChanges /\ h # run.holds
  /\ run' = [run EXCEPT !.holds = h, !.dirty = TRUE, !.cursor = 0,
                        !.finished = IF Reopens(h) THEN FALSE ELSE @]
  /\ changes' = changes + 1
  /\ PassesAged(h)
  /\ UNCHANGED <<job, retry, failures>>

\* Mutant: Release does not look at the import's journal.
ReleaseRunEarly ==
  /\ changes < MaxChanges
  /\ run.holds # NoHolds \/ \E j \in Jobs : job[j].state = "pending" /\ job[j].held
  /\ run' = [run EXCEPT !.holds = NoHolds, !.dirty = TRUE, !.cursor = 0, !.finished = FALSE]
  /\ changes' = changes + 1
  /\ PassesAged(NoHolds)
  /\ UNCHANGED <<job, retry, failures>>

\* releaseRun: Jobs -> Release, for an activated import that holds something.
ReleaseRun ==
  /\ run.activated
  /\ changes < MaxChanges
  /\ run.holds # NoHolds \/ \E j \in Jobs : job[j].state = "pending" /\ job[j].held
  /\ run' = [run EXCEPT !.holds = NoHolds, !.dirty = TRUE, !.cursor = 0, !.finished = FALSE]
  /\ changes' = changes + 1
  /\ PassesAged(NoHolds)
  /\ UNCHANGED <<job, retry, failures>>

\* The import's activation; without Manager it drops the holds in the same transaction.
Activate(manager) ==
  /\ ~run.activated
  /\ IF manager
       THEN run' = [run EXCEPT !.activated = TRUE] /\ UNCHANGED passes
       ELSE run' = [run EXCEPT !.activated = TRUE, !.holds = NoHolds, !.dirty = TRUE] /\ PassesAged(NoHolds)
  /\ UNCHANGED <<job, retry, changes, failures>>

-----------------------------------------------------------------------------
(* reconcileHolds: three statements per page *)

\* Rows of the run after the cursor, and the page the keyset query selects of them.
After(cursor) == {j \in Jobs : j > cursor /\ job[j].state # "absent"}
IsPage(page, cursor) ==
  /\ page \subseteq After(cursor)
  /\ \A j \in page, k \in After(cursor) : k < j => k \in page
  /\ IF page = After(cursor) THEN Cardinality(page) <= HoldPage
                             ELSE Cardinality(page) = HoldPage

\* Mutant: a released job keeps its infinite availability.
AppliedHoldsOnly(page, holds) ==
  [j \in Jobs |-> IF j \in page /\ job[j].state = "pending" /\ StageHeld(holds, j)
                    THEN [job[j] EXCEPT !.held = TRUE] ELSE job[j]]

\* A page sets the availability of its waiting jobs to what the descriptor says.
Applied(page, holds) ==
  [j \in Jobs |-> IF j \in page /\ job[j].state = "pending"
                    THEN [job[j] EXCEPT !.held = StageHeld(holds, j)] ELSE job[j]]

ReadDirty(c) ==
  /\ pass[c].at = "idle"
  /\ run.dirty
  /\ pass' = [pass EXCEPT ![c] = [at |-> "read", holds |-> run.holds,
                                  cursor |-> run.cursor, done |-> FALSE, old |-> FALSE]]
  /\ UNCHANGED <<run, job, retry, overtaken, changes, failures>>

\* The present descriptor has been applied in part, or is being applied.
Begun == run.cursor # 0 \/ ~run.dirty \/ \E c \in Coordinators : pass[c].at # "idle" /\ ~pass[c].old

ApplyPage(c) ==
  /\ pass[c].at = "read"
  /\ \E page \in SUBSET Jobs :
       /\ IsPage(page, pass[c].cursor)
       /\ job' = Applied(page, pass[c].holds)
       /\ \E last \in page \cup {pass[c].cursor} :
            /\ \A j \in page : j <= last
            /\ pass' = [pass EXCEPT ![c] = [@ EXCEPT !.at = "paged", !.cursor = last,
                                              !.done = Cardinality(page) < HoldPage]]
  /\ overtaken' = (overtaken \/ (pass[c].old /\ Begun))
  /\ UNCHANGED <<run, retry, changes, failures>>

\* Recorded only while the descriptor still equals the one the page applied.
RecordPage(c) ==
  /\ pass[c].at = "paged"
  /\ run' = IF run.holds # pass[c].holds THEN run
            ELSE IF pass[c].done THEN [run EXCEPT !.dirty = FALSE, !.cursor = 0]
            ELSE [run EXCEPT !.cursor = pass[c].cursor]
  /\ pass' = [pass EXCEPT ![c] = Idle]
  /\ overtaken' = (overtaken \/ (pass[c].old /\ run.holds = pass[c].holds))
  /\ UNCHANGED <<job, retry, changes, failures>>

\* A statement fails, or the coordinator stops: the pass is forgotten, its page stays applied.
FailPass(c) ==
  /\ pass[c].at # "idle"
  /\ failures < MaxFailures
  /\ failures' = failures + 1
  /\ pass' = [pass EXCEPT ![c] = Idle]
  /\ UNCHANGED <<run, job, retry, overtaken, changes>>

-----------------------------------------------------------------------------
(* The run's jobs *)

Write(j, state, held) ==
  job' = [job EXCEPT ![j] = [@ EXCEPT !.state = state, !.held = held]]

\* insertBatch and rearmRunStage: the holds are read under the run's row; new work reopens the run.
Enqueue(j) ==
  /\ job[j].state \in {"absent", "blocked", "ended"}
  /\ Write(j, "pending", StageHeld(run.holds, j))
  /\ run' = [run EXCEPT !.finished = FALSE]
  /\ UNCHANGED <<retry, passes, changes, failures>>

\* The same, asked for by a running job of this run (liveRunId): the run is not reopened.
EnqueueChild(parent, j) ==
  /\ job[parent].state = "active"
  /\ job[j].state \in {"absent", "blocked", "ended"}
  /\ Write(j, "pending", StageHeld(run.holds, j))
  /\ UNCHANGED <<run, retry, passes, changes, failures>>

\* claimPending: availableAt <= now(), no hold predicate.
Claim(j) ==
  /\ job[j].state = "pending"
  /\ ~job[j].held
  /\ job' = [job EXCEPT ![j] = [@ EXCEPT !.state = "active", !.fresh = FALSE]]
  /\ UNCHANGED <<run, retry, passes, changes, failures>>

Complete(j) ==
  /\ job[j].state = "active"
  /\ Write(j, "ended", FALSE)
  /\ UNCHANGED <<run, retry, passes, changes, failures>>

\* fail and defer: a job tried again becomes available after a delay, whatever its run holds.
TryAgain(j) ==
  /\ job[j].state = "active"
  /\ Write(j, "pending", FALSE)
  /\ UNCHANGED <<run, retry, passes, changes, failures>>

\* The rows of j and of what depended on it, once j has ended in state s and they are blocked.
Settled(j, s, children) ==
  /\ children \subseteq {k \in Jobs \ {j} : job[k].state = "pending"}
  /\ job' = [k \in Jobs |-> IF k = j THEN [job[k] EXCEPT !.state = s, !.held = FALSE]
                            ELSE IF k \in children THEN [job[k] EXCEPT !.state = "blocked", !.held = FALSE]
                            ELSE job[k]]

\* fail: no attempt left; settleDependencies blocks the work that waits for it.
FailJob(j, children) ==
  /\ job[j].state = "active"
  /\ Settled(j, "failed", children)
  /\ UNCHANGED <<run, retry, passes, changes, failures>>

\* retryFailed, first statement: the row is updated with the availability the run gives it now...
RetryFailed(j) ==
  /\ job[j].state = "failed"
  /\ retry[j] = "none"
  /\ retry' = [retry EXCEPT ![j] = IF StageHeld(run.holds, j) THEN "held" ELSE "ready"]
  /\ UNCHANGED <<run, job, passes, changes, failures>>

\* ... which others see when the transaction, having reopened the run, commits.
CommitRetry(j) ==
  /\ retry[j] # "none"
  /\ Write(j, "pending", retry[j] = "held")
  /\ retry' = [retry EXCEPT ![j] = "none"]
  /\ run' = [run EXCEPT !.finished = FALSE]
  /\ UNCHANGED <<passes, changes, failures>>

\* retryRun (the import's Retry): its caller holds the run's row from before it reads the holds until
\* the commit, so that the whole transaction is one step.  Which failed and blocked jobs come back
\* depends on their keys and parents; setup may then write other holds in the same transaction.
RetryRun(back, h) ==
  /\ run.activated
  /\ back # {} /\ \A j \in back : job[j].state \in {"failed", "blocked"} /\ retry[j] = "none"
  /\ h # run.holds => changes < MaxChanges
  /\ job' = [j \in Jobs |-> IF j \in back THEN [job[j] EXCEPT !.state = "pending", !.held = StageHeld(run.holds, j)]
                                         ELSE job[j]]
  /\ run' = IF h = run.holds THEN [run EXCEPT !.finished = FALSE]
            ELSE [run EXCEPT !.finished = FALSE, !.holds = h, !.dirty = TRUE, !.cursor = 0]
  /\ changes' = IF h = run.holds THEN changes ELSE changes + 1
  /\ PassesAged(h)
  /\ UNCHANGED <<retry, failures>>

\* cancel: Empty (which keeps held jobs), Clear of failed and blocked jobs, or the removal of one
\* item; what waits for the job is blocked.
Cancel(j, children) ==
  /\ job[j].state \in {"pending", "failed", "blocked"} /\ retry[j] = "none"
  /\ Settled(j, "ended", children)
  /\ UNCHANGED <<run, retry, passes, changes, failures>>

\* finishRuns: the statement that stamps an enumerated run checks its live work again.
FinishRun ==
  /\ ~run.finished
  /\ ~LiveWork
  /\ run' = [run EXCEPT !.finished = TRUE]
  /\ UNCHANGED <<job, retry, passes, changes, failures>>

-----------------------------------------------------------------------------
RunStep ==
  \/ \E h \in Descriptors : SetRunHolds(h)
  \/ ReleaseRun
  \/ \E manager \in BOOLEAN : Activate(manager)
  \/ FinishRun
  \/ \E back \in SUBSET Jobs, h \in Descriptors \cup {run.holds} : RetryRun(back, h)

PassStep(c) == ReadDirty(c) \/ ApplyPage(c) \/ RecordPage(c) \/ FailPass(c)

JobStep(j) ==
  \/ Enqueue(j) \/ Claim(j) \/ Complete(j) \/ TryAgain(j) \/ RetryFailed(j) \/ CommitRetry(j)
  \/ \E children \in SUBSET Jobs : FailJob(j, children) \/ Cancel(j, children)
  \/ \E parent \in Jobs : EnqueueChild(parent, j)

Next ==
  \/ RunStep
  \/ \E c \in Coordinators : PassStep(c)
  \/ \E j \in Jobs : JobStep(j)

Spec == Init /\ [][Next]_vars

\* The coordinator ticks every few seconds, and its statements end: a pass goes on, ready work is claimed.
FairSpec ==
  /\ Spec
  /\ \A c \in Coordinators : WF_vars(ReadDirty(c) \/ ApplyPage(c) \/ RecordPage(c))
  /\ \A j \in Jobs : WF_vars(Claim(j))

-----------------------------------------------------------------------------
(* Properties *)

\* Every waiting job that never ran is held exactly when its stage is.
AllApplied ==
  \A j \in Jobs : job[j].state = "pending" /\ job[j].fresh => (job[j].held <=> StageHeld(run.holds, j))

\* Once a pass has marked the run clean, all is applied, whatever was enqueued, re-armed, blocked
\* or put back by a retry under it, whatever passes were forgotten, and however often the
\* descriptor changed: unless an old pass, of another coordinator or of a descriptor that has
\* come back, wrote its page or its record among those of the present one.
AppliedWhenClean == ~run.dirty /\ ~overtaken => AllApplied

\* store.ts:1038, "Written only while the descriptor is the one this page applied; a newer one
\* starts its own pass": no exception for passes that were overtaken.
AppliedAlways == ~run.dirty => AllApplied

\* Nothing of an import runs before its journal is activated: preparation, re-armed stages,
\* releases and the passes of the coordinator all leave its jobs out of a claim's reach.
ImportWaits == ~run.activated => \A j \in Jobs : job[j].fresh /\ job[j].state \notin {"active", "failed"}

\* Work that never ran does not wait for ever with its stage released, unless an old pass was in
\* the way.
ReleasedWorkRuns ==
  \A j \in Jobs :
    []<>(job[j].state = "pending" /\ job[j].fresh => StageHeld(run.holds, j) \/ overtaken)

\* store.ts:66, "its jobs are inserted or retried held": with the holds applied, no
\* job of a held stage is claimed.
RetriedHeld ==
  [][\A j \in Jobs : Claim(j) => run.dirty \/ ~StageHeld(run.holds, j)]_vars

\* store.ts:167, "a concurrent setRunHolds cannot be overwritten by an older view":
\* with the holds applied, a job waits at infinity only while its stage is held.
HeldHasHold ==
  ~run.dirty =>
    \A j \in Jobs : job[j].state = "pending" /\ job[j].held => StageHeld(run.holds, j)

\* store.ts:162, "the caller's own live run cannot finish under it": a run with a running
\* job, whose children are enqueued without reopening it, is open.
LiveRunOpen == (\E j \in Jobs : job[j].state = "active") => ~run.finished

-----------------------------------------------------------------------------
(* The inductive invariant *)

\* The waiting, never run jobs up to a place are held as a descriptor says.
AppliedUpTo(place, holds) ==
  \A j \in Jobs : j <= place /\ job[j].state = "pending" /\ job[j].fresh =>
                    (job[j].held <=> StageHeld(holds, j))

\* A pass that is not old was read under the present descriptor.
PassPresent(c) == pass[c].at # "idle" /\ ~pass[c].old => pass[c].holds = run.holds

\* It has all of it applied up to its cursor, and, when it is the last page, all of it.
PassTrue(c) ==
  pass[c].at # "idle" /\ ~pass[c].old =>
    /\ AppliedUpTo(pass[c].cursor, run.holds)
    /\ pass[c].at = "paged" /\ pass[c].done => AppliedUpTo(LastJob, run.holds)

\* An import that waits has its first descriptor, and everything of it is held.
Waiting ==
  ~run.activated =>
    /\ run.holds = SetupHolds
    /\ ~run.dirty
    /\ run.cursor = 0
    /\ \A c \in Coordinators : pass[c].at = "idle"
    /\ \A j \in Jobs : /\ job[j].fresh /\ job[j].state \notin {"active", "failed"}
                       /\ job[j].state = "pending" => job[j].held
                       /\ retry[j] = "none"

RetryOwned == \A j \in Jobs : retry[j] # "none" => job[j].state = "failed" /\ ~job[j].fresh

Ran == \A j \in Jobs : job[j].state \in {"active", "failed"} => ~job[j].fresh

IInv ==
  /\ TypeOK
  /\ AppliedWhenClean
  /\ \A c \in Coordinators : PassPresent(c)
  /\ ~overtaken => AppliedUpTo(run.cursor, run.holds) /\ \A c \in Coordinators : PassTrue(c)
  /\ Waiting
  /\ RetryOwned
  /\ Ran
=============================================================================
