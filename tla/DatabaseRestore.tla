-------------------------- MODULE DatabaseRestore --------------------------
(***************************************************************************)
(* Restoring a database backup in maintenance mode:                         *)
(* DatabaseBackupService.restoreDatabaseBackup                              *)
(* (server/src/services/database-backup.service.ts), its caller             *)
(* MaintenanceWorkerService (server/src/maintenance/                        *)
(* maintenance-worker.service.ts) and what it does to the job queue,        *)
(* resetQueueAfterRestore (server/src/queue/store.ts).                      *)
(*                                                                         *)
(* A dump is a copy of the database at some earlier time.  Jobs it holds as *)
(* waiting or running may since have run, so that what the restored rows    *)
(* say is not what the executors did: began counts what they did.  That the *)
(* server is in maintenance is itself a row of the database that is being   *)
(* replaced.                                                               *)
(***************************************************************************)
EXTENDS Integers, FiniteSets

CONSTANTS Jobs, Kind,     \* Kind[j]: what job j is
          MaxAttempts,    \* bound: claims of one row
          NoRows          \* no dump, no restore point

\* oldBackup: a database backup that an older server recorded as unsafe to retry.
Kinds == {"repeatable", "unsafe", "operation", "backup", "oldBackup"}

ASSUME ConstantsAssumption == /\ Kind \in [Jobs -> Kinds] /\ MaxAttempts \in Nat \ {0}

VARIABLES row,       \* job rows of the current database
          maint,     \* system_metadata maintenance-mode of the current database
          phase,     \* what the server does
          dump,      \* the backup file
          point,     \* the restore point, a dump of the database to be replaced
          found,     \* history: what a restore that has not succeeded found
          began,     \* history: executions begun since the job was requested
          again,     \* history: jobs executed although their request was over
          unreset    \* history: a restore that went wrong left a dump whose jobs were not reset

vars == <<row, maint, phase, dump, point, found, began, again, unreset>>

States == {"absent", "pending", "active", "completed", "failed", "cancelled", "needs_attention"}
\* serving: workers run.  The others are steps of the maintenance worker, or down.  refused and
\* unhealthy: the loaded dump is to be rolled back, before or after its reset.  incomplete: it
\* could not be ("The database may be incomplete; restore it by hand").
Loaded == {"loaded", "reset", "refused", "unhealthy", "incomplete"}
Phases == {"serving", "down", "idle", "accepted", "saved", "checked"} \cup Loaded

\* unproven: attempts whose executor's stop is not on record.  over: history, the request is
\* over: a person asked to stop it, or it is the backup that made the dump it is read from.
Row == [state : States, attempt : 0..MaxAttempts, base : 0..MaxAttempts,
        cancel : {"none", "deadline", "request"}, safe : BOOLEAN,
        unproven : SUBSET (1..MaxAttempts), over : BOOLEAN]
Rows == [Jobs -> Row]

TypeOK ==
    /\ row \in Rows /\ maint \in BOOLEAN /\ phase \in Phases
    /\ {dump, point, found} \subseteq Rows \cup {NoRows}
    /\ began \in [Jobs -> 0..2] /\ again \subseteq Jobs /\ unreset \in {"no", "left", "served"}
    /\ \A j \in Jobs : row[j].state = "active" => row[j].attempt \in 1..row[j].base + 2
    /\ phase \in {"reset", "unhealthy", "checked"} => \A j \in Jobs : row[j].state # "active"

AbsentRow == [state |-> "absent", attempt |-> 0, base |-> 0, cancel |-> "none",
              safe |-> FALSE, unproven |-> {}, over |-> FALSE]

Init == /\ row = [j \in Jobs |-> AbsentRow]
        /\ maint = FALSE /\ phase = "serving"
        /\ dump = NoRows /\ point = NoRows /\ found = NoRows
        /\ began = [j \in Jobs |-> 0] /\ again = {} /\ unreset = "no"

-----------------------------------------------------------------------------
(* The queue, as far as a restore meets it. *)

IsBackup(j) == Kind[j] \in {"backup", "oldBackup"}
Cancelled(rw) == rw.cancel = "request"
RetryAvailable(rw) == rw.attempt < rw.base + 2

Serving == phase = "serving"
Rewrite(j, rw) == /\ Serving
                  /\ row' = [row EXCEPT ![j] = rw]
                  /\ UNCHANGED <<maint, phase, dump, point, found, unreset>>

Request(j) ==
    /\ row[j].state = "absent"
    /\ Rewrite(j, [AbsentRow EXCEPT !.state = "pending", !.safe = Kind[j] \in {"repeatable", "backup"}])
    /\ began' = [began EXCEPT ![j] = 0] /\ again' = again \ {j}

Claim(j) ==
    LET a == row[j].attempt + 1
    IN  /\ row[j].state = "pending" /\ ~Cancelled(row[j]) /\ a <= MaxAttempts
        /\ Rewrite(j, [row[j] EXCEPT !.state = "active", !.attempt = a, !.cancel = "none",
                                     !.unproven = @ \cup {a}])
        /\ began' = [began EXCEPT ![j] = IF @ = 2 THEN 2 ELSE @ + 1]
        /\ again' = IF row[j].over THEN again \cup {j} ELSE again

Complete(j) ==
    /\ row[j].state = "active" /\ row[j].cancel = "none"
    /\ Rewrite(j, [row[j] EXCEPT !.state = "completed", !.unproven = @ \ {row[j].attempt}])
    /\ UNCHANGED <<began, again>>

FailState(j, unconfirmed) ==
    LET rw == row[j]
    IN  IF unconfirmed /\ (Cancelled(rw) \/ ~rw.safe \/ Kind[j] = "operation") THEN "needs_attention"
        ELSE IF Cancelled(rw) THEN "cancelled"
        ELSE IF ~rw.safe THEN "needs_attention"
        ELSE IF RetryAvailable(rw) THEN "pending" ELSE "failed"

\* fail() once the handler has returned, or recovery of a claim whose lease expired; the
\* stop of the executor is on record or not.
Fail(j, unconfirmed) ==
    /\ row[j].state = "active"
    /\ Rewrite(j, [row[j] EXCEPT !.state = FailState(j, unconfirmed),
                                 !.unproven = IF unconfirmed THEN @ ELSE @ \ {row[j].attempt}])
    /\ UNCHANGED <<began, again>>

\* Cancellation of a waiting job asks the same question of every attempt it had.
CancelQueued(j) ==
    /\ row[j].state = "pending" /\ Cancelled(row[j])
    /\ Rewrite(j, [row[j] EXCEPT !.state = FailState(j, row[j].unproven # {})])
    /\ UNCHANGED <<began, again>>

\* The supervisor's proof of a worker's stop arrives.
Prove(j) ==
    /\ row[j].state # "active" /\ row[j].unproven # {}
    /\ Rewrite(j, [row[j] EXCEPT !.unproven = {}])
    /\ UNCHANGED <<began, again>>

\* A deadline passes, or a person asks for the stop (rows of earlier releases carry that).
Stop(j, reason) ==
    /\ row[j].state \in {"pending", "active"} /\ row[j].cancel = "none"
    /\ reason = "deadline" => row[j].state = "active"
    /\ Rewrite(j, [row[j] EXCEPT !.cancel = reason, !.over = @ \/ reason = "request"])
    /\ UNCHANGED <<began, again>>

\* retryFailed(): a person's decision.
Retry(j) ==
    /\ row[j].state = "failed" /\ row[j].safe
    /\ Rewrite(j, [row[j] EXCEPT !.state = "pending", !.base = row[j].attempt, !.over = FALSE])
    /\ UNCHANGED <<began, again>>

-----------------------------------------------------------------------------
(* resetQueueAfterRestore: what becomes of one restored row. *)

Repeatable(j, rw) == (rw.safe \/ IsBackup(j)) /\ Kind[j] # "operation"
\* Mutant: a backup is classified like any other job.
DiscardBackupNever(j, rw) == rw.state = "active" /\ IsBackup(j) /\ ~Repeatable(j, rw)
DiscardBackup(j, rw) == rw.state = "active" /\ IsBackup(j)

\* Mutant: waiting rows are taken as they are.
TouchedActive(j, rw) == rw.state = "active" \/ (rw.state = "pending" /\ Cancelled(rw))
Touched(j, rw) == \/ rw.state = "active"
                  \/ rw.state = "pending" /\ (~rw.safe \/ Kind[j] = "operation" \/ Cancelled(rw))

ResetState(j, rw) ==
    IF DiscardBackup(j, rw) THEN "cancelled"
    ELSE IF Cancelled(rw) THEN IF rw.unproven = {} THEN "cancelled" ELSE "needs_attention"
    ELSE IF Repeatable(j, rw) /\ RetryAvailable(rw) THEN "pending" ELSE "needs_attention"

ResetRow(j, rw) ==
    IF Touched(j, rw)
    THEN [rw EXCEPT !.state = ResetState(j, rw), !.cancel = "none", !.safe = Repeatable(j, rw)]
    ELSE rw

-----------------------------------------------------------------------------
(* The restore. *)

Step(from, to) == phase \in from /\ phase' = to
History == <<began, again, unreset>>

\* createDatabaseBackup, as the backup job or on request: one consistent snapshot.
TakeDump == /\ Serving
            /\ dump' = [j \in Jobs |-> IF row[j].state = "active" /\ IsBackup(j)
                                      THEN [row[j] EXCEPT !.over = TRUE] ELSE row[j]]
            /\ UNCHANGED <<row, maint, phase, point, found, History>>

\* startMaintenance and the restart it asks for: the workers and what they ran have ended.
EnterMaintenance ==
    /\ Step({"serving"}, "down") /\ maint' = TRUE
    /\ UNCHANGED <<row, dump, point, found, History>>

\* The supervisor asks the database which workers to start: the maintenance worker ...
BootMaintenance ==
    /\ maint /\ Step({"down"}, "idle")
    /\ UNCHANGED <<row, maint, dump, point, found, History>>

\* ... or all of them, which go to work on the rows there are.
BootServer ==
    /\ ~maint /\ Step({"down"}, "serving")
    /\ point' = NoRows /\ found' = NoRows
    /\ unreset' = IF unreset = "left" THEN "served" ELSE unreset
    /\ UNCHANGED <<row, maint, dump, began, again>>

\* claimAction and runRestoreDatabase: the stored action becomes a plain Start.  A restore may
\* follow one that failed.
Accept == /\ Step({"idle", "incomplete"}, "accepted") /\ dump # NoRows
          /\ maint' = TRUE /\ found' = row /\ point' = NoRows
          /\ UNCHANGED <<row, dump, History>>

\* Mutant: a second failure of the safety copy is logged and the restore goes on.
SavePointSkipped == /\ Step({"accepted"}, "saved") /\ point' \in {row, NoRows}
                    /\ UNCHANGED <<row, maint, dump, found, History>>
\* createRestorePoint: the restore goes on with the safety copy or not at all.
SavePoint == /\ Step({"accepted"}, "saved") /\ point' = row
             /\ UNCHANGED <<row, maint, dump, found, History>>

\* psql loads the dump in one transaction.  The dump was made while the server was open.
Load == /\ Step({"saved"}, "loaded") /\ row' = dump /\ maint' = FALSE
        /\ UNCHANGED <<dump, point, found, History>>

\* The restore point could not be made, or psql failed: nothing has changed.
Refuse == /\ Step({"accepted", "saved"}, "idle")
          /\ UNCHANGED <<row, maint, dump, point, found, History>>

\* resetTransientExecutionState, once the migrations have run.
Reset == /\ Step({"loaded"}, "reset") /\ row' = [j \in Jobs |-> ResetRow(j, row[j])]
         /\ UNCHANGED <<maint, dump, point, found, History>>

\* An administrator exists and the API starts: the restore has succeeded.
Check == /\ Step({"reset"}, "checked")
         /\ found' = NoRows /\ unreset' = IF unreset = "left" THEN "no" ELSE unreset
         /\ UNCHANGED <<row, maint, dump, point, began, again>>

\* Migration, reset or health check failed ...
CheckFailed == /\ \/ Step({"loaded"}, "refused") \/ Step({"reset"}, "unhealthy")
               /\ UNCHANGED <<row, maint, dump, point, found, History>>

\* ... and the restore point is loaded again, with the maintenance it was made in, ...
Rollback == /\ Step({"refused", "unhealthy"}, "idle") /\ row' = point /\ maint' = TRUE
            /\ UNCHANGED <<dump, point, found, History>>

\* What a restore that ends here leaves behind.
Left == unreset' = IF phase \in {"loaded", "refused"} /\ unreset = "no" THEN "left" ELSE unreset

\* ... or not: psql refuses it, whole, which is logged; or the maintenance lock is lost and the
\* rollback is not tried.
RollbackFails == /\ Step({"refused", "unhealthy"}, "incomplete") /\ Left
                 /\ UNCHANGED <<row, maint, dump, point, found, began, again>>

\* End, after a restore, whether it went well or not, or instead of one.
End == /\ Step({"checked", "idle", "incomplete"}, "down") /\ maint' = FALSE
       /\ UNCHANGED <<row, dump, point, found, History>>

\* The End that should follow a restore fails: the lock is lost or the mode cannot be stored.
EndFails == /\ Step({"checked"}, "idle")
            /\ UNCHANGED <<row, maint, dump, point, found, History>>

\* The maintenance process ends (a crash, a container that is replaced).  The restore point is
\* a file and stays.
Crash == /\ Step(Phases \ {"serving", "down"}, "down") /\ Left
         /\ UNCHANGED <<row, maint, dump, point, found, began, again>>

Next ==
    \/ \E j \in Jobs : \/ Request(j) \/ Claim(j) \/ Complete(j) \/ CancelQueued(j) \/ Prove(j) \/ Retry(j)
                       \/ \E u \in BOOLEAN : Fail(j, u)
                       \/ \E r \in {"deadline", "request"} : Stop(j, r)
    \/ TakeDump \/ EnterMaintenance \/ BootMaintenance \/ BootServer \/ Accept \/ SavePoint \/ Load
    \/ Refuse \/ Reset \/ Check \/ CheckFailed \/ Rollback \/ RollbackFails \/ End \/ EndFails \/ Crash

Spec == Init /\ [][Next]_vars

-----------------------------------------------------------------------------
(* Properties. *)

\* docs/docs/administration/backup-and-restore.md: a restore does not repeat a remote
\* effect.  Work that may not be repeated begins once per request, although the restored
\* rows know nothing of what ran after the dump ...
RepeatsNothing == \A j \in Jobs : Kind[j] \in {"unsafe", "operation"} => began[j] <= 1

\* ... unless the server opened on a dump that was loaded and not reset: its process ended
\* between the two, or the reset failed and so did the rollback, and End or a crash followed.
UnsafeOnce == unreset = "served" \/ RepeatsNothing

\* Neither recovery nor a restore turns a request that is over into a retry: what a person
\* asked to stop does not run again, and a restored dump does not repeat the backup that
\* made it, with the same exception.
OverIsOver == unreset = "served" \/ again = {}

\* A restore that was refused or rolled back leaves the jobs as it found them.  One that went
\* wrong in any way, a failed rollback and a crash at any step included, has not lost them:
\* until the server opens again, the database or the restore point holds them.
FailedRestoreUndone == /\ phase = "idle" /\ found # NoRows => row = found
                       /\ found # NoRows => found \in {row, point}

\* The rows are rows of the job table throughout, and a failure loses none.
RestoreInv == TypeOK /\ FailedRestoreUndone
=============================================================================
