------------------------ MODULE DatabaseRestoreProofs ------------------------
(***************************************************************************)
(* Proofs about DatabaseRestore, for every set of jobs of every kind and   *)
(* every bound on the claims.  The maintenance process may end at any step *)
(* and a rollback may fail: what the database and the restore point hold   *)
(* then is Copies; that a restore repeats nothing is proved as long as the *)
(* server has not opened on a dump that was left without its reset         *)
(* (unreset), by following what each copy of the rows knows (Timeline).    *)
(***************************************************************************)
EXTENDS DatabaseRestore, TLAPS

\* A row with its attempts in order: one that waits has a retry left, one that runs has had one.
Fits(rw) ==
  /\ rw \in Row
  /\ rw.state = "active" => rw.attempt >= 1 /\ rw.attempt <= rw.base + 2
  /\ rw.state = "pending" => RetryAvailable(rw)

\* Every copy of the rows is of that shape, and what a restore has found is still there: in
\* the database before the load and after a rollback, in the restore point in between, also
\* while the server is down, and then the loaded dump says that it was open.
Copies ==
  /\ \A j \in Jobs : Fits(row[j])
  /\ dump # NoRows => dump \in Rows /\ \A j \in Jobs : Fits(dump[j])
  /\ phase \in {"saved"} \cup Loaded => point = found /\ point \in Rows /\ \A j \in Jobs : Fits(point[j])
  /\ phase \in Loaded => ~maint
  /\ phase \in {"accepted", "saved"} => found = row /\ dump # NoRows
  /\ phase \in {"serving", "checked"} => found = NoRows
  /\ phase = "down" /\ found # NoRows => row = found \/ (point = found /\ ~maint)

Shape == RestoreInv /\ Copies

Unrepeatable(j) == Kind[j] \in {"unsafe", "operation"}

\* What every copy of a row knows, however old: what is recorded as safe may be repeated, and
\* a request that is over does not wait without a cancellation.
Honest(j, rw) ==
  /\ rw.safe => ~Unrepeatable(j)
  /\ rw.over /\ rw.state = "pending" => Cancelled(rw)
  /\ rw.over /\ rw.state = "active" => Cancelled(rw) \/ IsBackup(j)

\* What only the rows of the database that workers use, or will use again, know.
Current(j, rw) ==
  /\ Honest(j, rw)
  /\ rw.over /\ rw.state = "active" => Cancelled(rw)
  /\ Unrepeatable(j) /\ rw.state = "pending" => began[j] = 0

\* A loaded dump is not current until it has been reset, and one that was left so not before a
\* later restore.
Timeline ==
  /\ \A j \in Jobs : Honest(j, row[j])
  /\ phase \in {"reset", "checked"} => \A j \in Jobs : Current(j, row[j])
  /\ phase \notin {"loaded", "refused"} /\ unreset = "no" => \A j \in Jobs : Current(j, row[j])
  /\ dump # NoRows => \A j \in Jobs : Honest(j, dump[j])
  /\ phase \in {"saved"} \cup Loaded => \A j \in Jobs : Honest(j, point[j])
  /\ phase \in {"saved"} \cup Loaded /\ unreset = "no" => \A j \in Jobs : Current(j, point[j])
  /\ phase = "serving" => unreset = "no"

Restored == Shape /\ (unreset # "served" => Timeline /\ RepeatsNothing /\ again = {})

QueueStep(j) ==
  \/ Request(j) \/ Claim(j) \/ Complete(j) \/ CancelQueued(j) \/ Prove(j) \/ Retry(j)
  \/ \E u \in BOOLEAN : Fail(j, u)
  \/ \E r \in {"deadline", "request"} : Stop(j, r)

RestoreStep ==
  \/ TakeDump \/ EnterMaintenance \/ BootMaintenance \/ BootServer \/ Accept \/ SavePoint \/ Load
  \/ Refuse \/ Reset \/ Check \/ CheckFailed \/ Rollback \/ RollbackFails \/ End \/ EndFails \/ Crash

LEMMA NextSteps == Next => (\E j \in Jobs : QueueStep(j)) \/ RestoreStep
BY DEF Next, QueueStep, RestoreStep

-----------------------------------------------------------------------------
(* One row. *)

\* Ending an attempt: whatever fail() decides, a row that waits again has a retry left.
LEMMA FailFits ==
  ASSUME NEW j \in Jobs, NEW u \in BOOLEAN, row[j] \in Row
  PROVE  /\ FailState(j, u) \in {"pending", "failed", "cancelled", "needs_attention"}
         /\ FailState(j, u) = "pending" => /\ RetryAvailable(row[j])
                                           /\ row[j].safe /\ ~Cancelled(row[j])
BY DEF FailState, Row

\* The fields of a row, for the provers.
LEMMA RowFields ==
  ASSUME NEW rw \in Row
  PROVE  /\ rw.state \in States /\ rw.attempt \in 0..MaxAttempts /\ rw.base \in 0..MaxAttempts
         /\ rw.cancel \in {"none", "deadline", "request"} /\ rw.safe \in BOOLEAN
         /\ rw.unproven \in SUBSET (1..MaxAttempts) /\ rw.over \in BOOLEAN
BY DEF Row

LEMMA AbsentFits == AbsentRow \in Row /\ Fits(AbsentRow)
BY ConstantsAssumption DEF AbsentRow, Fits, Row, States, RetryAvailable

\* Every step of the queue replaces one row by a row that fits.
LEMMA QueueFits ==
  ASSUME Shape, NEW j \in Jobs, QueueStep(j)
  PROVE  \E rw : Rewrite(j, rw) /\ Fits(rw) /\ began' \in [Jobs -> 0..2] /\ again' \subseteq Jobs
<1>0. /\ row[j] \in Row /\ Fits(row[j]) /\ began \in [Jobs -> 0..2] /\ again \subseteq Jobs
      /\ MaxAttempts \in Nat \ {0}
  BY ConstantsAssumption DEF Shape, Copies, RestoreInv, TypeOK, Rows
<1> USE RowFields DEF States
<1>1. CASE Request(j)
  <2> DEFINE s == Kind[j] \in {"repeatable", "backup"}
             rw == [AbsentRow EXCEPT !.state = "pending", !.safe = s]
  <2>1. Rewrite(j, rw)  BY <1>1 DEF Request
  <2>2. s \in BOOLEAN  OBVIOUS
  <2> HIDE DEF s
  <2>3. rw \in Row  BY <2>2, AbsentFits DEF Row
  <2>4. Fits(rw)  BY <2>3 DEF Fits, RetryAvailable, AbsentRow
  <2> QED  BY <1>0, <1>1, <2>1, <2>4 DEF Request
<1>2. CASE Claim(j)
  <2> DEFINE a == row[j].attempt + 1
             left == row[j].unproven \cup {a}
             rw == [row[j] EXCEPT !.state = "active", !.attempt = a, !.cancel = "none",
                                  !.unproven = left]
  <2>1. a \in 1..MaxAttempts /\ a <= row[j].base + 2
    BY <1>0, <1>2 DEF Claim, Fits, RetryAvailable
  <2>2. Rewrite(j, rw)  BY <1>2 DEF Claim
  <2>3. left \in SUBSET (1..MaxAttempts)  BY <1>0, <2>1
  <2>4. began' \in [Jobs -> 0..2]  BY <1>0, <1>2 DEF Claim
  <2> HIDE DEF a, left
  <2>5. rw \in Row
    <3>1. a \in 0..MaxAttempts  BY <1>0, <2>1
    <3> QED  BY <1>0, <2>3, <3>1 DEF Row
  <2>6. Fits(rw)  BY <1>0, <2>1, <2>5 DEF Fits, Row
  <2> QED  BY <1>0, <1>2, <2>2, <2>4, <2>6 DEF Claim
<1>3. CASE Complete(j)
  <2> DEFINE rw == [row[j] EXCEPT !.state = "completed", !.unproven = @ \ {row[j].attempt}]
  <2>1. rw \in Row  BY <1>0 DEF Row
  <2>2. Fits(rw)  BY <1>0, <2>1 DEF Fits, Row
  <2> QED  BY <1>0, <1>3, <2>2 DEF Complete
<1>4. CASE CancelQueued(j)
  <2> DEFINE s == FailState(j, row[j].unproven # {})
             rw == [row[j] EXCEPT !.state = s]
  <2>1. s \in {"pending", "failed", "cancelled", "needs_attention"} /\ s # "pending"
    BY <1>0, <1>4, FailFits DEF CancelQueued
  <2> HIDE DEF s
  <2>2. rw \in Row  BY <1>0, <2>1 DEF Row
  <2>3. Fits(rw)  BY <1>0, <2>1, <2>2 DEF Fits, Row
  <2> QED  BY <1>0, <1>4, <2>3 DEF CancelQueued, s
<1>5. CASE Prove(j)
  <2> DEFINE rw == [row[j] EXCEPT !.unproven = {}]
  <2>1. rw \in Row  BY <1>0 DEF Row
  <2>2. Fits(rw)  BY <1>0, <2>1 DEF Fits, Row, RetryAvailable
  <2> QED  BY <1>0, <1>5, <2>2 DEF Prove
<1>6. CASE Retry(j)
  <2> DEFINE rw == [row[j] EXCEPT !.state = "pending", !.base = row[j].attempt, !.over = FALSE]
  <2>1. rw \in Row  BY <1>0 DEF Row
  <2>2. Fits(rw)  BY <1>0, <2>1 DEF Fits, Row, RetryAvailable
  <2> QED  BY <1>0, <1>6, <2>2 DEF Retry
<1>7. ASSUME NEW u \in BOOLEAN, Fail(j, u)
      PROVE  \E rw : Rewrite(j, rw) /\ Fits(rw) /\ began' \in [Jobs -> 0..2] /\ again' \subseteq Jobs
  <2> DEFINE s == FailState(j, u)
             left == IF u THEN row[j].unproven ELSE row[j].unproven \ {row[j].attempt}
             rw == [row[j] EXCEPT !.state = s, !.unproven = left]
  <2>1. /\ s \in {"pending", "failed", "cancelled", "needs_attention"}
        /\ s = "pending" => RetryAvailable(row[j])
    BY <1>0, FailFits
  <2>2. left \in SUBSET (1..MaxAttempts)  BY <1>0
  <2>3. Rewrite(j, rw)  BY <1>7 DEF Fail
  <2> HIDE DEF s, left
  <2>4. rw \in Row  BY <1>0, <2>1, <2>2 DEF Row
  <2>5. Fits(rw)  BY <1>0, <2>1, <2>4 DEF Fits, Row, RetryAvailable
  <2> QED  BY <1>0, <1>7, <2>3, <2>5 DEF Fail
<1>8. ASSUME NEW r \in {"deadline", "request"}, Stop(j, r)
      PROVE  \E rw : Rewrite(j, rw) /\ Fits(rw) /\ began' \in [Jobs -> 0..2] /\ again' \subseteq Jobs
  <2> DEFINE o == row[j].over \/ r = "request"
             rw == [row[j] EXCEPT !.cancel = r, !.over = o]
  <2>1. Rewrite(j, rw)  BY <1>8 DEF Stop
  <2>2. o \in BOOLEAN  OBVIOUS
  <2> HIDE DEF o
  <2>3. rw \in Row  BY <1>0, <2>2 DEF Row
  <2>4. Fits(rw)  BY <1>0, <2>3 DEF Fits, Row, RetryAvailable
  <2> QED  BY <1>0, <1>8, <2>1, <2>4 DEF Stop
<1> QED  BY <1>1, <1>2, <1>3, <1>4, <1>5, <1>6, <1>7, <1>8 DEF QueueStep

\* What resetQueueAfterRestore leaves: no row that runs, and none that waits without a retry.
LEMMA ResetFits ==
  ASSUME NEW j \in Jobs, NEW rw, Fits(rw)
  PROVE  Fits(ResetRow(j, rw)) /\ ResetRow(j, rw).state # "active"
<1>0. rw \in Row  BY DEF Fits
<1>1. CASE Touched(j, rw)
  <2> DEFINE s == ResetState(j, rw)
             p == Repeatable(j, rw)
             nw == [rw EXCEPT !.state = s, !.cancel = "none", !.safe = p]
  <2>1. s \in {"cancelled", "needs_attention", "pending"} /\ (s = "pending" => RetryAvailable(rw))
    BY DEF ResetState
  <2>2. p \in BOOLEAN  BY <1>0, RowFields DEF Repeatable
  <2>3. ResetRow(j, rw) = nw  BY <1>1 DEF ResetRow
  <2> HIDE DEF s, p
  <2>4. nw \in Row  BY <1>0, <2>1, <2>2 DEF Row, States
  <2>5. Fits(nw)  BY <1>0, <2>1, <2>4 DEF Fits, Row, RetryAvailable
  <2> QED  BY <1>0, <2>1, <2>3, <2>5 DEF Row
<1>2. CASE ~Touched(j, rw)  BY <1>2 DEF ResetRow, Touched
<1> QED  BY <1>1, <1>2

-----------------------------------------------------------------------------
(* The rows are rows of the right table. *)

LEMMA RowsFit ==
  ASSUME NEW r, r \in [Jobs -> Row]  PROVE r \in Rows
BY DEF Rows

LEMMA InitShape == Init => Shape
<1> SUFFICES ASSUME Init PROVE Shape  OBVIOUS
<1>1. row \in Rows /\ \A j \in Jobs : Fits(row[j])  BY AbsentFits DEF Init, Rows
<1>2. \A j \in Jobs : row[j].state = "absent"  BY DEF Init, AbsentRow
<1>3. TypeOK
  <2>1. began \in [Jobs -> 0..2] /\ again \subseteq Jobs  BY DEF Init
  <2>2. /\ maint \in BOOLEAN /\ phase \in Phases /\ unreset \in {"no", "left", "served"}
        /\ dump = NoRows /\ point = NoRows /\ found = NoRows
    BY DEF Init, Phases
  <2>3. \A j \in Jobs : row[j].state # "active"  BY <1>2
  <2> QED  BY <1>1, <2>1, <2>2, <2>3 DEF TypeOK
<1> QED  BY <1>1, <1>3 DEF Init, Shape, RestoreInv, FailedRestoreUndone, Copies, Loaded

LEMMA QueueShape ==
  ASSUME Shape, NEW j \in Jobs, QueueStep(j)  PROVE Shape'
<1>1. PICK rw : Rewrite(j, rw) /\ Fits(rw) /\ began' \in [Jobs -> 0..2] /\ again' \subseteq Jobs
  BY QueueFits
<1>2. /\ row' = [row EXCEPT ![j] = rw] /\ phase = "serving" /\ phase' = phase
      /\ maint' = maint /\ dump' = dump /\ point' = point /\ found' = found /\ unreset' = unreset
  BY <1>1 DEF Rewrite, Serving
<1>3. row \in Rows /\ rw \in Row /\ \A k \in Jobs : Fits(row[k])
  BY <1>1 DEF Shape, Copies, RestoreInv, TypeOK, Fits
<1>4. row' \in Rows /\ \A k \in Jobs : Fits(row'[k])  BY <1>1, <1>2, <1>3 DEF Rows
<1>5. \A k \in Jobs : row'[k].state = "active" => row'[k].attempt \in 1..row'[k].base + 2
  BY <1>4, ConstantsAssumption DEF Fits, Row
<1>6. TypeOK'  BY <1>1, <1>2, <1>4, <1>5 DEF Shape, RestoreInv, TypeOK
<1>7. Copies'  BY <1>2, <1>4 DEF Shape, Copies, Fits, RetryAvailable, Loaded
<1> QED  BY <1>2, <1>6, <1>7 DEF Shape, RestoreInv, FailedRestoreUndone, Copies

\* The rows after a step of the restore that replaces them by rows that fit.
LEMMA RestoreShape == Shape /\ RestoreStep => Shape'
<1> SUFFICES ASSUME Shape, RestoreStep PROVE Shape'  OBVIOUS
<1>0. /\ TypeOK /\ FailedRestoreUndone /\ Copies /\ row \in Rows
  BY DEF Shape, RestoreInv, TypeOK
<1>1. /\ began' = began /\ again' = again /\ maint' \in BOOLEAN /\ phase' \in Phases
      /\ unreset' \in {"no", "left", "served"}
  BY <1>0 DEF RestoreStep, TakeDump, EnterMaintenance, BootMaintenance, BootServer, Accept, SavePoint,
              Load, Refuse, Reset, Check, CheckFailed, Rollback, RollbackFails, End, EndFails, Crash,
              Left, History, Step, TypeOK, Phases, Loaded
<1>2. /\ row' \in Rows /\ \A j \in Jobs : Fits(row'[j])
      /\ phase' \in {"reset", "unhealthy", "checked"} => \A j \in Jobs : row'[j].state # "active"
  <2>1. CASE Load
    <3>1. dump \in Rows /\ \A j \in Jobs : Fits(dump[j])
      BY <1>0, <2>1 DEF Load, Step, Copies
    <3> QED  BY <2>1, <3>1 DEF Load, Step
  <2>2. CASE Reset
    <3>1. \A j \in Jobs : Fits(ResetRow(j, row[j])) /\ ResetRow(j, row[j]).state # "active"
      BY <1>0, ResetFits DEF Copies
    <3>2. \A j \in Jobs : ResetRow(j, row[j]) \in Row  BY <3>1 DEF Fits
    <3> QED  BY <2>2, <3>1, <3>2 DEF Reset, Rows
  <2>3. CASE Rollback  BY <1>0, <2>3 DEF Rollback, Step, Copies, Loaded
  <2>4. CASE ~(Load \/ Reset \/ Rollback)
    <3>1. row' = row
      BY <2>4 DEF RestoreStep, TakeDump, EnterMaintenance, BootMaintenance, BootServer, Accept, SavePoint,
              Load, Refuse, Reset, Check, CheckFailed, Rollback, RollbackFails, End, EndFails, Crash
    <3>2. phase' \in {"reset", "unhealthy", "checked"} => phase \in {"reset", "unhealthy", "checked"}
      BY <2>4 DEF RestoreStep, TakeDump, EnterMaintenance, BootMaintenance, BootServer, Accept, SavePoint,
              Load, Refuse, Reset, Check, CheckFailed, Rollback, RollbackFails, End, EndFails, Crash, Step, Serving
    <3>3. row' \in Rows /\ \A j \in Jobs : Fits(row'[j])  BY <1>0, <3>1 DEF Copies
    <3> QED  BY <1>0, <3>1, <3>2, <3>3 DEF TypeOK
  <2> QED  BY <2>1, <2>2, <2>3, <2>4
<1>3. \A j \in Jobs : row'[j].state = "active" => row'[j].attempt \in 1..row'[j].base + 2
  BY <1>2, ConstantsAssumption DEF Fits, Row
<1>4. dump' \in Rows \cup {NoRows} /\ (dump' # NoRows => dump' \in Rows /\ \A j \in Jobs : Fits(dump'[j]))
  <2>1. CASE TakeDump
    <3>1. \A j \in Jobs : Fits([row[j] EXCEPT !.over = TRUE]) /\ [row[j] EXCEPT !.over = TRUE] \in Row
      <4> SUFFICES ASSUME NEW j \in Jobs
                   PROVE  Fits([row[j] EXCEPT !.over = TRUE]) /\ [row[j] EXCEPT !.over = TRUE] \in Row
        OBVIOUS
      <4>1. row[j] \in Row /\ Fits(row[j])  BY <1>0 DEF Copies, Rows
      <4>2. [row[j] EXCEPT !.over = TRUE] \in Row  BY <4>1 DEF Row
      <4> QED  BY <4>1, <4>2 DEF Fits, Row, RetryAvailable
    <3>2. \A j \in Jobs : Fits(row[j]) /\ row[j] \in Row  BY <1>0 DEF Copies, Rows
    <3>3. /\ dump' \in [Jobs -> Row] /\ \A j \in Jobs : Fits(dump'[j])
      BY <2>1, <3>1, <3>2 DEF TakeDump
    <3> QED  BY <3>3 DEF Rows
  <2>2. CASE ~TakeDump
    <3>1. dump' = dump
      BY <2>2 DEF RestoreStep, TakeDump, EnterMaintenance, BootMaintenance, BootServer, Accept, SavePoint,
              Load, Refuse, Reset, Check, CheckFailed, Rollback, RollbackFails, End, EndFails, Crash
    <3> QED  BY <1>0, <3>1 DEF TypeOK, Copies
  <2> QED  BY <2>1, <2>2
<1>5. {point', found'} \subseteq Rows \cup {NoRows}
  <2>1. CASE Accept \/ SavePoint \/ Check \/ BootServer
    BY <1>0, <2>1 DEF Accept, SavePoint, Check, BootServer, TypeOK
  <2>2. CASE ~(Accept \/ SavePoint \/ Check \/ BootServer)
    <3>1. point' = point /\ found' = found
      BY <2>2 DEF RestoreStep, TakeDump, EnterMaintenance, BootMaintenance, Load, Refuse, Reset,
                  CheckFailed, Rollback, RollbackFails, End, EndFails, Crash
    <3> QED  BY <1>0, <3>1 DEF TypeOK
  <2> QED  BY <2>1, <2>2
\* Where what the restore found is, one step on.
<1>6. /\ phase' \in {"saved"} \cup Loaded =>
           point' = found' /\ point' \in Rows /\ \A j \in Jobs : Fits(point'[j])
      /\ phase' \in Loaded => ~maint'
      /\ phase' \in {"accepted", "saved"} => found' = row' /\ dump' # NoRows
      /\ phase' \in {"serving", "checked"} => found' = NoRows
      /\ phase' = "down" /\ found' # NoRows => row' = found' \/ (point' = found' /\ ~maint')
      /\ phase' = "idle" /\ found' # NoRows => row' = found'
  <2>1. CASE TakeDump \/ EnterMaintenance \/ BootServer
    BY <1>0, <2>1 DEF TakeDump, EnterMaintenance, BootServer, Step, Serving, Copies, Loaded
  <2>2. CASE BootMaintenance  BY <1>0, <2>2 DEF BootMaintenance, Step, Copies, Loaded
  <2>3. CASE Accept  BY <2>3 DEF Accept, Step, Loaded
  <2>4. CASE SavePoint  BY <1>0, <2>4 DEF SavePoint, Step, Copies, Loaded
  <2>5. CASE Load \/ Reset \/ CheckFailed \/ RollbackFails
    BY <1>0, <2>5 DEF Load, Reset, CheckFailed, RollbackFails, Step, Copies, Loaded
  <2>6. CASE Refuse \/ Rollback
    BY <1>0, <2>6 DEF Refuse, Rollback, Step, Copies, Loaded
  <2>7. CASE Check \/ EndFails  BY <1>0, <2>7 DEF Check, EndFails, Step, Copies, Loaded
  <2>8. CASE End
    BY <1>0, <2>8 DEF End, Step, Copies, Loaded, FailedRestoreUndone
  <2>9. CASE Crash
    BY <1>0, <2>9 DEF Crash, Step, Copies, Loaded, Phases, TypeOK, FailedRestoreUndone
  <2> QED  BY <2>1, <2>2, <2>3, <2>4, <2>5, <2>6, <2>7, <2>8, <2>9 DEF RestoreStep
<1>7. TypeOK'
  <2>1. {dump', point', found'} \subseteq Rows \cup {NoRows}  BY <1>4, <1>5
  <2>2. again' \subseteq Jobs /\ began' \in [Jobs -> 0..2]  BY <1>0, <1>1 DEF TypeOK
  <2> QED  BY <1>1, <1>2, <1>3, <2>1, <2>2 DEF TypeOK
<1>8. Copies'  BY <1>2, <1>4, <1>6 DEF Copies, Fits, RetryAvailable, Loaded
<1>9. FailedRestoreUndone'
  <2>1. phase' \in Phases  BY <1>1
  <2> QED  BY <1>6, <2>1 DEF FailedRestoreUndone, Phases, Loaded
<1> QED  BY <1>7, <1>8, <1>9 DEF Shape, RestoreInv

LEMMA StutterShape == Shape /\ UNCHANGED vars => Shape'
BY DEF vars, Shape, RestoreInv, TypeOK, FailedRestoreUndone, Copies, Fits, RetryAvailable, Loaded

\* Whatever was dumped, loaded, refused, rolled back or interrupted at any step, and also when
\* the rollback fails, the database holds well-formed job rows, none that still claims to run
\* once the reset is done, and the rows a restore found are not lost until it has succeeded or
\* the server opens again: the database holds them after a refusal or a rollback, and
\* otherwise it or the restore point does (restoreDatabaseBackup).
THEOREM RestoreSafe == Spec => []RestoreInv
<1>1. Shape /\ [Next]_vars => Shape'
  BY NextSteps, QueueShape, RestoreShape, StutterShape
<1>2. Shape => RestoreInv  BY DEF Shape
<1> QED  BY InitShape, <1>1, <1>2, PTL DEF Spec

-----------------------------------------------------------------------------
(* A restore repeats nothing. *)

LEMMA InitRestored == Init => Restored
<1> SUFFICES ASSUME Init PROVE Restored  OBVIOUS
<1>1. \A j \in Jobs : Current(j, row[j]) /\ Honest(j, row[j])
  BY DEF Init, Current, Honest, AbsentRow
<1>2. Timeline  BY <1>1 DEF Init, Timeline, Loaded
<1>3. RepeatsNothing /\ again = {}  BY DEF Init, RepeatsNothing
<1> QED  BY <1>2, <1>3, InitShape DEF Restored

\* A row that is current where began has the value b.
CurrentWith(j, rw, b) ==
  /\ Honest(j, rw)
  /\ rw.over /\ rw.state = "active" => Cancelled(rw)
  /\ Unrepeatable(j) /\ rw.state = "pending" => b = 0

LEMMA CurrentIs == ASSUME NEW j, NEW rw PROVE Current(j, rw) <=> CurrentWith(j, rw, began[j])
BY DEF Current, CurrentWith

\* Every step of the queue writes a row that is current afterwards, and starts neither work
\* that began before nor a request that is over.
LEMMA QueueCurrent ==
  ASSUME Restored, unreset # "served", NEW j \in Jobs, QueueStep(j)
  PROVE  /\ \E rw : row' = [row EXCEPT ![j] = rw] /\ CurrentWith(j, rw, began'[j])
         /\ \A k \in Jobs \ {j} : began'[k] = began[k]
         /\ Unrepeatable(j) => began'[j] <= 1
         /\ again' = {}
<1>0. /\ row \in Rows /\ row[j] \in Row /\ Fits(row[j]) /\ began \in [Jobs -> 0..2] /\ again = {}
      /\ RepeatsNothing
  BY DEF Restored, Shape, Copies, RestoreInv, TypeOK, Rows
<1>1. phase = "serving"
  BY DEF QueueStep, Request, Claim, Complete, CancelQueued, Prove, Retry, Fail, Stop, Rewrite, Serving
<1>2. /\ row[j].safe => ~Unrepeatable(j)
      /\ row[j].over /\ row[j].state \in {"pending", "active"} => Cancelled(row[j])
      /\ Unrepeatable(j) /\ row[j].state = "pending" => began[j] = 0
  BY <1>1 DEF Restored, Timeline, Current, Honest
<1> USE RowFields DEF States
<1>3. CASE Request(j)
  <2> DEFINE s == Kind[j] \in {"repeatable", "backup"}
             rw == [AbsentRow EXCEPT !.state = "pending", !.safe = s]
  <2>1. row' = [row EXCEPT ![j] = rw]  BY <1>3 DEF Request, Rewrite
  <2>2. s => ~Unrepeatable(j)  BY DEF Unrepeatable
  <2>3. rw.state = "pending" /\ rw.safe = s /\ rw.over = FALSE  BY DEF AbsentRow
  <2>4. began' = [began EXCEPT ![j] = 0] /\ again' = {}  BY <1>0, <1>3 DEF Request
  <2>5. began'[j] = 0 /\ \A k \in Jobs \ {j} : began'[k] = began[k]  BY <1>0, <2>4
  <2>6. rw.safe => ~Unrepeatable(j)  BY <2>2, <2>3
  <2> HIDE DEF rw
  <2>7. CurrentWith(j, rw, began'[j])  BY <2>3, <2>5, <2>6 DEF CurrentWith, Honest
  <2>8. Unrepeatable(j) => began'[j] <= 1  BY <2>5
  <2> QED  BY <2>1, <2>4, <2>5, <2>7, <2>8
<1>4. CASE Claim(j)
  <2> DEFINE a == row[j].attempt + 1
             rw == [row[j] EXCEPT !.state = "active", !.attempt = a, !.cancel = "none",
                                  !.unproven = @ \cup {a}]
  <2>1. row' = [row EXCEPT ![j] = rw]  BY <1>4 DEF Claim, Rewrite
  <2>2. rw.state = "active" /\ rw.safe = row[j].safe /\ rw.over = row[j].over
    BY <1>0 DEF Row
  <2>3. row[j].state = "pending" /\ ~row[j].over  BY <1>2, <1>4 DEF Claim
  <2>4. again' = {}  BY <1>0, <1>4, <2>3 DEF Claim
  <2>5. /\ \A k \in Jobs \ {j} : began'[k] = began[k]
        /\ began'[j] = IF began[j] = 2 THEN 2 ELSE began[j] + 1
    BY <1>0, <1>4 DEF Claim
  <2>6. Unrepeatable(j) => began'[j] <= 1  BY <1>2, <2>3, <2>5
  <2> HIDE DEF rw
  <2>7. CurrentWith(j, rw, began'[j])  BY <1>2, <2>2, <2>3 DEF CurrentWith, Honest
  <2> QED  BY <2>1, <2>4, <2>5, <2>6, <2>7
<1>5. CASE ~(Request(j) \/ Claim(j))
  <2>1. began' = began /\ again' = {}
    BY <1>0, <1>5 DEF QueueStep, Complete, CancelQueued, Prove, Retry, Fail, Stop
  <2>2. Unrepeatable(j) => began[j] <= 1  BY <1>0 DEF RepeatsNothing, Unrepeatable
  <2>3. ASSUME NEW rw, Rewrite(j, rw), rw.safe = row[j].safe,
               rw.over /\ rw.state \in {"pending", "active"} => Cancelled(rw),
               rw.state = "pending" => row[j].state = "pending" \/ row[j].safe
        PROVE  \E new : row' = [row EXCEPT ![j] = new] /\ CurrentWith(j, new, began[j])
    <3>1. row' = [row EXCEPT ![j] = rw]  BY <2>3 DEF Rewrite
    <3>2. CurrentWith(j, rw, began[j])  BY <1>2, <2>3 DEF CurrentWith, Honest
    <3> QED  BY <3>1, <3>2
  <2>4. SUFFICES \E rw : row' = [row EXCEPT ![j] = rw] /\ CurrentWith(j, rw, began[j])
    BY <2>1, <2>2
  <2>5. CASE Complete(j)
    <3> DEFINE rw == [row[j] EXCEPT !.state = "completed", !.unproven = @ \ {row[j].attempt}]
    <3>1. Rewrite(j, rw)  BY <2>5 DEF Complete
    <3>2. rw.state = "completed" /\ rw.safe = row[j].safe  BY <1>0 DEF Row
    <3> HIDE DEF rw
    <3> QED  BY <2>3, <3>1, <3>2
  <2>6. ASSUME NEW u \in BOOLEAN, NEW rw, Rewrite(j, rw), row[j].state \in {"pending", "active"},
               rw.state = FailState(j, u), rw.safe = row[j].safe, rw.over = row[j].over,
               rw.cancel = row[j].cancel
        PROVE  \E new : row' = [row EXCEPT ![j] = new] /\ CurrentWith(j, new, began[j])
    <3>1. /\ rw.state \in {"pending", "failed", "cancelled", "needs_attention"}
          /\ rw.state = "pending" => row[j].safe /\ ~Cancelled(row[j])
      BY <1>0, <2>6, FailFits
    <3>2. rw.over /\ rw.state \in {"pending", "active"} => Cancelled(rw)
      BY <1>2, <2>6, <3>1
    <3> QED  BY <2>3, <2>6, <3>1, <3>2
  <2>7. ASSUME NEW u \in BOOLEAN, Fail(j, u)
        PROVE  \E rw : row' = [row EXCEPT ![j] = rw] /\ CurrentWith(j, rw, began[j])
    <3> DEFINE s == FailState(j, u)
               left == IF u THEN row[j].unproven ELSE row[j].unproven \ {row[j].attempt}
               rw == [row[j] EXCEPT !.state = s, !.unproven = left]
    <3>1. Rewrite(j, rw) /\ row[j].state = "active"  BY <2>7 DEF Fail
    <3> HIDE DEF s, left
    <3>2. /\ rw.state = s /\ rw.safe = row[j].safe /\ rw.over = row[j].over
          /\ rw.cancel = row[j].cancel
      BY <1>0 DEF Row
    <3> HIDE DEF rw
    <3> QED  BY <2>6, <3>1, <3>2 DEF s
  <2>8. CASE CancelQueued(j)
    <3> DEFINE u == row[j].unproven # {}
               s == FailState(j, u)
               rw == [row[j] EXCEPT !.state = s]
    <3>1. Rewrite(j, rw) /\ row[j].state = "pending"  BY <2>8 DEF CancelQueued
    <3>2. u \in BOOLEAN  OBVIOUS
    <3> HIDE DEF s, u
    <3>3. /\ rw.state = s /\ rw.safe = row[j].safe /\ rw.over = row[j].over
          /\ rw.cancel = row[j].cancel
      BY <1>0 DEF Row
    <3> HIDE DEF rw
    <3> QED  BY <2>6, <3>1, <3>2, <3>3 DEF s
  <2>9. CASE Prove(j)
    <3> DEFINE rw == [row[j] EXCEPT !.unproven = {}]
    <3>1. Rewrite(j, rw)  BY <2>9 DEF Prove
    <3>2. /\ rw.state = row[j].state /\ rw.safe = row[j].safe /\ rw.over = row[j].over
          /\ rw.cancel = row[j].cancel
      BY <1>0 DEF Row
    <3> HIDE DEF rw
    <3>3. rw.over /\ rw.state \in {"pending", "active"} => Cancelled(rw)
      BY <1>2, <3>2 DEF Cancelled
    <3> QED  BY <2>3, <3>1, <3>2, <3>3
  <2>10. CASE Retry(j)
    <3> DEFINE rw == [row[j] EXCEPT !.state = "pending", !.base = row[j].attempt, !.over = FALSE]
    <3>1. Rewrite(j, rw) /\ row[j].safe  BY <2>10 DEF Retry
    <3>2. rw.state = "pending" /\ rw.safe = row[j].safe /\ rw.over = FALSE  BY <1>0 DEF Row
    <3> HIDE DEF rw
    <3> QED  BY <2>3, <3>1, <3>2
  <2>11. ASSUME NEW r \in {"deadline", "request"}, Stop(j, r)
         PROVE  \E rw : row' = [row EXCEPT ![j] = rw] /\ CurrentWith(j, rw, began[j])
    <3> DEFINE o == row[j].over \/ r = "request"
               rw == [row[j] EXCEPT !.cancel = r, !.over = o]
    <3>1. /\ Rewrite(j, rw) /\ row[j].state \in {"pending", "active"} /\ row[j].cancel = "none"
      BY <2>11 DEF Stop
    <3>2. o => r = "request"  BY <1>2, <3>1 DEF Cancelled
    <3>3. rw.state = row[j].state /\ rw.safe = row[j].safe /\ rw.over = o /\ rw.cancel = r
      BY <1>0 DEF Row
    <3>4. rw.over => Cancelled(rw)  BY <3>2, <3>3 DEF Cancelled
    <3> HIDE DEF rw
    <3> QED  BY <2>3, <3>1, <3>3, <3>4
  <2> QED  BY <1>5, <2>5, <2>7, <2>8, <2>9, <2>10, <2>11 DEF QueueStep
<1> QED  BY <1>3, <1>4, <1>5

LEMMA QueueRestored ==
  ASSUME Restored, NEW j \in Jobs, QueueStep(j)  PROVE Restored'
<1>1. Shape'  BY QueueShape DEF Restored
<1>2. phase = "serving" /\ phase' = phase /\ dump' = dump /\ unreset' = unreset
  BY DEF QueueStep, Request, Claim, Complete, CancelQueued, Prove, Retry, Fail, Stop, Rewrite, Serving
<1>3. CASE unreset = "served"  BY <1>1, <1>2, <1>3 DEF Restored
<1>4. CASE unreset # "served"
  <2>1. PICK rw : row' = [row EXCEPT ![j] = rw] /\ CurrentWith(j, rw, began'[j])  BY <1>4, QueueCurrent
  <2>2. row \in Rows  BY DEF Restored, Shape, RestoreInv, TypeOK
  <2>3. \A k \in Jobs : CurrentWith(k, row'[k], began'[k])
    <3>1. CurrentWith(j, row'[j], began'[j])  BY <2>1, <2>2 DEF Rows
    <3>2. ASSUME NEW k \in Jobs, k # j PROVE CurrentWith(k, row'[k], began'[k])
      <4>1. row'[k] = row[k] /\ began'[k] = began[k]
        BY <1>4, <2>1, <2>2, <3>2, QueueCurrent DEF Rows
      <4>2. CurrentWith(k, row[k], began[k])  BY <1>2, <1>4, CurrentIs DEF Restored, Timeline
      <4> QED  BY <4>1, <4>2
    <3> QED  BY <3>1, <3>2
  <2>4. \A k \in Jobs : Current(k, row[k])' /\ Honest(k, row[k])'
    BY <2>3 DEF CurrentWith, Current, Honest, Unrepeatable, Cancelled, IsBackup
  <2>5. Timeline'
    BY <1>2, <1>4, <2>4 DEF Restored, Timeline, Honest, Unrepeatable, Cancelled, IsBackup, Loaded
  <2>6. RepeatsNothing'
    <3> SUFFICES ASSUME NEW k \in Jobs, Unrepeatable(k) PROVE began'[k] <= 1
      BY DEF RepeatsNothing, Unrepeatable
    <3>1. began[k] <= 1  BY <1>4 DEF Restored, RepeatsNothing, Unrepeatable
    <3> QED  BY <1>4, <3>1, QueueCurrent
  <2>7. again' = {}  BY <1>4, QueueCurrent
  <2> QED  BY <1>1, <2>5, <2>6, <2>7 DEF Restored
<1> QED  BY <1>3, <1>4

\* What the reset leaves of a row from any dump is current whatever began since: nothing that
\* may not be repeated waits, and nothing that is over.
LEMMA ResetCurrent ==
  ASSUME NEW j \in Jobs, NEW rw \in Row, Honest(j, rw), NEW b
  PROVE  CurrentWith(j, ResetRow(j, rw), b)
<1> USE RowFields
<1>1. CASE Touched(j, rw)
  <2> DEFINE s == ResetState(j, rw)
             p == Repeatable(j, rw)
             nw == [rw EXCEPT !.state = s, !.cancel = "none", !.safe = p]
  <2>1. ResetRow(j, rw) = nw  BY <1>1 DEF ResetRow
  <2>2. p => ~Unrepeatable(j)
    BY DEF Honest, Repeatable, Unrepeatable, IsBackup
  <2>3. s # "active" /\ (s = "pending" => p /\ ~rw.over)
    BY <1>1 DEF Honest, ResetState, DiscardBackup, Touched
  <2>4. nw.state = s /\ nw.over = rw.over /\ nw.safe = p  BY DEF Row
  <2>5. nw.safe => ~Unrepeatable(j)  BY <2>2, <2>4
  <2> HIDE DEF s, p, nw
  <2>6. CurrentWith(j, nw, b)  BY <2>2, <2>3, <2>4, <2>5 DEF CurrentWith, Honest
  <2> QED  BY <2>1, <2>6
<1>2. CASE ~Touched(j, rw)
  <2>1. ResetRow(j, rw) = rw  BY <1>2 DEF ResetRow
  <2>2. rw.state # "active" /\ (rw.state = "pending" => rw.safe)  BY <1>2 DEF Touched
  <2>3. CurrentWith(j, rw, b)  BY <2>2 DEF CurrentWith, Honest
  <2> QED  BY <2>1, <2>3
<1> QED  BY <1>1, <1>2

LEMMA RestoreRestored ==
  ASSUME Restored, RestoreStep  PROVE Restored'
<1>0. Shape'  BY RestoreShape DEF Restored
<1>1. /\ began' = began /\ again' = again
      /\ unreset = "served" => unreset' = "served"
  BY DEF RestoreStep, TakeDump, EnterMaintenance, BootMaintenance, BootServer, Accept, SavePoint,
              Load, Refuse, Reset, Check, CheckFailed, Rollback, RollbackFails, End, EndFails, Crash,
         Left, History
<1>2. SUFFICES ASSUME unreset # "served", unreset' # "served"
               PROVE  Timeline' /\ RepeatsNothing' /\ again' = {}
  BY <1>0, <1>1 DEF Restored
<1>3. /\ row \in Rows /\ Timeline /\ Copies /\ unreset \in {"no", "left"}
      /\ RepeatsNothing /\ again = {} /\ phase \in Phases
  BY <1>2 DEF Restored, Shape, RestoreInv, TypeOK
<1> DEFINE IsCurrent(r) == \A j \in Jobs : CurrentWith(j, r[j], began[j])
           IsHonest(r) == \A j \in Jobs : Honest(j, r[j])
<1>4. /\ IsHonest(row)
      /\ phase \in {"reset", "checked"} => IsCurrent(row)
      /\ phase \notin {"loaded", "refused"} /\ unreset = "no" => IsCurrent(row)
      /\ dump # NoRows => IsHonest(dump)
      /\ phase \in {"saved"} \cup Loaded => IsHonest(point)
      /\ phase \in {"saved"} \cup Loaded /\ unreset = "no" => IsCurrent(point)
      /\ phase = "serving" => unreset = "no"
  BY <1>3, CurrentIs DEF Timeline
<1>5. \A r : IsCurrent(r) => IsHonest(r)  BY DEF CurrentWith
<1>6. ASSUME IsHonest(row'), phase' \in {"reset", "checked"} => IsCurrent(row'),
             phase' \notin {"loaded", "refused"} /\ unreset' = "no" => IsCurrent(row'),
             dump' # NoRows => IsHonest(dump'),
             phase' \in {"saved"} \cup Loaded => IsHonest(point'),
             phase' \in {"saved"} \cup Loaded /\ unreset' = "no" => IsCurrent(point'),
             phase' = "serving" => unreset' = "no"
      PROVE  Timeline'
  BY <1>1, <1>6 DEF Timeline, Current, CurrentWith, Honest, Unrepeatable, Cancelled, IsBackup, Loaded
<1> HIDE DEF IsCurrent, IsHonest
<1>7. Timeline'
  <2>1. CASE TakeDump
    <3>1. IsHonest(dump')
      <4> SUFFICES ASSUME NEW j \in Jobs PROVE Honest(j, dump'[j])  BY DEF IsHonest
      <4>1. Honest(j, row[j]) /\ row[j] \in Row  BY <1>3, <1>4 DEF IsHonest, Rows
      <4>2. CASE row[j].state = "active" /\ IsBackup(j)
        <5> DEFINE rw == [row[j] EXCEPT !.over = TRUE]
        <5>1. dump'[j] = rw  BY <2>1, <4>2 DEF TakeDump
        <5>2. rw.state = row[j].state /\ rw.safe = row[j].safe  BY <4>1 DEF Row
        <5> HIDE DEF rw
        <5> QED  BY <4>1, <4>2, <5>1, <5>2 DEF Honest
      <4>3. CASE ~(row[j].state = "active" /\ IsBackup(j))
        BY <2>1, <4>1, <4>3 DEF TakeDump
      <4> QED  BY <4>2, <4>3
    <3> QED  BY <1>4, <1>6, <2>1, <3>1 DEF TakeDump, Serving, Loaded, History
  <2>2. CASE Load
    <3>1. dump # NoRows  BY <1>3, <2>2 DEF Load, Step, Copies
    <3> QED  BY <1>4, <1>6, <2>2, <3>1 DEF Load, Step, Loaded, History
  <2>3. CASE Reset
    <3>1. IsCurrent(row')
      <4> SUFFICES ASSUME NEW j \in Jobs PROVE CurrentWith(j, row'[j], began[j])  BY DEF IsCurrent
      <4>1. Honest(j, row[j]) /\ row[j] \in Row  BY <1>3, <1>4 DEF IsHonest, Rows
      <4>2. row'[j] = ResetRow(j, row[j])  BY <2>3 DEF Reset
      <4> QED  BY <4>1, <4>2, ResetCurrent
    <3> QED  BY <1>4, <1>5, <1>6, <2>3, <3>1 DEF Reset, Step, Loaded, History
  <2>4. CASE Rollback  BY <1>4, <1>6, <2>4 DEF Rollback, Step, Loaded, History
  <2>5. CASE SavePoint  BY <1>4, <1>6, <2>5 DEF SavePoint, Step, Loaded, History
  <2>6. CASE EnterMaintenance \/ BootMaintenance \/ Accept \/ Refuse \/ End
    BY <1>4, <1>6, <2>6 DEF EnterMaintenance, BootMaintenance, Accept, Refuse, End, Step, Loaded, History
  <2>7. CASE BootServer
    BY <1>2, <1>3, <1>4, <1>6, <2>7 DEF BootServer, Step, Loaded
  <2>8. CASE Check \/ EndFails
    BY <1>3, <1>4, <1>6, <2>8 DEF Check, EndFails, Step, Loaded, History
  <2>9. CASE CheckFailed
    BY <1>4, <1>6, <2>9 DEF CheckFailed, Step, Loaded, History
  <2>10. CASE RollbackFails \/ Crash
    BY <1>3, <1>4, <1>6, <2>10 DEF RollbackFails, Crash, Left, Step, Loaded
  <2> QED  BY <2>1, <2>2, <2>3, <2>4, <2>5, <2>6, <2>7, <2>8, <2>9, <2>10 DEF RestoreStep
<1> QED  BY <1>1, <1>3, <1>7 DEF RepeatsNothing

LEMMA StutterRestored == Restored /\ UNCHANGED vars => Restored'
<1> SUFFICES ASSUME Restored, UNCHANGED vars PROVE Restored'  OBVIOUS
<1>1. Shape'  BY StutterShape DEF Restored
<1>2. unreset' = unreset /\ again' = again /\ (RepeatsNothing => RepeatsNothing')
  BY DEF vars, RepeatsNothing
<1>3. Timeline => Timeline'
  BY DEF vars, Timeline, Current, Honest, Unrepeatable, Cancelled, IsBackup, Loaded
<1> QED  BY <1>1, <1>2, <1>3 DEF Restored

LEMMA AlwaysRestored == Spec => []Restored
<1>1. Restored /\ [Next]_vars => Restored'
  BY NextSteps, QueueRestored, RestoreRestored, StutterRestored
<1> QED  BY InitRestored, <1>1, PTL DEF Spec

\* A restore of any dump, completed, undone or interrupted, does not begin work again that may
\* not be repeated, although the restored rows know nothing of what ran after the dump
\* (resetQueueAfterRestore), unless the server opens on a dump whose reset did not run.
THEOREM RestoreRepeatsNothing == Spec => []UnsafeOnce
<1>1. Restored => UnsafeOnce  BY DEF Restored, UnsafeOnce
<1> QED  BY AlwaysRestored, <1>1, PTL

\* Nor does it revive a request that is over: one a person cancelled, or the backup that made
\* the dump.
THEOREM RestoreRevivesNothing == Spec => []OverIsOver
<1>1. Restored => OverIsOver  BY DEF Restored, OverIsOver
<1> QED  BY AlwaysRestored, <1>1, PTL

=============================================================================
