------------------------ MODULE MediaOperationsProofs ------------------------
(***************************************************************************)
(* The table of media operations, for any number of rows, claims and jobs.  *)
(*                                                                         *)
(* Rows do not depend on each other, so the inductive invariant IInv says   *)
(* of each row what the properties say of it, with what they need to be     *)
(* inductive: a row at "cancelling" has been asked to cancel, an unused row *)
(* has no pause pending, only rows with a remote runner ever name a remote  *)
(* job, and rows in lost are not repeatable.  One lemma per statement shows *)
(* that the row it writes is of the table's type and that IInv survives.    *)
(***************************************************************************)
EXTENDS MediaOperations, TLAPS

\* What every row satisfies.
RowInv(o) ==
    LET row == op[o]
    IN  /\ row.status \in Claimed <=> row.token # 0
        /\ row.token # 0 <=> row.lease # "none"
        /\ row.token <= issued[o]
        /\ row.cancel => row.status \in {"cancelling", "cancelled", "failed"}
        /\ row.status = "cancelling" => row.cancel
        /\ row.status \in {"queued", "absent"} => ~row.pause
        /\ \A c, d \in published[o] : c = d
        /\ published[o] # {} <=> row.status = "completed"
        /\ o \in lost => row.status \in Terminal \cup {"paused"} /\ o \notin Safe
        /\ row.remote => o \in Remote
        /\ active[o] <= delivered[o]

IInv == TypeOK /\ \A o \in Ops : RowInv(o)

\* The statuses, tokens and retry counts the statements write are of their type.
LEMMA Names ==
    /\ Statuses = {"absent", "queued", "paused", "preparing", "rendering", "validating",
                   "cancelling", "completed", "cancelled", "failed"}
    /\ {"absent", "queued", "paused", "preparing", "validating", "cancelling", "completed",
        "cancelled", "failed"} \subseteq Statuses
    /\ 0 \in 0..MaxClaims /\ Claims \subseteq 0..MaxClaims
    /\ \A n \in 0..AutoRetries : n < AutoRetries => n + 1 \in 0..AutoRetries
BY BoundsAssumption DEF Statuses, Claims, Working, Claimed, Terminal, Unclaimed, AutoRetries

\* A row of the table is a row.
LEMMA RowTyped == ASSUME TypeOK, NEW o \in Ops PROVE op[o] \in Row
BY DEF TypeOK

\* A statement that writes one row keeps the type of the table and the other rows.
LEMMA WriteTyped ==
    ASSUME TypeOK, NEW o \in Ops, NEW row \in Row, Write(o, row)
    PROVE  /\ op' \in [Ops -> Row] /\ op'[o] = [row EXCEPT !.old = FALSE]
           /\ \A p \in Ops \ {o} : op'[p] = op[p]
<1>1. [row EXCEPT !.old = FALSE] \in Row
  BY DEF Row
<1> QED  BY <1>1 DEF Write, TypeOK

\* The invariant survives Create.
LEMMA CreateKeeps ==
    ASSUME IInv, NEW o \in Ops, Create(o)
    PROVE  IInv'
<1> DEFINE row == [op[o] EXCEPT !.status = "queued"]
<1>1. TypeOK /\ op[o] \in Row
  BY RowTyped DEF IInv
<1>2. row \in Row
  BY <1>1, Names DEF Row
<1>3. TypeOK'
  BY <1>1, <1>2, WriteTyped DEF TypeOK, Create, NewRow, Others
<1>4. \A p \in Ops : RowInv(p)'
  BY <1>1, <1>3, KindsAssumption, BoundsAssumption
     DEF IInv, TypeOK, RowInv, Create, NewRow, Write, Others, Row, Working, Claimed, Terminal,
         Unclaimed, AutoRetries, Claims
<1> QED  BY <1>3, <1>4 DEF IInv

\* The invariant survives ClaimNext.
LEMMA ClaimNextKeeps ==
    ASSUME IInv, NEW o \in Ops, ClaimNext(o)
    PROVE  IInv'
<1> DEFINE row == [op[o] EXCEPT !.status = "preparing", !.token = issued[o] + 1,
                     !.owner = "worker", !.lease = "live", !.wait = FALSE]
<1>1. TypeOK /\ op[o] \in Row
  BY RowTyped DEF IInv
<1>2. issued[o] + 1 \in Claims
  BY <1>1, BoundsAssumption DEF TypeOK, ClaimNext, Take, Claims
<1>3. row \in Row
  BY <1>1, <1>2, Names DEF Row
<1>4. TypeOK'
  BY <1>1, <1>2, <1>3, Names, WriteTyped DEF TypeOK, ClaimNext, Take
<1>5. \A p \in Ops : RowInv(p)'
  BY <1>1, <1>4, KindsAssumption, BoundsAssumption
     DEF IInv, TypeOK, RowInv, ClaimNext, Take, Write, Row, Working, Claimed, Terminal,
         Unclaimed, AutoRetries, Claims
<1> QED  BY <1>4, <1>5 DEF IInv

\* The invariant survives BeginJobQueueRun.
LEMMA BeginJobQueueRunKeeps ==
    ASSUME IInv, NEW o \in Ops, BeginJobQueueRun(o)
    PROVE  IInv'
<1> DEFINE row == [op[o] EXCEPT !.status = "preparing", !.token = issued[o] + 1,
                     !.owner = "queue", !.lease = "live", !.wait = FALSE]
<1>1. TypeOK /\ op[o] \in Row
  BY RowTyped DEF IInv
<1>2. issued[o] + 1 \in Claims
  BY <1>1, BoundsAssumption DEF TypeOK, BeginJobQueueRun, Take, Claims
<1>3. row \in Row
  BY <1>1, <1>2, Names DEF Row
<1>4. TypeOK'
  BY <1>1, <1>2, <1>3, Names, WriteTyped DEF TypeOK, BeginJobQueueRun, Take
<1>5. \A p \in Ops : RowInv(p)'
  BY <1>1, <1>4, KindsAssumption, BoundsAssumption
     DEF IInv, TypeOK, RowInv, BeginJobQueueRun, Take, Write, Row, Working, Claimed, Terminal,
         Unclaimed, AutoRetries, Claims
<1> QED  BY <1>4, <1>5 DEF IInv

\* The invariant survives Heartbeat.
LEMMA HeartbeatKeeps ==
    ASSUME IInv, NEW o \in Ops, NEW c \in Claims, Heartbeat(o, c)
    PROVE  IInv'
<1> DEFINE row == op[o]
<1>1. TypeOK /\ op[o] \in Row
  BY RowTyped DEF IInv
<1>2. row \in Row
  BY <1>1, Names DEF Row
<1>3. TypeOK'
  BY <1>1, <1>2, WriteTyped DEF TypeOK, Heartbeat, Holds, Others
<1>4. \A p \in Ops : RowInv(p)'
  BY <1>1, <1>3, KindsAssumption, BoundsAssumption
     DEF IInv, TypeOK, RowInv, Heartbeat, Holds, Write, Others, Row, Working, Claimed,
         Terminal, Unclaimed, AutoRetries, Claims
<1> QED  BY <1>3, <1>4 DEF IInv

\* The invariant survives ReportProgress.
LEMMA ReportProgressKeeps ==
    ASSUME IInv, NEW o \in Ops, NEW c \in Claims, NEW status \in Working, ReportProgress(o, c, status)
    PROVE  IInv'
<1> DEFINE row == [op[o] EXCEPT !.status = status]
<1>1. TypeOK /\ op[o] \in Row
  BY RowTyped DEF IInv
<1>2. row \in Row
  BY <1>1, Names DEF Row, Working
<1>3. TypeOK'
  BY <1>1, <1>2, WriteTyped DEF TypeOK, ReportProgress, ProgressFrom, Holds, Others
<1>4. \A p \in Ops : RowInv(p)'
  BY <1>1, <1>3, KindsAssumption, BoundsAssumption
     DEF IInv, TypeOK, RowInv, ReportProgress, ProgressFrom, Holds, Write, Others, Row,
         Working, Claimed, Terminal, Unclaimed, AutoRetries, Claims
<1> QED  BY <1>3, <1>4 DEF IInv

\* The invariant survives BeginValidation.
LEMMA BeginValidationKeeps ==
    ASSUME IInv, NEW o \in Ops, NEW c \in Claims, BeginValidation(o, c)
    PROVE  IInv'
<1> DEFINE row == [op[o] EXCEPT !.status = "validating"]
<1>1. TypeOK /\ op[o] \in Row
  BY RowTyped DEF IInv
<1>2. row \in Row
  BY <1>1, Names DEF Row
<1>3. TypeOK'
  BY <1>1, <1>2, WriteTyped DEF TypeOK, BeginValidation, Holds, Others
<1>4. \A p \in Ops : RowInv(p)'
  BY <1>1, <1>3, KindsAssumption, BoundsAssumption
     DEF IInv, TypeOK, RowInv, BeginValidation, Holds, Write, Others, Row, Working, Claimed,
         Terminal, Unclaimed, AutoRetries, Claims
<1> QED  BY <1>3, <1>4 DEF IInv

\* The invariant survives Complete.
LEMMA CompleteKeeps ==
    ASSUME IInv, NEW o \in Ops, NEW c \in Claims, Complete(o, c)
    PROVE  IInv'
<1> DEFINE row == [op[o] EXCEPT !.status = "completed", !.token = 0, !.lease = "none", !.pause = FALSE]
<1>1. TypeOK /\ op[o] \in Row
  BY RowTyped DEF IInv
<1>2. row \in Row
  BY <1>1, Names DEF Row
<1>3. TypeOK'
  BY <1>1, <1>2, WriteTyped DEF TypeOK, Complete, Holds
<1>4. \A p \in Ops : RowInv(p)'
  BY <1>1, <1>3, KindsAssumption, BoundsAssumption
     DEF IInv, TypeOK, RowInv, Complete, Holds, Write, Row, Working, Claimed, Terminal,
         Unclaimed, AutoRetries, Claims
<1> QED  BY <1>3, <1>4 DEF IInv

\* The invariant survives FailRetrying.
LEMMA FailRetryingKeeps ==
    ASSUME IInv, NEW o \in Ops, NEW c \in Claims, FailRetrying(o, c)
    PROVE  IInv'
<1> DEFINE row == [Freed(op[o]) EXCEPT !.status = PausedIfRequested(op[o]), !.retries = @ + 1, !.wait = TRUE]
<1>1. TypeOK /\ op[o] \in Row
  BY RowTyped DEF IInv
<1>2. op[o].retries < AutoRetries
  BY DEF FailRetrying
<1>3. row \in Row
  BY <1>1, <1>2, Names DEF Row, PausedIfRequested, Freed
<1>4. TypeOK'
  BY <1>1, <1>3, WriteTyped DEF TypeOK, FailRetrying, PausedIfRequested, Freed, Holds, Others
<1>5. \A p \in Ops : RowInv(p)'
  BY <1>1, <1>4, KindsAssumption, BoundsAssumption
     DEF IInv, TypeOK, RowInv, FailRetrying, PausedIfRequested, Freed, Holds, Write, Others,
         Row, Working, Claimed, Terminal, Unclaimed, AutoRetries, Claims
<1> QED  BY <1>4, <1>5 DEF IInv

\* The invariant survives FailFinally.
LEMMA FailFinallyKeeps ==
    ASSUME IInv, NEW o \in Ops, NEW c \in Claims, FailFinally(o, c)
    PROVE  IInv'
<1> DEFINE row == [op[o] EXCEPT !.status = "failed", !.wait = FALSE, !.token = 0,
                     !.lease = "none", !.pause = FALSE]
<1>1. TypeOK /\ op[o] \in Row
  BY RowTyped DEF IInv
<1>2. row \in Row
  BY <1>1, Names DEF Row
<1>3. TypeOK'
  BY <1>1, <1>2, WriteTyped DEF TypeOK, FailFinally, Holds, Others
<1>4. \A p \in Ops : RowInv(p)'
  BY <1>1, <1>3, KindsAssumption, BoundsAssumption
     DEF IInv, TypeOK, RowInv, FailFinally, Holds, Write, Others, Row, Working, Claimed,
         Terminal, Unclaimed, AutoRetries, Claims
<1> QED  BY <1>3, <1>4 DEF IInv

\* The invariant survives Requeue.
LEMMA RequeueKeeps ==
    ASSUME IInv, NEW o \in Ops, NEW c \in Claims, Requeue(o, c)
    PROVE  IInv'
<1> DEFINE row == [Freed(op[o]) EXCEPT !.status = PausedIfRequested(op[o]), !.wait = TRUE]
<1>1. TypeOK /\ op[o] \in Row
  BY RowTyped DEF IInv
<1>2. row \in Row
  BY <1>1, Names DEF Row, PausedIfRequested, Freed
<1>3. TypeOK'
  BY <1>1, <1>2, WriteTyped DEF TypeOK, Requeue, PausedIfRequested, Freed, Holds, Others
<1>4. \A p \in Ops : RowInv(p)'
  BY <1>1, <1>3, KindsAssumption, BoundsAssumption
     DEF IInv, TypeOK, RowInv, Requeue, PausedIfRequested, Freed, Holds, Write, Others, Row,
         Working, Claimed, Terminal, Unclaimed, AutoRetries, Claims
<1> QED  BY <1>3, <1>4 DEF IInv

\* The invariant survives RequestCancel.
LEMMA RequestCancelKeeps ==
    ASSUME IInv, NEW o \in Ops, RequestCancel(o)
    PROVE  IInv'
<1> DEFINE settled == [op[o] EXCEPT !.status = "cancelled", !.cancel = TRUE, !.ack = TRUE,
                                    !.pause = FALSE, !.token = 0, !.lease = "none"]
           asked == [op[o] EXCEPT !.status = "cancelling", !.cancel = TRUE, !.pause = FALSE]
<1>1. TypeOK /\ op[o] \in Row
  BY RowTyped DEF IInv
<1>2. settled \in Row /\ asked \in Row
  <2>1. settled \in Row
    BY <1>1, Names DEF Row
  <2>2. asked \in Row
    BY <1>1, Names DEF Row
  <2> QED  BY <2>1, <2>2
<1>3. Others
  BY DEF RequestCancel
<1>4. CASE op[o].status \in Unclaimed
  <2>1. Write(o, settled)
    <3>1. op[o].ack \in BOOLEAN
      BY <1>1 DEF Row
    <3> QED  BY <1>1, <1>4, <3>1 DEF RequestCancel, Row
  <2>2. TypeOK'
    BY <1>1, <1>2, <2>1, WriteTyped DEF TypeOK, RequestCancel, Others
  <2>3. \A p \in Ops : RowInv(p)'
    BY <1>1, <1>4, <1>3, <2>1, <2>2, KindsAssumption, BoundsAssumption
       DEF IInv, TypeOK, RowInv, Write, Others, Row, Working, Claimed, Terminal, Unclaimed,
           AutoRetries, Claims
  <2> QED  BY <2>2, <2>3 DEF IInv
<1>5. CASE op[o].status \notin Unclaimed
  <2>1. op[o].status \in Claimed
    <3>1. op[o].status \in Statuses /\ op[o].status \notin Terminal \cup {"absent"}
      BY <1>1 DEF RequestCancel, Row
    <3> QED  BY <1>5, <3>1 DEF Statuses
  <2>2. Write(o, asked)
    BY <1>1, <1>5, ZenonT(60) DEF RequestCancel, Row
  <2>3. TypeOK'
    BY <1>1, <1>2, <2>2, WriteTyped DEF TypeOK, RequestCancel, Others
  <2>4. \A p \in Ops : RowInv(p)'
    BY <1>1, <1>3, <2>1, <2>2, <2>3, KindsAssumption, BoundsAssumption
       DEF IInv, TypeOK, RowInv, Write, Others, Row, Working, Claimed, Terminal, Unclaimed,
           AutoRetries, Claims
  <2> QED  BY <2>3, <2>4 DEF IInv
<1> QED  BY <1>4, <1>5

\* The invariant survives AcknowledgeCancel.
LEMMA AcknowledgeCancelKeeps ==
    ASSUME IInv, NEW o \in Ops, NEW c \in Claims, AcknowledgeCancel(o, c)
    PROVE  IInv'
<1>1. TypeOK /\ op[o] \in Row
  BY RowTyped DEF IInv
<1>2. PICK released \in BOOLEAN :
         Write(o, [Freed(op[o]) EXCEPT !.status = "cancelled", !.ack = TRUE, !.released = @ \/ released])
  BY DEF AcknowledgeCancel
<1> DEFINE row == [Freed(op[o]) EXCEPT !.status = "cancelled", !.ack = TRUE,
                                       !.released = @ \/ released]
<1>3. row \in Row
  BY <1>1, Names DEF Row, Freed
<1>4. TypeOK'
  BY <1>1, <1>2, <1>3, WriteTyped DEF TypeOK, AcknowledgeCancel, Others
<1>5. \A p \in Ops : RowInv(p)'
  BY <1>1, <1>2, <1>4, KindsAssumption, BoundsAssumption
     DEF IInv, TypeOK, RowInv, AcknowledgeCancel, Freed, Holds, Write, Others, Row, Working,
         Claimed, Terminal, Unclaimed, AutoRetries, Claims
<1> QED  BY <1>4, <1>5 DEF IInv

\* The invariant survives RequestPause.
LEMMA RequestPauseKeeps ==
    ASSUME IInv, NEW o \in Ops, RequestPause(o)
    PROVE  IInv'
<1> DEFINE status == IF op[o].status = "queued" THEN "paused" ELSE op[o].status
           row == [op[o] EXCEPT !.status = status, !.pause = TRUE]
<1>1. TypeOK /\ op[o] \in Row
  BY RowTyped DEF IInv
<1>2. row \in Row
  <2>1. status \in Statuses
    BY <1>1, Names DEF Row
  <2> HIDE DEF status
  <2> QED  BY <1>1, <2>1 DEF Row
<1>3. TypeOK'
  BY <1>1, <1>2, WriteTyped DEF TypeOK, RequestPause, Others
<1>4. \A p \in Ops : RowInv(p)'
  BY <1>1, <1>3, KindsAssumption, BoundsAssumption
     DEF IInv, TypeOK, RowInv, RequestPause, Write, Others, Row, Working, Claimed, Terminal,
         Unclaimed, AutoRetries, Claims
<1> QED  BY <1>3, <1>4 DEF IInv

\* The invariant survives Resume.
LEMMA ResumeKeeps ==
    ASSUME IInv, NEW o \in Ops, Resume(o)
    PROVE  IInv'
<1> DEFINE status == IF op[o].status = "paused" THEN "queued" ELSE op[o].status
           row == [op[o] EXCEPT !.status = status, !.pause = FALSE]
<1>1. TypeOK /\ op[o] \in Row
  BY RowTyped DEF IInv
<1>2. row \in Row
  <2>1. status \in Statuses
    BY <1>1, Names DEF Row
  <2> HIDE DEF status
  <2> QED  BY <1>1, <2>1 DEF Row
<1>3. TypeOK'
  BY <1>1, <1>2, WriteTyped DEF TypeOK, Resume
<1>4. \A p \in Ops : RowInv(p)'
  BY <1>1, <1>3, KindsAssumption, BoundsAssumption
     DEF IInv, TypeOK, RowInv, Resume, Write, Row, Working, Claimed, Terminal, Unclaimed,
         AutoRetries, Claims
<1> QED  BY <1>3, <1>4 DEF IInv

\* The invariant survives SettlePause.
LEMMA SettlePauseKeeps ==
    ASSUME IInv, NEW o \in Ops, NEW c \in Claims, SettlePause(o, c)
    PROVE  IInv'
<1> DEFINE row == [Freed(op[o]) EXCEPT !.status = "paused"]
<1>1. TypeOK /\ op[o] \in Row
  BY RowTyped DEF IInv
<1>2. row \in Row
  BY <1>1, Names DEF Row, Freed
<1>3. TypeOK'
  BY <1>1, <1>2, WriteTyped DEF TypeOK, SettlePause, Freed, Holds, Others
<1>4. \A p \in Ops : RowInv(p)'
  BY <1>1, <1>3, KindsAssumption, BoundsAssumption
     DEF IInv, TypeOK, RowInv, SettlePause, Freed, Holds, Write, Others, Row, Working, Claimed,
         Terminal, Unclaimed, AutoRetries, Claims
<1> QED  BY <1>3, <1>4 DEF IInv

\* The invariant survives RecordRemoteJob.
LEMMA RecordRemoteJobKeeps ==
    ASSUME IInv, NEW o \in Ops, NEW c \in Claims, RecordRemoteJob(o, c)
    PROVE  IInv'
<1> DEFINE row == [op[o] EXCEPT !.remote = TRUE]
<1>1. TypeOK /\ op[o] \in Row
  BY RowTyped DEF IInv
<1>2. row \in Row
  BY <1>1, Names DEF Row
<1>3. TypeOK'
  BY <1>1, <1>2, WriteTyped DEF TypeOK, RecordRemoteJob, Others
<1>4. \A p \in Ops : RowInv(p)'
  BY <1>1, <1>3, KindsAssumption, BoundsAssumption
     DEF IInv, TypeOK, RowInv, RecordRemoteJob, Write, Others, Row, Working, Claimed, Terminal,
         Unclaimed, AutoRetries, Claims
<1> QED  BY <1>3, <1>4 DEF IInv

\* The invariant survives ReleaseOwn.
LEMMA ReleaseOwnKeeps ==
    ASSUME IInv, NEW o \in Ops, NEW c \in Claims, ReleaseOwn(o, c)
    PROVE  IInv'
<1> DEFINE row == [op[o] EXCEPT !.released = TRUE]
<1>1. TypeOK /\ op[o] \in Row
  BY RowTyped DEF IInv
<1>2. row \in Row
  BY <1>1, Names DEF Row
<1>3. TypeOK'
  BY <1>1, <1>2, WriteTyped DEF TypeOK, ReleaseOwn, Others
<1>4. \A p \in Ops : RowInv(p)'
  BY <1>1, <1>3, KindsAssumption, BoundsAssumption
     DEF IInv, TypeOK, RowInv, ReleaseOwn, Write, Others, Row, Working, Claimed, Terminal,
         Unclaimed, AutoRetries, Claims
<1> QED  BY <1>3, <1>4 DEF IInv

\* The invariant survives ReleaseRemote.
LEMMA ReleaseRemoteKeeps ==
    ASSUME IInv, NEW o \in Ops, ReleaseRemote(o)
    PROVE  IInv'
<1> DEFINE row == [op[o] EXCEPT !.released = TRUE]
<1>1. TypeOK /\ op[o] \in Row
  BY RowTyped DEF IInv
<1>2. row \in Row
  BY <1>1, Names DEF Row
<1>3. TypeOK'
  BY <1>1, <1>2, WriteTyped DEF TypeOK, ReleaseRemote, Others
<1>4. \A p \in Ops : RowInv(p)'
  BY <1>1, <1>3, KindsAssumption, BoundsAssumption
     DEF IInv, TypeOK, RowInv, ReleaseRemote, Write, Others, Row, Working, Claimed, Terminal,
         Unclaimed, AutoRetries, Claims
<1> QED  BY <1>3, <1>4 DEF IInv

\* The invariant survives RecoverPaused.
LEMMA RecoverPausedKeeps ==
    ASSUME IInv, NEW o \in Ops, RecoverPaused(o)
    PROVE  IInv'
<1> DEFINE row == [Freed(op[o]) EXCEPT !.status = "paused"]
<1>1. TypeOK /\ op[o] \in Row
  BY RowTyped DEF IInv
<1>2. row \in Row
  BY <1>1, Names DEF Row, Freed
<1>3. TypeOK'
  BY <1>1, <1>2, WriteTyped DEF TypeOK, RecoverPaused, Lapsed, LostUnsafe, Replayable, Freed
<1>4. \A p \in Ops : RowInv(p)'
  BY <1>1, <1>3, KindsAssumption, BoundsAssumption
     DEF IInv, TypeOK, RowInv, RecoverPaused, Lapsed, LostUnsafe, Replayable, Freed, Write,
         Row, Working, Claimed, Terminal, Unclaimed, AutoRetries, Claims
<1> QED  BY <1>3, <1>4 DEF IInv

\* The invariant survives RecoverRetried.
LEMMA RecoverRetriedKeeps ==
    ASSUME IInv, NEW o \in Ops, RecoverRetried(o)
    PROVE  IInv'
<1> DEFINE row == [Freed(op[o]) EXCEPT !.status = PausedIfRequested(op[o]), !.retries = @ + 1, !.wait = TRUE]
<1>1. TypeOK /\ op[o] \in Row
  BY RowTyped DEF IInv
<1>2. op[o].retries < AutoRetries
  BY DEF RecoverRetried
<1>3. row \in Row
  BY <1>1, <1>2, Names DEF Row, PausedIfRequested, Freed
<1>4. TypeOK'
  BY <1>1, <1>3, WriteTyped DEF TypeOK, RecoverRetried, Lapsed, LostUnsafe, Replayable,
      PausedIfRequested, Freed
<1>5. \A p \in Ops : RowInv(p)'
  BY <1>1, <1>4, KindsAssumption, BoundsAssumption
     DEF IInv, TypeOK, RowInv, RecoverRetried, Lapsed, LostUnsafe, Replayable,
         PausedIfRequested, Freed, Write, Row, Working, Claimed, Terminal, Unclaimed,
         AutoRetries, Claims
<1> QED  BY <1>4, <1>5 DEF IInv

\* The invariant survives RecoverFailed.
LEMMA RecoverFailedKeeps ==
    ASSUME IInv, NEW o \in Ops, RecoverFailed(o)
    PROVE  IInv'
<1> DEFINE row == [Freed(op[o]) EXCEPT !.status = "failed"]
<1>1. TypeOK /\ op[o] \in Row
  BY RowTyped DEF IInv
<1>2. row \in Row
  BY <1>1, Names DEF Row, Freed
<1>3. TypeOK'
  BY <1>1, <1>2, WriteTyped DEF TypeOK, RecoverFailed, Lapsed, Freed, Others
<1>4. \A p \in Ops : RowInv(p)'
  BY <1>1, <1>3, KindsAssumption, BoundsAssumption
     DEF IInv, TypeOK, RowInv, RecoverFailed, Lapsed, Freed, Write, Others, Row, Working,
         Claimed, Terminal, Unclaimed, AutoRetries, Claims
<1> QED  BY <1>3, <1>4 DEF IInv

\* The invariant survives AbandonCancel.
LEMMA AbandonCancelKeeps ==
    ASSUME IInv, NEW o \in Ops, AbandonCancel(o)
    PROVE  IInv'
<1> DEFINE row == [Freed(op[o]) EXCEPT !.status = "cancelled"]
<1>1. TypeOK /\ op[o] \in Row
  BY RowTyped DEF IInv
<1>2. row \in Row
  BY <1>1, Names DEF Row, Freed
<1>3. TypeOK'
  BY <1>1, <1>2, WriteTyped DEF TypeOK, AbandonCancel, Lapsed, Freed, Others
<1>4. \A p \in Ops : RowInv(p)'
  BY <1>1, <1>3, KindsAssumption, BoundsAssumption
     DEF IInv, TypeOK, RowInv, AbandonCancel, Lapsed, Freed, Write, Others, Row, Working,
         Claimed, Terminal, Unclaimed, AutoRetries, Claims
<1> QED  BY <1>3, <1>4 DEF IInv

\* The invariant survives ClaimDispatch.
LEMMA ClaimDispatchKeeps ==
    ASSUME IInv, NEW o \in Ops, ClaimDispatch(o)
    PROVE  IInv'
<1> DEFINE row == [op[o] EXCEPT !.owner = "queue"]
<1>1. TypeOK /\ op[o] \in Row
  BY RowTyped DEF IInv
<1>2. row \in Row
  BY <1>1, Names DEF Row
<1>3. TypeOK'
  BY <1>1, <1>2, WriteTyped DEF TypeOK, ClaimDispatch, Dispatchable, Others
<1>4. \A p \in Ops : RowInv(p)'
  BY <1>1, <1>3, KindsAssumption, BoundsAssumption
     DEF IInv, TypeOK, RowInv, ClaimDispatch, Dispatchable, Write, Others, Row, Working,
         Claimed, Terminal, Unclaimed, AutoRetries, Claims
<1> QED  BY <1>3, <1>4 DEF IInv

\* The invariant survives ReleaseDispatch.
LEMMA ReleaseDispatchKeeps ==
    ASSUME IInv, NEW o \in Ops, ReleaseDispatch(o)
    PROVE  IInv'
<1> DEFINE row == [op[o] EXCEPT !.owner = "none"]
<1>1. TypeOK /\ op[o] \in Row
  BY RowTyped DEF IInv
<1>2. row \in Row
  BY <1>1, Names DEF Row
<1>3. TypeOK'
  BY <1>1, <1>2, WriteTyped DEF TypeOK, ReleaseDispatch, Others
<1>4. \A p \in Ops : RowInv(p)'
  BY <1>1, <1>3, KindsAssumption, BoundsAssumption
     DEF IInv, TypeOK, RowInv, ReleaseDispatch, Write, Others, Row, Working, Claimed, Terminal,
         Unclaimed, AutoRetries, Claims
<1> QED  BY <1>3, <1>4 DEF IInv

\* The invariant survives QueueFences.
LEMMA QueueFencesKeeps ==
    ASSUME IInv, NEW o \in Ops, NEW stopped \in BOOLEAN, QueueFences(o, stopped)
    PROVE  IInv'
<1> DEFINE lapsed == [op[o] EXCEPT !.lease = "lapsed"]
           failed == [Freed(op[o]) EXCEPT !.status = "failed"]
<1>1. TypeOK /\ op[o] \in Row /\ lapsed \in Row /\ failed \in Row
  <2>1. TypeOK /\ op[o] \in Row
    BY RowTyped DEF IInv
  <2>2. lapsed \in Row
    BY <2>1 DEF Row
  <2>3. failed \in Row
    BY <2>1, Names DEF Row, Freed
  <2> QED  BY <2>1, <2>2, <2>3
<1>2. /\ active[o] > 0 /\ active' = [active EXCEPT ![o] = @ - 1]
      /\ active' \in [Ops -> 0..MaxJobs]
  BY <1>1, BoundsAssumption DEF QueueFences, TypeOK
<1>3. \/ op' = op
      \/ op[o].token # 0 /\ Write(o, lapsed)
      \/ op[o].token # 0 /\ Write(o, failed)
  BY DEF QueueFences
<1>4. op' \in [Ops -> Row]
  BY <1>1, <1>3, WriteTyped DEF TypeOK
<1>5. TypeOK'
  BY <1>1, <1>2, <1>4 DEF TypeOK, QueueFences
<1>6. \A p \in Ops : RowInv(p)'
  <2>1. CASE op' = op
    BY <1>1, <1>2, <1>5, <2>1, BoundsAssumption DEF IInv, TypeOK, RowInv, QueueFences
  <2>2. CASE op[o].token # 0 /\ Write(o, lapsed)
    BY <1>1, <1>2, <1>5, <2>2, BoundsAssumption
       DEF IInv, TypeOK, RowInv, QueueFences, Write, Row, Working, Claimed, Terminal,
           Unclaimed, AutoRetries, Claims
  <2>3. CASE op[o].token # 0 /\ Write(o, failed)
    BY <1>1, <1>2, <1>5, <2>3, BoundsAssumption
       DEF IInv, TypeOK, RowInv, QueueFences, Freed, Write, Row, Working, Claimed, Terminal,
           Unclaimed, AutoRetries, Claims
  <2> QED  BY <1>3, <2>1, <2>2, <2>3
<1> QED  BY <1>5, <1>6 DEF IInv

\* The invariant survives JobStarts.
LEMMA JobStartsKeeps ==
    ASSUME IInv, NEW o \in Ops, JobStarts(o)
    PROVE  IInv'
<1>1. TypeOK /\ active[o] <= delivered[o]
  BY DEF IInv, RowInv
<1>2. TypeOK'
  BY <1>1, BoundsAssumption DEF TypeOK, JobStarts
<1>3. \A p \in Ops : RowInv(p)'
  BY <1>1, BoundsAssumption DEF IInv, TypeOK, RowInv, JobStarts
<1> QED  BY <1>2, <1>3 DEF IInv

\* The invariant survives JobEnds.
LEMMA JobEndsKeeps ==
    ASSUME IInv, NEW o \in Ops, JobEnds(o)
    PROVE  IInv'
<1>1. TypeOK /\ active[o] <= delivered[o]
  BY DEF IInv, RowInv
<1>2. TypeOK'
  BY <1>1, BoundsAssumption DEF TypeOK, JobEnds
<1>3. \A p \in Ops : RowInv(p)'
  BY <1>1, BoundsAssumption DEF IInv, TypeOK, RowInv, JobEnds
<1> QED  BY <1>2, <1>3 DEF IInv

\* The invariant survives LeaseLapses.
LEMMA LeaseLapsesKeeps ==
    ASSUME IInv, NEW o \in Ops, LeaseLapses(o)
    PROVE  IInv'
<1> DEFINE row == [op[o] EXCEPT !.lease = "lapsed"]
<1>1. TypeOK /\ op[o] \in Row
  BY RowTyped DEF IInv
<1>2. row \in Row
  BY <1>1 DEF Row
<1>3. op' = [op EXCEPT ![o] = row]
  BY DEF LeaseLapses
<1>4. TypeOK'
  BY <1>1, <1>2, <1>3 DEF TypeOK, LeaseLapses, Others
<1>5. \A p \in Ops : RowInv(p)'
  BY <1>1, <1>3, <1>4 DEF IInv, TypeOK, RowInv, LeaseLapses, Others, Row
<1> QED  BY <1>4, <1>5 DEF IInv

\* The invariant survives RetryDue.
LEMMA RetryDueKeeps ==
    ASSUME IInv, NEW o \in Ops, RetryDue(o)
    PROVE  IInv'
<1> DEFINE row == [op[o] EXCEPT !.wait = FALSE]
<1>1. TypeOK /\ op[o] \in Row
  BY RowTyped DEF IInv
<1>2. row \in Row
  BY <1>1 DEF Row
<1>3. op' = [op EXCEPT ![o] = row]
  BY DEF RetryDue
<1>4. TypeOK'
  BY <1>1, <1>2, <1>3 DEF TypeOK, RetryDue, Others
<1>5. \A p \in Ops : RowInv(p)'
  BY <1>1, <1>3, <1>4 DEF IInv, TypeOK, RowInv, RetryDue, Others, Row
<1> QED  BY <1>4, <1>5 DEF IInv

\* The invariant survives GrowsOld.
LEMMA GrowsOldKeeps ==
    ASSUME IInv, NEW o \in Ops, GrowsOld(o)
    PROVE  IInv'
<1> DEFINE row == [op[o] EXCEPT !.old = TRUE]
<1>1. TypeOK /\ op[o] \in Row
  BY RowTyped DEF IInv
<1>2. row \in Row
  BY <1>1 DEF Row
<1>3. op' = [op EXCEPT ![o] = row]
  BY DEF GrowsOld
<1>4. TypeOK'
  BY <1>1, <1>2, <1>3 DEF TypeOK, GrowsOld, Others
<1>5. \A p \in Ops : RowInv(p)'
  BY <1>1, <1>3, <1>4 DEF IInv, TypeOK, RowInv, GrowsOld, Others, Row
<1> QED  BY <1>4, <1>5 DEF IInv

\* The invariant survives Vanish.
LEMMA VanishKeeps ==
    ASSUME IInv, NEW o \in Ops, NEW c \in Claims, Vanish(o, c)
    PROVE  IInv'
<1>1. TypeOK /\ active[o] <= delivered[o]
  BY DEF IInv, RowInv
<1>2. TypeOK'
  BY <1>1, BoundsAssumption DEF TypeOK, Vanish
<1>3. \A p \in Ops : RowInv(p)'
  BY <1>1, BoundsAssumption DEF IInv, TypeOK, RowInv, Vanish
<1> QED  BY <1>2, <1>3 DEF IInv

\* What the reset after a restore leaves of a row: no claim, and a status that its
\* requests, its kind and its retries allow.
LEMMA RestoredRow ==
    ASSUME IInv, NEW o \in Ops
    PROVE  LET row == op[o]
               new == Restored(o)
           IN  /\ new \in Row /\ new.token = 0 /\ new.lease = "none"
               /\ new.cancel = row.cancel /\ new.pause = row.pause
               /\ new.remote = row.remote /\ new.released = row.released
               /\ row.status \in Terminal \cup {"absent"} => new.status = row.status
               /\ row.status \notin Terminal \cup {"absent"} =>
                    /\ new.status \in {"failed", "cancelled", "paused", "queued"}
                    /\ ~Replayable(o) => new.status = "failed"
                    /\ row.cancel => new.status \in {"failed", "cancelled"}
                    /\ row.pause => new.status # "queued"
<1> DEFINE row == op[o]
           interrupted == row.token # 0 \/ row.status \in Claimed
           status == IF ~Replayable(o) THEN "failed"
                     ELSE IF row.cancel THEN "cancelled"
                     ELSE IF row.status = "paused" \/ row.pause THEN "paused"
                     ELSE IF interrupted /\ row.retries >= AutoRetries THEN "failed"
                     ELSE "queued"
           again == interrupted /\ status = "queued"
           retries == IF again THEN row.retries + 1 ELSE row.retries
           wait == IF again THEN TRUE ELSE status = "queued" /\ row.wait
           reset == [row EXCEPT !.status = status, !.retries = retries, !.wait = wait]
<1>1. row \in Row
  BY RowTyped DEF IInv
<1>2. CASE row.status \in Terminal \cup {"absent"}
  <2>1. Restored(o) = Freed(row)
    BY <1>2 DEF Restored
  <2>2. Freed(row) \in Row
    BY <1>1, Names DEF Freed, Row
  <2>3. /\ Freed(row).token = 0 /\ Freed(row).lease = "none"
        /\ Freed(row).cancel = row.cancel /\ Freed(row).pause = row.pause
        /\ Freed(row).remote = row.remote /\ Freed(row).released = row.released
        /\ Freed(row).status = row.status
    BY <1>1 DEF Freed, Row
  <2> QED  BY <1>2, <2>1, <2>2, <2>3
<1>3. CASE row.status \notin Terminal \cup {"absent"}
  <2>1. Restored(o) = Freed(reset)
    BY <1>3 DEF Restored
  <2>2. /\ row.retries \in 0..AutoRetries /\ row.wait \in BOOLEAN
        /\ row.cancel \in BOOLEAN /\ row.pause \in BOOLEAN
    BY <1>1 DEF Row
  <2>3. /\ status \in {"failed", "cancelled", "paused", "queued"}
        /\ ~Replayable(o) => status = "failed"
        /\ row.cancel => status \in {"failed", "cancelled"}
        /\ row.pause => status # "queued"
        /\ again => row.retries < AutoRetries
    BY <2>2 DEF AutoRetries
  <2>4. status \in Statuses /\ retries \in 0..AutoRetries /\ wait \in BOOLEAN
    BY <2>2, <2>3, Names
  <2> HIDE DEF status, retries, wait, again
  <2>5. Freed(reset) \in Row
    BY <1>1, <2>4, Names, ZenonT(60) DEF Freed, Row
  <2>6. /\ Freed(reset).token = 0 /\ Freed(reset).lease = "none"
        /\ Freed(reset).cancel = row.cancel /\ Freed(reset).pause = row.pause
        /\ Freed(reset).remote = row.remote /\ Freed(reset).released = row.released
        /\ Freed(reset).status = status
    BY <1>1 DEF Freed, Row
  <2> QED  BY <1>3, <2>1, <2>3, <2>5, <2>6
<1> QED  BY <1>2, <1>3

LEMMA RestoreKeeps == ASSUME IInv, Restore PROVE IInv'
<1>1. \A p \in Ops : op'[p] = IF op[p].status = "absent" THEN op[p] ELSE Restored(p)
  BY DEF Restore
<1>2. op' \in [Ops -> Row]
  <2>1. \A p \in Ops : op[p] \in Row /\ Restored(p) \in Row
    BY RestoredRow, RowTyped DEF IInv
  <2> QED  BY <2>1 DEF Restore
<1>3. TypeOK'
  BY <1>2, BoundsAssumption DEF IInv, TypeOK, Restore, Claims
<1>4. ASSUME NEW p \in Ops PROVE RowInv(p)'
  <2>1. RowInv(p) /\ op[p] \in Row
    BY RowTyped DEF IInv
  <2>2. issued[p] \in 0..MaxClaims /\ delivered[p] \in 0..MaxJobs
    BY DEF IInv, TypeOK
  <2>3. active'[p] = 0 /\ issued' = issued /\ delivered' = delivered /\ published' = published
        /\ lost' = lost
    BY DEF Restore
  <2>4. CASE op[p].status = "absent"
    BY <1>1, <2>1, <2>2, <2>3, <2>4, BoundsAssumption DEF RowInv
  <2>5. CASE op[p].status # "absent"
    <3> DEFINE new == Restored(p)
    <3>1. op'[p] = new
      BY <1>1, <2>5
    <3>2. /\ new.token = 0 /\ new.lease = "none"
          /\ new.cancel = op[p].cancel /\ new.pause = op[p].pause
          /\ new.remote = op[p].remote /\ new.released = op[p].released
          /\ op[p].status \in Terminal => new.status = op[p].status
          /\ op[p].status \notin Terminal =>
               /\ new.status \in {"failed", "cancelled", "paused", "queued"}
               /\ ~Replayable(p) => new.status = "failed"
               /\ op[p].cancel => new.status \in {"failed", "cancelled"}
               /\ op[p].pause => new.status # "queued"
      BY <2>5, RestoredRow
    <3> HIDE DEF new
    <3> QED  BY <2>1, <2>2, <2>3, <2>5, <3>1, <3>2, KindsAssumption, BoundsAssumption
                DEF RowInv, Claimed, Working, Terminal, Replayable
  <2> QED  BY <2>4, <2>5
<1> QED  BY <1>3, <1>4 DEF IInv

-----------------------------------------------------------------------------
(* The theorems. *)

\* The empty table satisfies the invariant.
LEMMA InitInvariant == Init => IInv
<1> SUFFICES ASSUME Init PROVE IInv
  OBVIOUS
<1>1. \A o \in Ops : NewRow(o) \in Row
  BY Names DEF NewRow, Row, AutoRetries
<1>2. TypeOK
  BY <1>1, BoundsAssumption DEF Init, TypeOK
<1>3. \A o \in Ops : RowInv(o)
  BY BoundsAssumption DEF Init, RowInv, NewRow, Working, Claimed, Terminal
<1> QED  BY <1>2, <1>3 DEF IInv

\* Every step of owner, worker, sweep, queue, clock and restore keeps it.
LEMMA StepInvariant == IInv /\ [Next]_vars => IInv'
<1> SUFFICES ASSUME IInv, [Next]_vars PROVE IInv'
  OBVIOUS
<1>1. ASSUME NEW o \in Ops, RowStep(o) PROVE IInv'
  BY <1>1, CreateKeeps, ClaimNextKeeps, BeginJobQueueRunKeeps, RequestCancelKeeps,
     RequestPauseKeeps, ResumeKeeps, ReleaseRemoteKeeps, RecoverPausedKeeps,
     RecoverRetriedKeeps, RecoverFailedKeeps, AbandonCancelKeeps, ClaimDispatchKeeps,
     ReleaseDispatchKeeps, QueueFencesKeeps, JobStartsKeeps, JobEndsKeeps,
     LeaseLapsesKeeps, RetryDueKeeps, GrowsOldKeeps
     DEF RowStep, Sweep
<1>2. ASSUME NEW o \in Ops, NEW c \in Claims, Worker(o, c) PROVE IInv'
  BY <1>2, HeartbeatKeeps, BeginValidationKeeps, CompleteKeeps, ReportProgressKeeps,
     FailRetryingKeeps, FailFinallyKeeps, RequeueKeeps, AcknowledgeCancelKeeps,
     SettlePauseKeeps, RecordRemoteJobKeeps, ReleaseOwnKeeps, VanishKeeps
     DEF Worker
<1>3. CASE Restore
  BY <1>3, RestoreKeeps
<1>4. CASE UNCHANGED vars
  BY <1>4 DEF IInv, TypeOK, RowInv, vars, Replayable
<1> QED  BY <1>1, <1>2, <1>3, <1>4 DEF Next

\* The inductive invariant says what the properties say.
LEMMA InvariantImplies == IInv => OperationInv
<1> SUFFICES ASSUME IInv PROVE OperationInv
  OBVIOUS
<1>1. TypeOK /\ \A o \in Ops : RowInv(o)
  BY DEF IInv
<1>2. ClaimsRecoverable /\ CancelWins /\ NoPauseInQueue
  BY <1>1 DEF RowInv, ClaimsRecoverable, CancelWins, NoPauseInQueue
<1>3. AdoptedOnce
  BY <1>1 DEF RowInv, AdoptedOnce
<1>4. LostUnsafeWaits
  BY <1>1 DEF TypeOK, RowInv, LostUnsafeWaits
<1> QED  BY <1>1, <1>2, <1>3, <1>4 DEF OperationInv

\* The inductive invariant holds in every reachable state.
THEOREM Invariant == Spec => []IInv
  BY InitInvariant, StepInvariant, PTL DEF Spec

\* The table's safety: a row that waits for a worker can be found by the sweep and one nobody
\* works on matches no late call; a cancel outranks whatever races it and no pause is stranded
\* in the queue; at most one output of a row is adopted, exactly when the row completes;
\* unsafe work whose worker was lost waits for its owner.
THEOREM OperationsCorrect == Spec => []OperationInv
  BY Invariant, InvariantImplies, PTL

\* No step changes the outcome of a finished row.
LEMMA TerminalStep ==
    ASSUME IInv, [Next]_vars, NEW o \in Ops, op[o].status \in Terminal
    PROVE  op'[o].status = op[o].status
<1>1. /\ op[o] \in Row /\ op[o].token = 0 /\ op[o].lease = "none"
      /\ op[o].status \notin Claimed \cup Unclaimed \cup {"absent"}
      /\ op \in [Ops -> Row]
  BY RowTyped DEF IInv, TypeOK, RowInv, Terminal, Claimed, Working, Unclaimed
<1>2. ASSUME NEW p \in Ops, NEW row, Write(p, row), row.status = op[p].status, row \in Row
      PROVE  op'[o].status = op[o].status
  BY <1>1, <1>2 DEF Write, Row
<1>3. ASSUME NEW p \in Ops, p # o, NEW row, Write(p, row)
      PROVE  op'[o].status = op[o].status
  BY <1>1, <1>3 DEF Write
<1>4. ASSUME NEW p \in Ops, NEW c \in Claims, Worker(p, c) PROVE op'[o].status = op[o].status
  <2>a. ~Holds(o, c)
    BY <1>1 DEF Holds, Claims
  <2>1. p = o => \/ RecordRemoteJob(o, c) \/ ReleaseOwn(o, c) \/ Vanish(o, c)
    BY <1>4, <2>a DEF Worker, Heartbeat, BeginValidation, Complete, ReportProgress, FailRetrying,
          FailFinally, Requeue, AcknowledgeCancel, SettlePause
  <2>2. op' = op \/ \E row : Write(p, row)
    BY <1>4 DEF Worker, Heartbeat, BeginValidation, Complete, ReportProgress, FailRetrying,
          FailFinally, Requeue, AcknowledgeCancel, SettlePause, RecordRemoteJob, ReleaseOwn, Vanish
  <2>3. CASE p # o
    BY <1>3, <2>2, <2>3
  <2>4. CASE p = o
    <3>1. CASE RecordRemoteJob(o, c)
      <4> DEFINE row == [op[o] EXCEPT !.remote = TRUE]
      <4>1. row \in Row /\ row.status = op[o].status
        BY <1>1 DEF Row
      <4> QED  BY <1>2, <3>1, <4>1 DEF RecordRemoteJob
    <3>2. CASE ReleaseOwn(o, c)
      <4> DEFINE row == [op[o] EXCEPT !.released = TRUE]
      <4>1. row \in Row /\ row.status = op[o].status
        BY <1>1 DEF Row
      <4> QED  BY <1>2, <3>2, <4>1 DEF ReleaseOwn
    <3>3. CASE Vanish(o, c)
      BY <3>3 DEF Vanish
    <3> QED  BY <2>1, <2>4, <3>1, <3>2, <3>3
  <2> QED  BY <2>3, <2>4
<1>5. ASSUME NEW p \in Ops, RowStep(p) PROVE op'[o].status = op[o].status
  <2>1. p = o => \/ ReleaseRemote(o) \/ JobStarts(o) \/ JobEnds(o) \/ RetryDue(o)
                 \/ (\E stopped \in BOOLEAN : QueueFences(o, stopped)) /\ op' = op
    BY <1>1, <1>5 DEF RowStep, Create, ClaimNext, BeginJobQueueRun, RequestCancel, RequestPause,
          Resume, Sweep, RecoverPaused, RecoverRetried, RecoverFailed, AbandonCancel, Lapsed,
          ClaimDispatch, Dispatchable, ReleaseDispatch, QueueFences, LeaseLapses, GrowsOld,
          Claimed, Unclaimed, Terminal, Working
  <2>2. op' = op \/ (\E row : Write(p, row)) \/ (\E row : op' = [op EXCEPT ![p] = row])
    <3>1. CASE LeaseLapses(p)
      <4>1. op' = [op EXCEPT ![p] = [op[p] EXCEPT !.lease = "lapsed"]]
        BY <3>1 DEF LeaseLapses
      <4> QED  BY <4>1
    <3>2. CASE RetryDue(p)
      <4>1. op' = [op EXCEPT ![p] = [op[p] EXCEPT !.wait = FALSE]]
        BY <3>2 DEF RetryDue
      <4> QED  BY <4>1
    <3>3. CASE GrowsOld(p)
      <4>1. op' = [op EXCEPT ![p] = [op[p] EXCEPT !.old = TRUE]]
        BY <3>3 DEF GrowsOld
      <4> QED  BY <4>1
    <3>4. CASE ~LeaseLapses(p) /\ ~RetryDue(p) /\ ~GrowsOld(p)
      BY <1>5, <3>4 DEF RowStep, Create, ClaimNext, BeginJobQueueRun, Take, RequestCancel,
          RequestPause, Resume, ReleaseRemote, Sweep, RecoverPaused, RecoverRetried, RecoverFailed,
          AbandonCancel, ClaimDispatch, ReleaseDispatch, QueueFences, JobStarts, JobEnds
    <3> QED  BY <3>1, <3>2, <3>3, <3>4
  <2>3. CASE p # o
    BY <1>1, <1>3, <2>2, <2>3
  <2>4. CASE p = o
    <3>1. CASE ReleaseRemote(o)
      <4> DEFINE row == [op[o] EXCEPT !.released = TRUE]
      <4>1. row \in Row /\ row.status = op[o].status
        BY <1>1 DEF Row
      <4> QED  BY <1>2, <3>1, <4>1 DEF ReleaseRemote
    <3>2. CASE RetryDue(o)
      <4>1. op' = [op EXCEPT ![o] = [op[o] EXCEPT !.wait = FALSE]]
        BY <3>2 DEF RetryDue
      <4> QED  BY <1>1, <4>1 DEF Row
    <3>3. CASE op' = op
      BY <3>3
    <3> QED  BY <2>1, <2>4, <3>1, <3>2, <3>3 DEF JobStarts, JobEnds
  <2> QED  BY <2>3, <2>4
<1>6. CASE Restore
  <2>1. op'[o] = Restored(o)
    BY <1>1, <1>6 DEF Restore
  <2> QED  BY <2>1, RestoredRow
<1>7. CASE UNCHANGED vars
  BY <1>7 DEF vars
<1> QED  BY <1>4, <1>5, <1>6, <1>7 DEF Next

\* A finished row never changes its outcome.
THEOREM Outcomes == Spec => OutcomeIsFinal
<1>1. IInv /\ [Next]_vars => [\A o \in Ops : op[o].status \in Terminal
                                => op'[o].status = op[o].status]_vars
  BY TerminalStep
<1> QED  BY <1>1, Invariant, PTL DEF Spec, OutcomeIsFinal
=============================================================================
