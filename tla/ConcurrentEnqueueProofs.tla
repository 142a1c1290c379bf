----------------------- MODULE ConcurrentEnqueueProofs -----------------------
(***************************************************************************)
(* Proofs about ConcurrentEnqueue, for any number of callers and rows and  *)
(* any runs, modes and parents of the requests: once a call has returned,  *)
(* a job looks at its change, whatever other calls and executors did       *)
(* between its statements.                                                 *)
(*                                                                         *)
(* Covered speaks of calls that have returned.  What makes it inductive is *)
(* what the statements before the commit leave: the key is live once and   *)
(* written once (Single), a caller that has looked meets no job blind to   *)
(* its change (Noticed), one that writes nothing relies on a row that      *)
(* carries its request (Kept), and a request that was a row's latest is    *)
(* lost only with the one that replaced it (Named).                        *)
(***************************************************************************)
EXTENDS ConcurrentEnqueue, WellFoundedInduction, TLAPS

\* What row rw does for caller c: look at whatever is committed when it starts, have looked, or
\* have its request, or one that replaced it, to follow.
Carries(rw, c) == rw.state = "pending" \/ (rw.state = "active" /\ c \in rw.seen \cup rw.noted)

\* Whose request a row remembers, that is followed by its latest; what is over remembers none.
Named(rw) == /\ rw.noted # {} => rw.latest # Nobody
             /\ rw.latest # Nobody => rw.latest \in rw.noted /\ rw.state \in Live

Writer(c) == write[c].job # NoJob

\* Where a caller is, it holds and has committed what the statements before it left; what it has
\* written carries its request.
Places ==
  \A c \in Callers :
    /\ phase[c] # "write" => write[c] = NoWrite
    /\ phase[c] \notin {"wait", "write"} => target[c] = NoJob
    /\ phase[c] = "wait" => target[c] # NoJob
    /\ phase[c] = "done" \/ (phase[c] # "idle" /\ c \notin InTx) => c \in changed
    /\ Writer(c) => /\ write[c].row.state \in Live /\ Named(write[c].row)
                    /\ c \in Promised => Carries(write[c].row, c)

\* A running row that records one more latest request.
Later(old, new) ==
  old.state = "active" /\ new.seen = old.seen /\ old.noted \subseteq new.noted

\* The key is live once, and once at most is it being written: on the live row, or as a new one.
Single ==
  /\ \A i, j \in LiveRows : i = j
  /\ \A c, d \in Callers : Writer(c) /\ Writer(d) => c = d
  /\ \A c \in Callers : Writer(c) => write[c].job \in LiveRows \/ LiveRows = {}
  /\ \A c \in Callers : Writer(c) /\ write[c].row.state = "active" => Later(row[write[c].job], write[c].row)

\* A caller that found no job, or lost the one it waited for, meets none that is blind to its
\* change: what runs by now was claimed after the change was committed.
Met(c, j) == row[j].state = "active" => c \in row[j].seen
Noticed ==
  \A c \in Callers \ InTx :
    /\ phase[c] = "insert" => \A j \in Jobs : Met(c, j)
    /\ phase[c] = "wait" => \A j \in Jobs \ {target[c]} : Met(c, j)

\* A promised request that has written nothing relies on the row it has locked, or on one that
\* was in the way of its insert.
Kept ==
  \A c \in Promised : phase[c] = "write" /\ ~Writer(c) =>
    /\ target[c] # NoJob => row[target[c]].state = "pending"
    /\ target[c] = NoJob => c \in dropped \cup displaced \/ (c \in raced /\ (c \in InTx \/ Looked(c)))

\* The committed rows name who is to follow, and only who may be lost is.
RowsNamed == \A j \in Jobs : Named(row[j])

IInv == TypeOK /\ Places /\ Single /\ Noticed /\ Kept /\ RowsNamed /\ Covered

-----------------------------------------------------------------------------
(* The constants and the initial state. *)

\* A non-empty set of rows has a least one.
LEMMA LeastIn == ASSUME NEW S \in SUBSET Jobs, S # {} PROVE Least(S) \in S
<1>1. S \subseteq Nat  BY EnqueueAssumption DEF Jobs
<1> DEFINE R == OpToRel(<, Nat)
<1>2. IsWellFoundedOn(R, Nat)  BY NatLessThanWellFounded, Zenon
<1>3. \A u, t \in Nat : <<u, t>> \notin R => t <= u  BY DEF OpToRel
<1> HIDE DEF R
<1>4. PICK t \in S : \A u \in S : <<u, t>> \notin R  BY <1>1, <1>2, WFMin, Zenon
<1>5. \A u \in S : t <= u  BY <1>1, <1>3, <1>4
<1> QED  BY <1>5 DEF Least

\* What the assumptions say of rows, runs, parents and the callers that are owed a job.
LEMMA Constants ==
  /\ Jobs \subseteq Nat /\ NoJob \notin Jobs /\ Promised \subseteq Callers
  /\ Nobody \notin Callers /\ AbsentRow \in RowType
  /\ \A c \in Callers : RunOf[c] \in Runs \cup {NoRun} /\ Parent[c] \in Callers \cup {Nobody}
BY EnqueueAssumption DEF Jobs, NoJob, Promised, AbsentRow, RowType, Live, Terminal

\* Nobody has called yet and the key is live nowhere.
LEMMA InitInv == Init => IInv
<1> SUFFICES ASSUME Init PROVE IInv  OBVIOUS
<1>1. PICK r \in Runs, s \in Terminal \cup {"absent"}, p \in {Parent[c] : c \in Callers} :
        row = [j \in Jobs |-> IF j = 1 /\ s # "absent"
                              THEN [AbsentRow EXCEPT !.state = s, !.run = r, !.parent = p]
                              ELSE AbsentRow]
  BY DEF Init
<1>2. [AbsentRow EXCEPT !.state = s, !.run = r, !.parent = p] \in RowType
  BY EnqueueAssumption DEF AbsentRow, RowType, Terminal, Live
<1>3. /\ row \in [Jobs -> RowType]
      /\ \A j \in Jobs : /\ row[j].latest = Nobody /\ row[j].noted = {}
                        /\ row[j].state \in Terminal \cup {"absent"}
  BY <1>1, <1>2, Constants DEF AbsentRow
<1>4. TypeOK  BY <1>3, Constants DEF Init, TypeOK, NoWrite
<1>5. LiveRows = {}  BY <1>3 DEF LiveRows, Live, Terminal
<1>6. Places /\ Single /\ Noticed /\ Kept /\ RowsNamed /\ Covered
  BY <1>3, <1>5, Constants DEF Init, Places, Single, Noticed, Kept, RowsNamed, Named, Covered, NoWrite, Writer
<1> QED  BY <1>4, <1>6 DEF IInv

-----------------------------------------------------------------------------
(* The caller. *)

\* A call begins, with its change committed or to be committed with the job.
LEMMA BeginKeeps == ASSUME IInv, NEW c \in Callers, Begin(c) PROVE IInv'
<1>1. TypeOK'  BY DEF IInv, TypeOK, Begin, past
<1>2. Places'  BY DEF IInv, TypeOK, Places, Begin, past, Writer
<1>3. Single'  BY DEF IInv, Single, Begin, past, Writer, LiveRows
<1>4. Noticed' /\ Kept' /\ RowsNamed' /\ Covered'
  BY Constants
     DEF IInv, TypeOK, Noticed, Kept, RowsNamed, Covered, Begin, past, Writer, Met, Looked, CarriedBy
<1> QED  BY <1>1, <1>2, <1>3, <1>4 DEF IInv

\* The look for a live row: no row found means none that is blind to the change.
LEMMA LookKeeps == ASSUME IInv, NEW c \in Callers, Look(c) PROVE IInv'
<1>1. LiveRows # {} => Least(LiveRows) \in LiveRows /\ LiveRows \subseteq Jobs  BY LeastIn DEF LiveRows
<1>2. TypeOK'  BY <1>1 DEF IInv, TypeOK, Look, past
<1>3. Places'  BY <1>1, Constants DEF IInv, TypeOK, Places, Look, past, Writer
<1>4. Single'  BY DEF IInv, Single, Look, past, Writer, LiveRows
<1>5. Noticed'
  <2>1. \A d \in Callers \ {c} : phase'[d] = phase[d] /\ target'[d] = target[d]
    BY DEF IInv, TypeOK, Look
  <2>2. \A j \in Jobs : row[j].state = "active" => j \in LiveRows  BY DEF LiveRows, Live
  <2>3. phase'[c] = "insert" => \A j \in Jobs : Met(c, j)  BY <2>2 DEF IInv, TypeOK, Look, Met
  <2>4. phase'[c] = "wait" => \A j \in Jobs \ {target'[c]} : Met(c, j)
    BY <1>1, <2>2 DEF IInv, TypeOK, Single, Look, Met
  <2> QED  BY <2>1, <2>3, <2>4 DEF IInv, Noticed, Look, Met
<1>6. Kept' /\ RowsNamed' /\ Covered'
  <2>1. /\ phase'[c] \in {"insert", "wait"} /\ row' = row /\ write' = write /\ past' = past
        /\ \A d \in Callers \ {c} : phase'[d] = phase[d] /\ target'[d] = target[d]
    BY DEF IInv, TypeOK, Look
  <2>2. \A d \in Callers : Looked(d)' <=> Looked(d)  BY <2>1 DEF Looked, CarriedBy, past
  <2> QED  BY <2>1, <2>2, Constants DEF IInv, Kept, RowsNamed, Covered, past, Writer
<1> QED  BY <1>2, <1>3, <1>4, <1>5, <1>6 DEF IInv

\* A call that fails, at whichever statement, leaves nothing behind.
LEMMA FailKeeps ==
  ASSUME IInv, NEW c \in Callers, phase[c] # "idle", Fail(c) PROVE IInv'
<1>1. NoWrite \in [job : Jobs \cup {NoJob}, row : RowType] /\ NoWrite.job = NoJob  BY Constants DEF NoWrite
<1>2. TypeOK'  BY <1>1 DEF IInv, TypeOK, Fail, past
<1>3. Places'  BY <1>1 DEF IInv, TypeOK, Places, Fail, past, Writer
<1>4. Single'  BY <1>1 DEF IInv, TypeOK, Single, Fail, past, Writer, LiveRows
<1>5. Noticed' /\ Kept' /\ RowsNamed' /\ Covered'
  BY <1>1, Constants
     DEF IInv, TypeOK, Noticed, Kept, RowsNamed, Covered, Fail, past, Writer, Met, Looked, CarriedBy
<1> QED  BY <1>2, <1>3, <1>4, <1>5 DEF IInv

\* A caller that finds the row it waited for ended goes on to insert.
LEMMA TakeEndedKeeps == ASSUME IInv, NEW c \in Callers, TakeEnded(c) PROVE IInv'
<1>1. TypeOK'  BY DEF IInv, TypeOK, TakeEnded, past
<1>2. Places'  BY DEF IInv, TypeOK, Places, TakeEnded, past, Writer
<1>3. Single'  BY DEF IInv, Single, TakeEnded, past, Writer, LiveRows
<1>4. Noticed'  BY DEF IInv, TypeOK, Noticed, TakeEnded, past, Met, Live
<1>5. Kept' /\ RowsNamed' /\ Covered'
  BY Constants DEF IInv, TypeOK, Kept, RowsNamed, Covered, TakeEnded, past, Writer, Looked, CarriedBy
<1> QED  BY <1>1, <1>2, <1>3, <1>4, <1>5 DEF IInv

\* Who finds the live row free, or no entry of the key held, is the only one to write.
LEMMA LockedAlone ==
  ASSUME IInv, NEW c \in Callers, NEW j \in LiveRows, Free(j)
  PROVE  \A d \in Callers : ~Writer(d)
BY DEF IInv, Places, Single, Free, Writer, NoWrite

\* The same for the key: whoever may insert finds no other writer.
LEMMA UnheldAlone ==
  ASSUME IInv, NEW c \in Callers, ~KeyHeld(c)
  PROVE  \A d \in Callers \ {c} : ~Writer(d)
BY DEF IInv, Places, KeyHeld, Others, Writer

\* Any write into the live row, or into another while none is live, that carries the request.
LEMMA WrittenKeeps ==
  ASSUME IInv, NEW c \in Callers, NEW j \in Jobs, NEW rw \in RowType, phase[c] \in {"wait", "insert"},
         Written(c, j, rw), rw.state \in Live, Named(rw), c \in Promised => Carries(rw, c),
         rw.state = "active" => Later(row[j], rw),
         \A d \in Callers \ {c} : ~Writer(d), j \in LiveRows \/ LiveRows = {}
  PROVE  IInv'
<1>1. /\ write'[c].job = j /\ write'[c].row = rw /\ phase'[c] = "write"
      /\ \A d \in Callers \ {c} : write'[d] = write[d] /\ phase'[d] = phase[d]
      /\ row' = row /\ target' = target /\ changed' = changed /\ past' = past /\ j # NoJob
  BY Constants DEF IInv, TypeOK, Written
<1>2. TypeOK'  BY <1>1 DEF IInv, TypeOK, Written, past
<1>3. Places'  BY <1>1 DEF IInv, TypeOK, Places, Writer
<1>4. Single'  BY <1>1 DEF IInv, Single, Writer, LiveRows
<1>5. Noticed' /\ Kept' /\ RowsNamed' /\ Covered'
  BY <1>1, Constants DEF IInv, Noticed, Kept, RowsNamed, Covered, past, Writer, Met, Looked, CarriedBy
<1> QED  BY <1>2, <1>3, <1>4, <1>5 DEF IInv

\* A request may write nothing when the row it has locked is still to be claimed.
LEMMA NothingWrittenKeeps ==
  ASSUME IInv, NEW c \in Callers, phase[c] \in {"look", "wait"}, NothingWritten(c),
         c \in Promised => target[c] # NoJob /\ row[target[c]].state = "pending"
  PROVE  IInv'
<1>1. /\ phase'[c] = "write" /\ \A d \in Callers \ {c} : phase'[d] = phase[d]
      /\ row' = row /\ target' = target /\ write' = write /\ changed' = changed /\ past' = past
  BY DEF IInv, TypeOK, NothingWritten
<1>2. TypeOK'  BY <1>1 DEF IInv, TypeOK, NothingWritten, past
<1>3. Places'  BY <1>1 DEF IInv, Places, Writer
<1>4. Single'  BY <1>1 DEF IInv, Single, Writer, LiveRows
<1>5. Noticed' /\ Kept' /\ RowsNamed' /\ Covered'
  BY <1>1, Constants
     DEF IInv, Places, Noticed, Kept, RowsNamed, Covered, past, Writer, Met, Looked, CarriedBy
<1> QED  BY <1>2, <1>3, <1>4, <1>5 DEF IInv

\* The row a caller waits for.
LEMMA Waited ==
  ASSUME IInv, NEW c \in Callers, phase[c] = "wait"
  PROVE  target[c] \in Jobs /\ (row[target[c]].state \in Live => target[c] \in LiveRows)
BY DEF IInv, TypeOK, Places, LiveRows

\* A running job takes the request as its latest.
LEMMA RecordLatestKeeps == ASSUME IInv, NEW c \in Callers, RecordLatest(c) PROVE IInv'
<1> DEFINE j == target[c]
           rw == [row[j] EXCEPT !.latest = c, !.noted = @ \cup {c}]
<1>1. j \in LiveRows /\ j \in Jobs /\ row[j].state = "active"  BY Waited DEF RecordLatest, Live
<1>2. CASE Mode[c] = "drop"
  BY <1>2, NothingWrittenKeeps DEF RecordLatest, Promised
<1>3. CASE Mode[c] # "drop"
  <2>0. c \in Promised  BY <1>3, EnqueueAssumption DEF RecordLatest, Promised
  <2>1. row[j] \in RowType  BY <1>1 DEF IInv, TypeOK
  <2>2. /\ rw \in RowType /\ rw.state = "active" /\ rw.latest = c
        /\ rw.noted = row[j].noted \cup {c} /\ rw.seen = row[j].seen
    BY <1>1, <2>0, <2>1 DEF RowType
  <2>3. Named(rw) /\ Carries(rw, c) /\ Later(row[j], rw) /\ rw.state \in Live
    BY <1>1, <2>0, <2>2, Constants DEF Named, Carries, Later, Live
  <2> HIDE DEF rw
  <2> QED  BY <1>1, <1>3, <2>2, <2>3, LockedAlone, WrittenKeeps DEF RecordLatest, rw
<1> QED  BY <1>2, <1>3

\* A pending row stands for the request, and moves to its run.
LEMMA MoveIntoKeeps == ASSUME IInv, NEW c \in Callers, MoveInto(c) PROVE IInv'
<1> DEFINE j == target[c]
           rw == [row[j] EXCEPT !.run = RunOf[c]]
<1>1. j \in LiveRows /\ j \in Jobs /\ row[j].state = "pending" /\ phase[c] = "wait"
  BY Waited DEF MoveInto, Live
<1>2. CASE Mode[c] # "last"  BY <1>1, <1>2, Constants, NothingWrittenKeeps DEF MoveInto
<1>3. CASE Mode[c] = "last" /\ OnStage(RunOf[c]) \subseteq {j}
  <2>1. row[j] \in RowType /\ Named(row[j])  BY <1>1 DEF IInv, TypeOK, RowsNamed
  <2>2. rw \in RowType /\ rw.state = "pending" /\ rw.latest = row[j].latest /\ rw.noted = row[j].noted
    BY <1>1, <2>1, Constants DEF RowType
  <2>3. Named(rw) /\ Carries(rw, c) /\ rw.state \in Live  BY <1>1, <2>1, <2>2 DEF Named, Carries, Live
  <2> HIDE DEF rw
  <2> QED  BY <1>1, <1>3, <2>2, <2>3, LockedAlone, WrittenKeeps DEF MoveInto, rw
<1>4. CASE Mode[c] = "last" /\ ~(OnStage(RunOf[c]) \subseteq {j})
  BY <1>1, <1>4, FailKeeps DEF MoveInto
<1> QED  BY <1>2, <1>3, <1>4

\* A row as the insert writes it.
LEMMA FreshRow ==
  ASSUME NEW c \in Callers
  PROVE  /\ Fresh(c) \in RowType /\ Fresh(c).state = "pending"
         /\ Named(Fresh(c)) /\ Fresh(c).state \in Live /\ Carries(Fresh(c), c)
BY Constants DEF Fresh, AbsentRow, RowType, Live, Named, Carries

\* The insert.
LEMMA InsertKeeps == ASSUME IInv, NEW c \in Callers, Insert(c) PROVE IInv'
<1>1. Least(Unused) \in Jobs  BY LeastIn DEF Insert, Unused
<1> QED  BY <1>1, FreshRow, UnheldAlone, WrittenKeeps DEF Insert

\* An insert in conflict: the ended row is rearmed, or the request is given up.
LEMMA ConflictKeeps == ASSUME IInv, NEW c \in Callers, Conflict(c) PROVE IInv'
<1> DEFINE stage == OnStage(RunOf[c])
<1>1. phase[c] = "insert" /\ \A d \in Callers \ {c} : ~Writer(d)  BY UnheldAlone DEF Conflict
<1>2. CASE \E j \in stage : MayRearm(j, c)
  <2>1. PICK j \in stage : IF LiveRows # {} THEN Fail(c) ELSE Written(c, j, Fresh(c))
    BY <1>2 DEF Conflict
  <2>2. j \in Jobs  BY DEF OnStage
  <2> QED  BY <1>1, <2>1, <2>2, FailKeeps, FreshRow, WrittenKeeps
<1>3. CASE ~\E j \in stage : MayRearm(j, c)
  <2>1. /\ phase'[c] = "write" /\ \A d \in Callers \ {c} : phase'[d] = phase[d]
        /\ row' = row /\ target' = target /\ write' = write /\ changed' = changed /\ processed' = processed
        /\ displaced' = displaced
        /\ \/ LiveRows = {} /\ dropped' = dropped \cup {c} /\ raced' = raced
           \/ LiveRows # {} /\ raced' = raced \cup {c} /\ dropped' = dropped
    BY <1>3 DEF Conflict, IInv, TypeOK
  <2>2. TypeOK'  BY <1>3, <2>1 DEF IInv, TypeOK, Conflict
  <2>3. Places'  BY <1>1, <2>1 DEF IInv, Places, Writer
  <2>4. Single'  BY <2>1 DEF IInv, Single, Writer, LiveRows
  <2>5. \A d \in Callers : Looked(d)' <=> Looked(d)  BY <2>1 DEF Looked, CarriedBy
  <2>6. LiveRows # {} /\ c \notin InTx => Looked(c)
    BY <1>1, <2>1 DEF IInv, Noticed, Met, Looked, CarriedBy, LiveRows, Live
  <2>7. Noticed'  BY <2>1 DEF IInv, Noticed, Met
  <2>8. Kept'  BY <1>1, <2>1, <2>5, <2>6, Constants DEF IInv, Places, Kept, Writer
  <2>9. RowsNamed' /\ Covered'  BY <2>1, <2>5, Constants DEF IInv, RowsNamed, Covered
  <2> QED  BY <2>2, <2>3, <2>4, <2>7, <2>8, <2>9 DEF IInv
<1> QED  BY <1>2, <1>3

\* A retry's snapshot chooses a failed row, or none.
LEMMA RetryLookKeeps == ASSUME IInv, NEW c \in Callers, RetryLook(c) PROVE IInv'
<1>0. c \notin Promised  BY DEF RetryLook, Promised
<1>1. CASE LiveRows # {} \/ FailedRows = {}  BY <1>0, <1>1, NothingWrittenKeeps DEF RetryLook
<1>2. CASE ~(LiveRows # {} \/ FailedRows = {})
  <2>0. Least(FailedRows) \in Jobs  BY <1>2, LeastIn DEF FailedRows
  <2>1. /\ phase'[c] = "wait" /\ target'[c] \in Jobs /\ LiveRows = {}
        /\ \A d \in Callers \ {c} : phase'[d] = phase[d] /\ target'[d] = target[d]
        /\ row' = row /\ write' = write /\ changed' = changed /\ past' = past
    BY <1>2, <2>0 DEF RetryLook, IInv, TypeOK
  <2>2. TypeOK'  BY <1>2, <2>0 DEF IInv, TypeOK, RetryLook, past
  <2>3. Places'  BY <2>1, Constants DEF IInv, Places, RetryLook, Writer
  <2>4. Single'  BY <2>1 DEF IInv, Single, Writer, LiveRows
  <2>5. \A j \in Jobs : row[j].state # "active"  BY <2>1 DEF LiveRows, Live
  <2>6. Noticed'  BY <2>1, <2>5 DEF Noticed, Met
  <2>7. Kept' /\ RowsNamed' /\ Covered'
    BY <2>1, Constants DEF IInv, Kept, RowsNamed, Covered, past, Writer, Looked, CarriedBy
  <2> QED  BY <2>2, <2>3, <2>4, <2>6, <2>7 DEF IInv
<1> QED  BY <1>1, <1>2

\* The row it updates waits to be claimed, whatever became of it since the snapshot.
LEMMA PutBackKeeps == ASSUME IInv, NEW c \in Callers, PutBack(c) PROVE IInv'
<1> DEFINE j == target[c]
           rw == [row[j] EXCEPT !.state = "pending", !.seen = {}]
<1>0. c \notin Promised /\ phase[c] = "wait" /\ j \in Jobs  BY Waited DEF PutBack, Promised
<1>1. CASE LiveRows \ {j} # {} \/ row[j].state = "active"  BY <1>0, <1>1, FailKeeps DEF PutBack
<1>2. CASE ~(LiveRows \ {j} # {} \/ row[j].state = "active")
  <2>1. row[j] \in RowType /\ Named(row[j])  BY <1>0 DEF IInv, TypeOK, RowsNamed
  <2>2. rw \in RowType /\ rw.state = "pending" /\ rw.latest = row[j].latest /\ rw.noted = row[j].noted
    BY <2>1 DEF RowType, Live
  <2>3. Named(rw) /\ rw.state \in Live  BY <2>1, <2>2 DEF Named, Live
  <2>4. j \in LiveRows \/ LiveRows = {}  BY <1>2
  <2>5. Written(c, j, rw)  BY <1>2 DEF PutBack
  <2> HIDE DEF rw
  <2> QED  BY <1>0, <2>2, <2>3, <2>4, <2>5, UnheldAlone, WrittenKeeps DEF PutBack
<1> QED  BY <1>1, <1>2

\* A commit that writes leaves a row that carries every change; one that does not relies on what
\* was there.
LEMMA CommitKeeps == ASSUME IInv, NEW c \in Callers, Commit(c) PROVE IInv'
<1>0. TypeOK /\ Places /\ Single /\ Noticed /\ Kept /\ RowsNamed /\ Covered  BY DEF IInv
<1>1. NoWrite \in [job : Jobs \cup {NoJob}, row : RowType] /\ NoWrite.job = NoJob  BY Constants DEF NoWrite
<1>2. /\ phase[c] = "write" /\ phase'[c] = "done" /\ \A d \in Callers \ {c} : phase'[d] = phase[d]
      /\ target'[c] = NoJob /\ \A d \in Callers \ {c} : target'[d] = target[d]
      /\ write'[c] = NoWrite /\ \A d \in Callers \ {c} : write'[d] = write[d]
      /\ changed' = changed \cup {c} /\ past' = past
  BY <1>0 DEF Commit, TypeOK
<1>3. Places'  BY <1>0, <1>1, <1>2 DEF Places, Writer
<1>4. CASE ~Writer(c)
  <2>1. row' = row  BY <1>4 DEF Commit, Writer
  <2>2. TypeOK'  BY <1>0, <1>1, <2>1 DEF Commit, TypeOK, past
  <2>3. Single'  BY <1>0, <1>1, <1>2, <2>1 DEF Single, Writer, LiveRows
  <2>4. Noticed'  BY <1>0, <1>2, <2>1 DEF Noticed, Met
  <2>5. \A d \in Callers : Looked(d)' <=> Looked(d)  BY <1>2, <2>1 DEF Looked, CarriedBy, past
  <2>6. Kept' /\ RowsNamed'
    BY <1>0, <1>1, <1>2, <2>1, <2>5, Constants DEF Kept, RowsNamed, Writer, past
  <2>7. \A d \in Callers, j \in Jobs : row[j].state = "pending" => Looked(d)  BY DEF Looked, CarriedBy
  <2>8. c \in Promised /\ c \notin dropped \cup displaced \cup (InTx \cap raced) => Looked(c)
    <3> SUFFICES ASSUME c \in Promised, c \notin dropped \cup displaced, c \notin InTx \cap raced
                 PROVE  Looked(c)
      OBVIOUS
    <3>1. target[c] # NoJob => target[c] \in Jobs /\ row[target[c]].state = "pending"
      BY <1>0, <1>2, <1>4 DEF TypeOK, Kept
    <3>2. target[c] = NoJob => Looked(c)  BY <1>0, <1>2, <1>4 DEF Kept
    <3> QED  BY <2>7, <3>1, <3>2
  <2>9. Covered'  BY <1>0, <1>2, <2>5, <2>8, Constants DEF Covered, past
  <2> QED  BY <1>3, <2>2, <2>3, <2>4, <2>6, <2>9 DEF IInv
<1>5. CASE Writer(c)
  <2> DEFINE j == write[c].job
             rw == write[c].row
  <2>1. /\ j \in Jobs /\ row'[j] = rw /\ \A k \in Jobs \ {j} : row'[k] = row[k]
        /\ row' \in [Jobs -> RowType]
    BY <1>0, <1>5 DEF TypeOK, Commit, Writer
  <2>2. Named(rw) /\ rw.state \in Live /\ (c \in Promised => Carries(rw, c))  BY <1>0, <1>5 DEF Places
  <2>3. TypeOK'
    <3>1. \A k \in Jobs : row'[k].latest # Nobody => row'[k].state \in Live
      BY <1>0, <2>1, <2>2 DEF TypeOK
    <3> QED  BY <1>0, <1>1, <2>1, <3>1 DEF TypeOK, Commit, past
  <2>4. \A k \in Jobs : k # j => row[k].state \notin Live  BY <1>0, <1>5 DEF Single, LiveRows
  <2>5. \A d \in Callers : ~Writer(d)'  BY <1>0, <1>1, <1>2, <1>5 DEF Single, Writer
  <2>6. Single'  BY <2>1, <2>4, <2>5 DEF Single, LiveRows
  <2>7. rw.state = "active" => Later(row[j], rw)  BY <1>0, <1>5 DEF Single
  <2>8. rw.state \in {"pending", "active"}  BY <2>2 DEF Live
  <2>9. Noticed'  BY <1>0, <1>2, <2>1, <2>7 DEF Noticed, Met, Later
  <2>10. RowsNamed'  BY <1>0, <2>1, <2>2 DEF RowsNamed
  <2>11. \A d \in Callers : Looked(d) => Looked(d)'
    <3> SUFFICES ASSUME NEW d \in Callers, Looked(d), d \notin processed PROVE Looked(d)'
      BY <1>2 DEF Looked, past
    <3>1. PICK k \in Jobs : CarriedBy(k, d)  BY DEF Looked
    <3>2. k = j  BY <2>4, <3>1 DEF CarriedBy, Live
    <3>3. \/ row'[j].state = "pending"
          \/ row'[j].state = "active" /\ d \in row'[j].seen \cup row'[j].noted
      BY <2>1, <2>7, <2>8, <3>1, <3>2 DEF CarriedBy, Later
    <3> QED  BY <2>1, <3>3 DEF Looked, CarriedBy
  <2>12. c \in Promised => Looked(c)'  BY <2>1, <2>2 DEF Carries, Looked, CarriedBy
  <2>13. Kept'
    <3>1. \A d \in Callers \ {c} : ~Writer(d)  BY <1>0, <1>5 DEF Single
    <3>2. \A k \in Jobs : row[k].state = "pending" => row'[k].state = "pending"
      BY <2>1, <2>7, <2>8 DEF Later
    <3>3. SUFFICES ASSUME NEW d \in Promised, phase'[d] = "write"
                   PROVE  /\ target'[d] # NoJob => row'[target'[d]].state = "pending"
                          /\ target'[d] = NoJob =>
                               \/ d \in dropped' \cup displaced'
                               \/ d \in raced' /\ (d \in InTx \/ Looked(d)')
      BY DEF Kept
    <3>4. d \in Callers \ {c}  BY <1>2, <3>3, Constants
    <3> QED  BY <1>0, <1>2, <2>11, <3>1, <3>2, <3>3, <3>4 DEF TypeOK, Kept, past
  <2>14. Covered'  BY <1>0, <1>2, <2>11, <2>12, Constants DEF Covered, past
  <2> QED  BY <1>3, <2>3, <2>6, <2>9, <2>10, <2>13, <2>14 DEF IInv
<1> QED  BY <1>4, <1>5

-----------------------------------------------------------------------------
(* The executor. *)

\* A claim looks at every change committed by now.
LEMMA ClaimKeeps == ASSUME IInv, NEW j \in Jobs, Claim(j) PROVE IInv'
<1>0. TypeOK /\ Places /\ Single /\ Noticed /\ Kept /\ RowsNamed /\ Covered  BY DEF IInv
<1>1. /\ row'[j].state = "active" /\ row'[j].seen = changed /\ row'[j].latest = row[j].latest
      /\ row'[j].noted = row[j].noted
      /\ row' \in [Jobs -> RowType] /\ \A k \in Jobs \ {j} : row'[k] = row[k]
  <2> DEFINE rw == [row[j] EXCEPT !.state = "active", !.seen = changed]
  <2>1. row[j] \in RowType /\ changed \in SUBSET Callers  BY <1>0 DEF TypeOK
  <2>2. /\ rw \in RowType /\ rw.state = "active" /\ rw.seen = changed
        /\ rw.latest = row[j].latest /\ rw.noted = row[j].noted
    BY <2>1 DEF RowType, Live
  <2>3. row' = [row EXCEPT ![j] = rw]  BY <2>1 DEF Claim, RowType
  <2> QED  BY <1>0, <2>2, <2>3 DEF TypeOK
<1>2. row[j].state = "pending" /\ j \in LiveRows /\ Free(j)  BY DEF Claim, LiveRows, Live
<1>3. phase' = phase /\ target' = target /\ write' = write /\ changed' = changed /\ past' = past
  BY DEF Claim
<1>4. TypeOK'  BY <1>0, <1>1, <1>3 DEF TypeOK, past, Live
<1>5. Places'  BY <1>0, <1>3 DEF Places, Writer
<1>6. LiveRows' = LiveRows  BY <1>1, <1>2 DEF LiveRows, Live
<1>7. \A d \in Callers : ~Writer(d)  BY <1>2, LockedAlone, Constants
<1>8. Single'  BY <1>0, <1>3, <1>6, <1>7 DEF Single, Writer
<1>9. Noticed'  BY <1>0, <1>1, <1>3 DEF Places, Noticed, Met
<1>10. \A d \in changed : Looked(d) => Looked(d)'  BY <1>1, <1>2, <1>3 DEF Looked, CarriedBy, past
<1>11. RowsNamed'  BY <1>0, <1>1 DEF RowsNamed, Named, Live
<1>12. Kept'
  <2> SUFFICES ASSUME NEW d \in Promised, phase[d] = "write", ~Writer(d)
               PROVE  /\ target[d] # NoJob => row'[target[d]].state = "pending"
                      /\ target[d] = NoJob =>
                           d \in dropped' \cup displaced' \/ (d \in raced' /\ (d \in InTx \/ Looked(d)'))
    BY <1>3 DEF Kept, Writer
  <2>0. d \in Callers /\ dropped' = dropped /\ displaced' = displaced /\ raced' = raced
    BY <1>3, Constants DEF past
  <2>1. CASE target[d] # NoJob
    <3>1. target[d] \in Jobs \ {j}  BY <1>0, <1>2, <2>0, <2>1 DEF TypeOK, Free
    <3> QED  BY <1>0, <1>1, <2>1, <3>1 DEF Kept
  <2>2. CASE target[d] = NoJob
    <3>1. d \notin InTx => d \in changed  BY <1>0, <2>0 DEF Places
    <3> QED  BY <1>0, <1>10, <2>0, <2>2, <3>1 DEF Kept
  <2> QED  BY <2>1, <2>2
<1>13. Covered'  BY <1>0, <1>3, <1>10, Constants DEF Places, Covered, past
<1> QED  BY <1>4, <1>5, <1>8, <1>9, <1>11, <1>12, <1>13 DEF IInv

\* What the end of an execution leaves: the row has ended, without a request to follow it or with
\* one that is dropped; or a request waits, in it or in one that was not live.
LEMMA SettleRows ==
  ASSUME TypeOK, RowsNamed, NEW j \in Jobs, NEW s \in {"completed", "failed"}, Settle(j, s)
  PROVE  /\ row' \in [Jobs -> RowType] /\ RowsNamed'
         /\ \/ /\ row'[j].state = s /\ \A k \in Jobs \ {j} : row'[k] = row[k]
               /\ row[j].noted \subseteq dropped' \cup displaced'
            \/ \E i \in Jobs : /\ row'[i].state = "pending"
                               /\ \A k \in Jobs \ {i, j} : row'[k] = row[k]
                               /\ i # j => row'[j].state = s
<1> DEFINE c == row[j].latest
           ended == [row EXCEPT ![j] = Ended(j, s)]
<1>0. row[j] \in RowType /\ Named(row[j])  BY DEF TypeOK, RowsNamed
<1>1. /\ Ended(j, s) \in RowType /\ Ended(j, s).state = s
      /\ Ended(j, s).latest = Nobody /\ Ended(j, s).noted = {}
  <2>1. s \in Terminal  BY DEF Terminal
  <2> QED  BY <1>0, <2>1 DEF Ended, RowType
<1>2. Named(Ended(j, s))  BY <1>1 DEF Named
<1>3. /\ ended \in [Jobs -> RowType] /\ ended[j] = Ended(j, s) /\ \A k \in Jobs \ {j} : ended[k] = row[k]
      /\ \A k \in Jobs : Named(ended[k])
  BY <1>1, <1>2 DEF TypeOK, RowsNamed
<1>4. CASE c = Nobody \/ LatestDropped(j, c)
  <2>1. row' = ended  BY <1>4 DEF Settle
  <2>2. row[j].noted \subseteq dropped' \cup displaced'  BY <1>0, <1>4 DEF Settle, Named
  <2> QED  BY <1>1, <1>3, <2>1, <2>2 DEF RowsNamed
<1>5. CASE ~(c = Nobody \/ LatestDropped(j, c))
  <2>1. c \in Callers /\ row' \in WithLatest(j, s, c)
    BY <1>0, <1>5, Constants DEF RowType, Settle
  <2>2. CASE SameStage(j, c)
    <3>1. row' = [ended EXCEPT ![j].state = "pending"]  BY <2>1, <2>2 DEF WithLatest
    <3> DEFINE rw == [Ended(j, s) EXCEPT !.state = "pending"]
    <3>2. rw \in RowType /\ rw.state = "pending" /\ rw.latest = Nobody /\ rw.noted = {}
      BY <1>1 DEF RowType, Live
    <3>3. Named(rw)  BY <3>2 DEF Named
    <3>4. row' = [row EXCEPT ![j] = rw]  BY <1>1, <3>1 DEF TypeOK, RowType
    <3> HIDE DEF rw
    <3>5. row' \in [Jobs -> RowType] /\ row'[j] = rw /\ \A k \in Jobs \ {j} : row'[k] = row[k]
      BY <3>2, <3>4 DEF TypeOK
    <3> QED  BY <3>2, <3>3, <3>5 DEF RowsNamed
  <2>3. CASE ~SameStage(j, c)
    <3>1. PICK k \in Jobs : row' = [ended EXCEPT ![k] = Fresh(c)]
      BY <2>1, <2>3 DEF WithLatest, Unused, OnStage
    <3>2. /\ row' \in [Jobs -> RowType] /\ row'[k] = Fresh(c)
          /\ \A i \in Jobs \ {k} : row'[i] = ended[i]
      BY <1>3, <2>1, <3>1, FreshRow
    <3> QED  BY <1>1, <1>3, <2>1, <3>2, FreshRow DEF RowsNamed
  <2> QED  BY <2>2, <2>3
<1> QED  BY <1>4, <1>5

\* The end of an execution is the only step that takes a live row away, with nobody writing to it.
LEMMA SettleKeeps ==
  ASSUME IInv, NEW j \in Jobs, NEW s \in {"completed", "failed"}, Settle(j, s) PROVE IInv'
<1>0. TypeOK /\ Places /\ Single /\ Noticed /\ Kept /\ RowsNamed /\ Covered  BY DEF IInv
<1>1. row[j].state = "active" /\ j \in LiveRows /\ Free(j)  BY DEF Settle, LiveRows, Live
<1>2. /\ phase' = phase /\ target' = target /\ write' = write /\ changed' = changed /\ raced' = raced
      /\ processed' = processed \cup row[j].seen
      /\ dropped \subseteq dropped' /\ displaced \subseteq displaced'
      /\ dropped' \cup displaced' \subseteq Callers
  BY <1>0, Constants DEF Settle, TypeOK, RowType
<1>3. \A d \in Callers : ~Writer(d)  BY <1>1, LockedAlone, Constants
<1>4. \A k \in Jobs \ {j} : row[k].state \notin Live  BY <1>0, <1>1 DEF Single, LiveRows
<1>5. row' \in [Jobs -> RowType] /\ RowsNamed'  BY <1>0, SettleRows
<1>6. TypeOK'  BY <1>0, <1>2, <1>5 DEF TypeOK, RowType, RowsNamed, Named
<1>7. Places'  BY <1>0, <1>2 DEF Places, Writer
<1>8. Single' /\ Noticed'
  <2>1. \A k \in Jobs : row'[k].state # "active"  BY <1>0, <1>4, SettleRows DEF Live
  <2>2. \A i, k \in Jobs : row'[i].state \in Live /\ row'[k].state \in Live => i = k
    BY <1>0, <1>4, SettleRows DEF Live
  <2> QED  BY <1>2, <1>3, <2>1, <2>2 DEF Single, Noticed, Met, Writer, LiveRows
<1>9. \A d \in Callers : Looked(d) => Looked(d)' \/ d \in dropped' \cup displaced'
  <2> SUFFICES ASSUME NEW d \in Callers, Looked(d), d \notin processed \cup row[j].seen
               PROVE  Looked(d)' \/ d \in dropped' \cup displaced'
    BY <1>2 DEF Looked
  <2>1. PICK k \in Jobs : CarriedBy(k, d)  BY DEF Looked
  <2>2. k = j  BY <1>4, <2>1 DEF CarriedBy, Live
  <2>3. d \in row[j].noted  BY <1>1, <2>1, <2>2 DEF CarriedBy
  <2> QED  BY <1>0, <2>3, SettleRows DEF Looked, CarriedBy
<1>10. Kept'
  <2>1. \A d \in Callers : phase[d] = "write" => target[d] # j  BY <1>1 DEF Free
  <2>2. \A k \in Jobs \ {j} : row[k].state # "pending"  BY <1>4 DEF Live
  <2> QED  BY <1>0, <1>2, <1>9, <2>1, <2>2, Constants DEF TypeOK, Kept, Writer
<1>11. Covered'  BY <1>0, <1>2, <1>9, Constants DEF Covered
<1> QED  BY <1>5, <1>6, <1>7, <1>8, <1>10, <1>11 DEF IInv

\* A failed execution that is tried again: the row waits, with its latest request.
LEMMA TryAgainKeeps == ASSUME IInv, NEW j \in Jobs, TryAgain(j) PROVE IInv'
<1>0. TypeOK /\ Places /\ Single /\ Noticed /\ Kept /\ RowsNamed /\ Covered  BY DEF IInv
<1>1. row[j].state = "active" /\ j \in LiveRows /\ Free(j)  BY DEF TryAgain, LiveRows, Live
<1>2. /\ row'[j].state = "pending" /\ row'[j].latest = row[j].latest /\ row'[j].noted = row[j].noted
      /\ row' \in [Jobs -> RowType] /\ \A k \in Jobs \ {j} : row'[k] = row[k]
  <2> DEFINE rw == [row[j] EXCEPT !.state = "pending", !.seen = {}]
  <2>1. row[j] \in RowType  BY <1>0 DEF TypeOK
  <2>2. rw \in RowType /\ rw.state = "pending" /\ rw.latest = row[j].latest /\ rw.noted = row[j].noted
    BY <2>1 DEF RowType, Live
  <2>3. row' = [row EXCEPT ![j] = rw]  BY <2>1 DEF TryAgain, RowType
  <2> QED  BY <1>0, <2>2, <2>3 DEF TypeOK
<1>3. phase' = phase /\ target' = target /\ write' = write /\ changed' = changed /\ past' = past
  BY DEF TryAgain
<1>4. TypeOK'  BY <1>0, <1>2, <1>3 DEF TypeOK, past, Live
<1>5. LiveRows' = LiveRows  BY <1>1, <1>2 DEF LiveRows, Live
<1>6. \A d \in Callers : ~Writer(d)  BY <1>1, LockedAlone, Constants
<1>7. Places' /\ Single'  BY <1>0, <1>3, <1>5, <1>6 DEF Places, Single, Writer
<1>8. \A d \in Callers : Looked(d)'  BY <1>2 DEF Looked, CarriedBy
<1>9. Noticed'  BY <1>0, <1>2, <1>3 DEF Noticed, Met
<1>10. Kept'
  BY <1>0, <1>2, <1>3, <1>8, Constants DEF TypeOK, Kept, Writer, past
<1>11. RowsNamed'  BY <1>0, <1>2 DEF RowsNamed, Named, Live
<1>12. Covered'  BY <1>8, Constants DEF Covered
<1> QED  BY <1>4, <1>7, <1>9, <1>10, <1>11, <1>12 DEF IInv

-----------------------------------------------------------------------------
\* enqueue() keeps its promise under any interleaving of its statements with those of other
\* callers, of retries, and with claims, completions and failures: of a call that has returned,
\* the change is processed, or in the snapshot of the job that runs, or a live row is still to look
\* at it.  EnqueueInv names the three callers of which this is not said: whose own request met the
\* finished stage of its run, whose latest request was replaced by one that did, and whose change
\* commits with a request that raced another's insert.
THEOREM ReturnedCallsAreCovered == Spec => []EnqueueInv
<1>1. IInv /\ [Next]_vars => IInv'
  <2> SUFFICES ASSUME IInv, [Next]_vars PROVE IInv'  OBVIOUS
  <2>1. ASSUME NEW c \in Callers, Abort(c) PROVE IInv'  BY <2>1, FailKeeps DEF Abort
  <2>2. ASSUME NEW c \in Callers,
               \/ Begin(c) \/ Look(c) \/ TakeEnded(c) \/ RecordLatest(c) \/ MoveInto(c)
               \/ Insert(c) \/ Conflict(c) \/ RetryLook(c) \/ PutBack(c) \/ Commit(c)
        PROVE  IInv'
    BY <2>2, BeginKeeps, LookKeeps, TakeEndedKeeps, RecordLatestKeeps, MoveIntoKeeps, InsertKeeps,
       ConflictKeeps, RetryLookKeeps, PutBackKeeps, CommitKeeps
  <2>3. ASSUME NEW j \in Jobs, Claim(j) \/ Complete(j) \/ FailJob(j) \/ TryAgain(j) PROVE IInv'
    BY <2>3, ClaimKeeps, SettleKeeps, TryAgainKeeps DEF Complete, FailJob
  <2>4. CASE UNCHANGED vars
    BY <2>4 DEF vars, past, IInv, TypeOK, Places, Single, Noticed, Kept, RowsNamed, Covered, Writer,
                LiveRows, Met, Looked, CarriedBy
  <2> QED  BY <2>1, <2>2, <2>3, <2>4 DEF Next
<1>2. IInv => EnqueueInv  BY DEF IInv, EnqueueInv
<1> QED  BY InitInv, <1>1, <1>2, PTL DEF Spec
=============================================================================
