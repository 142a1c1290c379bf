--------------------------- MODULE JobQueueProofs ---------------------------
(***************************************************************************)
(* Proofs about JobStore and JobQueue, for any number of jobs, workers,    *)
(* runs, keys, attempts and requests.                                      *)
(*                                                                         *)
(* The first half is about the store alone: every operation on the job     *)
(* table is a composition of rewrites of single rows.  Shape is what each  *)
(* row satisfies; Quiet is what a rewrite by anybody but the row's own     *)
(* claim may change.  The lemmas go from the row operators, over the table *)
(* operators, to the transactions.                                         *)
(*                                                                         *)
(* The second half adds what the executions, the coordinators and the      *)
(* evidence do: stop evidence is never ahead of an executor, and neither a *)
(* row nor a media operation of unrepeatable work is given to a second     *)
(* executor while the first may run.                                       *)
(***************************************************************************)
EXTENDS JobQueue, TLAPS, FiniteSetTheorems

\* Neither the claim nor the attempts of a row change, an active row keeps its request,
\* a settled request is only left behind by taking on another one, and no media operation is
\* handed back.  The retry budget is granted afresh, or left as it is by a row that waits only
\* if it waited before.
Quiet(x, y) ==
    /\ y.token = x.token /\ y.attempt = x.attempt
    /\ x.state = "active" => (y.state = "active" /\ y.req = x.req /\ y.worker = x.worker)
    /\ y.armed \in {x.armed, x.attempt}
    /\ y.state = "completed" => x.state = "completed"
    /\ (x.state = "completed" /\ y.state # "completed") => y.armed = x.attempt
    /\ (x.state \in {"needs_attention", "cancelled"} /\ y.state \notin {"needs_attention", "cancelled"})
          => y.armed = x.attempt
    /\ y.oper = "released" => x.oper = "released"
    /\ \/ y.base = x.base /\ y.granted = x.granted /\ (y.state = "pending" => x.state = "pending")
       \/ y.base = x.attempt /\ y.granted = x.attempt

Table(rows) == rows \in [Jobs -> Row] /\ \A k \in Jobs : Shape(rows[k])
QuietTable(rows, next) == Table(next) /\ \A k \in Jobs : Quiet(rows[k], next[k])

-----------------------------------------------------------------------------
(* Names and numbers. *)

\* The states a row can be in are the ones the operators write.
LEMMA StateNames ==
    /\ {"absent", "pending", "active", "completed", "blocked", "failed",
        "needs_attention", "cancelled"} \subseteq States
    /\ "active" \notin Terminal /\ "absent" \notin Terminal /\ "pending" \notin Terminal
    /\ Live = {"pending", "active"}
BY DEF States, Live, Terminal, Unsuccessful

\* Zero is a token, an attempt and a lease.
LEMMA Zero == 0 \in 0..MaxAttempts /\ 0 \in -1..LeaseTicks
BY NumbersAssumption

\* A request's media operation starts in one of its states.
LEMMA OperationType == \A r : OperationOf(r) \in OperationStates /\ OperationOf(r) # "released"
BY DEF OperationOf, OperationStates

\* Only a request that names a media operation holds one.
LEMMA OperationHeld == ASSUME NEW r, OperationOf(r) = "claimed" PROVE r.op
BY DEF OperationOf

\* A non-empty set of rows has an oldest one.
LEMMA OldestIn ==
    ASSUME NEW S \in SUBSET Jobs, S # {}
    PROVE  Oldest(S) \in S
<1>1. S \subseteq Nat
  BY NullsAssumption
<1>2. \E x \in S : \A y \in S : ~(<<y, x>> \in OpToRel(<, Nat))
  BY <1>1, NatLessThanWellFounded, WFMin
<1>3. PICK x \in S : \A y \in S : ~(<<y, x>> \in OpToRel(<, Nat))
  BY <1>2
<1>4. \A y \in S : x <= y
  <2>1. TAKE y \in S
  <2>2. x \in Nat /\ y \in Nat
    BY <1>1, <1>3
  <2>3. ~(y < x)
    BY <1>3, <2>2 DEF OpToRel
  <2> QED BY <2>2, <2>3
<1> QED BY <1>4 DEF Oldest

-----------------------------------------------------------------------------
(* Quiet rewrites. *)

\* The attempt counters of a shaped row are numbers.
LEMMA ShapeNumbers ==
    ASSUME NEW x, Shape(x)
    PROVE  /\ x \in Row /\ x.token \in 0..MaxAttempts /\ x.attempt \in 0..MaxAttempts
           /\ x.base \in 0..MaxAttempts /\ x.armed \in 0..MaxAttempts /\ x.state \in States
BY DEF Shape, Row

\* A row left alone is rewritten quietly.
LEMMA QuietRefl == ASSUME NEW x PROVE Quiet(x, x)
BY DEF Quiet

\* Two quiet rewrites make a quiet one.
LEMMA QuietTrans ==
    ASSUME NEW x, NEW y, NEW z, Quiet(x, y), Quiet(y, z)
    PROVE  Quiet(x, z)
BY DEF Quiet

\* A table left alone is rewritten quietly.
LEMMA QuietTableRefl == ASSUME NEW rows, Table(rows) PROVE QuietTable(rows, rows)
BY QuietRefl DEF QuietTable

\* Two quiet rewrites of the table make a quiet one.
LEMMA QuietTableTrans ==
    ASSUME NEW rows, NEW mid, NEW next, QuietTable(rows, mid), QuietTable(mid, next)
    PROVE  QuietTable(rows, next)
BY QuietTrans DEF QuietTable

\* An unused row becomes a new job.
LEMMA NewRowQuiet ==
    ASSUME NEW x, Shape(x), x.state = "absent", NEW r \in RequestType, NEW p \in Jobs \cup {NoJob}
    PROVE  Shape(NewRow(r, p)) /\ Quiet(x, NewRow(r, p))
<1> DEFINE y == NewRow(r, p)
<1>1. "none" \in OperationStates
  BY DEF OperationStates
<1>2. AbsentRow \in Row
  BY <1>1, Zero, StateNames DEF AbsentRow, Row
<1>3. y \in Row
  BY <1>2, OperationType, StateNames DEF NewRow, Row
<1>4. /\ y.state = "pending" /\ y.token = 0 /\ y.attempt = 0 /\ y.base = 0 /\ y.granted = 0 /\ y.armed = 0
      /\ y.req = r /\ y.oper = OperationOf(r)
  BY DEF NewRow, AbsentRow
<1> HIDE DEF y
<1>5. x.attempt = 0 /\ x.token = 0 /\ x.armed \in 0..MaxAttempts /\ x.armed <= 0
  BY ShapeNumbers DEF Shape
<1>6. Shape(y)
  BY <1>3, <1>4, OperationType, OperationHeld DEF Shape
<1>7. Quiet(x, y)
  BY <1>4, <1>5, OperationType, NumbersAssumption DEF Quiet
<1> QED BY <1>6, <1>7 DEF y

\* A finished row takes its stage on again.
LEMMA RearmedQuiet ==
    ASSUME NEW x, Shape(x), x.state \in Terminal, NEW r \in RequestType, NEW p \in Jobs \cup {NoJob}
    PROVE  Shape(Rearmed(x, r, p)) /\ Quiet(x, Rearmed(x, r, p))
<1> DEFINE y == Rearmed(x, r, p)
<1>0. x \in Row BY ShapeNumbers
<1>1. y \in Row
  BY <1>0, OperationType, StateNames DEF Rearmed, Row
<1>2. /\ y.state = "pending" /\ y.token = x.token /\ y.attempt = x.attempt
      /\ y.base = x.attempt /\ y.granted = x.attempt /\ y.armed = x.attempt /\ y.req = r /\ y.oper = OperationOf(r)
  BY <1>0 DEF Rearmed, Row
<1> HIDE DEF y
<1>3. x.state # "active" /\ x.state # "absent" /\ x.token = 0
  BY StateNames DEF Shape
<1>4. Shape(y)
  BY <1>1, <1>2, <1>3, ShapeNumbers, OperationType, OperationHeld DEF Shape
<1>5. Quiet(x, y)
  BY <1>2, <1>3, OperationType DEF Quiet
<1> QED BY <1>4, <1>5 DEF y

\* A live row meets a request of its own key.
LEMMA CoalescedQuiet ==
    ASSUME NEW x, Shape(x), IsLive(x), NEW r \in RequestType, NEW p \in Jobs \cup {NoJob}
    PROVE  Shape(Coalesced(x, r, p)) /\ Quiet(x, Coalesced(x, r, p))
<1>0. x \in Row /\ x.state \in {"pending", "active"}
  BY ShapeNumbers, StateNames DEF IsLive
<1>1. CASE Coalesced(x, r, p) = x
  BY <1>1, QuietRefl
<1> DEFINE y == [x EXCEPT !.latest = r, !.latestParent = p]
           z == [x EXCEPT !.req = r, !.avail = "due", !.oper = OperationOf(r), !.armed = x.attempt]
<1>2. CASE Coalesced(x, r, p) = y
  <2>1. y \in Row
    BY <1>0 DEF Row
  <2>2. /\ y.state = x.state /\ y.token = x.token /\ y.attempt = x.attempt /\ y.base = x.base /\ y.granted = x.granted
        /\ y.armed = x.armed /\ y.req = x.req /\ y.worker = x.worker /\ y.oper = x.oper
    BY <1>0 DEF Row
  <2> HIDE DEF y
  <2> QED BY <1>2, <2>1, <2>2 DEF Shape, Quiet
<1>3. CASE Coalesced(x, r, p) = z /\ x.state = "pending"
  <2>1. z \in Row
    BY <1>0, OperationType DEF Row
  <2>2. /\ z.state = x.state /\ z.token = x.token /\ z.attempt = x.attempt /\ z.base = x.base /\ z.granted = x.granted
        /\ z.armed = x.attempt /\ z.req = r /\ z.oper = OperationOf(r)
    BY <1>0 DEF Row
  <2> HIDE DEF z
  <2> QED BY <1>3, <2>1, <2>2, ShapeNumbers, OperationType, OperationHeld DEF Shape, Quiet
<1>4. \/ Coalesced(x, r, p) = x
      \/ Coalesced(x, r, p) = y
      \/ Coalesced(x, r, p) = z /\ x.state = "pending"
  BY DEF Coalesced
<1> QED BY <1>1, <1>2, <1>3, <1>4

\* The row takes the request that arrived while it ran.
LEMMA TakeLatestQuiet ==
    ASSUME NEW x, Shape(x), x.state # "active", NEW r \in RequestType
    PROVE  Shape(TakeLatest(x, r)) /\ Quiet(x, TakeLatest(x, r))
<1> DEFINE y == TakeLatest(x, r)
<1>0. x \in Row BY ShapeNumbers
<1>1. y \in Row
  BY <1>0, OperationType, StateNames DEF TakeLatest, Row
<1>2. /\ y.state = "pending" /\ y.token = x.token /\ y.attempt = x.attempt
      /\ y.base = x.attempt /\ y.granted = x.attempt /\ y.armed = x.attempt /\ y.req = r /\ y.oper = OperationOf(r)
  BY <1>0 DEF TakeLatest, Row
<1> HIDE DEF y
<1>3. x.token = 0
  BY DEF Shape
<1>4. Shape(y)
  BY <1>1, <1>2, <1>3, ShapeNumbers, OperationType, OperationHeld DEF Shape
<1>5. Quiet(x, y)
  BY <1>2, <1>3, OperationType DEF Quiet
<1> QED BY <1>4, <1>5 DEF y

\* A waiting row ends without having run: blocked by its parent, or held for attention.
LEMMA EndedQuiet ==
    ASSUME NEW x, Shape(x), x.state = "pending", NEW s \in {"blocked", "needs_attention"}
    PROVE  LET y == [x EXCEPT !.state = s] IN Shape(y) /\ Quiet(x, y)
<1> DEFINE y == [x EXCEPT !.state = s]
<1>0. x \in Row BY ShapeNumbers
<1>1. y \in Row
  BY <1>0, StateNames DEF Row
<1>2. /\ y.state = s /\ y.token = x.token /\ y.attempt = x.attempt
      /\ y.base = x.base /\ y.granted = x.granted /\ y.armed = x.armed /\ y.req = x.req /\ y.oper = x.oper
  BY <1>0 DEF Row
<1> HIDE DEF y
<1>3. Shape(y)
  BY <1>1, <1>2 DEF Shape
<1>4. Quiet(x, y)
  BY <1>2 DEF Quiet
<1> QED BY <1>3, <1>4 DEF y

\* A failed or blocked row is given a fresh budget; cleared: retryRun also clears a stop.
LEMMA RetriedQuiet ==
    ASSUME NEW x, Shape(x), x.state \in {"failed", "blocked"}
    PROVE  /\ Shape(Retried(x)) /\ Quiet(x, Retried(x))
           /\ LET z == [Retried(x) EXCEPT !.cancel = "none"] IN Shape(z) /\ Quiet(x, z)
<1> DEFINE y == Retried(x)
           z == [Retried(x) EXCEPT !.cancel = "none"]
<1>0. x \in Row BY ShapeNumbers
<1>1. y \in Row
  BY <1>0, StateNames, ZenonT(60) DEF Retried, Row
<1>2. /\ y.state = "pending" /\ y.token = x.token /\ y.attempt = x.attempt
      /\ y.base = x.attempt /\ y.granted = x.attempt /\ y.armed = x.armed /\ y.req = x.req /\ y.oper = x.oper
  BY <1>0 DEF Retried, Row
<1>3. z \in Row
  BY <1>1 DEF Row
<1>4. /\ z.state = "pending" /\ z.token = x.token /\ z.attempt = x.attempt
      /\ z.base = x.attempt /\ z.granted = x.attempt /\ z.armed = x.armed /\ z.req = x.req /\ z.oper = x.oper
  BY <1>1, <1>2 DEF Row
<1> HIDE DEF y, z
<1>5. x.token = 0
  BY DEF Shape
<1>6. Shape(y) /\ Shape(z)
  BY <1>1, <1>2, <1>3, <1>4, <1>5, ShapeNumbers DEF Shape
<1>7. Quiet(x, y) /\ Quiet(x, z)
  BY <1>2, <1>4, <1>5 DEF Quiet
<1> QED BY <1>6, <1>7 DEF y, z

\* Clear() cancels a row nobody has claimed.
LEMMA ClearedQuiet ==
    ASSUME NEW x, Shape(x), x.state \in {"pending", "failed", "needs_attention", "blocked"}
    PROVE  LET y == [x EXCEPT !.state = "cancelled", !.latest = NoRequest, !.latestParent = NoJob]
           IN  Shape(y) /\ Quiet(x, y)
<1> DEFINE y == [x EXCEPT !.state = "cancelled", !.latest = NoRequest, !.latestParent = NoJob]
<1>0. x \in Row BY ShapeNumbers
<1>1. y \in Row
  BY <1>0, StateNames, ZenonT(60) DEF Row
<1>2. /\ y.state = "cancelled" /\ y.token = x.token /\ y.attempt = x.attempt
      /\ y.base = x.base /\ y.granted = x.granted /\ y.armed = x.armed /\ y.req = x.req /\ y.oper = x.oper
  BY <1>0 DEF Row
<1> HIDE DEF y
<1>3. Shape(y)
  BY <1>1, <1>2 DEF Shape
<1>4. Quiet(x, y)
  BY <1>2 DEF Quiet
<1> QED BY <1>3, <1>4 DEF y

\* Rewrites of columns that neither Shape nor Quiet looks at.
LEMMA ColumnsQuiet ==
    ASSUME NEW x, Shape(x)
    PROVE  /\ \A v \in {"due", "hand"} :
                 Shape([x EXCEPT !.avail = v]) /\ Quiet(x, [x EXCEPT !.avail = v])
           /\ \A v \in {"deadline", "request"} :
                 Shape([x EXCEPT !.cancel = v]) /\ Quiet(x, [x EXCEPT !.cancel = v])
           /\ \A v \in -1..LeaseTicks :
                 Shape([x EXCEPT !.lease = v]) /\ Quiet(x, [x EXCEPT !.lease = v])
           /\ Shape([x EXCEPT !.owns = TRUE]) /\ Quiet(x, [x EXCEPT !.owns = TRUE])
<1>0. x \in Row BY ShapeNumbers
<1>1. ASSUME NEW y, y \in Row, y.state = x.state, y.token = x.token, y.attempt = x.attempt,
             y.base = x.base, y.granted = x.granted, y.armed = x.armed, y.req = x.req, y.worker = x.worker, y.oper = x.oper
      PROVE  Shape(y) /\ Quiet(x, y)
  BY <1>1 DEF Shape, Quiet
<1>2. ASSUME NEW v \in {"due", "hand"}
      PROVE  Shape([x EXCEPT !.avail = v]) /\ Quiet(x, [x EXCEPT !.avail = v])
  <2> DEFINE y == [x EXCEPT !.avail = v]
  <2>1. /\ y \in Row /\ y.state = x.state /\ y.token = x.token /\ y.attempt = x.attempt
        /\ y.base = x.base /\ y.granted = x.granted /\ y.armed = x.armed /\ y.req = x.req /\ y.worker = x.worker
        /\ y.oper = x.oper
    BY <1>0 DEF Row
  <2> QED BY <2>1, <1>1
<1>3. ASSUME NEW v \in {"deadline", "request"}
      PROVE  Shape([x EXCEPT !.cancel = v]) /\ Quiet(x, [x EXCEPT !.cancel = v])
  <2> DEFINE y == [x EXCEPT !.cancel = v]
  <2>1. /\ y \in Row /\ y.state = x.state /\ y.token = x.token /\ y.attempt = x.attempt
        /\ y.base = x.base /\ y.granted = x.granted /\ y.armed = x.armed /\ y.req = x.req /\ y.worker = x.worker
        /\ y.oper = x.oper
    BY <1>0 DEF Row
  <2> QED BY <2>1, <1>1
<1>4. ASSUME NEW v \in -1..LeaseTicks
      PROVE  Shape([x EXCEPT !.lease = v]) /\ Quiet(x, [x EXCEPT !.lease = v])
  <2> DEFINE y == [x EXCEPT !.lease = v]
  <2>1. /\ y \in Row /\ y.state = x.state /\ y.token = x.token /\ y.attempt = x.attempt
        /\ y.base = x.base /\ y.granted = x.granted /\ y.armed = x.armed /\ y.req = x.req /\ y.worker = x.worker
        /\ y.oper = x.oper
    BY <1>0 DEF Row
  <2> QED BY <2>1, <1>1
<1>5. Shape([x EXCEPT !.owns = TRUE]) /\ Quiet(x, [x EXCEPT !.owns = TRUE])
  <2> DEFINE y == [x EXCEPT !.owns = TRUE]
  <2>1. /\ y \in Row /\ y.state = x.state /\ y.token = x.token /\ y.attempt = x.attempt
        /\ y.base = x.base /\ y.granted = x.granted /\ y.armed = x.armed /\ y.req = x.req /\ y.worker = x.worker
        /\ y.oper = x.oper
    BY <1>0 DEF Row
  <2> QED BY <2>1, <1>1
<1> QED BY <1>2, <1>3, <1>4, <1>5

-----------------------------------------------------------------------------
(* The table operators. *)

\* Enqueueing an intent rewrites at most one row, quietly.
LEMMA EnqueueQuiet ==
    ASSUME NEW rows, Table(rows), NEW r \in RequestType, NEW p \in Jobs \cup {NoJob}, Fits(rows, r)
    PROVE  QuietTable(rows, Enqueue(rows, r, p))
<1> DEFINE same  == LiveKey(rows, r.key)
           stage == OnStage(rows, r)
           k     == Oldest(IF same # {} THEN same ELSE IF stage # {} THEN stage ELSE Absent(rows))
           next(x) == IF same # {} THEN Coalesced(x, r, p)
                      ELSE IF stage = {} THEN NewRow(r, p)
                      ELSE IF MayRearm(x, p) THEN Rearmed(x, r, p) ELSE x
<1>1. Enqueue(rows, r, p) = [rows EXCEPT ![k] = next(rows[k])]
  BY DEF Enqueue
<1>2. /\ same \in SUBSET Jobs /\ stage \in SUBSET Jobs /\ Absent(rows) \in SUBSET Jobs
  BY DEF LiveKey, OnStage, Absent
<1>3. k \in Jobs /\ Shape(next(rows[k])) /\ Quiet(rows[k], next(rows[k]))
  <2>1. CASE same # {}
    <3>1. k \in same /\ next(rows[k]) = Coalesced(rows[k], r, p)
      BY <2>1, <1>2, OldestIn
    <3>2. k \in Jobs /\ IsLive(rows[k]) /\ Shape(rows[k])
      BY <3>1 DEF LiveKey, Table
    <3> QED BY <3>1, <3>2, CoalescedQuiet
  <2>2. CASE same = {} /\ stage # {}
    <3>1. k \in stage /\ next(rows[k]) = IF MayRearm(rows[k], p) THEN Rearmed(rows[k], r, p) ELSE rows[k]
      BY <2>2, <1>2, OldestIn
    <3>2. k \in Jobs /\ Shape(rows[k])
      BY <3>1 DEF OnStage, Table
    <3>3. CASE MayRearm(rows[k], p)
      BY <3>1, <3>2, <3>3, RearmedQuiet DEF MayRearm
    <3>4. CASE ~MayRearm(rows[k], p)
      BY <3>1, <3>2, <3>4, QuietRefl
    <3> QED BY <3>3, <3>4
  <2>3. CASE same = {} /\ stage = {}
    <3>1. Absent(rows) # {}
      BY <2>3 DEF Fits
    <3>2. k \in Absent(rows) /\ next(rows[k]) = NewRow(r, p)
      BY <2>3, <3>1, <1>2, OldestIn
    <3>3. k \in Jobs /\ rows[k].state = "absent" /\ Shape(rows[k])
      BY <3>2 DEF Absent, Table
    <3> QED BY <3>2, <3>3, NewRowQuiet
  <2> QED BY <2>1, <2>2, <2>3
<1> DEFINE after == [rows EXCEPT ![k] = next(rows[k])]
<1> HIDE DEF k, next
<1>4. next(rows[k]) \in Row
  BY <1>3, ShapeNumbers
<1>5. after \in [Jobs -> Row] /\ \A i \in Jobs : after[i] = IF i = k THEN next(rows[k]) ELSE rows[i]
  BY <1>3, <1>4 DEF Table
<1>6. QuietTable(rows, after)
  BY <1>3, <1>5, QuietRefl DEF QuietTable, Table
<1> QED BY <1>1, <1>6 DEF k, next

\* Blocking dependents ends waiting rows only.
LEMMA SettleDependenciesQuiet ==
    ASSUME NEW rows, Table(rows), NEW parents
    PROVE  QuietTable(rows, SettleDependencies(rows, parents))
<1> DEFINE next == SettleDependencies(rows, parents)
           ended(x) == [x EXCEPT !.state = "blocked"]
<1>1. \A k \in Dependents(rows, parents) : rows[k].state = "pending"
  <2> DEFINE pend == {c \in Jobs : rows[c].state = "pending"}
  <2>1. Dependents(rows, parents) \subseteq pend
    BY DEF Dependents
  <2> QED BY <2>1
<1>2. \A k \in Jobs : next[k] = IF k \in Dependents(rows, parents) THEN ended(rows[k]) ELSE rows[k]
  BY DEF SettleDependencies
<1>3. ASSUME NEW k \in Jobs
      PROVE  Shape(next[k]) /\ Quiet(rows[k], next[k])
  <2>0. Shape(rows[k]) BY DEF Table
  <2>1. CASE k \in Dependents(rows, parents)
    BY <1>1, <1>2, <2>0, <2>1, EndedQuiet
  <2>2. CASE k \notin Dependents(rows, parents)
    BY <1>2, <2>0, <2>2, QuietRefl
  <2> QED BY <2>1, <2>2
<1>4. next \in [Jobs -> Row]
  <2>1. \A k \in Jobs : next[k] \in Row
    BY <1>3, ShapeNumbers
  <2>2. next = [k \in Jobs |-> next[k]]
    BY DEF SettleDependencies
  <2> QED BY <2>1, <2>2
<1> QED BY <1>3, <1>4 DEF QuietTable, Table

\* Scheduling the latest request rewrites rows nobody has claimed.
LEMMA RequeuedQuiet ==
    ASSUME NEW rows, Table(rows), NEW j \in Jobs, rows[j].state # "active",
           NEW r \in RequestType, NEW p \in Jobs \cup {NoJob}, LatestFits(rows, j, r)
    PROVE  QuietTable(rows, Requeued(rows, j, r, p))
<1>0. Shape(rows[j]) /\ rows \in [Jobs -> Row] BY DEF Table
<1>1. CASE SameStage(rows[j], r)
  <2> DEFINE t == TakeLatest(rows[j], r)
             after == [rows EXCEPT ![j] = t]
  <2>1. Requeued(rows, j, r, p) = after
    BY <1>1 DEF Requeued
  <2>2. Shape(t) /\ Quiet(rows[j], t)
    BY <1>0, TakeLatestQuiet
  <2> HIDE DEF t
  <2>3. t \in Row
    BY <2>2, ShapeNumbers
  <2>4. after \in [Jobs -> Row] /\ \A i \in Jobs : after[i] = IF i = j THEN t ELSE rows[i]
    BY <1>0, <2>3
  <2> QED BY <2>1, <2>2, <2>4, QuietRefl DEF QuietTable, Table
<1>2. CASE ~SameStage(rows[j], r)
  <2>1. r # NoRequest
    BY NullsAssumption
  <2>2. Fits(rows, r)
    BY <1>2, <2>1 DEF LatestFits
  <2>3. (IF p = j THEN NoJob ELSE p) \in Jobs \cup {NoJob}
    OBVIOUS
  <2> QED BY <1>2, <2>2, <2>3, EnqueueQuiet DEF Requeued
<1> QED BY <1>1, <1>2

\* scheduleLatest() disturbs no running claim: it re-arms the settled row, enqueues, and holds
\* waiting rows.
LEMMA ScheduleLatestQuiet ==
    ASSUME NEW rows, Table(rows), NEW j \in Jobs, rows[j].state # "active",
           NEW r \in RequestType \cup {NoRequest}, NEW p \in Jobs \cup {NoJob}, LatestFits(rows, j, r),
           NEW succeeded
    PROVE  QuietTable(rows, ScheduleLatest(rows, j, r, p, succeeded))
<1>1. CASE r = NoRequest
  BY <1>1, QuietTableRefl DEF ScheduleLatest
<1>2. CASE r # NoRequest
  <2> DEFINE next == Requeued(rows, j, r, p)
             held == LatestHeld(rows, j, r, p, succeeded)
             after == ScheduleLatest(rows, j, r, p, succeeded)
  <2>1. QuietTable(rows, next)
    BY <1>2, RequeuedQuiet
  <2>2. \A k \in held : next[k].state = "pending"
    BY DEF LatestHeld
  <2>3. after = [k \in Jobs |-> IF k \in held THEN [next[k] EXCEPT !.state = "needs_attention"] ELSE next[k]]
    BY <1>2 DEF ScheduleLatest
  <2> HIDE DEF next, held, after
  <2>4. ASSUME NEW k \in Jobs
        PROVE  Shape(after[k]) /\ Quiet(next[k], after[k])
    <3>0. Shape(next[k]) BY <2>1 DEF QuietTable, Table
    <3>1. CASE k \in held
      <4>1. after[k] = [next[k] EXCEPT !.state = "needs_attention"] /\ next[k].state = "pending"
        BY <2>2, <2>3, <3>1
      <4> QED BY <3>0, <4>1, EndedQuiet
    <3>2. CASE k \notin held
      BY <2>3, <3>0, <3>2, QuietRefl
    <3> QED BY <3>1, <3>2
  <2>5. after \in [Jobs -> Row]
    <3>1. \A k \in Jobs : after[k] \in Row
      BY <2>4, ShapeNumbers
    <3> QED BY <2>3, <3>1
  <2>6. QuietTable(next, after)
    BY <2>4, <2>5 DEF QuietTable, Table
  <2> QED BY <2>1, <2>6, QuietTableTrans DEF after
<1> QED BY <1>1, <1>2

-----------------------------------------------------------------------------
(* The rewrites a claim makes of its own row. *)

\* A claim given up with outcome s is charged to the retry budget, unless it deferred; the row
\* waits again only if there was something left to charge it to.
Charged(x, y, s) ==
    /\ y.granted = x.granted
    /\ IF s = "deferred" THEN y.base = x.base + 1
       ELSE y.base = x.base /\ (y.state = "pending" => RetryAvailable(x))

\* claimPending() issues the next attempt's token to a waiting row.
LEMMA ClaimedShape ==
    ASSUME NEW x, Shape(x), x.state = "pending", x.attempt < MaxAttempts, NEW w \in Workers
    PROVE  LET y == ClaimedRow(x, w)
           IN  /\ Shape(y) /\ y.state = "active" /\ y.token = x.attempt + 1 /\ y.attempt = x.attempt + 1
               /\ y.armed = x.armed /\ y.req = x.req /\ y.worker = w
               /\ y.base = x.base /\ y.granted = x.granted
<1> DEFINE y == ClaimedRow(x, w)
<1>0. /\ x \in Row /\ x.attempt \in 0..MaxAttempts /\ x.base \in 0..MaxAttempts
      /\ x.armed \in 0..MaxAttempts /\ MaxAttempts \in Nat
  BY ShapeNumbers, NumbersAssumption
<1>1. x.attempt + 1 \in 0..MaxAttempts /\ LeaseTicks \in -1..LeaseTicks
  BY <1>0, NumbersAssumption
<1>2. y \in Row
  BY <1>0, <1>1, StateNames DEF ClaimedRow, Row
<1>3. /\ y.state = "active" /\ y.token = x.attempt + 1 /\ y.attempt = x.attempt + 1
      /\ y.base = x.base /\ y.granted = x.granted /\ y.armed = x.armed /\ y.req = x.req /\ y.worker = w /\ y.oper = x.oper
  BY <1>0 DEF ClaimedRow, Row
<1> HIDE DEF y
<1>4. /\ x.base <= x.attempt /\ x.armed <= x.attempt /\ x.req \in RequestType
      /\ x.oper # "released" /\ (x.oper = "claimed" => x.req.op)
  BY DEF Shape
<1>5. Shape(y)
  BY <1>0, <1>2, <1>3, <1>4 DEF Shape
<1> QED BY <1>3, <1>5 DEF y

\* complete() takes the token back and ends the row.
LEMMA CompletedShape ==
    ASSUME NEW x, Shape(x), x.state = "active"
    PROVE  LET y == CompletedRow(x)
           IN  /\ Shape(y) /\ y.state = "completed" /\ y.token = 0 /\ y.attempt = x.attempt
               /\ y.armed = x.armed /\ y.req = x.req /\ Charged(x, y, "completed")
<1> DEFINE y == CompletedRow(x)
<1>0. x \in Row BY ShapeNumbers
<1>1. y \in Row
  BY <1>0, StateNames, Zero DEF CompletedRow, Row
<1>2. /\ y.state = "completed" /\ y.token = 0 /\ y.attempt = x.attempt /\ y.base = x.base /\ y.granted = x.granted
      /\ y.armed = x.armed /\ y.req = x.req /\ y.oper = x.oper
  BY <1>0 DEF CompletedRow, Row
<1> HIDE DEF y
<1>3. Shape(y)
  BY <1>1, <1>2 DEF Shape
<1>4. Charged(x, y, "completed")  BY <1>2 DEF Charged
<1> QED BY <1>2, <1>3, <1>4 DEF y

\* defer() takes the token back; the refunded credit stays within the attempts made.
LEMMA DeferredShape ==
    ASSUME NEW x, Shape(x), x.state = "active", NEW d \in {"locked", "other"}
    PROVE  LET y == DeferredRow(x, d)
           IN  /\ Shape(y) /\ y.state = "pending" /\ y.token = 0 /\ y.attempt = x.attempt
               /\ y.armed = x.armed /\ y.req = x.req /\ Charged(x, y, "deferred")
<1> DEFINE y == DeferredRow(x, d)
<1>0. /\ x \in Row /\ x.base \in 0..MaxAttempts /\ x.attempt \in 0..MaxAttempts
      /\ x.token # 0 /\ x.base < x.attempt
  BY ShapeNumbers DEF Shape
<1>1. x.base + 1 \in 0..MaxAttempts /\ x.base + 1 <= x.attempt
  BY <1>0, NumbersAssumption
<1>2. y \in Row
  BY <1>0, <1>1, StateNames, Zero DEF DeferredRow, Row
<1>3. /\ y.state = "pending" /\ y.token = 0 /\ y.attempt = x.attempt /\ y.base = x.base + 1 /\ y.granted = x.granted
      /\ y.armed = x.armed /\ y.req = x.req /\ y.oper = x.oper
  BY <1>0 DEF DeferredRow, Row
<1> HIDE DEF y
<1>4. Shape(y)
  BY <1>1, <1>2, <1>3 DEF Shape
<1>5. Charged(x, y, "deferred")  BY <1>3 DEF Charged
<1> QED BY <1>3, <1>4, <1>5 DEF y

\* fail() leaves a row unclaimed, in a state other than completed.
LEMMA FailStates ==
    \A x, u : FailState(x, u) \in {"needs_attention", "cancelled", "pending", "failed"}
BY DEF FailState

\* The columns fail() writes have their types.
LEMMA FailedRowType ==
    ASSUME NEW x \in Row, NEW s \in States, NEW l \in RequestType \cup {NoRequest},
           NEW lp \in Jobs \cup {NoJob}, NEW o \in OperationStates
    PROVE  [x EXCEPT !.state = s, !.avail = "later", !.dep = "none", !.token = 0, !.lease = 0,
                     !.latest = l, !.latestParent = lp, !.oper = o] \in Row
<1> DEFINE y == [x EXCEPT !.state = s, !.avail = "later", !.dep = "none", !.token = 0]
<1>1. y \in Row
  BY Zero DEF Row
<1>2. [y EXCEPT !.lease = 0, !.latest = l, !.latestParent = lp, !.oper = o] \in Row
  BY <1>1, Zero, ZenonT(60) DEF Row
<1> QED BY <1>2

\* fail() takes the token back, whatever state it chooses.
LEMMA FailedShape ==
    ASSUME NEW x, Shape(x), x.state \in {"pending", "active"}, NEW u, NEW h
    PROVE  LET y == FailedRow(x, u, h)
           IN  /\ Shape(y) /\ y.state = FailState(x, u) /\ y.token = 0 /\ y.attempt = x.attempt
               /\ y.armed = x.armed /\ y.req = x.req /\ Charged(x, y, FailState(x, u))
               /\ y.oper = "released" => x.oper = "released" \/ (h /\ ~u)
<1> DEFINE y == FailedRow(x, u, h)
           s == FailState(x, u)
           l == IF s = "pending" THEN x.latest ELSE NoRequest
           lp == IF s = "pending" THEN x.latestParent ELSE NoJob
           o == IF h /\ x.oper = "claimed" THEN IF u THEN "failed" ELSE "released" ELSE x.oper
<1>0. x \in Row BY ShapeNumbers
<1>1. y = [x EXCEPT !.state = s, !.avail = "later", !.dep = "none", !.token = 0, !.lease = 0,
                    !.latest = l, !.latestParent = lp, !.oper = o]
  BY DEF FailedRow
<1>2. /\ l \in RequestType \cup {NoRequest} /\ lp \in Jobs \cup {NoJob} /\ o \in OperationStates
  BY <1>0 DEF Row, OperationStates
<1>3. s \in {"needs_attention", "cancelled", "pending", "failed"}
  BY FailStates
<1>4. s \in States
  BY <1>3, StateNames
<1>8. /\ o = "released" => x.oper = "released" \/ (h /\ ~u)
      /\ o = "released" => x.oper \in {"released", "claimed"}
      /\ o = "claimed" => x.oper = "claimed"
  OBVIOUS
<1>9. x.oper \in {"released", "claimed"} => x.req.op /\ s \in {"needs_attention", "cancelled"}
  <2>1. x.oper # "released" /\ (x.oper = "claimed" => x.req.op) /\ x.req \in RequestType
    BY StateNames DEF Shape
  <2>2. x.req.op => ~x.req.safe
    BY <2>1 DEF RequestType
  <2> QED BY <2>1, <2>2 DEF FailState
<1> HIDE DEF s, l, lp, o, y
<1>5. /\ y.state = s /\ y.token = 0 /\ y.attempt = x.attempt /\ y.base = x.base /\ y.granted = x.granted
      /\ y.armed = x.armed /\ y.req = x.req /\ y.oper = o
  BY <1>0, <1>1 DEF Row
<1>7. y \in Row
  BY <1>0, <1>1, <1>2, <1>4, FailedRowType
<1>6. Shape(y)
  BY <1>3, <1>5, <1>7, <1>8, <1>9 DEF Shape
<1>10. Charged(x, y, s)
  <2>1. s = "pending" => RetryAvailable(x)  BY DEF s, FailState
  <2> QED  BY <1>3, <1>5, <2>1 DEF Charged
<1> QED BY <1>5, <1>6, <1>8, <1>10 DEF y, s

-----------------------------------------------------------------------------
(* The transactions. *)

\* A transaction of somebody else than a claim.
QuietStep ==
    /\ QuietTable(row, row') /\ published' = published
    /\ holds' \in Holds /\ runDone' \in [Runs -> BOOLEAN]

\* Reopening runs keeps the type of runDone.
LEMMA ReopenedType ==
    ASSUME NEW done \in [Runs -> BOOLEAN], NEW runs
    PROVE  Reopened(done, runs) \in [Runs -> BOOLEAN]
BY DEF Reopened

\* The invariant gives the shape of every row.
LEMMA InvTable == ASSUME StoreInv PROVE Table(row) /\ row \in [Jobs -> Row]
BY DEF StoreInv, StoreTypeOK, Table

\* A step that rewrites one row quietly and touches nothing else.
LEMMA OneRowQuiet ==
    ASSUME StoreInv, NEW j \in Jobs, NEW y, Shape(y), Quiet(row[j], y), row' = [row EXCEPT ![j] = y],
           UNCHANGED <<outcome, holds, runDone, published>>
    PROVE  QuietStep /\ outcome' = outcome
<1>1. row \in [Jobs -> Row] /\ y \in Row /\ \A k \in Jobs : Shape(row[k])
  BY ShapeNumbers DEF StoreInv, StoreTypeOK
<1>2. row' \in [Jobs -> Row] /\ \A k \in Jobs : row'[k] = IF k = j THEN y ELSE row[k]
  BY <1>1
<1>3. QuietTable(row, row')
  BY <1>1, <1>2, QuietRefl DEF QuietTable, Table
<1> QED BY <1>3 DEF QuietStep, StoreInv, StoreTypeOK

\* enqueue() by a caller outside any claim is quiet.
LEMMA RequestQuiet ==
    ASSUME StoreInv, NEW r \in Requests, Request(r)
    PROVE  QuietStep /\ outcome' = outcome
<1>1. r \in RequestType /\ NoJob \in Jobs \cup {NoJob}
  BY RequestsAssumption
<1>2. QuietTable(row, Enqueue(row, r, NoJob))
  BY <1>1, InvTable, EnqueueQuiet DEF Request
<1>3. Reopened(runDone, {r.run}) \in [Runs -> BOOLEAN]
  BY ReopenedType DEF StoreInv, StoreTypeOK
<1> QED BY <1>2, <1>3 DEF Request, QuietStep, StoreInv, StoreTypeOK

\* pause() leaves the rows alone.
LEMMA PauseQuiet ==
    ASSUME StoreInv, NEW b \in BOOLEAN, Pause(b)
    PROVE  QuietStep /\ outcome' = outcome
BY InvTable, QuietTableRefl DEF Pause, QuietStep, StoreInv, StoreTypeOK, Holds

\* setRunHolds() and releaseRun() leave the rows alone.
LEMMA RunHoldsQuiet ==
    ASSUME StoreInv, NEW r \in Runs, ReleaseRun(r) \/ \E S \in SUBSET Items : SetRunHolds(r, S)
    PROVE  QuietStep /\ outcome' = outcome /\ row' = row
<1>1. ASSUME NEW S \in SUBSET Items PROVE Park(r, S) \in Holds
  BY DEF Park, Holds, StoreInv, StoreTypeOK
<1>2. \A R : Reopened(runDone, R) \in [Runs -> BOOLEAN]
  BY ReopenedType DEF StoreInv, StoreTypeOK
<1>3. holds' \in Holds /\ runDone' \in [Runs -> BOOLEAN] /\ UNCHANGED <<row, outcome, published>>
  BY <1>1, <1>2 DEF SetRunHolds, ReleaseRun
<1> QED BY <1>3, InvTable, QuietTableRefl DEF QuietStep

\* finishRuns() leaves the rows alone.
LEMMA FinishRunQuiet ==
    ASSUME StoreInv, NEW r \in Runs, FinishRun(r)
    PROVE  QuietStep /\ outcome' = outcome
<1>1. runDone' \in [Runs -> BOOLEAN]
  BY DEF FinishRun, StoreInv, StoreTypeOK
<1> QED BY <1>1, InvTable, QuietTableRefl DEF FinishRun, QuietStep, StoreInv, StoreTypeOK

\* Steps that write one column of one row.
LEMMA ColumnStepsQuiet ==
    ASSUME StoreInv, NEW j \in Jobs,
           \/ StartNow(j) \/ WakeDeferred(j) \/ RequestCancel(j) \/ LeaseAges(j) \/ DelayPasses(j)
           \/ \E w \in Workers : Deadline(w, j)
           \/ \E a \in Attempts : Checkpoint(j, a)
    PROVE  QuietStep /\ outcome' = outcome
<1>0. Shape(row[j]) /\ row \in [Jobs -> Row] BY DEF StoreInv, StoreTypeOK
<1>1. ASSUME NEW v \in {"due", "hand"}, row' = [row EXCEPT ![j].avail = v],
             UNCHANGED <<outcome, holds, runDone, published>>
      PROVE  QuietStep /\ outcome' = outcome
  <2>1. row' = [row EXCEPT ![j] = [row[j] EXCEPT !.avail = v]]
    BY <1>1
  <2> QED BY <1>0, <1>1, <2>1, ColumnsQuiet, OneRowQuiet
<1>2. ASSUME NEW v \in {"deadline", "request"}, row' = [row EXCEPT ![j].cancel = v],
             UNCHANGED <<outcome, holds, runDone, published>>
      PROVE  QuietStep /\ outcome' = outcome
  <2>1. row' = [row EXCEPT ![j] = [row[j] EXCEPT !.cancel = v]]
    BY <1>2
  <2> QED BY <1>0, <1>2, <2>1, ColumnsQuiet, OneRowQuiet
<1>3. CASE StartNow(j)
  BY <1>1, <1>3 DEF StartNow
<1>4. CASE WakeDeferred(j)
  BY <1>1, <1>4 DEF WakeDeferred
<1>5. CASE DelayPasses(j)
  BY <1>1, <1>5 DEF DelayPasses
<1>6. CASE RequestCancel(j)
  BY <1>2, <1>6 DEF RequestCancel
<1>7. CASE \E w \in Workers : Deadline(w, j)
  BY <1>2, <1>7 DEF Deadline
<1>8. CASE LeaseAges(j)
  <2>1. row[j].lease \in -1..LeaseTicks /\ row[j].lease > -1
    BY <1>0, <1>8, ShapeNumbers DEF LeaseAges, Row
  <2>2. row[j].lease - 1 \in -1..LeaseTicks
    BY <2>1, NumbersAssumption
  <2>3. row' = [row EXCEPT ![j] = [row[j] EXCEPT !.lease = row[j].lease - 1]]
    BY <1>8 DEF LeaseAges
  <2> DEFINE y == [row[j] EXCEPT !.lease = row[j].lease - 1]
  <2>4. Shape(y) /\ Quiet(row[j], y)
    BY <1>0, <2>2, ColumnsQuiet
  <2>5. UNCHANGED <<outcome, holds, runDone, published>>
    BY <1>8 DEF LeaseAges
  <2> QED BY <2>3, <2>4, <2>5, OneRowQuiet
<1>9. CASE \E a \in Attempts : Checkpoint(j, a)
  <2>1. row' = [row EXCEPT ![j] = [row[j] EXCEPT !.owns = TRUE]]
    BY <1>9 DEF Checkpoint
  <2> QED BY <1>0, <1>9, <2>1, ColumnsQuiet, OneRowQuiet DEF Checkpoint
<1> QED BY <1>3, <1>4, <1>5, <1>6, <1>7, <1>8, <1>9

\* A table whose rows are all rewritten quietly.
LEMMA RowsQuiet ==
    ASSUME NEW rows, rows = [k \in Jobs |-> rows[k]],
           \A k \in Jobs : Shape(rows[k]) /\ Quiet(row[k], rows[k])
    PROVE  QuietTable(row, rows)
<1>1. \A k \in Jobs : rows[k] \in Row
  BY ShapeNumbers
<1>2. rows \in [Jobs -> Row]
  BY <1>1
<1> QED BY <1>2 DEF QuietTable, Table

\* cancel() ends only rows without a claim.
LEMMA ClearQuiet ==
    ASSUME StoreInv, NEW S, Clear(S)
    PROVE  QuietStep /\ outcome' = outcome
<1> DEFINE rows == [k \in Jobs |-> IF k \in S
                      THEN [row[k] EXCEPT !.state = "cancelled", !.latest = NoRequest, !.latestParent = NoJob]
                      ELSE row[k]]
<1>1. \A k \in S : row[k].state \in {"pending", "failed", "needs_attention", "blocked"}
  BY DEF Clear
<1>2. row' = SettleDependencies(rows, S) /\ UNCHANGED <<outcome, holds, runDone, published>>
  BY DEF Clear
<1>3. ASSUME NEW k \in Jobs
      PROVE  Shape(rows[k]) /\ Quiet(row[k], rows[k])
  <2>0. Shape(row[k]) BY DEF StoreInv
  <2>1. CASE k \in S
    BY <1>1, <2>0, <2>1, ClearedQuiet
  <2>2. CASE k \notin S
    BY <2>0, <2>2, QuietRefl
  <2> QED BY <2>1, <2>2
<1>4. QuietTable(row, rows)
  <2>1. rows = [k \in Jobs |-> rows[k]]
    OBVIOUS
  <2> HIDE DEF rows
  <2> QED BY <1>3, <2>1, RowsQuiet
<1> HIDE DEF rows
<1>5. QuietTable(row, row')
  <2>1. Table(rows)
    BY <1>4 DEF QuietTable
  <2> QED BY <1>2, <1>4, <2>1, SettleDependenciesQuiet, QuietTableTrans
<1> QED BY <1>2, <1>5 DEF QuietStep, StoreInv, StoreTypeOK

\* retryFailed() puts back only rows without a claim.
LEMMA RetryFailedQuiet ==
    ASSUME StoreInv, NEW S, S \subseteq Failed, RetryFailed(S)
    PROVE  QuietStep /\ outcome' = outcome
<1>1. \A k \in S : row[k].state = "failed"
  BY DEF Failed
<1>2. /\ row' = [k \in Jobs |-> IF k \in S THEN Retried(row[k]) ELSE row[k]]
      /\ UNCHANGED <<outcome, holds, published>>
      /\ runDone' = Reopened(runDone, {row[j].req.run : j \in S})
  BY DEF RetryFailed
<1>3. ASSUME NEW k \in Jobs
      PROVE  Shape(row'[k]) /\ Quiet(row[k], row'[k])
  <2>0. Shape(row[k]) BY DEF StoreInv
  <2>1. CASE k \in S
    BY <1>1, <1>2, <2>0, <2>1, RetriedQuiet
  <2>2. CASE k \notin S
    BY <1>2, <2>0, <2>2, QuietRefl
  <2> QED BY <2>1, <2>2
<1>4. QuietTable(row, row')
  <2>1. row' = [k \in Jobs |-> row'[k]]
    BY <1>2
  <2> QED BY <1>3, <2>1, RowsQuiet
<1>5. runDone' \in [Runs -> BOOLEAN]
  BY <1>2, ReopenedType DEF StoreInv, StoreTypeOK
<1> QED BY <1>2, <1>4, <1>5 DEF QuietStep, StoreInv, StoreTypeOK

\* retryRun() puts back only rows without a claim.
LEMMA RetryRunQuiet ==
    ASSUME StoreInv, NEW r \in Runs, NEW E, E \subseteq Repeatable(r), RetryRun(r, E)
    PROVE  QuietStep /\ outcome' = outcome
<1> DEFINE S == Recoverable(E)
<1>1. \A k \in S : row[k].state \in {"failed", "blocked"}
  BY DEF Recoverable, Repeatable
<1>2. /\ row' = [k \in Jobs |-> IF k \in S THEN [Retried(row[k]) EXCEPT !.cancel = "none"] ELSE row[k]]
      /\ UNCHANGED <<outcome, holds, published>>
      /\ runDone' = Reopened(runDone, {r})
  BY DEF RetryRun
<1> HIDE DEF S
<1>3. ASSUME NEW k \in Jobs
      PROVE  Shape(row'[k]) /\ Quiet(row[k], row'[k])
  <2>0. Shape(row[k]) BY DEF StoreInv
  <2>1. CASE k \in S
    BY <1>1, <1>2, <2>0, <2>1, RetriedQuiet
  <2>2. CASE k \notin S
    BY <1>2, <2>0, <2>2, QuietRefl
  <2> QED BY <2>1, <2>2
<1>4. QuietTable(row, row')
  <2>1. row' = [k \in Jobs |-> row'[k]]
    BY <1>2
  <2> QED BY <1>3, <2>1, RowsQuiet
<1>5. runDone' \in [Runs -> BOOLEAN]
  BY <1>2, ReopenedType DEF StoreInv, StoreTypeOK
<1> QED BY <1>2, <1>4, <1>5 DEF QuietStep, StoreInv, StoreTypeOK

\* heartbeat() moves leases and nothing else.
LEMMA RenewQuiet ==
    ASSUME StoreInv, NEW w, NEW S, Renew(w, S)
    PROVE  QuietStep /\ outcome' = outcome
<1>1. /\ row' = [k \in Jobs |-> IF k \in S THEN [row[k] EXCEPT !.lease = LeaseTicks] ELSE row[k]]
      /\ UNCHANGED <<outcome, holds, runDone, published>>
  BY DEF Renew
<1>2. LeaseTicks \in -1..LeaseTicks
  BY NumbersAssumption
<1>3. ASSUME NEW k \in Jobs
      PROVE  Shape(row'[k]) /\ Quiet(row[k], row'[k])
  <2>0. Shape(row[k]) BY DEF StoreInv
  <2>1. CASE k \in S
    BY <1>1, <1>2, <2>0, <2>1, ColumnsQuiet
  <2>2. CASE k \notin S
    BY <1>1, <2>0, <2>2, QuietRefl
  <2> QED BY <2>1, <2>2
<1>4. QuietTable(row, row')
  <2>1. row' = [k \in Jobs |-> row'[k]]
    BY <1>1
  <2> QED BY <1>3, <2>1, RowsQuiet
<1> QED BY <1>1, <1>4 DEF QuietStep, StoreInv, StoreTypeOK

-----------------------------------------------------------------------------
(* Transactions that settle or start a claim. *)

\* What a settlement of row j leaves: every other row rewritten quietly, row j given up.
Released(j, y) ==
    /\ Table(row')
    /\ \A k \in Jobs \ {j} : Quiet(row[k], row'[k])
    /\ Shape(y) /\ y.token = 0 /\ y.attempt = row[j].attempt /\ y.armed = row[j].armed
    /\ y.req = row[j].req /\ Quiet(y, row'[j])

\* From the table with row j settled, a quiet rewrite releases row j.
LEMMA ReleasedBy ==
    ASSUME Table(row), NEW j \in Jobs, NEW y, Shape(y), y.token = 0, y.attempt = row[j].attempt,
           y.armed = row[j].armed, y.req = row[j].req, QuietTable([row EXCEPT ![j] = y], row')
    PROVE  Released(j, y)
<1> DEFINE rows == [row EXCEPT ![j] = y]
<1>1. \A k \in Jobs : rows[k] = IF k = j THEN y ELSE row[k]
  BY DEF Table
<1> HIDE DEF rows
<1>2. QuietTable(rows, row')
  BY DEF rows
<1> QED BY <1>1, <1>2 DEF Released, QuietTable

\* The table with row j settled is a table.
LEMMA SettledTable ==
    ASSUME Table(row), NEW j \in Jobs, NEW y, Shape(y)
    PROVE  LET rows == [row EXCEPT ![j] = y] IN Table(rows) /\ rows[j] = y
<1>1. y \in Row BY ShapeNumbers
<1> QED BY <1>1 DEF Table

\* fail(): the row is given up in the state fail() decides on.
LEMMA SettleReleases ==
    ASSUME StoreInv, NEW j \in Jobs, row[j].state \in {"pending", "active"},
           NEW u, NEW h, NEW cs, Settle(j, u, h, cs)
    PROVE  /\ Released(j, FailedRow(row[j], u, h))
           /\ FailedRow(row[j], u, h).state = FailState(row[j], u)
           /\ Charged(row[j], FailedRow(row[j], u, h), FailState(row[j], u))
           /\ outcome' = [c \in Claims |-> IF c \in cs THEN FailState(row[j], u) ELSE outcome[c]]
           /\ published' = published /\ holds' \in Holds /\ runDone' \in [Runs -> BOOLEAN]
<1> DEFINE y == FailedRow(row[j], u, h)
           s == FailState(row[j], u)
           rows == [row EXCEPT ![j] = y]
           r == IF s = "pending" \/ UnconfirmedAttention(row[j], u) THEN NoRequest ELSE row[j].latest
           p == row[j].latestParent
           ended == {j} \cup (IF r = NoRequest THEN {} ELSE LatestHeld(rows, j, r, p, FALSE))
           after == ScheduleLatest(rows, j, r, p, FALSE)
<1>0. Table(row) /\ Shape(row[j]) /\ row[j] \in Row
  BY InvTable, ShapeNumbers DEF StoreInv
<1>1. /\ LatestFits(rows, j, r)
      /\ row' = IF s = "pending" THEN rows ELSE SettleDependencies(after, ended)
      /\ outcome' = [c \in Claims |-> IF c \in cs THEN s ELSE outcome[c]]
      /\ runDone' = Reopened(runDone, IF r = NoRequest THEN {} ELSE {r.run})
      /\ UNCHANGED <<holds, published>>
  BY DEF Settle
<1>2. /\ Shape(y) /\ y.state = s /\ y.token = 0 /\ y.attempt = row[j].attempt
      /\ y.armed = row[j].armed /\ y.req = row[j].req /\ Charged(row[j], y, s)
  BY <1>0, FailedShape
<1>3. r \in RequestType \cup {NoRequest} /\ p \in Jobs \cup {NoJob}
  BY <1>0 DEF Row
<1>4. Table(rows) /\ rows[j] = y
  BY <1>0, <1>2, SettledTable
<1>5. y.state # "active"
  BY <1>2 DEF Shape
<1> HIDE DEF y, s, r, p, ended
<1>6. QuietTable(rows, row')
  <2>1. CASE s = "pending"
    BY <1>1, <1>4, <2>1, QuietTableRefl
  <2>2. CASE s # "pending"
    <3> HIDE DEF rows
    <3>1. QuietTable(rows, after)
      BY <1>1, <1>3, <1>4, <1>5, ScheduleLatestQuiet
    <3> HIDE DEF after
    <3>2. QuietTable(after, row')
      BY <1>1, <2>2, <3>1, SettleDependenciesQuiet DEF QuietTable
    <3> QED BY <3>1, <3>2, QuietTableTrans
  <2> QED BY <2>1, <2>2
<1>7. Released(j, y)
  BY <1>0, <1>2, <1>6, ReleasedBy
<1>8. runDone' \in [Runs -> BOOLEAN]
  BY <1>1, ReopenedType DEF StoreInv, StoreTypeOK
<1> QED BY <1>1, <1>2, <1>7, <1>8 DEF y, s, StoreInv, StoreTypeOK

\* complete(): the row is completed, then follow-ups and the latest request are enqueued.
LEMMA CompleteReleases ==
    ASSUME StoreInv, NEW j \in Jobs, NEW a \in Attempts, Complete(j, a)
    PROVE  /\ Released(j, CompletedRow(row[j])) /\ CompletedRow(row[j]).state = "completed"
           /\ Charged(row[j], CompletedRow(row[j]), "completed")
           /\ row[j].state = "active" /\ row[j].token = a
           /\ outcome' = [outcome EXCEPT ![<<j, a>>] = "completed"]
           /\ published' = published \cup {<<j, a>>}
           /\ holds' \in Holds /\ runDone' \in [Runs -> BOOLEAN]
<1> DEFINE y == CompletedRow(row[j])
           done == [row EXCEPT ![j] = y]
           l == row[j].latest
           lp == row[j].latestParent
           next(f) == FollowUp(j, f)
           later(f, p) == IF f = NoRequest THEN done ELSE Enqueue(done, next(f), p)
           runs(f) == (IF f = NoRequest THEN {} ELSE {next(f).run} \ {row[j].req.run})
                      \cup (IF l = NoRequest THEN {} ELSE {l.run})
<1>0. /\ Table(row) /\ Shape(row[j]) /\ row[j] \in Row /\ row[j].state = "active" /\ row[j].token = a
  BY InvTable, ShapeNumbers DEF StoreInv, Complete, Fenced, Owned
<1>1. PICK f \in Requests \cup {NoRequest}, p \in {j, NoJob} :
        /\ f # NoRequest => (Fits(done, next(f)) /\ ~StageCollision(done, next(f)))
        /\ LatestFits(later(f, p), j, l)
        /\ row' = ScheduleLatest(later(f, p), j, l, lp, TRUE)
        /\ runDone' = Reopened(runDone, runs(f))
  BY DEF Complete
<1>2. /\ Shape(y) /\ y.state = "completed" /\ y.token = 0 /\ y.attempt = row[j].attempt
      /\ y.armed = row[j].armed /\ y.req = row[j].req /\ Charged(row[j], y, "completed")
  BY <1>0, CompletedShape
<1>3. l \in RequestType \cup {NoRequest} /\ lp \in Jobs \cup {NoJob} /\ p \in Jobs \cup {NoJob}
  BY <1>0 DEF Row
<1>4. Table(done) /\ done[j] = y
  BY <1>0, <1>2, SettledTable
<1>5. f # NoRequest => next(f) \in RequestType
  <2>1. row[j].req \in RequestType
    BY <1>0, StateNames DEF Shape
  <2>2. row[j].req.run \in Runs \cup {NoRun}
    BY <2>1 DEF RequestType
  <2>3. f # NoRequest => f \in RequestType
    BY RequestsAssumption
  <2> QED BY <2>2, <2>3 DEF FollowUp, RequestType
<1> HIDE DEF y, l, lp, next, runs
<1>6. QuietTable(done, later(f, p))
  <2> HIDE DEF done
  <2>1. CASE f = NoRequest
    BY <1>4, <2>1, QuietTableRefl
  <2>2. CASE f # NoRequest
    BY <1>1, <1>3, <1>4, <1>5, <2>2, EnqueueQuiet
  <2> QED BY <2>1, <2>2
<1>7. QuietTable(done, row')
  <2> DEFINE mid == later(f, p)
  <2> HIDE DEF done, later
  <2>1. Table(mid) /\ Quiet(y, mid[j]) /\ Shape(mid[j])
    BY <1>4, <1>6 DEF QuietTable, Table
  <2>2. mid[j].state # "active"
    BY <1>2, <2>1 DEF Quiet, Shape
  <2>3. QuietTable(mid, row')
    BY <1>1, <1>3, <2>1, <2>2, ScheduleLatestQuiet
  <2> QED BY <1>6, <2>3, QuietTableTrans
<1>8. Released(j, y)
  BY <1>0, <1>2, <1>7, ReleasedBy
<1>9. runDone' \in [Runs -> BOOLEAN]
  BY <1>1, ReopenedType DEF StoreInv, StoreTypeOK
<1> QED BY <1>0, <1>2, <1>8, <1>9 DEF y, Complete, StoreInv, StoreTypeOK

\* defer(): the row goes back to waiting.
LEMMA DeferReleases ==
    ASSUME StoreInv, NEW j \in Jobs, NEW a \in Attempts, Defer(j, a)
    PROVE  /\ \E y : Released(j, y) /\ y.state = "pending" /\ Charged(row[j], y, "deferred")
           /\ row[j].state = "active" /\ row[j].token = a
           /\ outcome' = [outcome EXCEPT ![<<j, a>>] = "deferred"]
           /\ published' = published /\ holds' \in Holds /\ runDone' \in [Runs -> BOOLEAN]
<1>0. /\ Table(row) /\ Shape(row[j]) /\ row[j].state = "active" /\ row[j].token = a
  BY InvTable DEF StoreInv, Defer, Fenced, Owned
<1>1. PICK d \in {"locked", "other"} : row' = [row EXCEPT ![j] = DeferredRow(row[j], d)]
  BY DEF Defer
<1> DEFINE y == DeferredRow(row[j], d)
<1>2. /\ Shape(y) /\ y.state = "pending" /\ y.token = 0 /\ y.attempt = row[j].attempt
      /\ y.armed = row[j].armed /\ y.req = row[j].req /\ Charged(row[j], y, "deferred")
  BY <1>0, DeferredShape
<1>3. Table(row')
  BY <1>0, <1>1, <1>2, SettledTable
<1> HIDE DEF y
<1>4. QuietTable([row EXCEPT ![j] = y], row')
  BY <1>1, <1>3, QuietTableRefl DEF y
<1>5. Released(j, y)
  BY <1>0, <1>2, <1>4, ReleasedBy
<1> QED BY <1>0, <1>2, <1>5 DEF Defer, StoreInv, StoreTypeOK

-----------------------------------------------------------------------------
(* The inductive invariant. *)

\* Claims are pairs of a job and an attempt.
LEMMA ClaimPairs ==
    ASSUME NEW c \in Claims
    PROVE  c[1] \in Jobs /\ c[2] \in Attempts /\ c[2] \in Nat /\ c = <<c[1], c[2]>>
BY NumbersAssumption DEF Claims, Attempts

\* A quiet step keeps the invariant of the store.
LEMMA QuietKeepsInv ==
    ASSUME StoreInv, QuietStep, outcome' = outcome
    PROVE  StoreInv'
<1>1. /\ row' \in [Jobs -> Row] /\ (\A k \in Jobs : Shape(row'[k])) /\ (\A k \in Jobs : Quiet(row[k], row'[k]))
      /\ (\A k \in Jobs : Shape(row[k])) /\ published \subseteq Claims
  BY DEF QuietStep, QuietTable, Table, StoreInv, StoreTypeOK
<1>2. StoreTypeOK'
  BY <1>1 DEF QuietStep, StoreInv, StoreTypeOK
<1>3. PublishedIsOver'
  <2> SUFFICES ASSUME NEW c \in published
               PROVE  /\ c[2] <= row'[c[1]].attempt
                      /\ c[2] > row'[c[1]].armed
                           => (row'[c[1]].state = "completed" /\ c[2] = row'[c[1]].attempt)
    BY DEF PublishedIsOver, QuietStep
  <2>1. c[1] \in Jobs /\ c[2] \in Nat
    BY <1>1, ClaimPairs
  <2>2. Quiet(row[c[1]], row'[c[1]]) /\ Shape(row[c[1]])
    BY <1>1, <2>1
  <2>3. /\ c[2] <= row[c[1]].attempt
        /\ c[2] > row[c[1]].armed => (row[c[1]].state = "completed" /\ c[2] = row[c[1]].attempt)
    BY DEF StoreInv, PublishedIsOver
  <2>4. row[c[1]].attempt \in Nat /\ row[c[1]].armed \in Nat
    BY <2>2, ShapeNumbers, NumbersAssumption
  <2> QED BY <2>1, <2>2, <2>3, <2>4 DEF Quiet
<1>4. AuditMatches'
  <2>1. \A k \in Jobs : row'[k].token = row[k].token /\ row'[k].attempt = row[k].attempt
    BY <1>1 DEF Quiet
  <2> SUFFICES ASSUME NEW i \in Jobs, NEW b \in Attempts
               PROVE  /\ outcome'[<<i, b>>] = "none" <=> b > row'[i].attempt
                      /\ outcome'[<<i, b>>] = "open" <=> row'[i].token = b
    BY DEF AuditMatches
  <2>2. /\ outcome[<<i, b>>] = "none" <=> b > row[i].attempt
        /\ outcome[<<i, b>>] = "open" <=> row[i].token = b
    BY DEF StoreInv, AuditMatches
  <2>3. outcome'[<<i, b>>] = outcome[<<i, b>>]
    OBVIOUS
  <2> QED BY <2>1, <2>2, <2>3
<1> QED BY <1>1, <1>2, <1>3, <1>4 DEF StoreInv

\* The claim <<j, a>> gives row j up with outcome s.
LEMMA ReleaseKeepsInv ==
    ASSUME StoreInv, NEW j \in Jobs, NEW a \in Attempts, row[j].state = "active", row[j].token = a,
           NEW y, Released(j, y), NEW s \in Outcomes \ {"none", "open"},
           outcome' = [outcome EXCEPT ![<<j, a>>] = s],
           \/ published' = published
           \/ published' = published \cup {<<j, a>>} /\ y.state = "completed",
           holds' \in Holds, runDone' \in [Runs -> BOOLEAN]
    PROVE  StoreInv'
<1>1. /\ row' \in [Jobs -> Row] /\ (\A k \in Jobs : Shape(row'[k]))
      /\ (\A k \in Jobs \ {j} : Quiet(row[k], row'[k])) /\ (\A k \in Jobs : Shape(row[k]))
      /\ published \subseteq Claims /\ outcome \in [Claims -> Outcomes] /\ <<j, a>> \in Claims
  BY DEF Released, Table, StoreInv, StoreTypeOK, Claims
<1>2. /\ row[j].token = row[j].attempt /\ row[j].attempt \in Nat /\ row[j].armed \in Nat
      /\ row[j].armed <= row[j].attempt /\ a \in Nat /\ a # 0
  <2>1. Shape(row[j]) BY <1>1
  <2>2. row[j].token # 0 /\ row[j].token = row[j].attempt /\ row[j].armed <= row[j].attempt
    BY <2>1 DEF Shape
  <2>3. row[j].attempt \in Nat /\ row[j].armed \in Nat
    BY <2>1, ShapeNumbers, NumbersAssumption
  <2> QED BY <2>2, <2>3
<1>3. /\ row'[j].token = 0 /\ row'[j].attempt = row[j].attempt
      /\ row'[j].armed \in {row[j].armed, row[j].attempt}
      /\ (y.state = "completed" /\ row'[j].state # "completed") => row'[j].armed = row[j].attempt
  BY DEF Released, Quiet
<1>4. StoreTypeOK'
  <2>1. outcome' \in [Claims -> Outcomes]
    BY <1>1
  <2>2. published' \subseteq Claims
    BY <1>1
  <2> QED BY <1>1, <2>1, <2>2 DEF StoreTypeOK
<1>5. PublishedIsOver'
  <2> SUFFICES ASSUME NEW c \in published'
               PROVE  /\ c[2] <= row'[c[1]].attempt
                      /\ c[2] > row'[c[1]].armed
                           => (row'[c[1]].state = "completed" /\ c[2] = row'[c[1]].attempt)
    BY DEF PublishedIsOver
  <2>1. CASE c \in published /\ c[1] # j
    <3>1. c[1] \in Jobs \ {j} /\ c[2] \in Nat
      BY <1>1, <2>1, ClaimPairs
    <3>2. Quiet(row[c[1]], row'[c[1]]) /\ Shape(row[c[1]])
      BY <1>1, <3>1
    <3>3. /\ c[2] <= row[c[1]].attempt
          /\ c[2] > row[c[1]].armed => (row[c[1]].state = "completed" /\ c[2] = row[c[1]].attempt)
      BY <2>1 DEF StoreInv, PublishedIsOver
    <3>4. row[c[1]].attempt \in Nat /\ row[c[1]].armed \in Nat
      BY <3>2, ShapeNumbers, NumbersAssumption
    <3> QED BY <3>1, <3>2, <3>3, <3>4 DEF Quiet
  <2>2. CASE c \in published /\ c[1] = j
    <3>1. /\ c[2] <= row[j].attempt /\ ~(c[2] > row[j].armed)
      BY <2>2 DEF StoreInv, PublishedIsOver
    <3>2. c[2] \in Nat
      BY <1>1, <2>2, ClaimPairs
    <3> QED BY <1>2, <1>3, <2>2, <3>1, <3>2
  <2>3. CASE c = <<j, a>> /\ y.state = "completed"
    <3>1. c[1] = j /\ c[2] = row[j].attempt
      BY <1>2, <2>3
    <3> QED BY <1>2, <1>3, <2>3, <3>1
  <2> QED BY <2>1, <2>2, <2>3
<1>6. AuditMatches'
  <2> SUFFICES ASSUME NEW i \in Jobs, NEW b \in Attempts
               PROVE  /\ outcome'[<<i, b>>] = "none" <=> b > row'[i].attempt
                      /\ outcome'[<<i, b>>] = "open" <=> row'[i].token = b
    BY DEF AuditMatches
  <2>0. /\ <<i, b>> \in Claims /\ b \in Nat /\ b # 0
        /\ outcome[<<i, b>>] = "none" <=> b > row[i].attempt
        /\ outcome[<<i, b>>] = "open" <=> row[i].token = b
    BY NumbersAssumption DEF StoreInv, AuditMatches, Claims, Attempts
  <2>1. CASE i # j
    <3>1. outcome'[<<i, b>>] = outcome[<<i, b>>]
      BY <1>1, <2>0, <2>1
    <3>2. row'[i].token = row[i].token /\ row'[i].attempt = row[i].attempt
      BY <1>1, <2>1 DEF Quiet
    <3> QED BY <2>0, <3>1, <3>2
  <2>2. CASE i = j /\ b # a
    <3>1. outcome'[<<i, b>>] = outcome[<<i, b>>]
      BY <1>1, <2>0, <2>2
    <3> QED BY <1>3, <2>0, <2>2, <3>1
  <2>3. CASE i = j /\ b = a
    <3>1. outcome'[<<i, b>>] = s
      BY <1>1, <2>0, <2>3
    <3> QED BY <1>2, <1>3, <2>0, <2>3, <3>1
  <2> QED BY <2>1, <2>2, <2>3
<1> QED BY <1>1, <1>4, <1>5, <1>6 DEF StoreInv

\* claim(): a waiting row becomes active under the next attempt.
LEMMA ClaimEffect ==
    ASSUME StoreInv, NEW w \in Workers, NEW j \in Jobs, Claim(w, j)
    PROVE  /\ row[j].state = "pending" /\ row[j].token = 0 /\ row[j].attempt + 1 \in Attempts
           /\ Table(row') /\ \A k \in Jobs \ {j} : row'[k] = row[k]
           /\ row'[j].state = "active" /\ row'[j].token = row[j].attempt + 1
           /\ row'[j].attempt = row[j].attempt + 1 /\ row'[j].armed = row[j].armed
           /\ row'[j].req = row[j].req /\ row'[j].worker = w
           /\ row'[j].base = row[j].base /\ row'[j].granted = row[j].granted
           /\ outcome' = [outcome EXCEPT ![<<j, row[j].attempt + 1>>] = "open"]
           /\ UNCHANGED <<holds, runDone, published>>
<1> DEFINE y == ClaimedRow(row[j], w)
<1>1. /\ Table(row) /\ Shape(row[j]) /\ row[j].state = "pending" /\ row[j].attempt < MaxAttempts
      /\ row' = [row EXCEPT ![j] = y]
      /\ outcome' = [outcome EXCEPT ![<<j, row[j].attempt + 1>>] = "open"]
      /\ UNCHANGED <<holds, runDone, published>>
  BY InvTable DEF Claim, Claimable, StoreInv
<1>2. /\ Shape(y) /\ y.state = "active" /\ y.token = row[j].attempt + 1
      /\ y.attempt = row[j].attempt + 1 /\ y.armed = row[j].armed /\ y.req = row[j].req /\ y.worker = w
      /\ y.base = row[j].base /\ y.granted = row[j].granted
  BY <1>1, ClaimedShape
<1>3. row[j].token = 0
  BY <1>1 DEF Shape
<1>4. row[j].attempt + 1 \in Attempts
  BY <1>1, ShapeNumbers, NumbersAssumption DEF Attempts
<1> HIDE DEF y
<1>5. Table(row') /\ row'[j] = y
  BY <1>1, <1>2, SettledTable
<1>6. \A k \in Jobs \ {j} : row'[k] = row[k]
  BY <1>1 DEF Table
<1> QED BY <1>1, <1>2, <1>3, <1>4, <1>5, <1>6

\* claim() keeps the invariant: the new attempt is the one open audit of its row.
LEMMA ClaimKeepsInv ==
    ASSUME StoreInv, NEW w \in Workers, NEW j \in Jobs, Claim(w, j)
    PROVE  StoreInv'
<1> DEFINE a == row[j].attempt + 1
<1>1. /\ row[j].state = "pending" /\ row[j].token = 0 /\ a \in Attempts
      /\ Table(row') /\ \A k \in Jobs \ {j} : row'[k] = row[k]
      /\ row'[j].token = a /\ row'[j].attempt = a /\ row'[j].armed = row[j].armed
      /\ outcome' = [outcome EXCEPT ![<<j, a>>] = "open"]
      /\ UNCHANGED <<holds, runDone, published>>
  BY ClaimEffect
<1>2. Shape(row[j]) /\ row[j].attempt \in Nat /\ row[j].armed \in Nat /\ row[j].armed <= row[j].attempt
  <2>1. Shape(row[j])
    BY DEF StoreInv
  <2>2. row[j].armed <= row[j].attempt
    BY <2>1 DEF Shape
  <2> QED BY <2>1, <2>2, ShapeNumbers, NumbersAssumption
<1>3. /\ outcome \in [Claims -> Outcomes] /\ published \subseteq Claims /\ <<j, a>> \in Claims
      /\ "open" \in Outcomes
  BY <1>1 DEF StoreInv, StoreTypeOK, Claims, Outcomes
<1>4. StoreTypeOK'
  <2>1. outcome' \in [Claims -> Outcomes]
    BY <1>1, <1>3
  <2> QED BY <1>1, <2>1 DEF Table, StoreInv, StoreTypeOK
<1>5. PublishedIsOver'
  <2> SUFFICES ASSUME NEW c \in published
               PROVE  /\ c[2] <= row'[c[1]].attempt
                      /\ c[2] > row'[c[1]].armed
                           => (row'[c[1]].state = "completed" /\ c[2] = row'[c[1]].attempt)
    BY <1>1 DEF PublishedIsOver
  <2>1. /\ c[2] <= row[c[1]].attempt
        /\ c[2] > row[c[1]].armed => (row[c[1]].state = "completed" /\ c[2] = row[c[1]].attempt)
    BY DEF StoreInv, PublishedIsOver
  <2>2. c[1] \in Jobs /\ c[2] \in Nat
    BY <1>3, ClaimPairs
  <2>3. CASE c[1] # j
    BY <1>1, <2>1, <2>2, <2>3
  <2>4. CASE c[1] = j
    BY <1>1, <1>2, <2>1, <2>2, <2>4
  <2> QED BY <2>3, <2>4
<1>6. AuditMatches'
  <2> SUFFICES ASSUME NEW i \in Jobs, NEW b \in Attempts
               PROVE  /\ outcome'[<<i, b>>] = "none" <=> b > row'[i].attempt
                      /\ outcome'[<<i, b>>] = "open" <=> row'[i].token = b
    BY DEF AuditMatches
  <2>0. /\ <<i, b>> \in Claims /\ b \in Nat /\ b # 0
        /\ outcome[<<i, b>>] = "none" <=> b > row[i].attempt
        /\ outcome[<<i, b>>] = "open" <=> row[i].token = b
    BY NumbersAssumption DEF StoreInv, AuditMatches, Claims, Attempts
  <2>1. CASE i # j
    <3>1. outcome'[<<i, b>>] = outcome[<<i, b>>]
      BY <1>1, <1>3, <2>0, <2>1
    <3> QED BY <1>1, <2>0, <2>1, <3>1
  <2>2. CASE i = j /\ b # a
    <3>1. outcome'[<<i, b>>] = outcome[<<i, b>>]
      BY <1>1, <1>3, <2>0, <2>2
    <3> QED BY <1>1, <1>2, <2>0, <2>2, <3>1
  <2>3. CASE i = j /\ b = a
    <3>1. outcome'[<<i, b>>] = "open"
      BY <1>1, <1>3, <2>0, <2>3
    <3> QED BY <1>1, <1>2, <2>0, <2>3, <3>1
  <2> QED BY <2>1, <2>2, <2>3
<1>7. \A k \in Jobs : Shape(row'[k])
  BY <1>1 DEF Table
<1> QED BY <1>4, <1>5, <1>6, <1>7 DEF StoreInv

\* claim() settles a waiting row whose stop was requested: a quiet step.
LEMMA CancelQueuedQuiet ==
    ASSUME StoreInv, NEW j \in Jobs, NEW stopped, CancelQueued(j, stopped)
    PROVE  QuietStep /\ outcome' = outcome
<1> DEFINE y == FailedRow(row[j], ~stopped, ~stopped)
           cs == {<<j, a>> : a \in {b \in Attempts : outcome[<<j, b>>] = "open"}}
<1>1. row[j].state = "pending" /\ Settle(j, ~stopped, ~stopped, cs)
  BY DEF CancelQueued
<1>2. Shape(row[j]) /\ row[j].token = 0
  BY <1>1 DEF StoreInv, Shape
<1>3. cs = {}
  <2>1. ASSUME NEW b \in Attempts PROVE outcome[<<j, b>>] # "open"
    <3>1. b # 0
      BY NumbersAssumption DEF Attempts
    <3>2. outcome[<<j, b>>] = "open" <=> row[j].token = b
      BY DEF StoreInv, AuditMatches
    <3> QED BY <1>2, <3>1, <3>2
  <2> QED BY <2>1
<1> HIDE DEF cs
<1>4. /\ Released(j, y) /\ y.state = FailState(row[j], ~stopped)
      /\ Charged(row[j], y, FailState(row[j], ~stopped))
      /\ outcome' = [c \in Claims |-> IF c \in cs THEN FailState(row[j], ~stopped) ELSE outcome[c]]
      /\ published' = published /\ holds' \in Holds /\ runDone' \in [Runs -> BOOLEAN]
  BY <1>1, SettleReleases
<1>5. outcome' = outcome
  BY <1>3, <1>4 DEF StoreInv, StoreTypeOK
<1>6. y.state # "completed" /\ Released(j, y)
  BY <1>4, FailStates
<1>9. /\ y.oper = "released" => row[j].oper = "released"
      /\ y.base = row[j].base /\ y.granted = row[j].granted
  BY <1>1, <1>2, <1>4, FailedShape, FailStates DEF Charged
<1> HIDE DEF y
<1>7. Quiet(row[j], y)
  BY <1>1, <1>2, <1>6, <1>9 DEF Released, Quiet
<1>8. QuietTable(row, row')
  BY <1>6, <1>7, QuietTrans DEF Released, QuietTable
<1> QED BY <1>4, <1>5, <1>8 DEF QuietStep

\* fail() by the claim's own execution gives the row up.
LEMMA FailReleases ==
    ASSUME StoreInv, NEW j \in Jobs, NEW a \in Attempts, NEW stopped, NEW settling, NEW onlyStopped,
           Fail(j, a, stopped, settling, onlyStopped)
    PROVE  /\ row[j].state = "active" /\ row[j].token = a
           /\ \E y, s : /\ Released(j, y) /\ s \in Outcomes \ {"none", "open"} /\ Charged(row[j], y, s)
                        /\ outcome' = [outcome EXCEPT ![<<j, a>>] = s]
           /\ published' = published /\ holds' \in Holds /\ runDone' \in [Runs -> BOOLEAN]
<1> DEFINE u == StopRequested(row[j]) /\ ~stopped
           h == FALSE
           cs == {<<j, a>>}
           y == FailedRow(row[j], u, h)
           s == FailState(row[j], u)
<1>1. row[j].state = "active" /\ row[j].token = a /\ Settle(j, u, h, cs)
  BY DEF Fail, Owned
<1> HIDE DEF u, h, cs
<1>2. /\ Released(j, y) /\ Charged(row[j], y, s)
      /\ outcome' = [c \in Claims |-> IF c \in cs THEN s ELSE outcome[c]]
      /\ published' = published /\ holds' \in Holds /\ runDone' \in [Runs -> BOOLEAN]
  BY <1>1, SettleReleases
<1>3. s \in Outcomes \ {"none", "open"}
  <2>1. s \in {"needs_attention", "cancelled", "pending", "failed"}
    BY FailStates
  <2> QED BY <2>1 DEF Outcomes, Unsuccessful
<1> HIDE DEF y, s
<1>4. outcome' = [outcome EXCEPT ![<<j, a>>] = s]
  <2>1. outcome \in [Claims -> Outcomes]
    BY DEF StoreInv, StoreTypeOK
  <2>2. outcome' = [c \in Claims |-> IF c \in {<<j, a>>} THEN s ELSE outcome[c]]
    BY <1>2 DEF cs
  <2> QED BY <2>1, <2>2
<1> QED BY <1>1, <1>2, <1>3, <1>4

\* recoverExpired() marks an expired claim, or gives its row up.
LEMMA RecoverEffect ==
    ASSUME StoreInv, NEW j \in Jobs, NEW stopped, RecoverExpired(j, stopped)
    PROVE  \/ QuietStep /\ outcome' = outcome
           \/ /\ row[j].state = "active" /\ row[j].token \in Attempts
              /\ \E y, s : /\ Released(j, y) /\ s \in Outcomes \ {"none", "open"} /\ Charged(row[j], y, s)
                           /\ outcome' = [outcome EXCEPT ![<<j, row[j].token>>] = s]
              /\ published' = published /\ holds' \in Holds /\ runDone' \in [Runs -> BOOLEAN]
<1> DEFINE a == row[j].token
           u == ~stopped
           h == TRUE
           cs == {<<j, a>>}
           y == FailedRow(row[j], u, h)
           s == FailState(row[j], u)
<1>0. /\ Shape(row[j]) /\ row[j].state = "active" /\ row \in [Jobs -> Row]
  BY DEF RecoverExpired, StoreInv, StoreTypeOK
<1>1. CASE /\ row' = [row EXCEPT ![j].cancel = "deadline"]
           /\ UNCHANGED <<outcome, holds, runDone, published>>
  <2>1. row' = [row EXCEPT ![j] = [row[j] EXCEPT !.cancel = "deadline"]]
    BY <1>1
  <2> QED BY <1>0, <1>1, <2>1, ColumnsQuiet, OneRowQuiet
<1>2. CASE Settle(j, u, h, cs)
  <2>1. a \in Attempts
    <3>1. a # 0 /\ a \in 0..MaxAttempts
      BY <1>0, ShapeNumbers DEF Shape
    <3> QED BY <3>1, NumbersAssumption DEF Attempts
  <2> HIDE DEF a, u, h, cs
  <2>2. /\ Released(j, y) /\ Charged(row[j], y, s)
        /\ outcome' = [c \in Claims |-> IF c \in cs THEN s ELSE outcome[c]]
        /\ published' = published /\ holds' \in Holds /\ runDone' \in [Runs -> BOOLEAN]
    BY <1>0, <1>2, SettleReleases
  <2>3. s \in Outcomes \ {"none", "open"}
    <3>1. s \in {"needs_attention", "cancelled", "pending", "failed"}
      BY FailStates
    <3> QED BY <3>1 DEF Outcomes, Unsuccessful
  <2> HIDE DEF y, s
  <2>4. outcome' = [outcome EXCEPT ![<<j, a>>] = s]
    <3>1. outcome \in [Claims -> Outcomes]
      BY DEF StoreInv, StoreTypeOK
    <3>2. outcome' = [c \in Claims |-> IF c \in {<<j, a>>} THEN s ELSE outcome[c]]
      BY <2>2 DEF cs
    <3> QED BY <3>1, <3>2
  <2> QED BY <1>0, <2>1, <2>2, <2>3, <2>4 DEF a
<1> QED BY <1>1, <1>2 DEF RecoverExpired

-----------------------------------------------------------------------------
(* Every step of the store is quiet, grants a claim, or releases one. *)

\* The claim <<j, a>> is given up with outcome s, publishing only when it completes.
ReleaseStep(j, a) ==
    /\ row[j].state = "active" /\ row[j].token = a
    /\ \E y, s : /\ Released(j, y) /\ s \in Outcomes \ {"none", "open"} /\ Charged(row[j], y, s)
                 /\ outcome' = [outcome EXCEPT ![<<j, a>>] = s]
                 /\ \/ published' = published
                    \/ published' = published \cup {<<j, a>>} /\ y.state = "completed"
    /\ holds' \in Holds /\ runDone' \in [Runs -> BOOLEAN]

\* The administrative half of the store never touches a claim.
LEMMA AdministerQuiet ==
    ASSUME StoreInv, Administer
    PROVE  QuietStep /\ outcome' = outcome
<1>1. CASE \E r \in Requests : Request(r)
  BY <1>1, RequestQuiet
<1>2. CASE \E b \in BOOLEAN : Pause(b)
  BY <1>2, PauseQuiet
<1>3. CASE \E S \in SUBSET Jobs : Clear(S)
  BY <1>3, ClearQuiet
<1>4. CASE \E S \in SUBSET Failed : RetryFailed(S)
  BY <1>4, RetryFailedQuiet
<1>5. CASE \E r \in Runs, S \in SUBSET Jobs : S \subseteq Repeatable(r) /\ RetryRun(r, S)
  BY <1>5, RetryRunQuiet
<1>7. CASE \E r \in Runs : ReleaseRun(r) \/ \E S \in SUBSET Items : SetRunHolds(r, S)
  BY <1>7, RunHoldsQuiet
<1>6. CASE \E j \in Jobs : StartNow(j) \/ WakeDeferred(j) \/ RequestCancel(j) \/ LeaseAges(j) \/ DelayPasses(j)
  <2>1. PICK j \in Jobs : StartNow(j) \/ WakeDeferred(j) \/ RequestCancel(j) \/ LeaseAges(j) \/ DelayPasses(j)
    BY <1>6
  <2> QED BY <2>1, ColumnStepsQuiet
<1> QED BY <1>1, <1>2, <1>3, <1>4, <1>5, <1>6, <1>7 DEF Administer

\* The three kinds of step.
LEMMA StepKinds ==
    ASSUME StoreInv, StoreNext
    PROVE  \/ QuietStep /\ outcome' = outcome
           \/ \E w \in Workers, j \in Jobs : Claim(w, j)
           \/ \E j \in Jobs, a \in Attempts : ReleaseStep(j, a)
<1>1. CASE Administer
  BY <1>1, AdministerQuiet
<1>2. CASE \E r \in Runs : FinishRun(r)
  BY <1>2, FinishRunQuiet
<1>3. CASE \E w \in Workers, j \in Jobs : Deadline(w, j)
  BY <1>3, ColumnStepsQuiet
<1>4. CASE \E w \in Workers, S \in SUBSET Jobs : Renew(w, S)
  BY <1>4, RenewQuiet
<1>5. CASE \E j \in Jobs, a \in Attempts : Checkpoint(j, a)
  BY <1>5, ColumnStepsQuiet
<1>6. ASSUME NEW j \in Jobs, NEW a \in Attempts, Complete(j, a)
      PROVE  ReleaseStep(j, a)
  <2>1. "completed" \in Outcomes \ {"none", "open"}
    BY DEF Outcomes
  <2> QED BY <1>6, <2>1, CompleteReleases DEF ReleaseStep
<1>7. ASSUME NEW j \in Jobs, NEW a \in Attempts, Defer(j, a)
      PROVE  ReleaseStep(j, a)
  <2>1. "deferred" \in Outcomes \ {"none", "open"}
    BY DEF Outcomes
  <2> QED BY <1>7, <2>1, DeferReleases DEF ReleaseStep
<1>8. ASSUME NEW j \in Jobs, NEW a \in Attempts,
             NEW stopped \in BOOLEAN, NEW settling \in BOOLEAN, NEW onlyStopped \in BOOLEAN,
             Fail(j, a, stopped, settling, onlyStopped)
      PROVE  ReleaseStep(j, a)
  BY <1>8, FailReleases DEF ReleaseStep
<1>9. ASSUME NEW j \in Jobs, NEW stopped \in BOOLEAN, RecoverExpired(j, stopped)
      PROVE  \/ QuietStep /\ outcome' = outcome
             \/ \E a \in Attempts : ReleaseStep(j, a)
  BY <1>9, RecoverEffect DEF ReleaseStep
<1>10. ASSUME NEW j \in Jobs, NEW stopped \in BOOLEAN, CancelQueued(j, stopped)
       PROVE  QuietStep /\ outcome' = outcome
  BY <1>10, CancelQueuedQuiet
<1> QED BY <1>1, <1>2, <1>3, <1>4, <1>5, <1>6, <1>7, <1>8, <1>9, <1>10 DEF StoreNext


\* StoreInv is inductive.
LEMMA StoreInvInductive ==
    ASSUME StoreInv, [StoreNext]_storeVars
    PROVE  StoreInv'
<1>1. CASE StoreNext
  <2>1. CASE QuietStep /\ outcome' = outcome
    BY <2>1, QuietKeepsInv
  <2>2. CASE \E w \in Workers, j \in Jobs : Claim(w, j)
    BY <2>2, ClaimKeepsInv
  <2>3. CASE \E j \in Jobs, a \in Attempts : ReleaseStep(j, a)
    <3>1. PICK j \in Jobs, a \in Attempts : ReleaseStep(j, a)
      BY <2>3
    <3>2. PICK y, s : /\ Released(j, y) /\ s \in Outcomes \ {"none", "open"}
                      /\ outcome' = [outcome EXCEPT ![<<j, a>>] = s]
                      /\ \/ published' = published
                         \/ published' = published \cup {<<j, a>>} /\ y.state = "completed"
      BY <3>1 DEF ReleaseStep
    <3>3. /\ row[j].state = "active" /\ row[j].token = a
          /\ holds' \in Holds /\ runDone' \in [Runs -> BOOLEAN]
      BY <3>1 DEF ReleaseStep
    <3> QED BY <3>2, <3>3, ReleaseKeepsInv
  <2> QED BY <1>1, <2>1, <2>2, <2>3, StepKinds
<1>2. CASE UNCHANGED storeVars
  BY <1>2 DEF storeVars, StoreInv, StoreTypeOK, PublishedIsOver, AuditMatches
<1> QED BY <1>1, <1>2

\* A store without jobs satisfies StoreInv.
LEMMA StoreInitInv == StoreInit => StoreInv
<1> SUFFICES ASSUME StoreInit PROVE StoreInv
  OBVIOUS
<1>1. AbsentRow \in Row
  <2>1. "absent" \in States /\ "none" \in OperationStates
    BY DEF States, OperationStates
  <2> QED BY <2>1, Zero DEF AbsentRow, Row
<1>2. Shape(AbsentRow)
  BY <1>1, NumbersAssumption DEF Shape, AbsentRow
<1>3. /\ row \in [Jobs -> Row] /\ \A j \in Jobs : row[j] = AbsentRow
  BY <1>1 DEF StoreInit
<1>4. outcome \in [Claims -> Outcomes]
  BY DEF StoreInit, Outcomes
<1>5. StoreTypeOK
  BY <1>3, <1>4 DEF StoreInit, StoreTypeOK, Holds
<1>6. PublishedIsOver
  BY DEF StoreInit, PublishedIsOver
<1>7. AuditMatches
  <2> SUFFICES ASSUME NEW j \in Jobs, NEW a \in Attempts
               PROVE  /\ outcome[<<j, a>>] = "none" <=> a > row[j].attempt
                      /\ outcome[<<j, a>>] = "open" <=> row[j].token = a
    BY DEF AuditMatches
  <2>1. outcome[<<j, a>>] = "none"
    BY DEF StoreInit, Claims
  <2>2. row[j].attempt = 0 /\ row[j].token = 0
    BY <1>3 DEF AbsentRow
  <2>3. a \in Nat /\ a # 0
    BY NumbersAssumption DEF Attempts
  <2> QED BY <2>1, <2>2, <2>3
<1> QED BY <1>2, <1>3, <1>5, <1>6, <1>7 DEF StoreInv

-----------------------------------------------------------------------------
(* What a table operator does to keys, stages and runs. *)

\* What enqueueing r makes of row k: nothing, a note on a live job of its key, a waiting job that
\* takes r for its own, the job of its stage waiting again, or a new job.
Enters(rows, k, y, r) ==
    \/ y = rows[k]
    \/ /\ IsLive(rows[k]) /\ rows[k].req.key = r.key /\ r.key # NoKey
       /\ y.state = rows[k].state /\ y.req = rows[k].req /\ y.latest = r
    \/ /\ rows[k].state = "pending" /\ rows[k].req.key = r.key /\ r.key # NoKey
       /\ OnStage(rows, r) \ {k} = {}
       /\ y.state = "pending" /\ y.req = r /\ y.latest = rows[k].latest
    \/ /\ k \in OnStage(rows, r) /\ LiveKey(rows, r.key) = {}
       /\ y.state = "pending" /\ y.req = r /\ y.latest = NoRequest
    \/ /\ rows[k].state = "absent" /\ OnStage(rows, r) = {} /\ LiveKey(rows, r.key) = {}
       /\ y.state = "pending" /\ y.req = r /\ y.latest = NoRequest
Entered(rows, next, r) == \E k \in Jobs, y \in Row : Enters(rows, k, y, r) /\ next = [rows EXCEPT ![k] = y]

\* A row that goes on with its request, or ends.
Lowers(x, y) ==
    y.state # "absent" => /\ x.state # "absent" /\ y.req = x.req
                          /\ IsLive(y) => IsLive(x)
                          /\ y.latest \in {x.latest, NoRequest}
Lowered(rows, next) == \A k \in Jobs : Lowers(rows[k], next[k])

\* No two rows meet in a unique index, and a request noted on a row has its key.
Apart(x, y) ==
    /\ (IsLive(x) /\ IsLive(y)) => (x.req.key # y.req.key \/ x.req.key = NoKey)
    /\ x.req.run # NoRun => (x.req.run # y.req.run \/ x.req.item # y.req.item)
Indexed(rows) ==
    /\ \A j, k \in Jobs : (j # k /\ rows[j].state # "absent" /\ rows[k].state # "absent")
                             => Apart(rows[j], rows[k])
    /\ \A k \in Jobs : (rows[k].state # "absent" /\ rows[k].latest # NoRequest)
                          => rows[k].latest.key = rows[k].req.key /\ rows[k].req.key # NoKey

\* Live work of another run than before belongs to one of the runs; nothing becomes cancelled.
Brings(x, y, runs) == IsLive(y) => (IsLive(x) /\ y.req.run = x.req.run) \/ y.req.run \in runs
Spares(x, y) == y.state = "cancelled" => x.state = "cancelled"
Proceeds(rows, next, runs) == \A k \in Jobs : Brings(rows[k], next[k], runs) /\ Spares(rows[k], next[k])

LEMMA ProceedsTrans ==
    ASSUME NEW rows, NEW mid, NEW next, NEW R, NEW S, Proceeds(rows, mid, R), Proceeds(mid, next, S)
    PROVE  Proceeds(rows, next, R \cup S)
<1>1. ASSUME NEW k \in Jobs PROVE Brings(rows[k], next[k], R \cup S) /\ Spares(rows[k], next[k])
  <2>1. Brings(rows[k], mid[k], R) /\ Spares(rows[k], mid[k])  BY DEF Proceeds
  <2>2. Brings(mid[k], next[k], S) /\ Spares(mid[k], next[k])  BY DEF Proceeds
  <2> QED  BY <2>1, <2>2 DEF Brings, Spares
<1> QED  BY <1>1 DEF Proceeds

LEMMA ProceedsRefl == ASSUME NEW rows, NEW R PROVE Proceeds(rows, rows, R)
BY DEF Proceeds, Brings, Spares

\* The columns the operators write.
LEMMA EnteringColumns ==
    ASSUME NEW x \in Row, NEW r \in RequestType, NEW p
    PROVE  /\ LET y == NewRow(r, p) IN y.state = "pending" /\ y.req = r /\ y.latest = NoRequest
           /\ LET y == Rearmed(x, r, p) IN y.state = "pending" /\ y.req = r /\ y.latest = NoRequest
           /\ LET y == TakeLatest(x, r) IN y.state = "pending" /\ y.req = r /\ y.latest = NoRequest
           /\ LET y == Coalesced(x, r, p)
              IN  \/ y = x
                  \/ y.state = x.state /\ y.req = x.req /\ y.latest = r
                  \/ /\ r.keep = "last" /\ x.state = "pending" /\ ~x.owns
                     /\ y.state = x.state /\ y.req = r /\ y.latest = x.latest
<1>1. LET y == NewRow(r, p) IN y.state = "pending" /\ y.req = r /\ y.latest = NoRequest
  BY DEF NewRow, AbsentRow
<1>2. LET y == Rearmed(x, r, p) IN y.state = "pending" /\ y.req = r /\ y.latest = NoRequest
  BY DEF Rearmed, Row
<1>3. LET y == TakeLatest(x, r) IN y.state = "pending" /\ y.req = r /\ y.latest = NoRequest
  BY DEF TakeLatest, Row
<1>4. LET y == Coalesced(x, r, p)
      IN  \/ y = x
          \/ y.state = x.state /\ y.req = x.req /\ y.latest = r
          \/ /\ r.keep = "last" /\ x.state = "pending" /\ ~x.owns
             /\ y.state = x.state /\ y.req = r /\ y.latest = x.latest
  <2> DEFINE l == [x EXCEPT !.latest = r, !.latestParent = p]
             m == [x EXCEPT !.req = r, !.avail = "due", !.oper = OperationOf(r), !.armed = x.attempt]
  <2>1. l.state = x.state /\ l.req = x.req /\ l.latest = r  BY DEF Row
  <2>2. m.state = x.state /\ m.req = r /\ m.latest = x.latest  BY DEF Row
  <2>3. \/ Coalesced(x, r, p) \in {x, l}
        \/ Coalesced(x, r, p) = m /\ r.keep = "last" /\ x.state = "pending" /\ ~x.owns
    <3> HIDE DEF l, m
    <3>1. CASE r.keep = "drop"  BY <3>1 DEF Coalesced
    <3>2. CASE r.keep # "drop" /\ (x.state = "active" \/ x.owns)  BY <3>2 DEF Coalesced, l
    <3>3. CASE r.keep = "last" /\ x.state = "pending" /\ ~x.owns  BY <3>3 DEF Coalesced, m
    <3>4. CASE ~(r.keep = "drop") /\ ~(r.keep # "drop" /\ (x.state = "active" \/ x.owns))
               /\ ~(r.keep = "last" /\ x.state = "pending" /\ ~x.owns)
      BY <3>4 DEF Coalesced
    <3> QED  BY <3>1, <3>2, <3>3, <3>4
  <2> HIDE DEF l, m
  <2> QED  BY <2>1, <2>2, <2>3
<1> QED  BY <1>1, <1>2, <1>3, <1>4

\* Enqueueing.
LEMMA EnqueueEnters ==
    ASSUME NEW rows, Table(rows), NEW r \in RequestType, NEW p \in Jobs \cup {NoJob},
           Fits(rows, r), ~StageCollision(rows, r)
    PROVE  Entered(rows, Enqueue(rows, r, p), r)
<1> DEFINE same  == LiveKey(rows, r.key)
           stage == OnStage(rows, r)
           k     == Oldest(IF same # {} THEN same ELSE IF stage # {} THEN stage ELSE Absent(rows))
           next(x) == IF same # {} THEN Coalesced(x, r, p)
                      ELSE IF stage = {} THEN NewRow(r, p)
                      ELSE IF MayRearm(x, p) THEN Rearmed(x, r, p) ELSE x
<1>1. Enqueue(rows, r, p) = [rows EXCEPT ![k] = next(rows[k])]
  BY DEF Enqueue
<1>2. /\ same \in SUBSET Jobs /\ stage \in SUBSET Jobs /\ Absent(rows) \in SUBSET Jobs
  BY DEF LiveKey, OnStage, Absent
<1>3. \A i \in Jobs : Shape(rows[i]) /\ rows[i] \in Row
  BY ShapeNumbers DEF Table
<1>4. k \in Jobs /\ Shape(next(rows[k])) /\ Enters(rows, k, next(rows[k]), r)
  <2>1. CASE same # {}
    <3>1. k \in same /\ next(rows[k]) = Coalesced(rows[k], r, p)
      BY <2>1, <1>2, OldestIn
    <3>2. k \in Jobs /\ IsLive(rows[k]) /\ rows[k].req.key = r.key /\ r.key # NoKey
      BY <3>1 DEF LiveKey
    <3>3. Shape(Coalesced(rows[k], r, p))  BY <1>3, <3>2, CoalescedQuiet
    <3>4. (r.keep = "last" /\ rows[k].state = "pending" /\ ~rows[k].owns) => stage \ {k} = {}
      BY <3>1 DEF StageCollision
    <3> HIDE DEF k, same, stage
    <3>5. LET y == Coalesced(rows[k], r, p)
          IN  \/ y = rows[k]
              \/ y.state = rows[k].state /\ y.req = rows[k].req /\ y.latest = r
              \/ /\ r.keep = "last" /\ rows[k].state = "pending" /\ ~rows[k].owns
                 /\ y.state = rows[k].state /\ y.req = r /\ y.latest = rows[k].latest
      BY <1>3, <3>2, EnteringColumns
    <3> QED BY <3>1, <3>2, <3>3, <3>4, <3>5 DEF Enters, stage
  <2>2. CASE same = {} /\ stage # {}
    <3>1. k \in stage /\ next(rows[k]) = IF MayRearm(rows[k], p) THEN Rearmed(rows[k], r, p) ELSE rows[k]
      BY <2>2, <1>2, OldestIn
    <3>2. k \in Jobs
      BY <3>1, <1>2
    <3>3. CASE MayRearm(rows[k], p)
      <4>1. rows[k].state \in Terminal  BY <3>3 DEF MayRearm
      <4> HIDE DEF k
      <4>2. Shape(Rearmed(rows[k], r, p))  BY <1>3, <3>2, <4>1, RearmedQuiet
      <4> QED  BY <1>3, <2>2, <3>1, <3>2, <3>3, <4>1, <4>2, EnteringColumns DEF Enters
    <3>4. CASE ~MayRearm(rows[k], p)
      BY <1>3, <3>1, <3>2, <3>4 DEF Enters
    <3> QED BY <3>3, <3>4
  <2>3. CASE same = {} /\ stage = {}
    <3>1. Absent(rows) # {}
      BY <2>3 DEF Fits
    <3>2. k \in Absent(rows) /\ next(rows[k]) = NewRow(r, p)
      BY <2>3, <3>1, <1>2, OldestIn
    <3>3. k \in Jobs /\ rows[k].state = "absent"
      BY <3>2 DEF Absent
    <3> HIDE DEF k
    <3>4. Shape(NewRow(r, p))  BY <1>3, <3>3, NewRowQuiet
    <3> QED  BY <1>3, <2>3, <3>2, <3>3, <3>4, EnteringColumns DEF Enters
  <2> QED BY <2>1, <2>2, <2>3
<1> HIDE DEF k, next
<1>5. next(rows[k]) \in Row  BY <1>4, ShapeNumbers
<1> QED  BY <1>1, <1>4, <1>5 DEF Entered

\* Scheduling the latest request of an ended job.
LEMMA RequeuedEnters ==
    ASSUME NEW rows, Table(rows), NEW j \in Jobs, rows[j].state \notin {"absent", "active"}, NEW r \in RequestType,
           NEW p \in Jobs \cup {NoJob}, LatestFits(rows, j, r), ~KeyCollision(rows, j, r)
    PROVE  Entered(rows, Requeued(rows, j, r, p), r)
<1>0. Shape(rows[j]) /\ rows[j] \in Row /\ r # NoRequest
  BY ShapeNumbers, NullsAssumption DEF Table
<1>1. CASE SameStage(rows[j], r)
  <2> DEFINE y == TakeLatest(rows[j], r)
  <2>1. Requeued(rows, j, r, p) = [rows EXCEPT ![j] = y]  BY <1>1 DEF Requeued
  <2>2. LiveKey(rows, r.key) = {}  BY <1>0, <1>1 DEF KeyCollision
  <2>3. j \in OnStage(rows, r)  BY <1>1, StateNames DEF SameStage, OnStage
  <2>4. y.state = "pending" /\ y.req = r /\ y.latest = NoRequest  BY <1>0, EnteringColumns
  <2>5. y \in Row  BY <1>0, StateNames, TakeLatestQuiet, ShapeNumbers
  <2> HIDE DEF y
  <2>6. Enters(rows, j, y, r)  BY <2>2, <2>3, <2>4 DEF Enters
  <2> QED  BY <2>1, <2>5, <2>6 DEF Entered
<1>2. CASE ~SameStage(rows[j], r)
  <2>1. Fits(rows, r) /\ ~StageCollision(rows, r)  BY <1>0, <1>2 DEF LatestFits
  <2>2. (IF p = j THEN NoJob ELSE p) \in Jobs \cup {NoJob}  OBVIOUS
  <2> QED  BY <1>2, <2>1, <2>2, EnqueueEnters DEF Requeued
<1> QED  BY <1>1, <1>2

\* An enqueue brings work of its own run only.
LEMMA EnteredProceeds ==
    ASSUME NEW rows, Table(rows), NEW next, NEW r, Entered(rows, next, r)
    PROVE  Proceeds(rows, next, {r.run})
<1>1. PICK k \in Jobs, y \in Row : Enters(rows, k, y, r) /\ next = [rows EXCEPT ![k] = y]  BY DEF Entered
<1>2. \A i \in Jobs : next[i] = IF i = k THEN y ELSE rows[i]  BY <1>1 DEF Table
<1>3. Brings(rows[k], y, {r.run}) /\ Spares(rows[k], y)
  BY <1>1 DEF Enters, Brings, Spares, IsLive, Live
<1>4. \A i \in Jobs : Brings(rows[i], rows[i], {r.run}) /\ Spares(rows[i], rows[i])
  BY DEF Brings, Spares
<1> QED  BY <1>2, <1>3, <1>4 DEF Proceeds

\* An enqueue meets no row in a unique index.
LEMMA EnteredIndexed ==
    ASSUME NEW rows, Table(rows), Indexed(rows), NEW next, NEW r \in RequestType, Entered(rows, next, r)
    PROVE  Indexed(next)
<1>1. PICK k \in Jobs, y \in Row : Enters(rows, k, y, r) /\ next = [rows EXCEPT ![k] = y]  BY DEF Entered
<1>2. next[k] = y /\ \A i \in Jobs \ {k} : next[i] = rows[i]  BY <1>1 DEF Table
<1>3. ASSUME NEW i \in Jobs \ {k}, rows[i].state # "absent", y.state # "absent"
      PROVE  Apart(y, rows[i]) /\ Apart(rows[i], y)
  <2> DEFINE x == rows[k]
             z == rows[i]
  <2>0. x.state # "absent" => Apart(x, z) /\ Apart(z, x)  BY <1>3 DEF Indexed
  <2>1. i \in LiveKey(rows, r.key) <=> r.key # NoKey /\ IsLive(z) /\ z.req.key = r.key  BY DEF LiveKey
  <2>2. i \in OnStage(rows, r) <=> r.run # NoRun /\ z.req.run = r.run /\ z.req.item = r.item
    BY <1>3 DEF OnStage
  <2>3. IsLive(x) => x.state # "absent"  BY DEF IsLive, Live
  <2>4. k \in OnStage(rows, r) => x.state # "absent" /\ r.run # NoRun /\ x.req.run = r.run /\ x.req.item = r.item
    BY DEF OnStage
  <2>5. CASE y = x  BY <1>3, <2>0, <2>5
  <2>6. CASE IsLive(x) /\ y.state = x.state /\ y.req = x.req
    BY <2>0, <2>3, <2>6 DEF Apart, IsLive
  <2>7. CASE /\ x.state = "pending" /\ x.req.key = r.key /\ r.key # NoKey /\ OnStage(rows, r) \ {k} = {}
             /\ y.state = "pending" /\ y.req = r
    <3>1. i \notin OnStage(rows, r)  BY <2>7
    <3>2. IsLive(x) /\ IsLive(y)  BY <2>7 DEF IsLive, Live
    <3> QED  BY <2>0, <2>2, <2>3, <2>7, <3>1, <3>2 DEF Apart
  <2>8. CASE /\ k \in OnStage(rows, r) /\ LiveKey(rows, r.key) = {}
             /\ y.state = "pending" /\ y.req = r
    <3>1. i \notin LiveKey(rows, r.key)  BY <2>8
    <3> QED  BY <2>0, <2>1, <2>4, <2>8, <3>1 DEF Apart
  <2>9. CASE /\ OnStage(rows, r) = {} /\ LiveKey(rows, r.key) = {} /\ y.state = "pending" /\ y.req = r
    <3>1. i \notin LiveKey(rows, r.key) /\ i \notin OnStage(rows, r)  BY <2>9
    <3> QED  BY <2>1, <2>2, <2>9, <3>1 DEF Apart
  <2> QED  BY <1>1, <2>5, <2>6, <2>7, <2>8, <2>9 DEF Enters
<1>4. \A i, l \in Jobs : (i # l /\ next[i].state # "absent" /\ next[l].state # "absent") => Apart(next[i], next[l])
  BY <1>2, <1>3 DEF Indexed
<1>5. (y.state # "absent" /\ y.latest # NoRequest) => y.latest.key = y.req.key /\ y.req.key # NoKey
  <2>1. (rows[k].state # "absent" /\ rows[k].latest # NoRequest)
           => rows[k].latest.key = rows[k].req.key /\ rows[k].req.key # NoKey
    BY DEF Indexed
  <2> QED  BY <1>1, <2>1 DEF Enters
<1>6. \A i \in Jobs : (next[i].state # "absent" /\ next[i].latest # NoRequest)
                         => next[i].latest.key = next[i].req.key /\ next[i].req.key # NoKey
  BY <1>2, <1>5 DEF Indexed
<1> QED  BY <1>4, <1>6 DEF Indexed

\* Neither does a step after which no row has more than it had.
LEMMA LoweredIndexed ==
    ASSUME NEW rows, Indexed(rows), NEW next, Lowered(rows, next)
    PROVE  Indexed(next)
<1>1. ASSUME NEW i \in Jobs, NEW l \in Jobs, i # l, next[i].state # "absent", next[l].state # "absent"
      PROVE  Apart(next[i], next[l])
  <2>1. Lowers(rows[i], next[i]) /\ Lowers(rows[l], next[l])  BY DEF Lowered
  <2>2. Apart(rows[i], rows[l])  BY <1>1, <2>1 DEF Indexed, Lowers
  <2> QED  BY <1>1, <2>1, <2>2 DEF Lowers, Apart
<1>2. ASSUME NEW i \in Jobs, next[i].state # "absent", next[i].latest # NoRequest
      PROVE  next[i].latest.key = next[i].req.key /\ next[i].req.key # NoKey
  <2>1. Lowers(rows[i], next[i])  BY DEF Lowered
  <2> QED  BY <1>2, <2>1 DEF Lowers, Indexed
<1> QED  BY <1>1, <1>2 DEF Indexed

\* Such a step brings no work of another run.
LEMMA LowersBrings ==
    ASSUME NEW x, NEW y, NEW R, Lowers(x, y) PROVE Brings(x, y, R)
BY DEF Lowers, Brings, IsLive, Live

\* Ending waiting rows, as blocked or for attention.
LEMMA EndedLowers ==
    ASSUME NEW x \in Row, x.state = "pending", NEW s \in {"blocked", "needs_attention"}
    PROVE  LET y == [x EXCEPT !.state = s] IN Lowers(x, y) /\ Spares(x, y)
<1> DEFINE y == [x EXCEPT !.state = s]
<1>1. y.state = s /\ y.req = x.req /\ y.latest = x.latest  BY DEF Row
<1> QED  BY <1>1 DEF Lowers, Spares, IsLive, Live

\* A table in which some waiting rows were ended.
LEMMA EndedRows ==
    ASSUME NEW rows, Table(rows), NEW S, NEW s \in {"blocked", "needs_attention"}, NEW R,
           \A k \in S : k \in Jobs => rows[k].state = "pending"
    PROVE  LET next == [k \in Jobs |-> IF k \in S THEN [rows[k] EXCEPT !.state = s] ELSE rows[k]]
           IN  Lowered(rows, next) /\ Proceeds(rows, next, R)
<1> DEFINE next == [k \in Jobs |-> IF k \in S THEN [rows[k] EXCEPT !.state = s] ELSE rows[k]]
<1>1. ASSUME NEW k \in Jobs PROVE Lowers(rows[k], next[k]) /\ Spares(rows[k], next[k])
  <2>1. CASE k \in S
    <3>1. rows[k] \in Row /\ rows[k].state = "pending" /\ next[k] = [rows[k] EXCEPT !.state = s]
      BY <2>1 DEF Table
    <3> QED  BY <3>1, EndedLowers
  <2>2. CASE k \notin S  BY <2>2 DEF Lowers, Spares
  <2> QED  BY <2>1, <2>2
<1> HIDE DEF next
<1>2. Lowered(rows, next) /\ Proceeds(rows, next, R)  BY <1>1, LowersBrings DEF Lowered, Proceeds
<1> QED  BY <1>2 DEF next

LEMMA DependenciesEnded ==
    ASSUME NEW rows, Table(rows), NEW parents, NEW R
    PROVE  LET next == SettleDependencies(rows, parents) IN Lowered(rows, next) /\ Proceeds(rows, next, R)
<1> DEFINE S == Dependents(rows, parents)
           s == "blocked"
<1>1. \A k \in S : k \in Jobs => rows[k].state = "pending"
  <2> DEFINE pend == {c \in Jobs : rows[c].state = "pending"}
  <2>1. Dependents(rows, parents) \subseteq pend  BY DEF Dependents
  <2> QED  BY <2>1
<1>2. SettleDependencies(rows, parents) = [k \in Jobs |-> IF k \in S THEN [rows[k] EXCEPT !.state = s] ELSE rows[k]]
  BY DEF SettleDependencies
<1>3. s \in {"blocked", "needs_attention"}  OBVIOUS
<1> HIDE DEF S, s
<1>4. LET next == [k \in Jobs |-> IF k \in S THEN [rows[k] EXCEPT !.state = s] ELSE rows[k]]
      IN  Lowered(rows, next) /\ Proceeds(rows, next, R)
  BY <1>1, <1>3, EndedRows
<1> QED  BY <1>2, <1>4

\* scheduleLatest() reopens no run but the request's, cancels nothing and meets no index.
LEMMA LatestScheduled ==
    ASSUME NEW rows, Table(rows), NEW j \in Jobs, rows[j].state \notin {"absent", "active"},
           NEW r \in RequestType \cup {NoRequest}, NEW p \in Jobs \cup {NoJob},
           LatestFits(rows, j, r), ~KeyCollision(rows, j, r), NEW succeeded
    PROVE  LET next == ScheduleLatest(rows, j, r, p, succeeded)
               runs == IF r = NoRequest THEN {} ELSE {r.run}
           IN  (Indexed(rows) => Indexed(next)) /\ Proceeds(rows, next, runs)
<1>1. CASE r = NoRequest
  BY <1>1, ProceedsRefl DEF ScheduleLatest
<1>2. CASE r # NoRequest
  <2> DEFINE mid == Requeued(rows, j, r, p)
             held == LatestHeld(rows, j, r, p, succeeded)
             s == "needs_attention"
             after == [k \in Jobs |-> IF k \in held THEN [mid[k] EXCEPT !.state = s] ELSE mid[k]]
  <2>0. r \in RequestType  BY <1>2
  <2>1. Entered(rows, mid, r)  BY <2>0, RequeuedEnters
  <2>2. Table(mid)
    <3>1. rows[j].state # "active"  BY StateNames
    <3> QED  BY <2>0, <3>1, RequeuedQuiet DEF QuietTable
  <2>3. \A k \in held : k \in Jobs => mid[k].state = "pending"  BY DEF LatestHeld
  <2>4. ScheduleLatest(rows, j, r, p, succeeded) = after  BY <1>2 DEF ScheduleLatest
  <2>5. s \in {"blocked", "needs_attention"}  OBVIOUS
  <2> HIDE DEF mid, held, s
  <2>6. Proceeds(rows, mid, {r.run}) /\ (Indexed(rows) => Indexed(mid))
    BY <2>0, <2>1, EnteredProceeds, EnteredIndexed
  <2>7. Lowered(mid, after) /\ Proceeds(mid, after, {r.run})  BY <2>2, <2>3, <2>5, EndedRows
  <2> HIDE DEF after
  <2>8. Indexed(rows) => Indexed(after)  BY <2>6, <2>7, LoweredIndexed
  <2>9. Proceeds(rows, after, {r.run} \cup {r.run})  BY <2>6, <2>7, ProceedsTrans
  <2>10. {r.run} \cup {r.run} = {r.run}  OBVIOUS
  <2>11. Proceeds(rows, after, {r.run})  BY <2>9, <2>10
  <2> QED  BY <1>2, <2>4, <2>8, <2>11
<1> QED  BY <1>1, <1>2

-----------------------------------------------------------------------------
(* Keys, stages and runs, step by step. *)

\* A row that a claim or time rewrites keeps its request and stays as live as it was.
Same(x, y) == /\ y.req = x.req /\ y.latest = x.latest
              /\ y.state = x.state \/ (x.state \in Live /\ y.state \in Live)

LEMMA SameLowers == ASSUME NEW x, NEW y, Same(x, y) PROVE Lowers(x, y) /\ Spares(x, y)
BY DEF Same, Lowers, Spares, IsLive, Live

\* Steps that leave every request where it is.
LEMMA SameSteps ==
    ASSUME StoreInv, NEW j \in Jobs,
           \/ StartNow(j) \/ WakeDeferred(j) \/ RequestCancel(j) \/ LeaseAges(j) \/ DelayPasses(j)
           \/ \E w \in Workers : Deadline(w, j) \/ Claim(w, j)
           \/ \E a \in Attempts : Checkpoint(j, a) \/ Defer(j, a)
    PROVE  (\A k \in Jobs : Same(row[k], row'[k])) /\ runDone' = runDone
<1>0. row \in [Jobs -> Row] /\ row[j] \in Row  BY DEF StoreInv, StoreTypeOK
<1>1. ASSUME NEW y, row' = [row EXCEPT ![j] = y], Same(row[j], y)
      PROVE  \A k \in Jobs : Same(row[k], row'[k])
  <2>1. \A k \in Jobs : row'[k] = IF k = j THEN y ELSE row[k]  BY <1>0, <1>1
  <2>2. \A x : Same(x, x)  BY DEF Same
  <2> QED  BY <1>1, <2>1, <2>2
<1>2. ASSUME NEW v, \/ row' = [row EXCEPT ![j] = [row[j] EXCEPT !.avail = v]]
                    \/ row' = [row EXCEPT ![j] = [row[j] EXCEPT !.cancel = v]]
                    \/ row' = [row EXCEPT ![j] = [row[j] EXCEPT !.lease = v]]
                    \/ row' = [row EXCEPT ![j] = [row[j] EXCEPT !.owns = v]]
      PROVE  \A k \in Jobs : Same(row[k], row'[k])
  <2>1. /\ Same(row[j], [row[j] EXCEPT !.avail = v]) /\ Same(row[j], [row[j] EXCEPT !.cancel = v])
        /\ Same(row[j], [row[j] EXCEPT !.lease = v]) /\ Same(row[j], [row[j] EXCEPT !.owns = v])
    BY <1>0 DEF Same, Row
  <2> QED  BY <1>1, <1>2, <2>1
<1>3. CASE StartNow(j)  BY <1>0, <1>2, <1>3 DEF StartNow
<1>4. CASE WakeDeferred(j)  BY <1>0, <1>2, <1>4 DEF WakeDeferred
<1>5. CASE RequestCancel(j)  BY <1>0, <1>2, <1>5 DEF RequestCancel
<1>6. CASE LeaseAges(j)
  <2>1. row' = [row EXCEPT ![j] = [row[j] EXCEPT !.lease = row[j].lease - 1]]  BY <1>6 DEF LeaseAges
  <2> QED  BY <1>2, <1>6, <2>1 DEF LeaseAges
<1>7. CASE DelayPasses(j)  BY <1>0, <1>2, <1>7 DEF DelayPasses
<1>8. ASSUME NEW w \in Workers, Deadline(w, j) PROVE (\A k \in Jobs : Same(row[k], row'[k])) /\ runDone' = runDone
  BY <1>0, <1>2, <1>8 DEF Deadline
<1>9. ASSUME NEW w \in Workers, Claim(w, j) PROVE (\A k \in Jobs : Same(row[k], row'[k])) /\ runDone' = runDone
  <2> DEFINE y == ClaimedRow(row[j], w)
  <2>1. row' = [row EXCEPT ![j] = y] /\ row[j].state = "pending" /\ runDone' = runDone
    BY <1>9 DEF Claim, Claimable
  <2>2. y.req = row[j].req /\ y.latest = row[j].latest /\ y.state = "active"  BY <1>0 DEF ClaimedRow, Row
  <2> HIDE DEF y
  <2>3. Same(row[j], y)  BY <2>1, <2>2 DEF Same, Live
  <2> QED  BY <1>1, <2>1, <2>3
<1>10. ASSUME NEW a \in Attempts, Checkpoint(j, a)
       PROVE  (\A k \in Jobs : Same(row[k], row'[k])) /\ runDone' = runDone
  BY <1>0, <1>2, <1>10 DEF Checkpoint
<1>11. ASSUME NEW a \in Attempts, Defer(j, a) PROVE (\A k \in Jobs : Same(row[k], row'[k])) /\ runDone' = runDone
  <2>1. PICK d : row' = [row EXCEPT ![j] = DeferredRow(row[j], d)]  BY <1>11 DEF Defer
  <2> DEFINE y == DeferredRow(row[j], d)
  <2>2. row[j].state = "active" /\ runDone' = runDone  BY <1>11 DEF Defer, Fenced, Owned
  <2>3. y.req = row[j].req /\ y.latest = row[j].latest /\ y.state = "pending"  BY <1>0 DEF DeferredRow, Row
  <2> HIDE DEF y
  <2>4. Same(row[j], y)  BY <2>2, <2>3 DEF Same, Live
  <2> QED  BY <1>1, <2>1, <2>2, <2>4 DEF y
<1> QED  BY <1>3, <1>4, <1>5, <1>6, <1>7, <1>8, <1>9, <1>10, <1>11

\* So do heartbeats.
LEMMA RenewSame ==
    ASSUME StoreInv, NEW w, NEW S, Renew(w, S)
    PROVE  (\A k \in Jobs : Same(row[k], row'[k])) /\ runDone' = runDone
<1>1. row' = [k \in Jobs |-> IF k \in S THEN [row[k] EXCEPT !.lease = LeaseTicks] ELSE row[k]] /\ runDone' = runDone
  BY DEF Renew
<1>2. ASSUME NEW k \in Jobs PROVE Same(row[k], row'[k])
  <2>1. row[k] \in Row  BY DEF StoreInv, StoreTypeOK
  <2> QED  BY <1>1, <2>1 DEF Same, Row
<1> QED  BY <1>1, <1>2

\* A request.
LEMMA RequestEnters ==
    ASSUME StoreInv, Indexed(row), NEW r \in Requests, Request(r)
    PROVE  Indexed(row') /\ Proceeds(row, row', {r.run}) /\ runDone' = Reopened(runDone, {r.run})
<1>1. r \in RequestType /\ Table(row) /\ NoJob \in Jobs \cup {NoJob}  BY RequestsAssumption, InvTable
<1>2. /\ row' = Enqueue(row, r, NoJob) /\ Fits(row, r) /\ ~StageCollision(row, r)
      /\ runDone' = Reopened(runDone, {r.run})
  BY DEF Request
<1>3. Entered(row, row', r)  BY <1>1, <1>2, EnqueueEnters
<1> QED  BY <1>1, <1>2, <1>3, EnteredProceeds, EnteredIndexed

\* cancel() only ends rows.
LEMMA ClearLowers ==
    ASSUME StoreInv, NEW S, Clear(S)
    PROVE  /\ Lowered(row, row') /\ runDone' = runDone
           /\ \A k \in Jobs \ S : Spares(row[k], row'[k])
<1> DEFINE ended(x) == [x EXCEPT !.state = "cancelled", !.latest = NoRequest, !.latestParent = NoJob]
           rows == [k \in Jobs |-> IF k \in S THEN ended(row[k]) ELSE row[k]]
<1>1. row' = SettleDependencies(rows, S) /\ runDone' = runDone  BY DEF Clear
<1>2. \A k \in S : k \in Jobs /\ row[k].state \in {"pending", "failed", "needs_attention", "blocked"}
  BY DEF Clear
<1>3. ASSUME NEW k \in Jobs
      PROVE  Lowers(row[k], rows[k]) /\ Shape(rows[k]) /\ (k \notin S => rows[k] = row[k])
  <2>0. row[k] \in Row /\ Shape(row[k])  BY DEF StoreInv, StoreTypeOK
  <2>1. CASE k \in S
    <3>1. rows[k] = ended(row[k])  BY <2>1
    <3>2. Shape(ended(row[k]))  BY <1>2, <2>0, <2>1, ClearedQuiet
    <3>3. /\ ended(row[k]).state = "cancelled" /\ ended(row[k]).req = row[k].req
          /\ ended(row[k]).latest = NoRequest
      BY <2>0 DEF Row
    <3>4. row[k].state # "absent"  BY <1>2, <2>1
    <3> HIDE DEF ended, rows
    <3> QED  BY <2>1, <3>1, <3>2, <3>3, <3>4 DEF Lowers, IsLive, Live
  <2>2. CASE k \notin S
    <3>1. rows[k] = row[k]  BY <2>2
    <3> HIDE DEF rows
    <3> QED  BY <2>0, <3>1 DEF Lowers
  <2> QED  BY <2>1, <2>2
<1>4. rows = [k \in Jobs |-> rows[k]]  OBVIOUS
<1> HIDE DEF rows
<1>5. Table(rows)
  <2>1. \A k \in Jobs : rows[k] \in Row  BY <1>3, ShapeNumbers
  <2> QED  BY <1>3, <1>4, <2>1 DEF Table
<1>6. Lowered(rows, row') /\ Proceeds(rows, row', {})  BY <1>1, <1>5, DependenciesEnded
<1>7. Lowered(row, row')
  <2>1. \A x, y, z : (Lowers(x, y) /\ Lowers(y, z)) => Lowers(x, z)  BY DEF Lowers
  <2> QED  BY <1>3, <1>6, <2>1 DEF Lowered
<1>8. \A k \in Jobs \ S : Spares(row[k], row'[k])  BY <1>3, <1>6 DEF Proceeds, Spares
<1> QED  BY <1>1, <1>7, <1>8

\* Rows made to wait again, of different keys that are not live.
LEMMA RetriedRows ==
    ASSUME StoreInv, Indexed(row), NEW S \in SUBSET Jobs, NEW R,
           \A k \in S : /\ LiveKey(row, row[k].req.key) = {} /\ row[k].state # "absent" /\ row[k].req.run \in R
                        /\ row'[k].state = "pending" /\ row'[k].req = row[k].req /\ row'[k].latest = row[k].latest,
           \A k \in Jobs \ S : row'[k] = row[k],
           \A j, k \in S : (j # k /\ row[j].req.key = row[k].req.key) => row[k].req.key = NoKey
    PROVE  Indexed(row') /\ Proceeds(row, row', R)
<1>1. ASSUME NEW i \in Jobs, NEW l \in Jobs, i # l, row'[i].state # "absent", row'[l].state # "absent"
      PROVE  Apart(row'[i], row'[l])
  <2>1. row'[i].req = row[i].req /\ row'[l].req = row[l].req /\ row[i].state # "absent" /\ row[l].state # "absent"
    BY <1>1
  <2>2. Apart(row[i], row[l])  BY <1>1, <2>1 DEF Indexed
  <2>3. ASSUME IsLive(row'[i]), IsLive(row'[l]), row[i].req.key = row[l].req.key, row[i].req.key # NoKey
        PROVE  FALSE
    <3>1. CASE i \in S /\ l \in S  BY <1>1, <2>3, <3>1
    <3>2. CASE i \in S /\ l \notin S
      <4>1. l \in LiveKey(row, row[i].req.key)  BY <2>3, <3>2 DEF LiveKey
      <4> QED  BY <3>2, <4>1
    <3>3. CASE i \notin S /\ l \in S
      <4>1. i \in LiveKey(row, row[l].req.key)  BY <2>3, <3>3 DEF LiveKey
      <4> QED  BY <3>3, <4>1
    <3>4. CASE i \notin S /\ l \notin S  BY <2>2, <2>3, <3>4 DEF Apart
    <3> QED  BY <3>1, <3>2, <3>3, <3>4
  <2> QED  BY <2>1, <2>2, <2>3 DEF Apart
<1>2. ASSUME NEW i \in Jobs, row'[i].state # "absent", row'[i].latest # NoRequest
      PROVE  row'[i].latest.key = row'[i].req.key /\ row'[i].req.key # NoKey
  BY <1>2 DEF Indexed
<1>3. Indexed(row')  BY <1>1, <1>2 DEF Indexed
<1>4. Proceeds(row, row', R)  BY DEF Proceeds, Brings, Spares
<1> QED  BY <1>3, <1>4

\* retryFailed() and retryRun().
LEMMA RetrySteps ==
    ASSUME StoreInv, Indexed(row),
           \/ \E S \in SUBSET Failed : RetryFailed(S)
           \/ \E r \in Runs, S \in SUBSET Jobs : S \subseteq Repeatable(r) /\ RetryRun(r, S)
    PROVE  \E R : Indexed(row') /\ Proceeds(row, row', R) /\ runDone' = Reopened(runDone, R)
<1>0. \A k \in Jobs : row[k] \in Row  BY DEF StoreInv, StoreTypeOK
<1>1. \A k \in Jobs : LET y == Retried(row[k])
                          z == [Retried(row[k]) EXCEPT !.cancel = "none"]
                      IN  /\ y.state = "pending" /\ y.req = row[k].req /\ y.latest = row[k].latest
                          /\ z.state = "pending" /\ z.req = row[k].req /\ z.latest = row[k].latest
  BY <1>0 DEF Retried, Row
<1>2. ASSUME NEW S \in SUBSET Jobs, Admitted(S)
      PROVE  /\ \A k \in S : LiveKey(row, row[k].req.key) = {}
             /\ \A j, k \in S : (j # k /\ row[j].req.key = row[k].req.key) => row[k].req.key = NoKey
  BY <1>2 DEF Admitted, LiveKey
<1>3. ASSUME NEW S \in SUBSET Failed, RetryFailed(S)
      PROVE  \E R : Indexed(row') /\ Proceeds(row, row', R) /\ runDone' = Reopened(runDone, R)
  <2> DEFINE R == {row[k].req.run : k \in S}
  <2>1. /\ row' = [k \in Jobs |-> IF k \in S THEN Retried(row[k]) ELSE row[k]] /\ runDone' = Reopened(runDone, R)
        /\ Admitted(S)
    BY <1>3 DEF RetryFailed
  <2>2. S \in SUBSET Jobs /\ \A k \in S : row[k].state # "absent"  BY DEF Failed
  <2>3. \A k \in S : row[k].req.run \in R  OBVIOUS
  <2> HIDE DEF R
  <2>4. /\ \A k \in S : LiveKey(row, row[k].req.key) = {}
        /\ \A j, k \in S : (j # k /\ row[j].req.key = row[k].req.key) => row[k].req.key = NoKey
    BY <1>2, <2>1, <2>2
  <2>5. /\ \A k \in S : row'[k].state = "pending" /\ row'[k].req = row[k].req /\ row'[k].latest = row[k].latest
        /\ \A k \in Jobs \ S : row'[k] = row[k]
    BY <1>1, <2>1, <2>2
  <2> QED  BY <2>1, <2>2, <2>3, <2>4, <2>5, RetriedRows
<1>4. ASSUME NEW r \in Runs, NEW E \in SUBSET Repeatable(r), RetryRun(r, E)
      PROVE  \E R : Indexed(row') /\ Proceeds(row, row', R) /\ runDone' = Reopened(runDone, R)
  <2> DEFINE S == Recoverable(E)
             R == {r}
  <2>1. /\ row' = [k \in Jobs |-> IF k \in S THEN [Retried(row[k]) EXCEPT !.cancel = "none"] ELSE row[k]]
        /\ runDone' = Reopened(runDone, R) /\ Admitted(S)
    BY <1>4 DEF RetryRun
  <2>2. S \subseteq E  BY DEF Recoverable
  <2>3. /\ S \in SUBSET Jobs /\ \A k \in S : row[k].state # "absent" /\ row[k].req.run \in R
    BY <2>2 DEF Repeatable
  <2> HIDE DEF S, R
  <2>4. /\ \A k \in S : LiveKey(row, row[k].req.key) = {}
        /\ \A j, k \in S : (j # k /\ row[j].req.key = row[k].req.key) => row[k].req.key = NoKey
    BY <1>2, <2>1, <2>3
  <2>5. /\ \A k \in S : row'[k].state = "pending" /\ row'[k].req = row[k].req /\ row'[k].latest = row[k].latest
        /\ \A k \in Jobs \ S : row'[k] = row[k]
    BY <1>1, <2>1, <2>3
  <2> QED  BY <2>1, <2>3, <2>4, <2>5, RetriedRows
<1> QED  BY <1>3, <1>4

\* fail() and complete() end the row, or let it wait with what was noted on it.
LEMMA FailedLowers ==
    ASSUME NEW x \in Row, x.state \in {"pending", "active"}, NEW u, NEW h
    PROVE  Lowers(x, FailedRow(x, u, h))
<1> DEFINE y == FailedRow(x, u, h)
           s == FailState(x, u)
           l == IF s = "pending" THEN x.latest ELSE NoRequest
           lp == IF s = "pending" THEN x.latestParent ELSE NoJob
           o == IF h /\ x.oper = "claimed" THEN IF u THEN "failed" ELSE "released" ELSE x.oper
<1>1. y = [x EXCEPT !.state = s, !.avail = "later", !.dep = "none", !.token = 0, !.lease = 0,
                    !.latest = l, !.latestParent = lp, !.oper = o]
  BY DEF FailedRow
<1>2. l \in {x.latest, NoRequest}  OBVIOUS
<1> HIDE DEF s, l, lp, o, y
<1>3. y.req = x.req /\ y.latest = l  BY <1>1 DEF Row
<1>4. Lowers(x, y)  BY <1>2, <1>3 DEF Lowers, IsLive, Live
<1> QED  BY <1>4 DEF y

LEMMA CompletedLowers ==
    ASSUME NEW x \in Row, x.state = "active"
    PROVE  Lowers(x, CompletedRow(x)) /\ CompletedRow(x).state = "completed"
<1> DEFINE y == CompletedRow(x)
<1>1. y.state = "completed" /\ y.req = x.req /\ y.latest = NoRequest  BY DEF CompletedRow, Row
<1> HIDE DEF y
<1>2. Lowers(x, y)  BY <1>1 DEF Lowers, IsLive, Live
<1> QED  BY <1>1, <1>2 DEF y

\* The table with row j settled.
LEMMA SettledLowers ==
    ASSUME StoreInv, NEW j \in Jobs, NEW y, Lowers(row[j], y)
    PROVE  Lowered(row, [row EXCEPT ![j] = y])
<1> DEFINE rows == [row EXCEPT ![j] = y]
<1>1. \A k \in Jobs : rows[k] = IF k = j THEN y ELSE row[k]  BY DEF StoreInv, StoreTypeOK
<1> HIDE DEF rows
<1>2. \A k \in Jobs : Lowers(row[k], row[k])  BY DEF Lowers
<1>3. Lowered(row, rows)  BY <1>1, <1>2 DEF Lowered
<1> QED  BY <1>3 DEF rows

\* fail(): the latest request meets nobody, since the settled row kept its key to itself.
LEMMA SettleProceeds ==
    ASSUME StoreInv, Indexed(row), NEW j \in Jobs, row[j].state \in {"pending", "active"},
           NEW u, NEW h, NEW cs, Settle(j, u, h, cs)
    PROVE  \E R : /\ Indexed(row') /\ runDone' = Reopened(runDone, R)
                  /\ Proceeds([row EXCEPT ![j] = FailedRow(row[j], u, h)], row', R)
<1> DEFINE y == FailedRow(row[j], u, h)
           s == FailState(row[j], u)
           rows == [row EXCEPT ![j] = y]
           r == IF s = "pending" \/ UnconfirmedAttention(row[j], u) THEN NoRequest ELSE row[j].latest
           p == row[j].latestParent
           ended == {j} \cup (IF r = NoRequest THEN {} ELSE LatestHeld(rows, j, r, p, FALSE))
           after == ScheduleLatest(rows, j, r, p, FALSE)
           R == IF r = NoRequest THEN {} ELSE {r.run}
<1>0. Table(row) /\ Shape(row[j]) /\ row[j] \in Row  BY InvTable, ShapeNumbers DEF StoreInv
<1>1. /\ LatestFits(rows, j, r) /\ runDone' = Reopened(runDone, R)
      /\ row' = IF s = "pending" THEN rows ELSE SettleDependencies(after, ended)
  BY DEF Settle
<1>2. Shape(y) /\ y.state = s  BY <1>0, FailedShape
<1>3. r \in RequestType \cup {NoRequest} /\ p \in Jobs \cup {NoJob} /\ r \in {NoRequest, row[j].latest}
  BY <1>0 DEF Row
<1>4. Table(rows) /\ rows[j] = y /\ \A k \in Jobs \ {j} : rows[k] = row[k]
  <2>1. Table(rows) /\ rows[j] = y  BY <1>0, <1>2, SettledTable
  <2> QED  BY <2>1 DEF Table
<1>5. Lowered(row, rows)  BY <1>0, FailedLowers, SettledLowers
<1>6. s \in {"needs_attention", "cancelled", "pending", "failed"}  BY FailStates
<1> HIDE DEF y, s, r, p, ended, R
<1>7. CASE s = "pending"
  <2>1. row' = rows  BY <1>1, <1>7
  <2> HIDE DEF rows
  <2>2. Indexed(row') /\ Proceeds(rows, row', R)  BY <1>5, <2>1, LoweredIndexed, ProceedsRefl
  <2> QED  BY <1>1, <2>2 DEF rows, y
<1>8. CASE s # "pending"
  <2>1. ~KeyCollision(rows, j, r)
    <3>1. SUFFICES ASSUME NEW k \in LiveKey(rows, r.key), r # NoRequest PROVE FALSE
      BY DEF KeyCollision
    <3>2. k \in Jobs /\ r.key # NoKey /\ IsLive(rows[k]) /\ rows[k].req.key = r.key  BY <3>1 DEF LiveKey
    <3> HIDE DEF rows
    <3>3. k # j  BY <1>2, <1>4, <1>6, <1>8, <3>2 DEF IsLive, Live
    <3>4. row[k] = rows[k] /\ row[k].state # "absent"  BY <1>4, <3>2, <3>3 DEF IsLive, Live
    <3>5. row[j].latest.key = row[j].req.key /\ r.key = row[j].req.key  BY <1>3, <3>1 DEF Indexed
    <3>6. Apart(row[j], row[k])  BY <3>2, <3>3, <3>4 DEF Indexed
    <3>7. IsLive(row[j])  BY DEF IsLive, Live
    <3> QED  BY <3>2, <3>4, <3>5, <3>6, <3>7 DEF Apart
  <2>2. rows[j].state \notin {"absent", "active"}  BY <1>2, <1>4, <1>6
  <2> HIDE DEF rows
  <2>3. Indexed(rows)  BY <1>5, LoweredIndexed
  <2>4. Indexed(after) /\ Proceeds(rows, after, R)
    BY <1>1, <1>3, <1>4, <2>1, <2>2, <2>3, LatestScheduled DEF R
  <2>5. Table(after)  BY <1>1, <1>3, <1>4, <2>2, ScheduleLatestQuiet DEF QuietTable
  <2> HIDE DEF after
  <2>6. Lowered(after, row') /\ Proceeds(after, row', R)  BY <1>1, <1>8, <2>5, DependenciesEnded
  <2>7. Indexed(row')  BY <2>4, <2>6, LoweredIndexed
  <2>8. Proceeds(rows, row', R \cup R)  BY <2>4, <2>6, ProceedsTrans
  <2>9. R \cup R = R  OBVIOUS
  <2>10. Proceeds(rows, row', R)  BY <2>8, <2>9
  <2> QED  BY <1>1, <2>7, <2>10 DEF rows, y
<1> QED  BY <1>7, <1>8

\* complete(): only the follow-up's run and the latest request's have new work, and the first is
\* the settled job's own or reopened.
LEMMA CompleteProceeds ==
    ASSUME StoreInv, Indexed(row), NEW j \in Jobs, NEW a \in Attempts, Complete(j, a)
    PROVE  /\ Indexed(row')
           /\ \E R : /\ Proceeds([row EXCEPT ![j] = CompletedRow(row[j])], row', R)
                     /\ \E Q : runDone' = Reopened(runDone, Q) /\ R \subseteq Q \cup {row[j].req.run}
<1> DEFINE y == CompletedRow(row[j])
           done == [row EXCEPT ![j] = y]
           l == row[j].latest
           lp == row[j].latestParent
           next(f) == FollowUp(j, f)
           later(f, p) == IF f = NoRequest THEN done ELSE Enqueue(done, next(f), p)
           own == row[j].req.run
           runs(f) == (IF f = NoRequest THEN {} ELSE {next(f).run} \ {own})
                      \cup (IF l = NoRequest THEN {} ELSE {l.run})
<1>0. Table(row) /\ Shape(row[j]) /\ row[j] \in Row /\ row[j].state = "active" /\ row[j].token = a
  BY InvTable, ShapeNumbers DEF StoreInv, Complete, Fenced, Owned
<1>1. PICK f \in Requests \cup {NoRequest}, p \in {j, NoJob} :
        /\ f # NoRequest => (Fits(done, next(f)) /\ ~StageCollision(done, next(f)))
        /\ LatestFits(later(f, p), j, l) /\ ~KeyCollision(later(f, p), j, l)
        /\ row' = ScheduleLatest(later(f, p), j, l, lp, TRUE)
        /\ runDone' = Reopened(runDone, runs(f))
  BY DEF Complete
<1>2. Shape(y) /\ y.state = "completed" /\ y.token = 0  BY <1>0, CompletedShape
<1>3. l \in RequestType \cup {NoRequest} /\ lp \in Jobs \cup {NoJob} /\ p \in Jobs \cup {NoJob}  BY <1>0 DEF Row
<1>4. Table(done) /\ done[j] = y  BY <1>0, <1>2, SettledTable
<1>5. f # NoRequest => next(f) \in RequestType
  <2>1. row[j].req \in RequestType  BY <1>0, StateNames DEF Shape
  <2>2. row[j].req.run \in Runs \cup {NoRun}  BY <2>1 DEF RequestType
  <2>3. f # NoRequest => f \in RequestType  BY RequestsAssumption
  <2> QED BY <2>2, <2>3 DEF FollowUp, RequestType
<1>6. Lowered(row, done)  BY <1>0, CompletedLowers, SettledLowers
<1> DEFINE F == IF f = NoRequest THEN {} ELSE {next(f).run}
           L == IF l = NoRequest THEN {} ELSE {l.run}
           mid == later(f, p)
<1>7. F \cup L \subseteq runs(f) \cup {own}  OBVIOUS
<1> HIDE DEF y, l, lp, next, runs, own
<1>8. Table(mid) /\ Quiet(y, mid[j]) /\ Indexed(mid) /\ Proceeds(done, mid, F)
  <2> HIDE DEF done
  <2>0. Indexed(done)  BY <1>6, LoweredIndexed
  <2>1. CASE f = NoRequest
    <3>1. mid = done  BY <2>1
    <3> QED  BY <1>4, <2>0, <3>1, QuietRefl, ProceedsRefl
  <2>2. CASE f # NoRequest
    <3>1. mid = Enqueue(done, next(f), p) /\ F = {next(f).run}  BY <2>2
    <3>2. QuietTable(done, mid)  BY <1>1, <1>3, <1>4, <1>5, <2>2, <3>1, EnqueueQuiet
    <3>3. Entered(done, mid, next(f))  BY <1>1, <1>3, <1>4, <1>5, <2>2, <3>1, EnqueueEnters
    <3> HIDE DEF mid
    <3> QED  BY <1>4, <1>5, <2>0, <2>2, <3>1, <3>2, <3>3, EnteredProceeds, EnteredIndexed DEF QuietTable
  <2> QED  BY <2>1, <2>2
<1>9. mid[j].state \notin {"absent", "active"}
  <2>1. Shape(mid[j]) /\ mid[j].token = 0 /\ mid[j].attempt = y.attempt  BY <1>2, <1>8 DEF Table, Quiet
  <2>2. y.attempt # 0
    <3>1. row[j].attempt # 0  BY <1>0, NumbersAssumption DEF Shape, Attempts
    <3>2. y.attempt = row[j].attempt  BY <1>0, CompletedShape DEF y
    <3> QED  BY <3>1, <3>2
  <2> QED  BY <2>1, <2>2 DEF Shape
<1>10. /\ LatestFits(mid, j, l) /\ ~KeyCollision(mid, j, l)
       /\ row' = ScheduleLatest(mid, j, l, lp, TRUE)
  BY <1>1
<1> HIDE DEF mid, done
<1>11. Indexed(row') /\ Proceeds(mid, row', L)  BY <1>3, <1>8, <1>9, <1>10, LatestScheduled DEF L
<1> HIDE DEF F, L
<1>12. Proceeds(done, row', F \cup L)  BY <1>8, <1>11, ProceedsTrans
<1> QED  BY <1>1, <1>7, <1>11, <1>12 DEF done, y, own

\* Runs that get new work are open, or are reopened with it.
LEMMA RunsKept ==
    ASSUME FinishedRunsQuiet, StoreInv', NEW R, \A k \in Jobs : Brings(row[k], row'[k], R), holds' = holds,
           \A r \in Runs : runDone'[r] => (runDone[r] /\ (r \notin R \/ Parked(r) # {}))
    PROVE  FinishedRunsQuiet'
<1>0. \A r : Parked(r)' = Parked(r)  BY DEF Parked
<1> SUFFICES ASSUME NEW k \in Jobs, IsLive(row'[k]), row'[k].req.run # NoRun, runDone'[row'[k].req.run]
             PROVE  Parked(row'[k].req.run) # {}
  BY <1>0 DEF FinishedRunsQuiet, IsLive
<1>1. row'[k].req.run \in Runs
  <2>1. Shape(row'[k])  BY DEF StoreInv, Shape, Row
  <2>2. row'[k].req \in RequestType  BY <2>1 DEF Shape, IsLive, Live
  <2> QED  BY <2>2 DEF RequestType
<1>2. CASE IsLive(row[k]) /\ row'[k].req.run = row[k].req.run
  BY <1>1, <1>2 DEF FinishedRunsQuiet
<1>3. CASE row'[k].req.run \in R  BY <1>1, <1>3
<1> QED  BY <1>2, <1>3 DEF Brings

\* What a person writes to the holds: the queue's, or those of one run.
HoldStep ==
    \/ \E b \in BOOLEAN : Pause(b)
    \/ \E r \in Runs : ReleaseRun(r) \/ \E S \in SUBSET Items : SetRunHolds(r, S)

\* Nothing else writes them.
LEMMA HoldsWritten == ASSUME StoreNext PROVE HoldStep \/ holds' = holds
<1>1. \A j, u, h, cs : Settle(j, u, h, cs) => holds' = holds  BY DEF Settle
<1>2. CASE Administer
  BY <1>2 DEF Administer, HoldStep, Request, Clear, RetryFailed, RetryRun, StartNow, WakeDeferred, RequestCancel,
              LeaseAges, DelayPasses
<1>3. CASE \E r \in Runs : FinishRun(r)  BY <1>3 DEF FinishRun
<1>4. CASE \E w \in Workers : \/ \E j \in Jobs : Claim(w, j) \/ Deadline(w, j)
                              \/ \E S \in SUBSET Jobs : Renew(w, S)
  BY <1>4 DEF Claim, Deadline, Renew
<1>5. CASE \E j \in Jobs, a \in Attempts : Checkpoint(j, a) \/ Complete(j, a) \/ Defer(j, a)
  BY <1>5 DEF Checkpoint, Complete, Defer
<1>6. ASSUME NEW j \in Jobs, NEW a \in Attempts, NEW stopped \in BOOLEAN, NEW settling \in BOOLEAN,
             NEW onlyStopped \in BOOLEAN, Fail(j, a, stopped, settling, onlyStopped)
      PROVE  holds' = holds
  BY <1>6 DEF Fail, Settle
<1>7. ASSUME NEW j \in Jobs, NEW stopped \in BOOLEAN, RecoverExpired(j, stopped) \/ CancelQueued(j, stopped)
      PROVE  holds' = holds
  BY <1>7 DEF RecoverExpired, CancelQueued, Settle
<1> QED  BY <1>2, <1>3, <1>4, <1>5, <1>6, <1>7 DEF StoreNext

\* A parked stage that is released reopens its run; the other runs keep theirs.
LEMMA HoldStepKeeps ==
    ASSUME StoreInv, Indexed(row), FinishedRunsQuiet, HoldStep
    PROVE  Indexed(row') /\ FinishedRunsQuiet'
<1>0. row' = row  BY DEF HoldStep, Pause, ReleaseRun, SetRunHolds
<1>1. ASSUME NEW q \in Runs, runDone'[q] PROVE runDone[q] /\ (Parked(q) # {} => Parked(q)' # {})
  <2>0. /\ runDone \in [Runs -> BOOLEAN] /\ holds = [queue |-> holds.queue, parked |-> holds.parked]
        /\ holds.parked \subseteq Runs \X Items
    BY DEF StoreInv, StoreTypeOK, Holds
  <2>1. CASE \E b \in BOOLEAN : Pause(b)
    <3>1. holds'.parked = holds.parked /\ runDone' = runDone  BY <2>0, <2>1 DEF Pause
    <3> QED  BY <1>1, <3>1 DEF Parked
  <2>2. ASSUME NEW r \in Runs, NEW S \in SUBSET Items, holds' = Park(r, S),
               runDone' = Reopened(runDone, {r}) \/ (runDone' = Reopened(runDone, {}) /\ Parked(r) \subseteq S)
        PROVE  runDone[q] /\ (Parked(q) # {} => Parked(q)' # {})
    <3>1. runDone[q] /\ (q = r => Parked(r) \subseteq S)  BY <1>1, <2>2 DEF Reopened
    <3>2. \A i \in Items : <<q, i>> \in holds'.parked <=> IF q = r THEN i \in S ELSE <<q, i>> \in holds.parked
      <4>1. holds'.parked = {x \in holds.parked : x[1] # r} \cup ({r} \X S)  BY <2>0, <2>2 DEF Park
      <4> SUFFICES ASSUME NEW i \in Items
                   PROVE  <<q, i>> \in holds'.parked <=> IF q = r THEN i \in S ELSE <<q, i>> \in holds.parked
        OBVIOUS
      <4>2. <<q, i>>[1] = q  OBVIOUS
      <4>3. <<q, i>> \in {r} \X S <=> q = r /\ i \in S  OBVIOUS
      <4>4. <<q, i>> \in {x \in holds.parked : x[1] # r} <=> <<q, i>> \in holds.parked /\ q # r  BY <4>2
      <4> QED  BY <4>1, <4>3, <4>4
    <3>3. \A i \in Items : i \in Parked(q)' <=> IF q = r THEN i \in S ELSE i \in Parked(q)
      BY <3>2 DEF Parked
    <3>4. Parked(q) \subseteq Items  BY DEF Parked
    <3> QED  BY <3>1, <3>3, <3>4
  <2>3. CASE \E r \in Runs : ReleaseRun(r)  BY <2>2, <2>3 DEF ReleaseRun
  <2>4. CASE \E r \in Runs, S \in SUBSET Items : SetRunHolds(r, S)  BY <2>2, <2>4 DEF SetRunHolds
  <2> QED  BY <2>1, <2>3, <2>4 DEF HoldStep
<1>2. FinishedRunsQuiet'
  <2> SUFFICES ASSUME NEW k \in Jobs, NEW q, q = row[k].req.run, IsLive(row[k]), q # NoRun, runDone'[q]
               PROVE  Parked(q)' # {}
    BY <1>0 DEF FinishedRunsQuiet, Parked
  <2>1. row[k].req \in RequestType  BY DEF StoreInv, Shape, IsLive, Live
  <2>2. q \in Runs  BY <2>1 DEF RequestType
  <2>3. runDone[q] /\ (Parked(q) # {} => Parked(q)' # {})  BY <1>1, <2>2
  <2> QED  BY <2>3 DEF FinishedRunsQuiet
<1> QED  BY <1>0, <1>2

\* The three parts of what the other steps keep.
LEMMA StepKeepsIndexes ==
    ASSUME StoreInv, Indexed(row), FinishedRunsQuiet, StoreNext, holds' = holds
    PROVE  Indexed(row') /\ FinishedRunsQuiet'
<1>0. StoreInv' /\ row \in [Jobs -> Row] /\ runDone \in [Runs -> BOOLEAN]
  BY StoreInvInductive DEF StoreInv, StoreTypeOK
<1>1. ASSUME \A k \in Jobs : Same(row[k], row'[k]), runDone' = runDone
      PROVE  Indexed(row') /\ FinishedRunsQuiet'
  <2>1. Lowered(row, row')  BY <1>1, SameLowers DEF Lowered
  <2>2. \A k \in Jobs : Brings(row[k], row'[k], {})  BY <2>1, LowersBrings DEF Lowered
  <2> QED  BY <1>0, <1>1, <2>1, <2>2, LoweredIndexed, RunsKept
<1>2. ASSUME row' = row,
             \A r \in Runs : runDone'[r] => (runDone[r] \/ LiveWork(r) = {})
      PROVE  Indexed(row') /\ FinishedRunsQuiet'
  <2>0. \A r : Parked(r)' = Parked(r)  BY DEF Parked
  <2> SUFFICES ASSUME NEW k \in Jobs, IsLive(row[k]), row[k].req.run # NoRun, runDone'[row[k].req.run]
               PROVE  Parked(row[k].req.run) # {}
    BY <1>2, <2>0 DEF FinishedRunsQuiet
  <2>1. row[k].req \in RequestType  BY DEF StoreInv, Shape, IsLive, Live
  <2>2. row[k].req.run \in Runs  BY <2>1 DEF RequestType
  <2> QED  BY <1>2, <2>2 DEF FinishedRunsQuiet, LiveWork
<1>3. ASSUME NEW R, \A k \in Jobs : Brings(row[k], row'[k], R), runDone' = Reopened(runDone, R)
      PROVE  FinishedRunsQuiet'
  <2>1. \A r \in Runs : runDone'[r] => (runDone[r] /\ r \notin R)  BY <1>3 DEF Reopened
  <2> QED  BY <1>0, <1>3, <2>1, RunsKept
\* fail(): what row j keeps or ends, then what the others get.
<1>4. ASSUME NEW j \in Jobs, row[j].state \in {"pending", "active"}, NEW u, NEW h, NEW cs, Settle(j, u, h, cs)
      PROVE  Indexed(row') /\ FinishedRunsQuiet'
  <2> DEFINE rows == [row EXCEPT ![j] = FailedRow(row[j], u, h)]
  <2>1. PICK R : Indexed(row') /\ runDone' = Reopened(runDone, R) /\ Proceeds(rows, row', R)
    BY <1>4, SettleProceeds
  <2>2. Lowered(row, rows)  BY <1>0, <1>4, FailedLowers, SettledLowers
  <2> HIDE DEF rows
  <2>3. \A k \in Jobs : Brings(row[k], row'[k], R)
    BY <2>1, <2>2, LowersBrings DEF Lowered, Proceeds, Brings, Lowers
  <2> QED  BY <1>3, <2>1, <2>3
<1>5. ASSUME NEW j \in Jobs, NEW a \in Attempts, Complete(j, a) PROVE Indexed(row') /\ FinishedRunsQuiet'
  <2> DEFINE rows == [row EXCEPT ![j] = CompletedRow(row[j])]
  <2>0. row[j].state = "active"  BY <1>5 DEF Complete, Fenced, Owned
  <2>1. Indexed(row')  BY <1>5, CompleteProceeds
  <2>2. PICK R : /\ Proceeds(rows, row', R)
                 /\ \E Q : runDone' = Reopened(runDone, Q) /\ R \subseteq Q \cup {row[j].req.run}
    BY <1>5, CompleteProceeds
  <2>3. PICK Q : runDone' = Reopened(runDone, Q) /\ R \subseteq Q \cup {row[j].req.run}  BY <2>2
  <2>4. Lowered(row, rows)  BY <1>0, <2>0, CompletedLowers, SettledLowers
  <2> HIDE DEF rows
  <2>5. \A k \in Jobs : Brings(row[k], row'[k], R)
    BY <2>2, <2>4, LowersBrings DEF Lowered, Proceeds, Brings, Lowers
  <2>6. ASSUME NEW r \in Runs, runDone'[r] PROVE runDone[r] /\ (r \notin R \/ Parked(r) # {})
    <3>1. runDone[r] /\ r \notin Q  BY <2>3, <2>6 DEF Reopened
    <3>2. r # row[j].req.run \/ Parked(r) # {}
      <4>1. IsLive(row[j])  BY <2>0 DEF IsLive, Live
      <4> QED  BY <3>1, <4>1, NullsAssumption DEF FinishedRunsQuiet
    <3> QED  BY <2>3, <3>1, <3>2
  <2> QED  BY <1>0, <2>1, <2>5, <2>6, RunsKept
<1>6. CASE Administer
  <2>1. CASE \E r \in Requests : Request(r)
    <3>1. PICK r \in Requests : Request(r)  BY <2>1
    <3>2. Indexed(row') /\ Proceeds(row, row', {r.run}) /\ runDone' = Reopened(runDone, {r.run})
      BY <3>1, RequestEnters
    <3> QED  BY <1>3, <3>2 DEF Proceeds
  <2>2. CASE \E b \in BOOLEAN : Pause(b)  BY <1>2, <2>2 DEF Pause
  <2>3. CASE \E S \in SUBSET Jobs : Clear(S)
    <3>1. Lowered(row, row') /\ runDone' = runDone  BY <2>3, ClearLowers
    <3>2. \A k \in Jobs : Brings(row[k], row'[k], {})  BY <3>1, LowersBrings DEF Lowered
    <3> QED  BY <1>0, <3>1, <3>2, LoweredIndexed, RunsKept
  <2>4. CASE \/ \E S \in SUBSET Failed : RetryFailed(S)
             \/ \E r \in Runs, S \in SUBSET Jobs : S \subseteq Repeatable(r) /\ RetryRun(r, S)
    <3>1. PICK R : Indexed(row') /\ Proceeds(row, row', R) /\ runDone' = Reopened(runDone, R)
      BY <2>4, RetrySteps
    <3> QED  BY <1>3, <3>1 DEF Proceeds
  <2>5. CASE \E j \in Jobs : StartNow(j) \/ WakeDeferred(j) \/ RequestCancel(j) \/ LeaseAges(j) \/ DelayPasses(j)
    BY <1>1, <2>5, SameSteps
  <2>6. CASE \E r \in Runs : ReleaseRun(r) \/ \E S \in SUBSET Items : SetRunHolds(r, S)
    <3>1. HoldStep  BY <2>6 DEF HoldStep
    <3> QED  BY <3>1, HoldStepKeeps
  <2> QED  BY <1>6, <2>1, <2>2, <2>3, <2>4, <2>5, <2>6 DEF Administer
<1>7. CASE \E r \in Runs : FinishRun(r)
  <2>1. PICK r \in Runs : FinishRun(r)  BY <1>7
  <2>2. \A q \in Runs : runDone'[q] => (runDone[q] \/ q = r)  BY <1>0, <2>1 DEF FinishRun
  <2> QED  BY <1>2, <2>1, <2>2 DEF FinishRun
<1>8. CASE \E w \in Workers, j \in Jobs : Claim(w, j) \/ Deadline(w, j)  BY <1>1, <1>8, SameSteps
<1>9. CASE \E w \in Workers, S \in SUBSET Jobs : Renew(w, S)  BY <1>1, <1>9, RenewSame
<1>10. CASE \E j \in Jobs, a \in Attempts : Checkpoint(j, a) \/ Defer(j, a)  BY <1>1, <1>10, SameSteps
<1>11. ASSUME NEW j \in Jobs, NEW a \in Attempts, NEW stopped, NEW settling, NEW onlyStopped,
              Fail(j, a, stopped, settling, onlyStopped)
       PROVE  Indexed(row') /\ FinishedRunsQuiet'
  <2> DEFINE u == StopRequested(row[j]) /\ ~stopped
             h == FALSE
             cs == {<<j, a>>}
  <2>1. row[j].state \in {"pending", "active"} /\ Settle(j, u, h, cs)  BY <1>11 DEF Fail, Owned
  <2> HIDE DEF u, h, cs
  <2> QED  BY <1>4, <2>1
<1>12. ASSUME NEW j \in Jobs, NEW stopped, RecoverExpired(j, stopped)
       PROVE  Indexed(row') /\ FinishedRunsQuiet'
  <2> DEFINE u == ~stopped
             h == TRUE
             cs == {<<j, row[j].token>>}
             y == [row[j] EXCEPT !.cancel = "deadline"]
  <2>1. row[j].state = "active"  BY <1>12 DEF RecoverExpired
  <2>2. CASE row' = [row EXCEPT ![j].cancel = "deadline"] /\ runDone' = runDone
    <3>1. row' = [row EXCEPT ![j] = y]  BY <2>2
    <3>2. Same(row[j], y) /\ \A x : Same(x, x)  BY <1>0 DEF Same, Row
    <3> HIDE DEF y
    <3>3. \A k \in Jobs : row'[k] = IF k = j THEN y ELSE row[k]  BY <1>0, <3>1
    <3> QED  BY <1>1, <2>2, <3>2, <3>3
  <2>3. CASE Settle(j, u, h, cs)
    <3> HIDE DEF u, h, cs
    <3> QED  BY <1>4, <2>1, <2>3
  <2> QED  BY <1>12, <2>2, <2>3 DEF RecoverExpired
<1>13. ASSUME NEW j \in Jobs, NEW stopped, CancelQueued(j, stopped)
       PROVE  Indexed(row') /\ FinishedRunsQuiet'
  <2> DEFINE u == ~stopped
             cs == {<<j, a>> : a \in {b \in Attempts : outcome[<<j, b>>] = "open"}}
  <2>1. row[j].state = "pending" /\ Settle(j, u, u, cs)  BY <1>13 DEF CancelQueued
  <2> HIDE DEF u, cs
  <2> QED  BY <1>4, <2>1
<1> QED  BY <1>5, <1>6, <1>7, <1>8, <1>9, <1>10, <1>11, <1>12, <1>13 DEF StoreNext

-----------------------------------------------------------------------------
(* The latest request noted on a live job. *)

\* A live job with a note, and a write that adds none a caller asked to drop.
Noted(x) == IsLive(x) /\ x.latest # NoRequest
Notes(x, y) == y.latest \in {x.latest, NoRequest} \/ y.latest.keep # "drop"
NotesKept(rows) == \A k \in Jobs : rows[k].latest = NoRequest \/ rows[k].latest.keep # "drop"

\* Rows keep their requests and states, but for waiting ones that end blocked or for attention.
Ends(x, y) == /\ y.req = x.req /\ y.latest = x.latest
              /\ \/ y.state = x.state
                 \/ x.state = "pending" /\ y.state \in {"blocked", "needs_attention"}

\* The one row an enqueue writes, and what with.
Places(rows, next, k, r, p) ==
    /\ \A i \in Jobs \ {k} : next[i] = rows[i]
    /\ \/ k \in LiveKey(rows, r.key) /\ next[k] = Coalesced(rows[k], r, p)
       \/ /\ LiveKey(rows, r.key) = {} /\ k \in OnStage(rows, r)
          /\ next[k] = IF MayRearm(rows[k], p) THEN Rearmed(rows[k], r, p) ELSE rows[k]
       \/ /\ LiveKey(rows, r.key) = {} /\ OnStage(rows, r) = {}
          /\ k \in Absent(rows) /\ next[k] = NewRow(r, p)

LEMMA EnqueuePlaces ==
    ASSUME NEW rows, Table(rows), NEW r, NEW p, Fits(rows, r)
    PROVE  \E k \in Jobs : Places(rows, Enqueue(rows, r, p), k, r, p)
<1> DEFINE same  == LiveKey(rows, r.key)
           stage == OnStage(rows, r)
           k     == Oldest(IF same # {} THEN same ELSE IF stage # {} THEN stage ELSE Absent(rows))
           y     == IF same # {} THEN Coalesced(rows[k], r, p)
                    ELSE IF stage = {} THEN NewRow(r, p)
                    ELSE IF MayRearm(rows[k], p) THEN Rearmed(rows[k], r, p) ELSE rows[k]
           next  == Enqueue(rows, r, p)
<1>1. next = [rows EXCEPT ![k] = y]  BY DEF Enqueue
<1>2. same \in SUBSET Jobs /\ stage \in SUBSET Jobs /\ Absent(rows) \in SUBSET Jobs
  BY DEF LiveKey, OnStage, Absent
<1>3. ASSUME k \in Jobs PROVE next[k] = y /\ \A i \in Jobs \ {k} : next[i] = rows[i]
  <2> HIDE DEF k, y, next
  <2> QED  BY <1>1, <1>3 DEF Table
<1>4. CASE same # {}
  <2>1. k \in same /\ y = Coalesced(rows[k], r, p)  BY <1>2, <1>4, OldestIn
  <2> HIDE DEF k, y, next
  <2>2. Places(rows, next, k, r, p)  BY <1>2, <1>3, <2>1 DEF Places
  <2> QED  BY <1>2, <2>1, <2>2 DEF next
<1>5. CASE same = {} /\ stage # {}
  <2>1. k \in stage /\ y = IF MayRearm(rows[k], p) THEN Rearmed(rows[k], r, p) ELSE rows[k]
    BY <1>2, <1>5, OldestIn
  <2> HIDE DEF k, y, next
  <2>2. Places(rows, next, k, r, p)  BY <1>2, <1>3, <1>5, <2>1 DEF Places
  <2> QED  BY <1>2, <2>1, <2>2 DEF next
<1>6. CASE same = {} /\ stage = {}
  <2>1. Absent(rows) # {}  BY <1>6 DEF Fits
  <2>2. k \in Absent(rows) /\ y = NewRow(r, p)  BY <1>2, <1>6, <2>1, OldestIn
  <2> HIDE DEF k, y, next
  <2>3. Places(rows, next, k, r, p)  BY <1>2, <1>3, <1>6, <2>2 DEF Places
  <2> QED  BY <1>2, <2>2, <2>3 DEF next
<1> QED  BY <1>4, <1>5, <1>6

\* The columns a coalesced request writes.
LEMMA CoalescedColumns ==
    ASSUME NEW x \in Row, NEW r \in RequestType, NEW p
    PROVE  LET y == Coalesced(x, r, p)
           IN  /\ y.state = x.state /\ Notes(x, y) /\ (Noted(x) => Noted(y))
               /\ y.req = x.req \/ y.req = r
               /\ (x.state = "pending" /\ ~x.owns /\ r.keep # "drop")
                     => IF r.keep = "seal" THEN y = x ELSE y.req = r
<1> DEFINE l == [x EXCEPT !.latest = r, !.latestParent = p]
           m == [x EXCEPT !.req = r, !.avail = "due", !.oper = OperationOf(r), !.armed = x.attempt]
<1>0. r # NoRequest /\ r.keep \in {"drop", "last", "seal"}  BY NullsAssumption DEF RequestType
<1>1. l.state = x.state /\ l.req = x.req /\ l.latest = r  BY DEF Row
<1>2. m.state = x.state /\ m.req = r /\ m.latest = x.latest  BY DEF Row
<1>3. x.latest # NoRequest => r # NoRequest  BY <1>0
<1> HIDE DEF l, m
<1>4. CASE r.keep = "drop"
  <2>1. Coalesced(x, r, p) = x  BY <1>4 DEF Coalesced
  <2> QED  BY <1>4, <2>1 DEF Notes
<1>5. CASE r.keep # "drop" /\ (x.state = "active" \/ x.owns)
  <2>1. Coalesced(x, r, p) = l  BY <1>5 DEF Coalesced, l
  <2> QED  BY <1>0, <1>1, <1>5, <2>1 DEF Notes, Noted, IsLive
<1>6. CASE r.keep = "last" /\ x.state = "pending" /\ ~x.owns
  <2>1. Coalesced(x, r, p) = m  BY <1>6 DEF Coalesced, m
  <2> QED  BY <1>2, <1>6, <2>1 DEF Notes, Noted, IsLive
<1>7. CASE r.keep # "drop" /\ ~(x.state = "active" \/ x.owns) /\ ~(r.keep = "last" /\ x.state = "pending" /\ ~x.owns)
  <2>1. Coalesced(x, r, p) = x  BY <1>7 DEF Coalesced
  <2> QED  BY <1>0, <1>7, <2>1 DEF Notes
<1> QED  BY <1>4, <1>5, <1>6, <1>7

\* Enqueueing takes no note off a live job.
LEMMA EnqueueNotes ==
    ASSUME NEW rows, Table(rows), NEW r \in RequestType, NEW p, Fits(rows, r)
    PROVE  LET next == Enqueue(rows, r, p)
           IN  \A i \in Jobs : Notes(rows[i], next[i]) /\ (Noted(rows[i]) => Noted(next[i]))
<1> DEFINE next == Enqueue(rows, r, p)
<1>1. PICK k \in Jobs : Places(rows, next, k, r, p)  BY EnqueuePlaces
<1> HIDE DEF next
<1> DEFINE y == next[k]
<1>2. \A i \in Jobs \ {k} : next[i] = rows[i]  BY <1>1 DEF Places
<1>3. rows[k] \in Row  BY DEF Table
<1>4. Notes(rows[k], y) /\ (Noted(rows[k]) => Noted(y))
  <2>1. CASE y = Coalesced(rows[k], r, p)  BY <1>3, <2>1, CoalescedColumns
  <2>2. CASE MayRearm(rows[k], p) /\ y = Rearmed(rows[k], r, p)
    <3>1. y.latest = NoRequest  BY <1>3, <2>2, EnteringColumns
    <3>2. ~Noted(rows[k])  BY <2>2, StateNames DEF MayRearm, Noted, IsLive, Live
    <3> QED  BY <3>1, <3>2 DEF Notes
  <2>3. CASE y = rows[k]  BY <2>3 DEF Notes
  <2>4. CASE k \in Absent(rows) /\ y = NewRow(r, p)
    <3>1. y.latest = NoRequest  BY <1>3, <2>4, EnteringColumns
    <3>2. ~Noted(rows[k])  BY <2>4 DEF Absent, Noted, IsLive, Live
    <3> QED  BY <3>1, <3>2 DEF Notes
  <2> QED  BY <1>1, <2>1, <2>2, <2>3, <2>4 DEF Places
<1>5. \A x : Notes(x, x)  BY DEF Notes
<1>6. \A i \in Jobs : Notes(rows[i], next[i]) /\ (Noted(rows[i]) => Noted(next[i]))  BY <1>2, <1>4, <1>5
<1> QED  BY <1>6 DEF next

\* Neither does scheduling the latest request of a settled job, which takes on its own.
LEMMA RequeuedNotes ==
    ASSUME NEW rows, Table(rows), NEW j \in Jobs, NEW r \in RequestType, NEW p, LatestFits(rows, j, r)
    PROVE  LET next == Requeued(rows, j, r, p)
           IN  \A i \in Jobs : Notes(rows[i], next[i]) /\ ((i # j /\ Noted(rows[i])) => Noted(next[i]))
<1>1. CASE SameStage(rows[j], r)
  <2> DEFINE y == TakeLatest(rows[j], r)
             next == [rows EXCEPT ![j] = y]
  <2>1. Requeued(rows, j, r, p) = next  BY <1>1 DEF Requeued
  <2>2. rows[j] \in Row  BY DEF Table
  <2>3. y.latest = NoRequest  BY <2>2, EnteringColumns
  <2> HIDE DEF y
  <2>4. \A i \in Jobs : next[i] = IF i = j THEN y ELSE rows[i]  BY DEF Table
  <2> HIDE DEF next
  <2>5. Notes(rows[j], y) /\ \A x : Notes(x, x)  BY <2>3 DEF Notes
  <2> QED  BY <2>1, <2>4, <2>5
<1>2. CASE ~SameStage(rows[j], r)
  <2>1. Fits(rows, r)  BY <1>2, NullsAssumption DEF LatestFits
  <2> QED  BY <1>2, <2>1, EnqueueNotes DEF Requeued
<1> QED  BY <1>1, <1>2

\* The request has a job afterwards, when every live job of its key can be given it: the settled
\* row's or another, its own or, sealed, one that waits anyway; or the row of its stage that was
\* there before.
LEMMA RequeuedCarries ==
    ASSUME NEW rows, Table(rows), NEW j \in Jobs, NEW r \in RequestType, NEW p, LatestFits(rows, j, r),
           r.key # NoKey, r.keep # "drop",
           \A k \in LiveKey(rows, r.key) : rows[k].state = "pending" /\ ~rows[k].owns
    PROVE  Carried(Requeued(rows, j, r, p), j, r)
<1> DEFINE next == Requeued(rows, j, r, p)
<1>0. ASSUME NEW k \in Jobs, next[k].state = "pending", next[k].req = r \/ (r.keep = "seal" /\ next[k].req.key = r.key)
      PROVE  Carried(next, j, r)
  BY <1>0 DEF Carried
<1>1. CASE SameStage(rows[j], r)
  <2> DEFINE y == TakeLatest(rows[j], r)
  <2>1. next = [rows EXCEPT ![j] = y]  BY <1>1 DEF Requeued
  <2>2. rows[j] \in Row  BY DEF Table
  <2>3. y.state = "pending" /\ y.req = r  BY <2>2, EnteringColumns
  <2> HIDE DEF y, next
  <2>4. next[j] = y  BY <2>1 DEF Table
  <2> QED  BY <1>0, <2>3, <2>4 DEF next
<1>2. CASE ~SameStage(rows[j], r)
  <2> DEFINE q == IF p = j THEN NoJob ELSE p
  <2>0. Fits(rows, r)  BY <1>2, NullsAssumption DEF LatestFits
  <2>1. next = Enqueue(rows, r, q)  BY <1>2 DEF Requeued
  <2> HIDE DEF q
  <2>2. PICK k \in Jobs : Places(rows, next, k, r, q)  BY <2>0, <2>1, EnqueuePlaces
  <2> HIDE DEF next
  <2> DEFINE y == next[k]
  <2>3. rows[k] \in Row  BY DEF Table
  <2>5. CASE k \in LiveKey(rows, r.key) /\ y = Coalesced(rows[k], r, q)
    <3>1. rows[k].state = "pending" /\ ~rows[k].owns /\ rows[k].req.key = r.key  BY <2>5 DEF LiveKey
    <3>2. y.state = "pending" /\ IF r.keep = "seal" THEN y = rows[k] ELSE y.req = r
      BY <2>3, <2>5, <3>1, CoalescedColumns
    <3> QED  BY <1>0, <3>1, <3>2 DEF next
  <2>6. CASE y = NewRow(r, q) \/ y = Rearmed(rows[k], r, q)
    <3>1. y.state = "pending" /\ y.req = r  BY <2>3, <2>6, EnteringColumns
    <3> QED  BY <1>0, <3>1 DEF next
  <2>7. CASE LiveKey(rows, r.key) = {} /\ k \in OnStage(rows, r) /\ y = rows[k]
    <3>1. k # j  BY <1>2, <2>7 DEF OnStage, SameStage
    <3>2. k \in OnStage(next, r)  BY <2>7 DEF OnStage
    <3>3. k \notin LiveKey(rows, r.key)  BY <2>7
    <3>4. IsLive(rows[k]) => rows[k].req.key # r.key  BY <3>3 DEF LiveKey
    <3>5. rows[k].state \in Terminal \/ IsLive(rows[k])
      <4>1. rows[k].state \in States /\ rows[k].state # "absent"  BY <2>3, <2>7 DEF Row, OnStage
      <4> QED  BY <4>1 DEF States, IsLive
    <3>6. next[k].state \in Terminal \/ next[k].req.key # r.key  BY <2>7, <3>4, <3>5
    <3>7. Carried(next, j, r)  BY <3>1, <3>2, <3>6 DEF Carried
    <3> QED  BY <3>7 DEF next
  <2> QED  BY <2>2, <2>5, <2>6, <2>7 DEF Places
<1> QED  BY <1>1, <1>2

\* Ending waiting rows takes neither a note nor a job from anybody.
LEMMA EndsRows ==
    ASSUME NEW rows, Table(rows), NEW S, NEW s \in {"blocked", "needs_attention"},
           \A k \in S : k \in Jobs => rows[k].state = "pending"
    PROVE  LET next == [k \in Jobs |-> IF k \in S THEN [rows[k] EXCEPT !.state = s] ELSE rows[k]]
           IN  \A k \in Jobs : Ends(rows[k], next[k])
<1> DEFINE next == [k \in Jobs |-> IF k \in S THEN [rows[k] EXCEPT !.state = s] ELSE rows[k]]
<1>1. ASSUME NEW k \in Jobs PROVE Ends(rows[k], next[k])
  <2>1. CASE k \in S
    <3> DEFINE y == [rows[k] EXCEPT !.state = s]
    <3>1. rows[k] \in Row /\ rows[k].state = "pending" /\ next[k] = y  BY <2>1 DEF Table
    <3>2. y.state = s /\ y.req = rows[k].req /\ y.latest = rows[k].latest  BY <3>1 DEF Row
    <3> HIDE DEF y, next
    <3> QED  BY <3>1, <3>2 DEF Ends
  <2>2. CASE k \notin S  BY <2>2 DEF Ends
  <2> QED  BY <2>1, <2>2
<1> QED  BY <1>1

LEMMA DependenciesEnds ==
    ASSUME NEW rows, Table(rows), NEW parents
    PROVE  LET next == SettleDependencies(rows, parents) IN \A k \in Jobs : Ends(rows[k], next[k])
<1> DEFINE S == Dependents(rows, parents)
           s == "blocked"
<1>1. S \subseteq {c \in Jobs : rows[c].state = "pending"}  BY DEF Dependents
<1>2. SettleDependencies(rows, parents) = [k \in Jobs |-> IF k \in S THEN [rows[k] EXCEPT !.state = s] ELSE rows[k]]
  BY DEF SettleDependencies
<1>3. s \in {"blocked", "needs_attention"}  OBVIOUS
<1> HIDE DEF S, s
<1>4. LET next == [k \in Jobs |-> IF k \in S THEN [rows[k] EXCEPT !.state = s] ELSE rows[k]]
      IN  \A k \in Jobs : Ends(rows[k], next[k])
  BY <1>1, <1>3, EndsRows
<1> QED  BY <1>2, <1>4

LEMMA CarriedEnds ==
    ASSUME NEW rows, NEW next, \A k \in Jobs : Ends(rows[k], next[k]), NEW j, NEW r, Carried(rows, j, r)
    PROVE  Carried(next, j, r)
<1>1. ASSUME NEW k \in Jobs, rows[k].state \in {"pending", "needs_attention", "blocked"},
             rows[k].req = r \/ (r.keep = "seal" /\ rows[k].req.key = r.key)
      PROVE  Carried(next, j, r)
  <2>1. Ends(rows[k], next[k])  OBVIOUS
  <2> QED  BY <1>1, <2>1 DEF Carried, Ends
<1>2. ASSUME NEW k \in OnStage(rows, r) \ {j}, rows[k].state \in Terminal \/ rows[k].req.key # r.key
      PROVE  Carried(next, j, r)
  <2>1. k \in Jobs /\ Ends(rows[k], next[k])  BY DEF OnStage
  <2>2. k \in OnStage(next, r)  BY <2>1 DEF OnStage, Ends
  <2>3. next[k].state \in Terminal \/ next[k].req.key # r.key  BY <1>2, <2>1, StateNames DEF Ends
  <2> QED  BY <1>2, <2>2, <2>3 DEF Carried
<1> QED  BY <1>1, <1>2 DEF Carried

\* scheduleLatest(): the request has a job, and no other job loses its note.
LEMMA LatestCarried ==
    ASSUME NEW rows, Table(rows), NEW j \in Jobs, rows[j].state # "active",
           NEW r \in RequestType, NEW p \in Jobs \cup {NoJob}, LatestFits(rows, j, r), NEW succeeded
    PROVE  LET next == ScheduleLatest(rows, j, r, p, succeeded)
           IN  /\ \A i \in Jobs : /\ Notes(rows[i], next[i])
                                  /\ (i # j /\ Noted(rows[i])) => next[i].latest # NoRequest
               /\ (/\ r.key # NoKey /\ r.keep # "drop"
                   /\ \A k \in LiveKey(rows, r.key) : rows[k].state = "pending" /\ ~rows[k].owns)
                     => Carried(next, j, r)
<1> DEFINE mid == Requeued(rows, j, r, p)
           held == LatestHeld(rows, j, r, p, succeeded)
           s == "needs_attention"
           next == ScheduleLatest(rows, j, r, p, succeeded)
<1>1. next = [k \in Jobs |-> IF k \in held THEN [mid[k] EXCEPT !.state = s] ELSE mid[k]]
  BY NullsAssumption DEF ScheduleLatest
<1>2. \A k \in held : k \in Jobs => mid[k].state = "pending"  BY DEF LatestHeld
<1>3. Table(mid)  BY RequeuedQuiet DEF QuietTable
<1>4. s \in {"blocked", "needs_attention"}  OBVIOUS
<1>5. \A i \in Jobs : Notes(rows[i], mid[i]) /\ ((i # j /\ Noted(rows[i])) => Noted(mid[i]))  BY RequeuedNotes
<1>6. (/\ r.key # NoKey /\ r.keep # "drop"
       /\ \A k \in LiveKey(rows, r.key) : rows[k].state = "pending" /\ ~rows[k].owns)
         => Carried(mid, j, r)
  BY RequeuedCarries
<1> HIDE DEF mid, held, s, next
<1>7. \A k \in Jobs : Ends(mid[k], next[k])  BY <1>1, <1>2, <1>3, <1>4, EndsRows
<1>8. \A i \in Jobs : Notes(rows[i], next[i]) /\ ((i # j /\ Noted(rows[i])) => next[i].latest # NoRequest)
  BY <1>5, <1>7 DEF Ends, Notes, Noted
<1>9. Carried(mid, j, r) => Carried(next, j, r)  BY <1>7, CarriedEnds
<1> QED  BY <1>6, <1>8, <1>9 DEF next

\* What a step owes the requests noted on jobs: no note is one its caller asked to drop, and a
\* noted live job keeps its note, unless its request has a job or it is held for attention.
Honoured(j) == \/ row'[j].latest # NoRequest
               \/ Carried(row', j, row[j].latest)
               \/ row'[j].state = "needs_attention"
Honours == NotesKept(row') /\ \A j \in Jobs : Noted(row[j]) => Honoured(j)

\* fail(): the settled row kept its key to itself, so its latest request meets nobody.
LEMMA SettleHonours ==
    ASSUME StoreInv, Indexed(row), NotesKept(row), NEW j \in Jobs, row[j].state \in {"pending", "active"},
           NEW u, NEW h, NEW cs, Settle(j, u, h, cs)
    PROVE  Honours
<1> DEFINE y == FailedRow(row[j], u, h)
           s == FailState(row[j], u)
           rows == [row EXCEPT ![j] = y]
           ua == UnconfirmedAttention(row[j], u)
           l == row[j].latest
           r == IF s = "pending" \/ ua THEN NoRequest ELSE l
           p == row[j].latestParent
           ended == {j} \cup (IF r = NoRequest THEN {} ELSE LatestHeld(rows, j, r, p, FALSE))
           after == ScheduleLatest(rows, j, r, p, FALSE)
<1>0. Table(row) /\ Shape(row[j]) /\ row[j] \in Row  BY InvTable, ShapeNumbers DEF StoreInv
<1>1. /\ LatestFits(rows, j, r)
      /\ row' = IF s = "pending" THEN rows ELSE SettleDependencies(after, ended)
  BY DEF Settle
<1>2. Shape(y) /\ y.state = s  BY <1>0, FailedShape
<1>3. l \in RequestType \cup {NoRequest} /\ p \in Jobs \cup {NoJob}  BY <1>0 DEF Row
<1>4. Table(rows) /\ rows[j] = y /\ \A k \in Jobs \ {j} : rows[k] = row[k]
  <2>1. Table(rows) /\ rows[j] = y  BY <1>0, <1>2, SettledTable
  <2> QED  BY <2>1 DEF Table
<1>5. y.latest = IF s = "pending" THEN l ELSE NoRequest
  <2> DEFINE m == IF s = "pending" THEN l ELSE NoRequest
             lp == IF s = "pending" THEN p ELSE NoJob
             o == IF h /\ row[j].oper = "claimed" THEN IF u THEN "failed" ELSE "released" ELSE row[j].oper
  <2>1. y = [row[j] EXCEPT !.state = s, !.avail = "later", !.dep = "none", !.token = 0, !.lease = 0,
                           !.latest = m, !.latestParent = lp, !.oper = o]
    BY DEF FailedRow
  <2> HIDE DEF y, m, lp, o, s
  <2>2. y.latest = m  BY <1>0, <2>1 DEF Row
  <2> QED  BY <2>2 DEF m
<1>6. s \in {"needs_attention", "cancelled", "pending", "failed"} /\ (ua => s = "needs_attention")
  BY FailStates DEF FailState
<1>7. LiveKey(rows, l.key) = {} \/ s = "pending" \/ l = NoRequest
  <2> SUFFICES ASSUME NEW k \in LiveKey(rows, l.key), s # "pending", l # NoRequest PROVE FALSE  OBVIOUS
  <2>1. k \in Jobs /\ IsLive(rows[k]) /\ rows[k].req.key = l.key /\ l.key # NoKey  BY DEF LiveKey
  <2> HIDE DEF rows, y, s
  <2>2. k # j  BY <1>2, <1>4, <1>6, <2>1 DEF IsLive, Live
  <2>3. row[k] = rows[k] /\ row[k].state # "absent"  BY <1>4, <2>1, <2>2 DEF IsLive, Live
  <2>4. l.key = row[j].req.key  BY DEF Indexed
  <2>5. Apart(row[j], row[k])  BY <2>1, <2>2, <2>3 DEF Indexed
  <2>6. IsLive(row[j])  BY DEF IsLive, Live
  <2> QED  BY <2>1, <2>3, <2>4, <2>5, <2>6 DEF Apart
<1>8. l # NoRequest => l.key # NoKey /\ l.keep # "drop"
  <2>1. row[j].state # "absent"  OBVIOUS
  <2> HIDE DEF rows, y, s
  <2> QED  BY <2>1 DEF Indexed, NotesKept
<1>9. NotesKept(rows) /\ \A i \in Jobs \ {j} : Noted(row[i]) => Noted(rows[i])
  <2>1. y.latest \in {l, NoRequest}  BY <1>5
  <2> HIDE DEF rows, y
  <2> QED  BY <1>4, <2>1 DEF NotesKept
<1> HIDE DEF y, s, ua, r, p, ended, rows
<1>10. CASE s = "pending"
  <2>1. row' = rows  BY <1>1, <1>10
  <2> QED  BY <1>4, <1>5, <1>9, <1>10, <2>1 DEF Honours, Honoured, Noted
<1>11. CASE s # "pending" /\ r = NoRequest
  <2>1. row' = SettleDependencies(rows, ended)  BY <1>1, <1>11 DEF ScheduleLatest
  <2>2. \A k \in Jobs : Ends(rows[k], row'[k])  BY <1>4, <2>1, DependenciesEnds
  <2>3. NotesKept(row')  BY <1>9, <2>2 DEF NotesKept, Ends
  <2>4. \A i \in Jobs \ {j} : Noted(row[i]) => Honoured(i)  BY <1>9, <2>2 DEF Noted, Honoured, Ends
  <2>5. Noted(row[j]) => Honoured(j)
    <3>1. Noted(row[j]) => rows[j].state = "needs_attention"  BY <1>2, <1>4, <1>6, <1>11 DEF r, Noted
    <3> QED  BY <2>2, <3>1 DEF Honoured, Ends
  <2> QED  BY <2>3, <2>4, <2>5 DEF Honours
<1>12. CASE s # "pending" /\ r # NoRequest
  <2>1. r = l /\ r \in RequestType  BY <1>3, <1>12 DEF r
  <2>2. rows[j].state # "active"  BY <1>2, <1>4, <1>6
  <2>3. \A k \in LiveKey(rows, r.key) : rows[k].state = "pending" /\ ~rows[k].owns  BY <1>7, <1>12, <2>1
  <2>4. /\ \A i \in Jobs : /\ Notes(rows[i], after[i])
                           /\ (i # j /\ Noted(rows[i])) => after[i].latest # NoRequest
        /\ Carried(after, j, r)
    <3> DEFINE no == FALSE
    <3>1. after = ScheduleLatest(rows, j, r, p, no)  OBVIOUS
    <3>2. r.key # NoKey /\ r.keep # "drop"  BY <1>8, <1>12, <2>1
    <3> HIDE DEF no, after
    <3> QED  BY <1>1, <1>3, <1>4, <2>1, <2>2, <2>3, <3>1, <3>2, LatestCarried
  <2>5. Table(after)  BY <1>1, <1>3, <1>4, <2>1, <2>2, ScheduleLatestQuiet DEF QuietTable
  <2> HIDE DEF after
  <2>6. row' = SettleDependencies(after, ended)  BY <1>1, <1>12
  <2>7. \A k \in Jobs : Ends(after[k], row'[k])  BY <2>5, <2>6, DependenciesEnds
  <2>8. NotesKept(row')  BY <1>9, <2>4, <2>7 DEF NotesKept, Notes, Ends
  <2>9. \A i \in Jobs \ {j} : Noted(row[i]) => Honoured(i)  BY <1>9, <2>4, <2>7 DEF Honoured, Ends
  <2>10. Carried(row', j, l)  BY <2>1, <2>4, <2>7, CarriedEnds
  <2> QED  BY <2>8, <2>9, <2>10 DEF Honours, Honoured
<1> QED  BY <1>10, <1>11, <1>12

\* The only live job of a key that was free is the one just enqueued, which waits and owns nothing.
LEMMA FollowUpWaits ==
    ASSUME NEW rows, Table(rows), NEW key, LiveKey(rows, key) = {},
           NEW f \in RequestType, NEW p, Fits(rows, f)
    PROVE  LET next == Enqueue(rows, f, p)
           IN  \A k \in LiveKey(next, key) : next[k].state = "pending" /\ ~next[k].owns
<1> DEFINE next == Enqueue(rows, f, p)
<1>1. PICK k \in Jobs : Places(rows, next, k, f, p)  BY EnqueuePlaces
<1> HIDE DEF next
<1> SUFFICES ASSUME NEW i \in LiveKey(next, key) PROVE next[i].state = "pending" /\ ~next[i].owns
  BY DEF next
<1>2. i \in Jobs /\ key # NoKey /\ IsLive(next[i]) /\ next[i].req.key = key  BY DEF LiveKey
<1>3. next[i] # rows[i]  BY <1>2 DEF LiveKey
<1>4. i = k /\ rows[k] \in Row  BY <1>1, <1>2, <1>3 DEF Places, Table
<1>5. CASE k \in LiveKey(rows, f.key) /\ next[k] = Coalesced(rows[k], f, p)
  <2>1. IsLive(rows[k]) /\ rows[k].req.key = f.key  BY <1>5 DEF LiveKey
  <2>2. next[k].req = rows[k].req \/ next[k].req = f  BY <1>4, <1>5, CoalescedColumns
  <2>3. k \in LiveKey(rows, key)  BY <1>2, <1>4, <2>1, <2>2 DEF LiveKey
  <2> QED  BY <2>3
<1>6. CASE next[k] = NewRow(f, p)
  <2>1. NewRow(f, p).state = "pending" /\ ~NewRow(f, p).owns  BY DEF NewRow, AbsentRow
  <2> QED  BY <1>4, <1>6, <2>1
<1>7. CASE next[k] = Rearmed(rows[k], f, p)
  <2>1. Rearmed(rows[k], f, p).state = "pending" /\ ~Rearmed(rows[k], f, p).owns  BY <1>4 DEF Rearmed, Row
  <2> QED  BY <1>4, <1>7, <2>1
<1> QED  BY <1>1, <1>3, <1>4, <1>5, <1>6, <1>7 DEF Places

\* complete(): of the settled row's key only the follow-up can be live, and it takes the request.
LEMMA CompleteHonours ==
    ASSUME StoreInv, Indexed(row), NotesKept(row), NEW j \in Jobs, NEW a \in Attempts, Complete(j, a)
    PROVE  Honours
<1> DEFINE y == CompletedRow(row[j])
           done == [row EXCEPT ![j] = y]
           l == row[j].latest
           lp == row[j].latestParent
           next(f) == FollowUp(j, f)
           later(f, p) == IF f = NoRequest THEN done ELSE Enqueue(done, next(f), p)
<1>0. Table(row) /\ Shape(row[j]) /\ row[j] \in Row /\ row[j].state = "active" /\ row[j].token = a
  BY InvTable, ShapeNumbers DEF StoreInv, Complete, Fenced, Owned
<1>1. PICK f \in Requests \cup {NoRequest}, p \in {j, NoJob} :
        /\ f # NoRequest => (Fits(done, next(f)) /\ ~StageCollision(done, next(f)))
        /\ LatestFits(later(f, p), j, l) /\ ~KeyCollision(later(f, p), j, l)
        /\ row' = ScheduleLatest(later(f, p), j, l, lp, TRUE)
  BY DEF Complete
<1>2. Shape(y) /\ y.state = "completed" /\ y.token = 0 /\ y.latest = NoRequest
  <2>1. y.latest = NoRequest  BY <1>0 DEF CompletedRow, Row
  <2> QED  BY <1>0, <2>1, CompletedShape
<1>3. l \in RequestType \cup {NoRequest} /\ lp \in Jobs \cup {NoJob} /\ p \in Jobs \cup {NoJob}  BY <1>0 DEF Row
<1>4. Table(done) /\ done[j] = y /\ \A k \in Jobs \ {j} : done[k] = row[k]
  <2>1. Table(done) /\ done[j] = y  BY <1>0, <1>2, SettledTable
  <2> QED  BY <2>1 DEF Table
<1>5. f # NoRequest => next(f) \in RequestType
  <2>1. row[j].req \in RequestType  BY <1>0, StateNames DEF Shape
  <2>2. row[j].req.run \in Runs \cup {NoRun}  BY <2>1 DEF RequestType
  <2>3. f # NoRequest => f \in RequestType  BY RequestsAssumption
  <2> QED BY <2>2, <2>3 DEF FollowUp, RequestType
<1> DEFINE mid == later(f, p)
           yes == TRUE
<1>6. /\ f # NoRequest => Fits(done, next(f))
      /\ LatestFits(mid, j, l) /\ row' = ScheduleLatest(mid, j, l, lp, yes)
      /\ mid = IF f = NoRequest THEN done ELSE Enqueue(done, next(f), p)
  BY <1>1
<1> HIDE DEF y, l, lp, next, done, mid, yes
<1>7. NotesKept(done) /\ \A i \in Jobs \ {j} : Noted(row[i]) => Noted(done[i])  BY <1>2, <1>4 DEF NotesKept
<1>8. l # NoRequest => l.key # NoKey /\ l.keep # "drop" /\ l.key = row[j].req.key
  BY <1>0 DEF Indexed, NotesKept, l
<1>9. l # NoRequest => LiveKey(done, l.key) = {}
  <2> SUFFICES ASSUME NEW k \in LiveKey(done, l.key), l # NoRequest PROVE FALSE  OBVIOUS
  <2>1. k \in Jobs /\ IsLive(done[k]) /\ done[k].req.key = l.key  BY DEF LiveKey
  <2>2. k # j  BY <1>2, <1>4, <2>1 DEF IsLive, Live
  <2>3. row[k] = done[k] /\ row[k].state # "absent"  BY <1>4, <2>1, <2>2 DEF IsLive, Live
  <2>4. Apart(row[j], row[k]) /\ IsLive(row[j])  BY <1>0, <2>1, <2>2, <2>3 DEF Indexed, IsLive, Live
  <2> QED  BY <1>8, <2>1, <2>3, <2>4 DEF Apart
<1>10. /\ Table(mid) /\ mid[j].token = 0
       /\ \A i \in Jobs : Notes(done[i], mid[i]) /\ (Noted(done[i]) => Noted(mid[i]))
       /\ l # NoRequest => \A k \in LiveKey(mid, l.key) : mid[k].state = "pending" /\ ~mid[k].owns
  <2>1. CASE f = NoRequest
    <3>1. mid = done /\ \A x : Notes(x, x)  BY <1>6, <2>1 DEF Notes
    <3> QED  BY <1>2, <1>4, <1>9, <3>1
  <2>2. CASE f # NoRequest
    <3>1. mid = Enqueue(done, next(f), p) /\ Fits(done, next(f)) /\ next(f) \in RequestType  BY <1>5, <1>6, <2>2
    <3>2. QuietTable(done, mid)  BY <1>3, <1>4, <3>1, EnqueueQuiet
    <3>3. \A i \in Jobs : Notes(done[i], mid[i]) /\ (Noted(done[i]) => Noted(mid[i]))
      BY <1>4, <3>1, EnqueueNotes
    <3>4. l # NoRequest => \A k \in LiveKey(mid, l.key) : mid[k].state = "pending" /\ ~mid[k].owns
      BY <1>4, <1>9, <3>1, FollowUpWaits
    <3> QED  BY <1>2, <1>4, <3>2, <3>3, <3>4 DEF QuietTable, Quiet
  <2> QED  BY <2>1, <2>2
<1>11. mid[j].state # "active"  BY <1>10 DEF Table, Shape
<1>12. CASE l = NoRequest
  <2>1. row' = mid  BY <1>6, <1>12 DEF ScheduleLatest
  <2>2. NotesKept(row')  BY <1>7, <1>10, <2>1 DEF NotesKept, Notes
  <2> QED  BY <1>7, <1>10, <1>12, <2>1, <2>2 DEF Honours, Honoured, Noted, l
<1>13. CASE l # NoRequest
  <2>0. l \in RequestType  BY <1>3, <1>13
  <2>1. /\ \A i \in Jobs : /\ Notes(mid[i], row'[i])
                           /\ (i # j /\ Noted(mid[i])) => row'[i].latest # NoRequest
        /\ Carried(row', j, l)
    BY <1>3, <1>6, <1>8, <1>10, <1>11, <1>13, <2>0, LatestCarried
  <2>2. NotesKept(row')  BY <1>7, <1>10, <2>1 DEF NotesKept, Notes
  <2> QED  BY <1>7, <1>10, <2>1, <2>2 DEF Honours, Honoured, l
<1> QED  BY <1>12, <1>13

\* Clearing takes the notes of the jobs it clears, and of no others.
LEMMA ClearHonours ==
    ASSUME StoreInv, NotesKept(row), NEW S, Clear(S)
    PROVE  NotesKept(row') /\ \A k \in Jobs \ S : row'[k].latest = row[k].latest
<1> DEFINE ended(x) == [x EXCEPT !.state = "cancelled", !.latest = NoRequest, !.latestParent = NoJob]
           rows == [k \in Jobs |-> IF k \in S THEN ended(row[k]) ELSE row[k]]
<1>1. row' = SettleDependencies(rows, S)  BY DEF Clear
<1>2. \A k \in S : k \in Jobs /\ row[k].state \in {"pending", "failed", "needs_attention", "blocked"}  BY DEF Clear
<1>3. ASSUME NEW k \in Jobs
      PROVE  Shape(rows[k]) /\ rows[k].latest = IF k \in S THEN NoRequest ELSE row[k].latest
  <2>0. row[k] \in Row /\ Shape(row[k])  BY DEF StoreInv, StoreTypeOK
  <2>1. CASE k \in S
    <3>1. Shape(ended(row[k]))  BY <1>2, <2>0, <2>1, ClearedQuiet
    <3>2. ended(row[k]).latest = NoRequest  BY <2>0 DEF Row
    <3> QED  BY <2>1, <3>1, <3>2
  <2>2. CASE k \notin S  BY <2>0, <2>2
  <2> QED  BY <2>1, <2>2
<1>4. rows = [k \in Jobs |-> rows[k]]  OBVIOUS
<1> HIDE DEF rows
<1>5. Table(rows)
  <2>1. \A k \in Jobs : rows[k] \in Row  BY <1>3, ShapeNumbers
  <2> QED  BY <1>3, <1>4, <2>1 DEF Table
<1>6. \A k \in Jobs : Ends(rows[k], row'[k])  BY <1>1, <1>5, DependenciesEnds
<1> QED  BY <1>3, <1>6 DEF NotesKept, Ends

\* Retries keep what was noted.
LEMMA RetryKeepsNotes ==
    ASSUME StoreInv, (\E S : RetryFailed(S)) \/ (\E r, E : RetryRun(r, E))
    PROVE  \A k \in Jobs : row'[k].latest = row[k].latest
<1>0. \A k \in Jobs : row[k] \in Row  BY DEF StoreInv, StoreTypeOK
<1>1. \A k \in Jobs : /\ Retried(row[k]).latest = row[k].latest
                      /\ [Retried(row[k]) EXCEPT !.cancel = "none"].latest = row[k].latest
  BY <1>0 DEF Retried, Row
<1>2. CASE \E S : RetryFailed(S)
  <2>1. PICK S : RetryFailed(S)  BY <1>2
  <2>2. row' = [k \in Jobs |-> IF k \in S THEN Retried(row[k]) ELSE row[k]]  BY <2>1 DEF RetryFailed
  <2> QED  BY <1>1, <2>2
<1>3. CASE \E r, E : RetryRun(r, E)
  <2>1. PICK r, E : RetryRun(r, E)  BY <1>3
  <2> DEFINE S == Recoverable(E)
  <2>2. row' = [k \in Jobs |-> IF k \in S THEN [Retried(row[k]) EXCEPT !.cancel = "none"] ELSE row[k]]
    BY <2>1 DEF RetryRun
  <2> HIDE DEF S
  <2> QED  BY <1>1, <2>2
<1> QED  BY <1>2, <1>3

\* Every step but clearing honours every note.
LEMMA StepHonours ==
    ASSUME StoreInv, Indexed(row), NotesKept(row), StoreNext
    PROVE  Honours \/ \E S \in SUBSET Jobs : Clear(S)
<1>0. Table(row) /\ row \in [Jobs -> Row]  BY InvTable
<1>1. ASSUME \A k \in Jobs : row'[k].latest = row[k].latest PROVE Honours
  BY <1>1 DEF Honours, Honoured, NotesKept, Noted
<1>2. ASSUME NEW j \in Jobs, row[j].state \in {"pending", "active"}, NEW u, NEW h, NEW cs, Settle(j, u, h, cs)
      PROVE  Honours
  BY <1>2, SettleHonours
<1>3. CASE Administer
  <2>1. ASSUME NEW r \in Requests, Request(r) PROVE Honours
    <3>1. r \in RequestType /\ Fits(row, r) /\ row' = Enqueue(row, r, NoJob)
      BY <2>1, RequestsAssumption DEF Request
    <3>2. \A i \in Jobs : Notes(row[i], row'[i]) /\ (Noted(row[i]) => Noted(row'[i]))
      BY <1>0, <3>1, EnqueueNotes
    <3>3. NotesKept(row')  BY <3>2 DEF NotesKept, Notes
    <3> QED  BY <3>2, <3>3 DEF Honours, Honoured, Noted
  <2>2. CASE \E b \in BOOLEAN : Pause(b)  BY <1>1, <2>2 DEF Pause
  <2>3. CASE \/ \E S \in SUBSET Failed : RetryFailed(S)
             \/ \E r \in Runs, S \in SUBSET Jobs : S \subseteq Repeatable(r) /\ RetryRun(r, S)
    <3>1. (\E S : RetryFailed(S)) \/ (\E r, E : RetryRun(r, E))  BY <2>3
    <3> QED  BY <1>1, <3>1, RetryKeepsNotes
  <2>4. CASE \E j \in Jobs : StartNow(j) \/ WakeDeferred(j) \/ RequestCancel(j) \/ LeaseAges(j) \/ DelayPasses(j)
    BY <1>1, <2>4, SameSteps DEF Same
  <2>5. CASE \E r \in Runs : ReleaseRun(r) \/ \E S \in SUBSET Items : SetRunHolds(r, S)
    BY <1>1, <2>5, RunHoldsQuiet
  <2> QED  BY <1>3, <2>1, <2>2, <2>3, <2>4, <2>5 DEF Administer
<1>4. CASE \E r \in Runs : FinishRun(r)  BY <1>1, <1>4 DEF FinishRun
<1>5. CASE \E w \in Workers, j \in Jobs : Claim(w, j) \/ Deadline(w, j)  BY <1>1, <1>5, SameSteps DEF Same
<1>6. CASE \E w \in Workers, S \in SUBSET Jobs : Renew(w, S)  BY <1>1, <1>6, RenewSame DEF Same
<1>7. CASE \E j \in Jobs, a \in Attempts : Checkpoint(j, a) \/ Defer(j, a)  BY <1>1, <1>7, SameSteps DEF Same
<1>8. ASSUME NEW j \in Jobs, NEW a \in Attempts, NEW stopped, NEW settling, NEW onlyStopped,
             Fail(j, a, stopped, settling, onlyStopped)
      PROVE  Honours
  <2> DEFINE u == StopRequested(row[j]) /\ ~stopped
             h == FALSE
             cs == {<<j, a>>}
  <2>1. row[j].state \in {"pending", "active"} /\ Settle(j, u, h, cs)  BY <1>8 DEF Fail, Owned
  <2> HIDE DEF u, h, cs
  <2> QED  BY <1>2, <2>1
<1>9. ASSUME NEW j \in Jobs, NEW stopped, RecoverExpired(j, stopped) PROVE Honours
  <2> DEFINE u == ~stopped
             h == TRUE
             cs == {<<j, row[j].token>>}
             y == [row[j] EXCEPT !.cancel = "deadline"]
  <2>1. row[j].state = "active"  BY <1>9 DEF RecoverExpired
  <2>2. CASE row' = [row EXCEPT ![j].cancel = "deadline"]
    <3>1. row' = [row EXCEPT ![j] = y]  BY <2>2
    <3>2. y.latest = row[j].latest  BY <1>0 DEF Row
    <3> HIDE DEF y
    <3>3. \A k \in Jobs : row'[k] = IF k = j THEN y ELSE row[k]  BY <1>0, <3>1
    <3> QED  BY <1>1, <3>2, <3>3
  <2>3. CASE Settle(j, u, h, cs)
    <3> HIDE DEF u, h, cs
    <3> QED  BY <1>2, <2>1, <2>3
  <2> QED  BY <1>9, <2>2, <2>3 DEF RecoverExpired
<1>10. ASSUME NEW j \in Jobs, NEW stopped, CancelQueued(j, stopped) PROVE Honours
  <2> DEFINE u == ~stopped
             cs == {<<j, a>> : a \in {b \in Attempts : outcome[<<j, b>>] = "open"}}
  <2>1. row[j].state = "pending" /\ Settle(j, u, u, cs)  BY <1>10 DEF CancelQueued
  <2> HIDE DEF u, cs
  <2> QED  BY <1>2, <2>1
<1>11. ASSUME NEW j \in Jobs, NEW a \in Attempts, Complete(j, a) PROVE Honours  BY <1>11, CompleteHonours
<1> QED  BY <1>3, <1>4, <1>5, <1>6, <1>7, <1>8, <1>9, <1>10, <1>11 DEF StoreNext

-----------------------------------------------------------------------------
(* The retry budget. *)

\* The attempts of row j, of those after g and up to n, that were not deferred.
Spends(j, g, n, o) == {a \in (g + 1)..n : o[<<j, a>>] # "deferred"}

\* retryBaseAttempt trails the attempts by what was spent of the grant, and a row waits only with
\* something left of it.
Within(x, S) ==
    /\ x.granted <= x.base /\ x.attempt <= x.base + 2
    /\ x.state = "pending" => x.attempt <= x.base + 1
    /\ Cardinality(S) = x.attempt - x.base

Solvent == \A j \in Jobs : Within(row[j], Spends(j, row[j].granted, row[j].attempt, outcome))

\* The counters of a shaped row, and the finite set of what it spent.
LEMMA Counters ==
    ASSUME NEW x, Shape(x), NEW j, NEW o
    PROVE  /\ x.granted \in Nat /\ x.attempt \in Nat /\ x.base \in Nat /\ x.base <= x.attempt
           /\ (x.granted + 1)..x.attempt \subseteq Attempts
           /\ IsFiniteSet(Spends(j, x.granted, x.attempt, o))
<1>1. x.granted \in 0..MaxAttempts /\ x.attempt \in 0..MaxAttempts /\ x.base \in 0..MaxAttempts
  BY DEF Shape, Row
<1>2. x.granted \in Nat /\ x.attempt \in Nat /\ x.base \in Nat /\ x.base <= x.attempt
  BY <1>1, NumbersAssumption DEF Shape
<1>3. IsFiniteSet((x.granted + 1)..x.attempt)
  <2>1. x.granted + 1 \in Int /\ x.attempt \in Int  BY <1>2
  <2> QED  BY <2>1, FS_Interval, Zenon
<1>4. Spends(j, x.granted, x.attempt, o) \in SUBSET ((x.granted + 1)..x.attempt)  BY DEF Spends
<1>5. (x.granted + 1)..x.attempt \subseteq Attempts  BY <1>1, NumbersAssumption DEF Attempts
<1> QED  BY <1>2, <1>3, <1>4, <1>5, FS_Subset

\* A quiet rewrite spends nothing.
LEMMA QuietWithin ==
    ASSUME NEW x, Shape(x), NEW y, Quiet(x, y), NEW j, NEW o,
           Within(x, Spends(j, x.granted, x.attempt, o))
    PROVE  Within(y, Spends(j, y.granted, y.attempt, o))
<1>0. x.granted \in Nat /\ x.attempt \in Nat /\ x.base \in Nat  BY Counters
<1>1. CASE y.base = x.base /\ y.granted = x.granted /\ (y.state = "pending" => x.state = "pending")
  <2>1. y.attempt = x.attempt  BY DEF Quiet
  <2> QED  BY <1>1, <2>1 DEF Within
<1>2. CASE y.base = x.attempt /\ y.granted = x.attempt
  <2>1. y.attempt = x.attempt  BY DEF Quiet
  <2>2. Spends(j, y.granted, y.attempt, o) = {}  BY <1>0, <1>2, <2>1 DEF Spends
  <2>3. Cardinality(Spends(j, y.granted, y.attempt, o)) = 0  BY <2>2, FS_EmptySet
  <2> HIDE DEF Spends
  <2> QED  BY <1>0, <1>2, <2>1, <2>3 DEF Within
<1> QED  BY <1>1, <1>2 DEF Quiet

\* A claim spends one attempt.
LEMMA ClaimWithin ==
    ASSUME StoreInv, Solvent, NEW w \in Workers, NEW j \in Jobs, Claim(w, j)
    PROVE  Solvent'
<1> DEFINE x == row[j]
           n == x.attempt + 1
           S == Spends(j, x.granted, x.attempt, outcome)
<1>1. /\ x.state = "pending" /\ n \in Attempts /\ \A k \in Jobs \ {j} : row'[k] = row[k]
      /\ row'[j].state = "active" /\ row'[j].attempt = n
      /\ row'[j].base = x.base /\ row'[j].granted = x.granted
      /\ outcome' = [outcome EXCEPT ![<<j, n>>] = "open"] /\ outcome \in [Claims -> Outcomes]
  BY ClaimEffect DEF StoreInv, StoreTypeOK
<1>2. x.granted \in Nat /\ x.attempt \in Nat /\ x.base \in Nat /\ x.base <= x.attempt /\ IsFiniteSet(S)
  BY Counters DEF StoreInv
<1>3. Within(x, S)  BY DEF Solvent
<1>4. \A k \in Jobs, a \in Attempts : <<k, a>> # <<j, n>> => outcome'[<<k, a>>] = outcome[<<k, a>>]
  BY <1>1 DEF Claims
<1>5. outcome'[<<j, n>>] = "open"  BY <1>1 DEF Claims
<1>6. Spends(j, row'[j].granted, row'[j].attempt, outcome') = S \cup {n}
  <2>1. x.granted <= x.attempt  BY <1>2, <1>3 DEF Within
  <2>2. \A a : a \in (x.granted + 1)..n <=> a \in (x.granted + 1)..x.attempt \/ a = n  BY <1>2, <2>1
  <2>3. \A a \in (x.granted + 1)..x.attempt : outcome'[<<j, a>>] = outcome[<<j, a>>]
    <3>1. \A a \in (x.granted + 1)..x.attempt : a # n /\ a \in Attempts  BY <1>2, Counters DEF StoreInv
    <3>2. \A a : a # n => <<j, a>> # <<j, n>>  OBVIOUS
    <3> QED  BY <1>4, <3>1, <3>2
  <2> QED  BY <1>1, <1>5, <2>2, <2>3 DEF Spends
<1>7. n \notin S  BY <1>2 DEF Spends
<1> HIDE DEF S
<1>8. Cardinality(S \cup {n}) = Cardinality(S) + 1  BY <1>2, <1>7, FS_AddElement
<1>9. Within(row'[j], Spends(j, row'[j].granted, row'[j].attempt, outcome'))
  <2>1. Within(row'[j], S \cup {n})
    <3>1. /\ x.granted <= x.base /\ x.attempt <= x.base + 1 /\ Cardinality(S) = x.attempt - x.base
      BY <1>1, <1>3 DEF Within
    <3>2. Cardinality(S \cup {n}) = n - x.base  BY <1>2, <1>8, <3>1
    <3>3. n <= x.base + 2  BY <1>2, <3>1
    <3> QED  BY <1>1, <3>1, <3>2, <3>3 DEF Within
  <2> QED  BY <1>6, <2>1
<1>10. ASSUME NEW k \in Jobs \ {j}
       PROVE  Within(row'[k], Spends(k, row'[k].granted, row'[k].attempt, outcome'))
  <2>1. (row[k].granted + 1)..row[k].attempt \subseteq Attempts  BY Counters DEF StoreInv
  <2>2. Spends(k, row'[k].granted, row'[k].attempt, outcome') = Spends(k, row[k].granted, row[k].attempt, outcome)
    BY <1>1, <1>4, <2>1 DEF Spends
  <2> QED  BY <1>1, <2>2 DEF Solvent
<1> QED  BY <1>9, <1>10 DEF Solvent

\* A claim given up has spent its attempt, or gets it back with its deferral.
LEMMA ReleaseWithin ==
    ASSUME StoreInv, Solvent, NEW j \in Jobs, NEW a \in Attempts, ReleaseStep(j, a)
    PROVE  Solvent'
<1> DEFINE x == row[j]
           S == Spends(j, x.granted, x.attempt, outcome)
<1>1. PICK y, s : /\ Released(j, y) /\ Charged(x, y, s) /\ s \in Outcomes \ {"none", "open"}
                  /\ outcome' = [outcome EXCEPT ![<<j, a>>] = s]
  BY DEF ReleaseStep
<1>2. /\ Shape(x) /\ x.state = "active" /\ x.token = a /\ outcome \in [Claims -> Outcomes] /\ <<j, a>> \in Claims
      /\ outcome[<<j, a>>] = "open"
  BY DEF ReleaseStep, StoreInv, StoreTypeOK, AuditMatches, Claims
<1>3. x.granted \in Nat /\ x.attempt \in Nat /\ x.base \in Nat /\ x.base < x.attempt /\ a = x.attempt /\ IsFiniteSet(S)
  BY <1>2, Counters DEF Shape
<1>4. Within(x, S)  BY DEF Solvent
<1>5. /\ \A k \in Jobs, b \in Attempts : <<k, b>> # <<j, a>> => outcome'[<<k, b>>] = outcome[<<k, b>>]
      /\ outcome'[<<j, a>>] = s
  BY <1>1, <1>2 DEF Claims
<1>6. /\ (x.granted + 1)..x.attempt \subseteq Attempts
      /\ \A b \in Attempts : b # a => outcome'[<<j, b>>] = outcome[<<j, b>>]
  <2>1. \A b : b # a => <<j, b>> # <<j, a>>  OBVIOUS
  <2> QED  BY <1>2, <1>5, <2>1, Counters
<1>7. /\ Shape(y) /\ y.attempt = x.attempt /\ y.granted = x.granted /\ Quiet(y, row'[j])
  BY <1>1 DEF Released, Charged
<1>8. Within(y, Spends(j, y.granted, y.attempt, outcome'))
  <2>1. CASE s = "deferred"
    <3>1. a \in S  BY <1>2, <1>3, <1>4 DEF Within, Spends
    <3>2. Spends(j, y.granted, y.attempt, outcome') = S \ {a}  BY <1>5, <1>6, <1>7, <2>1 DEF Spends
    <3> HIDE DEF S
    <3>3. Cardinality(S \ {a}) = Cardinality(S) - 1  BY <1>3, <3>1, FS_RemoveElement
    <3>4. y.base = x.base + 1  BY <1>1, <2>1 DEF Charged
    <3> QED  BY <1>3, <1>4, <1>7, <3>2, <3>3, <3>4 DEF Within
  <2>2. CASE s # "deferred"
    <3>1. Spends(j, y.granted, y.attempt, outcome') = S  BY <1>2, <1>5, <1>6, <1>7, <2>2 DEF Spends
    <3> HIDE DEF S
    <3>2. y.base = x.base /\ (y.state = "pending" => RetryAvailable(x))  BY <1>1, <2>2 DEF Charged
    <3> QED  BY <1>3, <1>4, <1>7, <3>1, <3>2 DEF Within, RetryAvailable
  <2> QED  BY <2>1, <2>2
<1>9. Within(row'[j], Spends(j, row'[j].granted, row'[j].attempt, outcome'))  BY <1>7, <1>8, QuietWithin
<1>10. ASSUME NEW k \in Jobs \ {j}
       PROVE  Within(row'[k], Spends(k, row'[k].granted, row'[k].attempt, outcome'))
  <2>1. Shape(row[k]) /\ Quiet(row[k], row'[k])  BY <1>1 DEF Released, StoreInv
  <2>2. (row[k].granted + 1)..row[k].attempt \subseteq Attempts  BY <2>1, Counters
  <2>3. Spends(k, row[k].granted, row[k].attempt, outcome') = Spends(k, row[k].granted, row[k].attempt, outcome)
    BY <1>5, <2>2 DEF Spends
  <2> QED  BY <2>1, <2>3, QuietWithin DEF Solvent
<1> QED  BY <1>9, <1>10 DEF Solvent

-----------------------------------------------------------------------------
(* The theorems. *)

\* What every transaction relies on about the row it locks holds in every reachable
\* state, whoever calls, in whatever order and with whatever evidence.
THEOREM StoreCorrect == StoreSpec => []StoreInv
BY StoreInitInv, StoreInvInductive, PTL DEF StoreSpec

\* Type correctness of the job table, its audit and its runs.
THEOREM StoreTypeCorrect == StoreSpec => []StoreTypeOK
<1>1. StoreInv => StoreTypeOK
  BY DEF StoreInv
<1> QED BY <1>1, StoreCorrect, PTL

\* At most one adoption of each request: claim(), complete(), defer(), fail() and
\* recoverExpired() never let two executions of the same request publish.
THEOREM PublishedOnceCorrect == StoreSpec => []PublishedOnce
<1>1. StoreInv => PublishedOnce
  <2> SUFFICES ASSUME StoreInv, NEW c \in published, NEW d \in published, c[1] = d[1],
                      c[2] > row[c[1]].armed, d[2] > row[c[1]].armed
               PROVE  c = d
    BY DEF PublishedOnce
  <2>1. c[2] = row[c[1]].attempt /\ d[2] = row[c[1]].attempt
    BY DEF StoreInv, PublishedIsOver
  <2>2. c \in Claims /\ d \in Claims
    BY DEF StoreInv, StoreTypeOK
  <2> QED BY <2>1, <2>2, ClaimPairs
<1> QED BY <1>1, StoreCorrect, PTL

\* Between two grants of a retry budget - a new request, a re-armed stage, a retry by hand - a row
\* is executed at most twice, deferrals aside: no recovery, requested stop or latest request gives
\* an execution away that retryBaseAttempt does not account for.
THEOREM BudgetIsKept == StoreSpec => []BudgetKept
<1>1. StoreInit => Solvent
  <2> SUFFICES ASSUME StoreInit, NEW j \in Jobs
               PROVE  Within(row[j], Spends(j, row[j].granted, row[j].attempt, outcome))
    BY DEF Solvent
  <2>1. row[j].granted = 0 /\ row[j].base = 0 /\ row[j].attempt = 0 /\ row[j].state = "absent"
    BY DEF StoreInit, AbsentRow
  <2>2. Spends(j, row[j].granted, row[j].attempt, outcome) = {}  BY <2>1 DEF Spends
  <2> QED  BY <2>1, <2>2, FS_EmptySet DEF Within
<1>2. StoreInv /\ Solvent /\ [StoreNext]_storeVars => Solvent'
  <2>1. ASSUME StoreInv, Solvent, QuietStep, outcome' = outcome PROVE Solvent'
    <3>1. ASSUME NEW k \in Jobs PROVE Within(row'[k], Spends(k, row'[k].granted, row'[k].attempt, outcome'))
      <4>1. Shape(row[k]) /\ Quiet(row[k], row'[k])  BY <2>1 DEF QuietStep, QuietTable, StoreInv
      <4> QED  BY <2>1, <4>1, QuietWithin DEF Solvent
    <3> QED  BY <3>1 DEF Solvent
  <2>2. ASSUME Solvent, UNCHANGED storeVars PROVE Solvent'  BY <2>2 DEF Solvent, storeVars
  <2> QED  BY <2>1, <2>2, StepKinds, ClaimWithin, ReleaseWithin
<1>3. StoreInv /\ Solvent => BudgetKept
  <2> SUFFICES ASSUME StoreInv, Solvent, NEW j \in Jobs
               PROVE  Cardinality(Spends(j, row[j].granted, row[j].attempt, outcome)) <= 2
    BY DEF BudgetKept, Spends
  <2>1. row[j].attempt \in Nat /\ row[j].base \in Nat  BY Counters DEF StoreInv
  <2> QED  BY <2>1 DEF Solvent, Within
<1> QED  BY <1>1, <1>2, <1>3, StoreCorrect, PTL DEF StoreSpec

\* An attempt's audited outcome is written once and never revised.
THEOREM AuditIsFinalCorrect == StoreSpec => AuditIsFinal
<1>1. ASSUME StoreInv, [StoreNext]_storeVars
      PROVE  [\A c \in Claims : outcome[c] \notin {"none", "open"} => outcome'[c] = outcome[c]]_storeVars
  <2> SUFFICES ASSUME StoreNext, NEW c \in Claims, outcome[c] \notin {"none", "open"}
               PROVE  outcome'[c] = outcome[c]
    BY <1>1
  <2>0. /\ outcome \in [Claims -> Outcomes] /\ c = <<c[1], c[2]>> /\ c[1] \in Jobs /\ c[2] \in Attempts
        /\ outcome[<<c[1], c[2]>>] = "none" <=> c[2] > row[c[1]].attempt
        /\ outcome[<<c[1], c[2]>>] = "open" <=> row[c[1]].token = c[2]
    BY <1>1, ClaimPairs DEF StoreInv, StoreTypeOK, AuditMatches
  <2>1. CASE outcome' = outcome
    BY <2>1
  <2>2. CASE \E w \in Workers, j \in Jobs : Claim(w, j)
    <3>1. PICK w \in Workers, j \in Jobs : Claim(w, j)
      BY <2>2
    <3>2. outcome' = [outcome EXCEPT ![<<j, row[j].attempt + 1>>] = "open"] /\ row[j].attempt + 1 \in Attempts
      BY <1>1, <3>1, ClaimEffect
    <3>3. outcome[<<j, row[j].attempt + 1>>] = "none"
      <4>1. row[j].attempt \in Nat
        BY <1>1, ShapeNumbers, NumbersAssumption DEF StoreInv
      <4>2. outcome[<<j, row[j].attempt + 1>>] = "none" <=> row[j].attempt + 1 > row[j].attempt
        BY <1>1, <3>2 DEF StoreInv, AuditMatches
      <4> QED BY <4>1, <4>2
    <3>4. c # <<j, row[j].attempt + 1>>
      BY <3>3
    <3> QED BY <2>0, <3>2, <3>4
  <2>3. CASE \E j \in Jobs, a \in Attempts : ReleaseStep(j, a)
    <3>1. PICK j \in Jobs, a \in Attempts : ReleaseStep(j, a)
      BY <2>3
    <3>2. PICK s : outcome' = [outcome EXCEPT ![<<j, a>>] = s]
      BY <3>1 DEF ReleaseStep
    <3>3. outcome[<<j, a>>] = "open"
      <4>1. outcome[<<j, a>>] = "open" <=> row[j].token = a
        BY <1>1 DEF StoreInv, AuditMatches
      <4> QED BY <3>1, <4>1 DEF ReleaseStep
    <3>4. c # <<j, a>>
      BY <3>3
    <3> QED BY <2>0, <3>2, <3>4
  <2> QED BY <1>1, <2>1, <2>2, <2>3, StepKinds
<1> QED BY <1>1, StoreCorrect, PTL DEF StoreSpec, AuditIsFinal

\* An empty table, and a table left alone.
LEMMA IndexesHold == StoreSpec => [](Indexed(row) /\ FinishedRunsQuiet)
<1>1. StoreInit => Indexed(row) /\ FinishedRunsQuiet
  BY DEF StoreInit, Indexed, FinishedRunsQuiet, AbsentRow, IsLive, Live
<1>2. StoreInv /\ (Indexed(row) /\ FinishedRunsQuiet) /\ [StoreNext]_storeVars
         => (Indexed(row) /\ FinishedRunsQuiet)'
  <2>1. ASSUME StoreInv, Indexed(row), FinishedRunsQuiet, StoreNext PROVE (Indexed(row) /\ FinishedRunsQuiet)'
    <3>1. Indexed(row') /\ FinishedRunsQuiet'  BY <2>1, HoldsWritten, HoldStepKeeps, StepKeepsIndexes
    <3> QED  BY <3>1 DEF Indexed, Apart, IsLive
  <2>2. ASSUME Indexed(row), FinishedRunsQuiet, UNCHANGED storeVars PROVE (Indexed(row) /\ FinishedRunsQuiet)'
    BY <2>2 DEF Indexed, Apart, FinishedRunsQuiet, Parked, IsLive, storeVars
  <2> QED  BY <2>1, <2>2
<1> QED  BY <1>1, <1>2, StoreCorrect, PTL DEF StoreSpec

\* A run is stamped finished only while it has no live job but waiting ones of its parked stages;
\* every job it gets reopens it or is a follow-up of one that kept it open, and so does the release
\* of a parked stage.
THEOREM FinishedRunsStayQuiet == StoreSpec => []FinishedRunsQuiet
BY IndexesHold, PTL

\* A request recorded on a live job survives that job: whatever settles it - complete(), fail(),
\* a recovery, a cancelled wait - the request ends up with a job of its own, in one it may join, or
\* in the row its stage already has, unless the settled job is held for attention.  Only clearing
\* the job drops it.
THEOREM LatestNeverLost == StoreSpec => LatestKept
<1>1. StoreInit => NotesKept(row)  BY DEF StoreInit, NotesKept, AbsentRow
<1>2. StoreInv /\ Indexed(row) /\ NotesKept(row) /\ [StoreNext]_storeVars => NotesKept(row)'
  <2>1. ASSUME StoreInv, Indexed(row), NotesKept(row), StoreNext PROVE NotesKept(row')
    BY <2>1, StepHonours, ClearHonours DEF Honours
  <2>2. ASSUME NotesKept(row), UNCHANGED storeVars PROVE NotesKept(row')  BY <2>2 DEF storeVars
  <2> QED  BY <2>1, <2>2 DEF NotesKept
<1>3. StoreSpec => []NotesKept(row)
  BY <1>1, <1>2, StoreCorrect, IndexesHold, PTL DEF StoreSpec
<1>4. ASSUME StoreInv, Indexed(row), NotesKept(row), [StoreNext]_storeVars
      PROVE  [\A j \in Jobs :
                (/\ IsLive(row[j]) /\ row[j].latest # NoRequest /\ row'[j].latest = NoRequest
                 /\ ~\E S \in SUBSET Jobs : j \in S /\ Clear(S))
                => Carried(row', j, row[j].latest) \/ row'[j].state = "needs_attention"]_storeVars
  <2> SUFFICES ASSUME StoreNext, NEW j \in Jobs, Noted(row[j]), row'[j].latest = NoRequest,
                      ~\E S \in SUBSET Jobs : j \in S /\ Clear(S)
               PROVE  Carried(row', j, row[j].latest) \/ row'[j].state = "needs_attention"
    BY <1>4 DEF Noted
  <2>1. CASE Honours  BY <2>1 DEF Honours, Honoured
  <2>2. ASSUME NEW S \in SUBSET Jobs, Clear(S) PROVE FALSE
    BY <1>4, <2>2, ClearHonours DEF Noted
  <2> QED  BY <1>4, <2>1, <2>2, StepHonours
<1> QED  BY <1>3, <1>4, StoreCorrect, IndexesHold, PTL DEF StoreSpec, LatestKept

\* The queue implements FencedClaims: whatever leases, retries, sweeps and zombies do,
\* an output is adopted only by the claim that holds the job, which it gives up thereby.
THEOREM FencedPublicationCorrect == StoreSpec => FencedPublication
<1> DEFINE holder == [j \in Jobs |-> row[j].token]
           issued == [j \in Jobs |-> row[j].attempt]
<1>1. StoreInit => Fence!Init
  BY DEF StoreInit, Fence!Init, AbsentRow
<1>2. ASSUME StoreInv, [StoreNext]_storeVars
      PROVE  [Fence!Next]_Fence!vars
  <2>1. CASE UNCHANGED storeVars
    BY <2>1 DEF storeVars, Fence!vars
  <2>2. CASE QuietStep
    <3>1. \A k \in Jobs : row'[k].token = row[k].token /\ row'[k].attempt = row[k].attempt
      BY <2>2 DEF QuietStep, QuietTable, Quiet
    <3>2. published' = published
      BY <2>2 DEF QuietStep
    <3> QED BY <3>1, <3>2 DEF Fence!vars
  <2>3. CASE \E w \in Workers, j \in Jobs : Claim(w, j)
    <3>1. PICK w \in Workers, j \in Jobs : Claim(w, j)
      BY <2>3
    <3>2. /\ row[j].token = 0 /\ \A k \in Jobs \ {j} : row'[k] = row[k]
          /\ row'[j].token = row[j].attempt + 1 /\ row'[j].attempt = row[j].attempt + 1
          /\ published' = published
      BY <1>2, <3>1, ClaimEffect, ZenonT(60)
    <3>3. holder' = [holder EXCEPT ![j] = issued[j] + 1]
      BY <3>2
    <3>4. issued' = [issued EXCEPT ![j] = issued[j] + 1]
      BY <3>2
    <3>5. Fence!Grant(j)
      BY <3>2, <3>3, <3>4 DEF Fence!Grant
    <3> QED BY <3>5 DEF Fence!Next
  <2>4. CASE \E j \in Jobs, a \in Attempts : ReleaseStep(j, a)
    <3>1. PICK j \in Jobs, a \in Attempts : ReleaseStep(j, a)
      BY <2>4
    <3>2. /\ row[j].token = a /\ row'[j].token = 0 /\ row'[j].attempt = row[j].attempt
          /\ \A k \in Jobs \ {j} : row'[k].token = row[k].token /\ row'[k].attempt = row[k].attempt
          /\ published' = published \/ published' = published \cup {<<j, a>>}
      BY <3>1 DEF ReleaseStep, Released, Quiet
    <3>3. a # 0
      BY NumbersAssumption DEF Attempts
    <3>4. holder' = [holder EXCEPT ![j] = 0] /\ holder[j] = a
      BY <3>2
    <3>5. issued' = issued
      BY <3>2
    <3>6. Fence!Publish(j) \/ Fence!Revoke(j)
      BY <3>2, <3>3, <3>4, <3>5 DEF Fence!Publish, Fence!Revoke
    <3> QED BY <3>6 DEF Fence!Next
  <2> QED BY <1>2, <2>1, <2>2, <2>3, <2>4, StepKinds
<1> QED BY <1>1, <1>2, StoreCorrect, PTL DEF StoreSpec, FencedPublication, Fence!Spec

-----------------------------------------------------------------------------
(* The queue at work: executions, coordinators, supervisors and their evidence. *)

\* An execution lives in a claimed worker: all of it in one that is up or stopping, native
\* processes in one whose thread is gone.  A stop is on record only of a worker that is gone.
Housed ==
    /\ \A c \in Claims : phase[c] # "none" =>
         /\ outcome[c] # "none" /\ claimant[c] \in Workers
         /\ life[claimant[c]] = "dying" \/ (phase[c] # "native" /\ Alive(claimant[c]))
         /\ life[claimant[c]] = "dying" => phase[c] = "native"
    /\ \A w \in workerStopped : life[w] = "gone"

\* Neither a recorded stop nor a final audit is ahead of the execution, and the history names
\* only claims that were made.
Truthful ==
    /\ \A c \in proven : outcome[c] # "none" /\ ~Executing(c)
    /\ \A c \in Claims : Executing(c) => outcome[c] \notin {"completed", "deferred"}
    /\ \A c \in unsafe : outcome[c] # "none"

\* The worker a row names is the one its claim was made by.
Held == \A j \in Jobs : row[j].state = "active" => claimant[<<j, row[j].token>>] = row[j].worker

\* The row of unrepeatable work that may still run: claimed by that work, or waiting for a person.
Guarded(x) ==
    /\ x.oper # "released"
    /\ \/ x.state = "active" /\ ~(x.req.safe /\ ~x.req.op)
       \/ x.state \in {"needs_attention", "cancelled"}
Alone ==
    \A c \in unsafe : (Executing(c) /\ c[2] > row[c[1]].armed) =>
        c[2] = row[c[1]].attempt /\ Guarded(row[c[1]])

IInv == StoreInv /\ TypeOK /\ Housed /\ Truthful /\ Held /\ Alone
-----------------------------------------------------------------------------
(* Every step of the queue is a transaction of the store, or leaves it alone. *)

LEMMA NextIsStoreStep == Next => [StoreNext]_storeVars
<1> SUFFICES ASSUME Next PROVE [StoreNext]_storeVars  OBVIOUS
<1>1. CASE Administer  BY <1>1 DEF StoreNext
<1>2. CASE Coordinate
  <2>1. CASE \E w \in Workers : Start(w)  BY <2>1 DEF Start
  <2>2. ASSUME NEW w \in Workers, Heartbeat(w) PROVE StoreNext
    <3>1. PICK S \in SUBSET Renewable(w) : Renew(w, S)  BY <2>2 DEF Heartbeat
    <3>2. S \in SUBSET Jobs  BY DEF Renewable
    <3> QED  BY <3>1, <3>2 DEF StoreNext
  <2>3. CASE \E w \in Workers, j \in Jobs : Dispatch(w, j)  BY <2>3 DEF Dispatch, StoreNext
  <2>4. CASE \E w \in Workers, j \in Jobs : WatchDeadline(w, j)  BY <2>4 DEF WatchDeadline, StoreNext
  <2>5. CASE \E w \in Workers, j \in Jobs : SettledMessage(w, j)  BY <2>5 DEF SettledMessage
  <2>6. ASSUME NEW j \in Jobs, SettleQueued(j) PROVE StoreNext
    <3>1. StoppedJobAttempts(j) \in BOOLEAN  BY DEF StoppedJobAttempts
    <3> QED  BY <2>6, <3>1 DEF SettleQueued, StoreNext
  <2>7. ASSUME NEW j \in Jobs, Sweep(j) PROVE StoreNext
    <3>1. Stopped(j) \in BOOLEAN  BY DEF Stopped
    <3> QED  BY <2>7, <3>1 DEF Sweep, StoreNext
  <2>8. CASE \E r \in Runs : SweepRun(r)  BY <2>8 DEF SweepRun, StoreNext
  <2> QED  BY <1>2, <2>1, <2>2, <2>3, <2>4, <2>5, <2>6, <2>7, <2>8 DEF Coordinate
<1>3. ASSUME NEW j \in Jobs, NEW a \in Attempts, Execute(j, a) PROVE [StoreNext]_storeVars
  <2>1. CASE StartHandler(j, a) \/ Return(j, a) \/ PublishRefused(j, a) \/ PutOffRefused(j, a)
             \/ ReportRefused(j, a) \/ LeaveToRecovery(j, a) \/ Finish(j, a)
    BY <2>1 DEF StartHandler, Return, PublishRefused, PutOffRefused, ReportRefused, LeaveToRecovery, Finish
  <2>2. CASE "producer" \in Inputs /\ SaveCheckpoint(j, a)  BY <2>2 DEF SaveCheckpoint, StoreNext
  <2>3. CASE Publish(j, a) \/ PutOff(j, a)  BY <2>3 DEF Publish, PutOff, StoreNext
  <2>4. CASE Report(j, a)
    <3>1. Stopped(j) \in BOOLEAN /\ In(j, a, {"failedSettling"}) \in BOOLEAN /\ FALSE \in BOOLEAN
      BY DEF Stopped, In
    <3> QED  BY <2>4, <3>1 DEF Report, StoreNext
  <2>5. CASE SettleStopped(j, a)
    <3> DEFINE settling == In(j, a, {"unsettledSettling"})
    <3>1. Stopped(j) \in BOOLEAN /\ settling \in BOOLEAN /\ (~settling) \in BOOLEAN
      BY DEF Stopped, In
    <3>2. Fail(j, a, Stopped(j), settling, ~settling)  BY <2>5 DEF SettleStopped
    <3> HIDE DEF settling
    <3> QED  BY <3>1, <3>2 DEF StoreNext
  <2> QED  BY <1>3, <2>1, <2>2, <2>3, <2>4, <2>5 DEF Execute, Settles
<1>4. CASE Supervise
  BY <1>4 DEF Supervise, StopWorker, Crash, Terminate, Exit, ChildrenAbsent, RecordWorkerStopped
<1> QED  BY <1>1, <1>2, <1>3, <1>4 DEF Next

-----------------------------------------------------------------------------
(* What a step that claims nothing does to the rows and to what may run. *)

\* The rows are first released by their own claims, as mid has them, and then rewritten by others.
Rewrites(mid) ==
    /\ Table(row')
    /\ \A k \in Jobs :
         /\ Quiet(mid[k], row'[k]) /\ Shape(mid[k])
         /\ mid[k].attempt = row[k].attempt /\ mid[k].armed = row[k].armed
         /\ mid[k].token # 0 => mid[k] = row[k]
         /\ \A a \in Attempts :
              (<<k, a>> \in unsafe /\ Executing(<<k, a>>)' /\ a = row[k].attempt /\ Guarded(row[k]))
                 => Guarded(mid[k])

MemoryOK ==
    /\ claimant \in [Claims -> Workers \cup {NoWorker}]
    /\ proven \subseteq Claims /\ workerStopped \subseteq Workers
    /\ life \in [Workers -> {"new", "up", "stopping", "dying", "gone"}]
    /\ phase \in [Claims -> Phases]
    /\ watched \in [Workers -> [Jobs -> 0..MaxAttempts]]
    /\ settledMsgs \in [Workers -> [Jobs -> Nat]]
    /\ unsafe \subseteq Claims

LEMMA TypeParts == TypeOK <=> StoreTypeOK /\ MemoryOK
BY DEF TypeOK, MemoryOK

\* The guard of a row outlives what others do to the row, unless it takes on another request.
LEMMA GuardQuiet ==
    ASSUME NEW x, NEW y, Shape(x), Quiet(x, y), Guarded(x), y.armed < x.attempt
    PROVE  Guarded(y)
<1>1. x.attempt \in Nat /\ y.armed # x.attempt  BY ShapeNumbers
<1> QED  BY <1>1 DEF Guarded, Quiet

LEMMA AloneKept ==
    ASSUME IInv, NEW mid, Rewrites(mid), unsafe' = unsafe,
           \A c \in Claims : Executing(c)' => Executing(c)
    PROVE  Alone'
<1> SUFFICES ASSUME NEW c \in unsafe, Executing(c)', c[2] > row'[c[1]].armed
             PROVE  c[2] = row'[c[1]].attempt /\ Guarded(row[c[1]])'
  BY DEF Alone
<1> DEFINE k == c[1]
           a == c[2]
<1>0. c \in Claims /\ k \in Jobs /\ a \in Attempts /\ a \in Nat /\ c = <<k, a>>
  BY ClaimPairs DEF IInv, TypeOK
<1>1. Executing(c)  BY <1>0
<1>2. a <= row[k].attempt
  <2>1. outcome[<<k, a>>] # "none"  BY <1>0, <1>1 DEF IInv, Housed, Executing
  <2>2. ~(a > row[k].attempt)  BY <1>0, <2>1 DEF IInv, StoreInv, AuditMatches
  <2>3. row[k].attempt \in Nat  BY <1>0, ShapeNumbers DEF IInv, StoreInv
  <2> QED  BY <1>0, <2>2, <2>3
<1>3. /\ Quiet(mid[k], row'[k]) /\ Shape(mid[k]) /\ Shape(row[k])
      /\ mid[k].attempt = row[k].attempt /\ mid[k].armed = row[k].armed
  BY <1>0 DEF Rewrites, IInv, StoreInv
<1>4. row'[k].armed \in {mid[k].armed, mid[k].attempt} /\ row'[k].attempt = mid[k].attempt
  BY <1>3 DEF Quiet
<1>5. row[k].attempt \in Nat /\ row[k].armed \in Nat  BY <1>3, ShapeNumbers
<1>6. row'[k].armed = row[k].armed /\ a > row[k].armed /\ row'[k].armed < mid[k].attempt
  BY <1>0, <1>2, <1>3, <1>4, <1>5
<1>7. a = row[k].attempt /\ Guarded(row[k])  BY <1>1, <1>6 DEF IInv, Alone
<1>8. Guarded(mid[k])  BY <1>0, <1>7 DEF Rewrites
<1>9. Guarded(row'[k])  BY <1>3, <1>6, <1>8, GuardQuiet
<1> QED  BY <1>3, <1>4, <1>7, <1>9 DEF Guarded

LEMMA HeldKept ==
    ASSUME IInv, NEW mid, Rewrites(mid), claimant' = claimant
    PROVE  Held'
<1> SUFFICES ASSUME NEW k \in Jobs, row'[k].state = "active"
             PROVE  claimant[<<k, row'[k].token>>] = row'[k].worker
  BY DEF Held
<1>1. /\ Quiet(mid[k], row'[k]) /\ Shape(mid[k]) /\ Shape(row'[k])
      /\ mid[k].token # 0 => mid[k] = row[k]
  BY DEF Rewrites, Table
<1>2. row'[k].token # 0 /\ row'[k].token = mid[k].token  BY <1>1 DEF Shape, Quiet
<1>3. mid[k] = row[k] /\ mid[k].state = "active"  BY <1>1, <1>2 DEF Shape
<1>4. row'[k].worker = row[k].worker /\ row'[k].token = row[k].token  BY <1>1, <1>3 DEF Quiet
<1>5. claimant[<<k, row[k].token>>] = row[k].worker  BY <1>3 DEF IInv, Held
<1> QED  BY <1>4, <1>5

\* Steps that start nothing: what remains to be shown of the execution they move.
LEMMA Kept ==
    ASSUME IInv, StoreInv', MemoryOK', Housed', NEW mid, Rewrites(mid),
           unsafe' = unsafe, claimant' = claimant,
           \A c \in Claims : Executing(c)' => Executing(c),
           \A c \in proven' : c \in proven \/ (outcome[c] # "none" /\ ~Executing(c)'),
           \A c \in Claims : outcome[c] # "none" => outcome'[c] # "none",
           \A c \in Claims : (outcome'[c] \in {"completed", "deferred"} /\ Executing(c)')
                               => outcome'[c] = outcome[c]
    PROVE  IInv'
<1>1. Alone' /\ Held'  BY AloneKept, HeldKept
<1>2. TypeOK'  BY TypeParts DEF StoreInv, TypeOK, MemoryOK
<1>3. \A c \in proven' : c \in Claims  BY DEF MemoryOK
<1>4. Truthful'
  <2>1. \A c \in proven' : outcome'[c] # "none" /\ ~Executing(c)'
    BY <1>3 DEF IInv, Truthful
  <2>2. \A c \in Claims : Executing(c)' => outcome'[c] \notin {"completed", "deferred"}
    BY DEF IInv, Truthful
  <2>3. \A c \in unsafe' : outcome'[c] # "none"  BY DEF IInv, Truthful, TypeOK
  <2> QED  BY <2>1, <2>2, <2>3 DEF Truthful
<1> QED  BY <1>1, <1>2, <1>4 DEF IInv
-----------------------------------------------------------------------------
(* The rows, as a step leaves them. *)

\* Whatever the queue does, the store keeps its invariant.
LEMMA StoreKept == ASSUME IInv, Next PROVE StoreInv'
BY NextIsStoreStep, StoreInvInductive DEF IInv

\* A quiet step rewrites no row on behalf of its claim.
LEMMA QuietRewrites == ASSUME IInv, QuietTable(row, row') PROVE Rewrites(row)
BY DEF Rewrites, QuietTable, Table, IInv, StoreInv

\* A table left alone.
LEMMA SameRows == ASSUME IInv, row' = row PROVE Rewrites(row)
BY InvTable, QuietTableRefl, QuietRewrites DEF IInv

\* A settled claim: its row is given up as y first.
LEMMA ReleaseRewrites ==
    ASSUME IInv, NEW j \in Jobs, NEW y, Released(j, y),
           \A a \in Attempts :
              (<<j, a>> \in unsafe /\ Executing(<<j, a>>)' /\ a = row[j].attempt /\ Guarded(row[j]))
                 => Guarded(y)
    PROVE  Rewrites([row EXCEPT ![j] = y])
<1> DEFINE mid == [row EXCEPT ![j] = y]
<1>1. row \in [Jobs -> Row] /\ \A k \in Jobs : Shape(row[k])  BY InvTable DEF IInv, StoreInv
<1>2. mid[j] = y /\ \A k \in Jobs \ {j} : mid[k] = row[k]  BY <1>1
<1> HIDE DEF mid
<1>3. /\ Table(row') /\ (\A k \in Jobs \ {j} : Quiet(row[k], row'[k])) /\ Quiet(y, row'[j])
      /\ Shape(y) /\ y.token = 0 /\ y.attempt = row[j].attempt /\ y.armed = row[j].armed
  BY DEF Released
<1>4. ASSUME NEW k \in Jobs
      PROVE  /\ Quiet(mid[k], row'[k]) /\ Shape(mid[k])
             /\ mid[k].attempt = row[k].attempt /\ mid[k].armed = row[k].armed
             /\ mid[k].token # 0 => mid[k] = row[k]
             /\ \A a \in Attempts :
                  (<<k, a>> \in unsafe /\ Executing(<<k, a>>)' /\ a = row[k].attempt /\ Guarded(row[k]))
                     => Guarded(mid[k])
  <2>1. CASE k = j  BY <2>1, <1>2, <1>3
  <2>2. CASE k # j
    <3>1. mid[k] = row[k]  BY <2>2, <1>2
    <3> QED  BY <2>2, <3>1, <1>1, <1>3
  <2> QED  BY <2>1, <2>2
<1>5. Rewrites(mid)  BY <1>3, <1>4 DEF Rewrites
<1> QED  BY <1>5 DEF mid

-----------------------------------------------------------------------------
(* Steps that leave the executions alone. *)

\* A transaction that touches no claim, and nothing else.
LEMMA QuietKept ==
    ASSUME IInv, StoreInv', QuietTable(row, row'), outcome' = outcome,
           UNCHANGED <<evidence, memory, unsafe>>
    PROVE  IInv'
<1>1. Rewrites(row)  BY QuietRewrites
<1>2. MemoryOK'  BY DEF IInv, TypeOK, MemoryOK, evidence, memory
<1>3. \A c : Executing(c)' <=> Executing(c)  BY DEF Executing, memory
<1>4. Housed'  BY DEF IInv, Housed, Alive, evidence, memory
<1>5. claimant' = claimant /\ unsafe' = unsafe /\ proven' = proven  BY DEF evidence
<1> QED  BY <1>1, <1>2, <1>3, <1>4, <1>5, Kept

LEMMA AdministerKept ==
    ASSUME IInv, StoreInv', Administer, UNCHANGED <<evidence, memory, unsafe>>
    PROVE  IInv'
BY AdministerQuiet, QuietKept DEF IInv, QuietStep

\* Heartbeats, deadlines, run completion and the settlement of waiting rows.
LEMMA QuietCoordination ==
    ASSUME IInv, StoreInv',
           \/ \E w \in Workers : Heartbeat(w)
           \/ \E w \in Workers, j \in Jobs : WatchDeadline(w, j)
           \/ \E j \in Jobs : SettleQueued(j)
           \/ \E r \in Runs : SweepRun(r)
    PROVE  IInv'
<1>1. ASSUME NEW w \in Workers, Heartbeat(w) PROVE IInv'
  <2>1. QuietStep /\ outcome' = outcome  BY <1>1, RenewQuiet DEF Heartbeat, IInv
  <2> QED  BY <1>1, <2>1, QuietKept DEF Heartbeat, QuietStep
<1>2. ASSUME NEW w \in Workers, NEW j \in Jobs, WatchDeadline(w, j) PROVE IInv'
  <2>1. QuietStep /\ outcome' = outcome  BY <1>2, ColumnStepsQuiet DEF WatchDeadline, IInv
  <2> QED  BY <1>2, <2>1, QuietKept DEF WatchDeadline, QuietStep
<1>3. ASSUME NEW j \in Jobs, SettleQueued(j) PROVE IInv'
  <2>1. QuietStep /\ outcome' = outcome  BY <1>3, CancelQueuedQuiet DEF SettleQueued, IInv
  <2> QED  BY <1>3, <2>1, QuietKept DEF SettleQueued, QuietStep
<1>4. ASSUME NEW r \in Runs, SweepRun(r) PROVE IInv'
  <2>1. QuietStep /\ outcome' = outcome  BY <1>4, FinishRunQuiet DEF SweepRun, IInv
  <2> QED  BY <1>4, <2>1, QuietKept DEF SweepRun, QuietStep
<1> QED  BY <1>1, <1>2, <1>3, <1>4

\* A row in hand of a stopped executor is not running; without proof, unrepeatable work waits.
LEMMA SweepKept ==
    ASSUME IInv, StoreInv', NEW j \in Jobs, Sweep(j)
    PROVE  IInv'
<1> DEFINE a == row[j].token
           u == ~Stopped(j)
           h == TRUE
           y == FailedRow(row[j], u, h)
           cs == {<<j, a>>}
<1>0. /\ StoreInv /\ Shape(row[j]) /\ row[j].state = "active"
      /\ RecoverExpired(j, Stopped(j)) /\ UNCHANGED <<evidence, memory, unsafe>>
  BY DEF Sweep, RecoverExpired, IInv, StoreInv
<1>1. CASE /\ row' = [row EXCEPT ![j].cancel = "deadline"]
           /\ UNCHANGED <<outcome, holds, runDone, published>>
  <2>1. row' = [row EXCEPT ![j] = [row[j] EXCEPT !.cancel = "deadline"]]  BY <1>1
  <2>2. QuietStep  BY <1>0, <1>1, <2>1, ColumnsQuiet, OneRowQuiet
  <2> QED  BY <1>0, <1>1, <2>2, QuietKept DEF QuietStep
<1>2. CASE Settle(j, u, h, cs)
  <2>1. /\ Released(j, y) /\ y.state = FailState(row[j], u)
        /\ outcome' = [c \in Claims |-> IF c \in cs THEN FailState(row[j], u) ELSE outcome[c]]
    <3> HIDE DEF u, h, cs
    <3> QED  BY <1>0, <1>2, SettleReleases
  <2>2. y.oper = "released" => row[j].oper = "released" \/ ~u
    <3> HIDE DEF u, h
    <3> QED  BY <1>0, FailedShape
  <2>3. \A c : Executing(c)' <=> Executing(c)  BY <1>0 DEF Executing, memory
  <2>4. ASSUME NEW b \in Attempts, <<j, b>> \in unsafe, Executing(<<j, b>>), b = row[j].attempt, Guarded(row[j])
        PROVE  Guarded(y)
    <3>1. b = a /\ <<j, b>> \in Claims  BY <1>0, <2>4 DEF Shape, Claims
    <3>2. claimant[<<j, b>>] = row[j].worker  BY <1>0, <3>1 DEF IInv, Held
    <3>3. life[claimant[<<j, b>>]] # "gone"
      BY <2>4, <3>1 DEF IInv, Housed, Executing, Alive
    <3>4. u  BY <2>4, <3>1, <3>2, <3>3 DEF Stopped, IInv, Housed, Truthful
    <3>5. row[j].oper # "released" /\ (~row[j].req.safe \/ row[j].req.op)  BY <1>0, <2>4 DEF Guarded
    <3>6. y.state = "needs_attention"
      BY <2>1, <3>4, <3>5 DEF FailState, UnconfirmedAttention
    <3> QED  BY <2>2, <3>4, <3>5, <3>6 DEF Guarded
  <2> HIDE DEF y
  <2>5. Rewrites([row EXCEPT ![j] = y])  BY <2>1, <2>3, <2>4, ReleaseRewrites
  <2>6. MemoryOK'  BY <1>0 DEF IInv, TypeOK, MemoryOK, evidence, memory
  <2>7. claimant' = claimant /\ unsafe' = unsafe /\ proven' = proven  BY <1>0 DEF evidence
  <2>8. \A c \in Claims : outcome'[c] \in {"completed", "deferred"} => outcome'[c] = outcome[c]
    BY <2>1, FailStates
  <2>9. \A c \in Claims : outcome[c] # "none" => outcome'[c] # "none"  BY <2>1, FailStates
  <2>10. Housed'  BY <1>0, <2>9 DEF IInv, Housed, Alive, evidence, memory
  <2> QED  BY <2>3, <2>5, <2>6, <2>7, <2>8, <2>9, <2>10, Kept
<1> QED  BY <1>0, <1>1, <1>2 DEF RecoverExpired
-----------------------------------------------------------------------------
(* Workers, messages and evidence. *)

\* A worker comes up, or is asked to stop: it lives before or after.
LEMMA LifeKept ==
    ASSUME IInv, StoreInv', NEW w \in Workers, Start(w) \/ StopWorker(w)
    PROVE  IInv'
<1>0. /\ row' = row /\ outcome' = outcome /\ UNCHANGED <<evidence, phase, watched, settledMsgs, unsafe>>
      /\ life[w] \in {"new", "up"} /\ life' \in {[life EXCEPT ![w] = "up"], [life EXCEPT ![w] = "stopping"]}
  BY DEF Start, StopWorker, Up, storeVars
<1>1. life \in [Workers -> {"new", "up", "stopping", "dying", "gone"}]  BY DEF IInv, TypeOK
<1>2. \A v \in Workers : /\ life[v] \in {"dying", "gone"} => life'[v] = life[v]
                         /\ Alive(v) => Alive(v)' /\ life'[v] # "dying"
  BY <1>0, <1>1 DEF Alive
<1>3. Rewrites(row)  BY <1>0, SameRows
<1>4. MemoryOK'  BY <1>0, <1>1 DEF IInv, TypeOK, MemoryOK, evidence
<1>5. \A c : Executing(c)' <=> Executing(c)  BY <1>0 DEF Executing
<1>6. claimant' = claimant /\ unsafe' = unsafe /\ proven' = proven /\ workerStopped' = workerStopped
  BY <1>0 DEF evidence
<1>7. Housed'
  <2>1. ASSUME NEW c \in Claims, phase'[c] # "none"
        PROVE  /\ outcome'[c] # "none" /\ claimant'[c] \in Workers
               /\ life'[claimant'[c]] = "dying" \/ (phase'[c] # "native" /\ Alive(claimant[c])')
               /\ life'[claimant'[c]] = "dying" => phase'[c] = "native"
    <3>1. /\ outcome[c] # "none" /\ claimant[c] \in Workers
          /\ life[claimant[c]] = "dying" \/ (phase[c] # "native" /\ Alive(claimant[c]))
          /\ life[claimant[c]] = "dying" => phase[c] = "native"
      BY <1>0, <2>1 DEF IInv, Housed
    <3>2. Alive(claimant[c])' <=> life'[claimant[c]] \in {"up", "stopping"}  BY <1>6 DEF Alive
    <3> QED  BY <1>0, <1>2, <1>6, <3>1, <3>2 DEF Alive
  <2>2. \A v \in workerStopped' : life'[v] = "gone"
    BY <1>2, <1>6 DEF IInv, Housed, TypeOK
  <2> QED  BY <2>1, <2>2 DEF Housed
<1> QED  BY <1>0, <1>3, <1>4, <1>5, <1>6, <1>7, Kept

\* A message arrives, or the supervisor records a worker that is gone.
LEMMA RecordsKept ==
    ASSUME IInv, StoreInv', NEW w \in Workers,
           (\E j \in Jobs : SettledMessage(w, j)) \/ RecordWorkerStopped(w)
    PROVE  IInv'
<1>0. /\ row' = row /\ outcome' = outcome /\ UNCHANGED <<claimant, proven, life, phase, unsafe>>
      /\ \A v \in workerStopped' : v \in workerStopped \/ (v = w /\ life[w] = "gone")
  BY DEF SettledMessage, RecordWorkerStopped, storeVars, evidence, memory
<1>1. Rewrites(row)  BY <1>0, SameRows
<1>2. MemoryOK'
  <2>1. ASSUME NEW j \in Jobs, SettledMessage(w, j) PROVE MemoryOK'
    <3>1. /\ watched \in [Workers -> [Jobs -> 0..MaxAttempts]] /\ settledMsgs \in [Workers -> [Jobs -> Nat]]
          /\ settledMsgs[w][j] > 0
          /\ settledMsgs' = [settledMsgs EXCEPT ![w][j] = @ - 1] /\ watched' = [watched EXCEPT ![w][j] = 0]
      BY <2>1 DEF SettledMessage, IInv, TypeOK
    <3>2. settledMsgs[w][j] - 1 \in Nat  BY <3>1
    <3>3. watched' \in [Workers -> [Jobs -> 0..MaxAttempts]]  BY <3>1, Zero
    <3>4. settledMsgs' \in [Workers -> [Jobs -> Nat]]  BY <3>1, <3>2
    <3> QED  BY <1>0, <2>1, <3>3, <3>4 DEF IInv, TypeOK, MemoryOK, SettledMessage, evidence
  <2>2. CASE RecordWorkerStopped(w)
    BY <2>2 DEF IInv, TypeOK, MemoryOK, RecordWorkerStopped, memory
  <2> QED  BY <2>1, <2>2
<1>3. \A c : Executing(c)' <=> Executing(c)  BY <1>0 DEF Executing
<1>4. Housed'  BY <1>0 DEF IInv, Housed, Alive
<1> QED  BY <1>0, <1>1, <1>2, <1>3, <1>4, Kept

\* A worker exits, or the last of its native processes does.
LEMMA ExitKept ==
    ASSUME IInv, StoreInv', NEW w \in Workers, Exit(w) \/ ChildrenAbsent(w)
    PROVE  IInv'
<1> DEFINE Mine == {c \in Claims : claimant[c] = w}
<1>0. row' = row /\ outcome' = outcome /\ UNCHANGED <<evidence, unsafe>>
  BY DEF Exit, ChildrenAbsent, storeVars
<1>1. PICK native \in SUBSET {c \in Mine : phase[c] = "running"} :
        /\ life' = [life EXCEPT ![w] = IF native = {} THEN "gone" ELSE "dying"]
        /\ phase' = [c \in Claims |-> IF claimant[c] # w THEN phase[c]
                                      ELSE IF c \in native THEN "native" ELSE "none"]
  <2>1. CASE Exit(w)  BY <2>1 DEF Exit
  <2>2. CASE ChildrenAbsent(w)
    <3>1. /\ life' = [life EXCEPT ![w] = "gone"]
          /\ phase' = [c \in Claims |-> IF claimant[c] = w THEN "none" ELSE phase[c]]
      BY <2>2 DEF ChildrenAbsent
    <3>2. phase' = [c \in Claims |-> IF claimant[c] # w THEN phase[c]
                                     ELSE IF c \in {} THEN "native" ELSE "none"]
      BY <3>1
    <3>3. life' = [life EXCEPT ![w] = IF {} = {} THEN "gone" ELSE "dying"]  BY <3>1
    <3>4. {} \in SUBSET {c \in Mine : phase[c] = "running"}  OBVIOUS
    <3> HIDE DEF Mine
    <3> QED  BY <3>2, <3>3, <3>4
  <2> QED  BY <2>1, <2>2
<1>2. /\ life \in [Workers -> {"new", "up", "stopping", "dying", "gone"}] /\ phase \in [Claims -> Phases]
      /\ life[w] # "gone"
  BY DEF IInv, TypeOK, Exit, ChildrenAbsent, Alive
<1>3. life'[w] = (IF native = {} THEN "gone" ELSE "dying") /\ \A v \in Workers \ {w} : life'[v] = life[v]
  BY <1>1, <1>2
<1>4. Rewrites(row)  BY <1>0, SameRows
<1>5. MemoryOK'
  <2>1. life' \in [Workers -> {"new", "up", "stopping", "dying", "gone"}]  BY <1>1, <1>2
  <2>2. phase' \in [Claims -> Phases]  BY <1>1, <1>2 DEF Phases
  <2>3. watched' \in [Workers -> [Jobs -> 0..MaxAttempts]] /\ settledMsgs' \in [Workers -> [Jobs -> Nat]]
    <3>1. [k \in Jobs |-> 0] \in [Jobs -> 0..MaxAttempts] /\ [k \in Jobs |-> 0] \in [Jobs -> Nat]  BY Zero
    <3>2. watched \in [Workers -> [Jobs -> 0..MaxAttempts]] /\ settledMsgs \in [Workers -> [Jobs -> Nat]]
      BY DEF IInv, TypeOK
    <3> QED  BY <3>1, <3>2, ZenonT(60) DEF Exit, ChildrenAbsent
  <2> QED  BY <1>0, <2>1, <2>2, <2>3 DEF IInv, TypeOK, MemoryOK, evidence
<1>6. \A c \in Claims : Executing(c)' => Executing(c)  BY <1>1 DEF Executing
<1>7. claimant' = claimant /\ unsafe' = unsafe /\ proven' = proven /\ workerStopped' = workerStopped
  BY <1>0 DEF evidence
<1>8. Housed'
  <2>1. ASSUME NEW c \in Claims, phase'[c] # "none"
        PROVE  /\ outcome'[c] # "none" /\ claimant'[c] \in Workers
               /\ life'[claimant'[c]] = "dying" \/ (phase'[c] # "native" /\ life'[claimant'[c]] \in {"up", "stopping"})
               /\ life'[claimant'[c]] = "dying" => phase'[c] = "native"
    <3>1. CASE claimant[c] = w
      <4>1. c \in native /\ phase'[c] = "native" /\ phase[c] = "running"  BY <1>1, <2>1, <3>1
      <4>2. outcome[c] # "none"  BY <4>1 DEF IInv, Housed
      <4> QED  BY <1>0, <1>3, <1>7, <3>1, <4>1, <4>2
    <3>2. CASE claimant[c] # w
      <4>1. phase'[c] = phase[c]  BY <1>1, <3>2
      <4>2. /\ outcome[c] # "none" /\ claimant[c] \in Workers
            /\ life[claimant[c]] = "dying" \/ (phase[c] # "native" /\ Alive(claimant[c]))
            /\ life[claimant[c]] = "dying" => phase[c] = "native"
        BY <2>1, <4>1 DEF IInv, Housed
      <4> QED  BY <1>0, <1>3, <1>7, <3>2, <4>1, <4>2 DEF Alive
    <3> QED  BY <3>1, <3>2
  <2>2. \A v \in workerStopped' : life'[v] = "gone"
    BY <1>2, <1>3, <1>7 DEF IInv, Housed, TypeOK
  <2> QED  BY <2>1, <2>2 DEF Housed, Alive
<1> QED  BY <1>0, <1>4, <1>5, <1>6, <1>7, <1>8, Kept
-----------------------------------------------------------------------------
(* Steps of an execution. *)

\* One execution of a living worker moves on; its stop is recorded, or its claim given up, only
\* when its handler has returned.
LEMMA MoveKept ==
    ASSUME IInv, StoreInv', NEW j \in Jobs, NEW a \in Attempts, NEW p \in Phases \ {"none", "native"},
           NEW mid, Rewrites(mid), phase[<<j, a>>] \notin {"none", "native"}, Goes(j, a, p),
           UNCHANGED <<claimant, workerStopped, life, watched, settledMsgs, unsafe>>,
           proven' \in {proven, proven \cup {<<j, a>>}},
           \A c \in Claims : outcome[c] # "none" => outcome'[c] # "none",
           \A c \in Claims \ {<<j, a>>} : outcome'[c] = outcome[c],
           p \in {"admitting", "running"} => Executing(<<j, a>>) /\ outcome' = outcome /\ proven' = proven
    PROVE  IInv'
<1>0. <<j, a>> \in Claims /\ phase \in [Claims -> Phases] /\ proven \subseteq Claims
  BY DEF Claims, IInv, TypeOK
<1>1. phase'[<<j, a>>] = p /\ \A c \in Claims \ {<<j, a>>} : phase'[c] = phase[c]  BY <1>0 DEF Goes
<1>2. MemoryOK'
  <2>1. phase' \in [Claims -> Phases]  BY <1>0 DEF Goes
  <2>2. proven' \subseteq Claims  BY <1>0
  <2> QED  BY <2>1, <2>2 DEF IInv, TypeOK, MemoryOK
<1>3. Executing(<<j, a>>)' <=> p \in {"admitting", "running"}  BY <1>1 DEF Executing
<1>4. \A c \in Claims \ {<<j, a>>} : Executing(c)' <=> Executing(c)  BY <1>1 DEF Executing
<1>5. \A c \in Claims : Executing(c)' => Executing(c)  BY <1>3, <1>4
<1>6. outcome[<<j, a>>] # "none"  BY <1>0 DEF IInv, Housed
<1>7. \A c \in proven' : c \in proven \/ (outcome[c] # "none" /\ ~Executing(c)')  BY <1>3, <1>6
<1>8. \A c \in Claims : (outcome'[c] \in {"completed", "deferred"} /\ Executing(c)') => outcome'[c] = outcome[c]
  BY <1>3
<1>9. Housed'
  <2>1. ASSUME NEW c \in Claims, phase'[c] # "none"
        PROVE  /\ outcome'[c] # "none" /\ claimant'[c] \in Workers
               /\ life'[claimant'[c]] = "dying" \/ (phase'[c] # "native" /\ life'[claimant'[c]] \in {"up", "stopping"})
               /\ life'[claimant'[c]] = "dying" => phase'[c] = "native"
    <3>1. phase[c] # "none" /\ (phase'[c] = "native" <=> phase[c] = "native")  BY <1>1, <2>1
    <3>2. /\ outcome[c] # "none" /\ claimant[c] \in Workers
          /\ life[claimant[c]] = "dying" \/ (phase[c] # "native" /\ Alive(claimant[c]))
          /\ life[claimant[c]] = "dying" => phase[c] = "native"
      BY <3>1 DEF IInv, Housed
    <3> QED  BY <3>1, <3>2 DEF Alive
  <2>2. \A v \in workerStopped' : life'[v] = "gone"  BY DEF IInv, Housed
  <2> QED  BY <2>1, <2>2 DEF Housed, Alive
<1> QED  BY <1>2, <1>5, <1>7, <1>8, <1>9, Kept

\* An execution moves on without the store.
LEMMA UnsettledMoves ==
    ASSUME IInv, StoreInv', NEW j \in Jobs, NEW a \in Attempts,
           \/ StartHandler(j, a) \/ Return(j, a) \/ PublishRefused(j, a) \/ PutOffRefused(j, a)
           \/ ReportRefused(j, a) \/ LeaveToRecovery(j, a)
    PROVE  IInv'
<1> DEFINE P == Phases \ {"none", "native"}
           After == {"refused", "ok", "deferred", "failed", "failedSettling", "unsettled",
                     "unsettledSettling", "finishing"}
<1>1. /\ row' = row /\ outcome' = outcome
      /\ UNCHANGED <<claimant, workerStopped, life, watched, settledMsgs, unsafe>>
  BY DEF StartHandler, Return, PublishRefused, PutOffRefused, ReportRefused, LeaveToRecovery, Moves,
         storeVars, evidence
<1>2. proven' \in {proven, proven \cup {<<j, a>>}}
  BY DEF StartHandler, Return, PublishRefused, PutOffRefused, ReportRefused, LeaveToRecovery, Moves, evidence
<1>3. phase[<<j, a>>] \notin {"none", "native"}
  BY DEF StartHandler, Return, PublishRefused, PutOffRefused, ReportRefused, LeaveToRecovery, In
<1>4. \E p \in P : /\ Goes(j, a, p)
                   /\ p \in {"admitting", "running"} => Executing(<<j, a>>) /\ outcome' = outcome /\ proven' = proven
  <2>1. CASE StartHandler(j, a)
    <3>1. "running" \in P  BY DEF Phases
    <3> QED  BY <1>1, <2>1, <3>1 DEF StartHandler, In, Moves, evidence, Executing
  <2>2. CASE ~StartHandler(j, a)
    <3>1. \E p \in After : Goes(j, a, p)
      <4>1. CASE Return(j, a)  BY <4>1 DEF Return, ReturnsTo
      <4>2. CASE PublishRefused(j, a)  BY <4>2 DEF PublishRefused, Moves
      <4>3. CASE PutOffRefused(j, a)  BY <4>3 DEF PutOffRefused, Moves
      <4>4. CASE ReportRefused(j, a)  BY <4>4 DEF ReportRefused, Moves
      <4>5. CASE LeaveToRecovery(j, a)  BY <4>5 DEF LeaveToRecovery, Moves
      <4> QED  BY <2>2, <4>1, <4>2, <4>3, <4>4, <4>5
    <3>2. After \subseteq P /\ \A p \in After : p \notin {"admitting", "running"}  BY DEF Phases
    <3> QED  BY <3>1, <3>2
  <2> QED  BY <2>1, <2>2
<1>5. Rewrites(row)  BY <1>1, SameRows
<1> HIDE DEF After
<1> QED  BY <1>1, <1>2, <1>3, <1>4, <1>5, MoveKept

\* A producer's progress.
LEMMA CheckpointKept ==
    ASSUME IInv, StoreInv', NEW j \in Jobs, NEW a \in Attempts, SaveCheckpoint(j, a)
    PROVE  IInv'
<1>1. QuietStep /\ outcome' = outcome  BY ColumnStepsQuiet DEF SaveCheckpoint, IInv
<1> QED  BY <1>1, QuietKept DEF SaveCheckpoint, QuietStep

\* An execution whose handler has returned settles its claim.
LEMMA SettlesKept ==
    ASSUME IInv, StoreInv', NEW j \in Jobs, NEW a \in Attempts,
           Publish(j, a) \/ PutOff(j, a) \/ Report(j, a) \/ SettleStopped(j, a)
    PROVE  IInv'
<1> DEFINE settling == In(j, a, {"unsettledSettling"})
           reporting == In(j, a, {"failedSettling"})
<1>0. StoreInv /\ <<j, a>> \in Claims /\ outcome \in [Claims -> Outcomes] /\ phase \in [Claims -> Phases]
  BY DEF IInv, TypeOK, StoreTypeOK, Claims
<1>1. phase[<<j, a>>] \notin {"none", "native"} /\ Moves(j, a, "finishing")
  BY DEF Publish, PutOff, Report, SettleStopped, In
<1>2. PICK y, s : /\ Released(j, y) /\ s \in Outcomes \ {"none", "open"}
                  /\ outcome' = [outcome EXCEPT ![<<j, a>>] = s]
  <2>1. CASE Publish(j, a)
    <3>1. "completed" \in Outcomes \ {"none", "open"}  BY DEF Outcomes
    <3> QED  BY <1>0, <2>1, <3>1, CompleteReleases DEF Publish
  <2>2. CASE PutOff(j, a)
    <3>1. "deferred" \in Outcomes \ {"none", "open"}  BY DEF Outcomes
    <3> QED  BY <1>0, <2>2, <3>1, DeferReleases DEF PutOff
  <2>3. CASE Report(j, a)
    <3>1. Fail(j, a, Stopped(j), reporting, FALSE)  BY <2>3 DEF Report
    <3> HIDE DEF reporting
    <3> QED  BY <1>0, <3>1, FailReleases
  <2>4. CASE SettleStopped(j, a)
    <3> DEFINE only == ~settling
    <3>1. Fail(j, a, Stopped(j), settling, only)  BY <2>4 DEF SettleStopped
    <3> HIDE DEF settling, only
    <3> QED  BY <1>0, <3>1, FailReleases
  <2> QED  BY <2>1, <2>2, <2>3, <2>4
<1>3. phase'[<<j, a>>] = "finishing" /\ row[j].state = "active" /\ row[j].token = a
  <2>1. Owned(j, a)
    BY DEF Publish, PutOff, Report, SettleStopped, Complete, Defer, Fail, Fenced
  <2> QED  BY <1>0, <1>1, <2>1 DEF Moves, Goes, Owned
<1>4. a = row[j].attempt  BY <1>0, <1>3, NumbersAssumption DEF StoreInv, Shape, Attempts
<1>5. ~Executing(<<j, a>>)'  BY <1>3 DEF Executing
<1> DEFINE mid == [row EXCEPT ![j] = y]
<1>6. Rewrites(mid)  BY <1>2, <1>4, <1>5, ReleaseRewrites
<1> HIDE DEF mid
<1>7. /\ \A c \in Claims : outcome[c] # "none" => outcome'[c] # "none"
      /\ \A c \in Claims \ {<<j, a>>} : outcome'[c] = outcome[c]
  BY <1>0, <1>2
<1>8. "finishing" \in Phases \ {"none", "native"} /\ "finishing" \notin {"admitting", "running"}  BY DEF Phases
<1>9. /\ Goes(j, a, "finishing") /\ proven' = proven
      /\ UNCHANGED <<claimant, workerStopped, life, watched, settledMsgs, unsafe>>
  BY <1>1 DEF Moves, evidence
<1> QED  BY <1>1, <1>6, <1>7, <1>8, <1>9, MoveKept

\* execute() is over.
LEMMA FinishKept ==
    ASSUME IInv, StoreInv', NEW j \in Jobs, NEW a \in Attempts, Finish(j, a)
    PROVE  IInv'
<1>0. /\ <<j, a>> \in Claims /\ phase \in [Claims -> Phases] /\ row' = row /\ outcome' = outcome
      /\ settledMsgs \in [Workers -> [Jobs -> Nat]]
      /\ UNCHANGED <<claimant, proven, workerStopped, life, watched, unsafe>>
      /\ phase[<<j, a>>] = "finishing" /\ phase' = [phase EXCEPT ![<<j, a>>] = "none"]
  BY DEF Claims, IInv, TypeOK, Finish, In, Goes, storeVars, evidence
<1>1. phase'[<<j, a>>] = "none" /\ \A c \in Claims \ {<<j, a>>} : phase'[c] = phase[c]  BY <1>0
<1>2. MemoryOK'
  <2>1. claimant[<<j, a>>] \in Workers  BY <1>0 DEF IInv, Housed
  <2>2. settledMsgs' \in [Workers -> [Jobs -> Nat]]
    <3>1. settledMsgs[claimant[<<j, a>>]][j] + 1 \in Nat  BY <1>0, <2>1
    <3> QED  BY <1>0, <2>1, <3>1 DEF Finish
  <2>3. phase' \in [Claims -> Phases]  BY <1>0 DEF Phases
  <2> QED  BY <1>0, <2>2, <2>3 DEF IInv, TypeOK, MemoryOK
<1>3. \A c \in Claims : Executing(c)' => Executing(c)  BY <1>1 DEF Executing
<1>4. Rewrites(row)  BY <1>0, SameRows
<1>5. Housed'
  <2>1. \A c \in Claims : phase'[c] # "none" => phase'[c] = phase[c]  BY <1>1
  <2> QED  BY <1>0, <2>1 DEF IInv, Housed, Alive
<1> QED  BY <1>0, <1>2, <1>3, <1>4, <1>5, Kept
-----------------------------------------------------------------------------
(* The one step that starts an execution. *)

\* A claim is granted to a waiting row, whose guard is down: no unrepeatable executor of its
\* request can still run.
LEMMA DispatchKept ==
    ASSUME IInv, StoreInv', NEW w \in Workers, NEW j \in Jobs, Dispatch(w, j)
    PROVE  IInv'
<1> DEFINE a == row[j].attempt + 1
           c == <<j, a>>
           fresh == IF row[j].req.safe /\ ~row[j].req.op THEN unsafe ELSE unsafe \cup {c}
<1>0. /\ StoreInv /\ life[w] = "up" /\ Claim(w, j)
      /\ claimant' = [claimant EXCEPT ![c] = w] /\ phase' = [phase EXCEPT ![c] = "admitting"]
      /\ watched' = [watched EXCEPT ![w][j] = a] /\ unsafe' = fresh
      /\ UNCHANGED <<proven, workerStopped, life, settledMsgs>>
  BY DEF Dispatch, Up, IInv
<1>1. /\ row[j].state = "pending" /\ a \in Attempts
      /\ Table(row') /\ \A k \in Jobs \ {j} : row'[k] = row[k]
      /\ row'[j].state = "active" /\ row'[j].token = a /\ row'[j].attempt = a
      /\ row'[j].armed = row[j].armed /\ row'[j].req = row[j].req /\ row'[j].worker = w
      /\ outcome' = [outcome EXCEPT ![c] = "open"]
  BY <1>0, ClaimEffect
<1>2. /\ claimant \in [Claims -> Workers \cup {NoWorker}] /\ phase \in [Claims -> Phases]
      /\ watched \in [Workers -> [Jobs -> 0..MaxAttempts]] /\ outcome \in [Claims -> Outcomes]
      /\ proven \subseteq Claims /\ unsafe \subseteq Claims
  BY DEF IInv, TypeOK, StoreTypeOK
<1>3. c \in Claims  BY <1>1 DEF Claims
<1>4. outcome[c] = "none"
  <2>1. row[j].attempt \in Nat  BY <1>0, ShapeNumbers DEF StoreInv
  <2>2. a > row[j].attempt  BY <2>1
  <2> QED  BY <1>0, <1>1, <2>2 DEF StoreInv, AuditMatches
<1>5. phase[c] = "none" /\ c \notin proven /\ c \notin unsafe
  BY <1>3, <1>4 DEF IInv, Housed, Truthful
<1>6. \A d \in Claims \ {c} : phase'[d] = phase[d] /\ outcome'[d] = outcome[d] /\ claimant'[d] = claimant[d]
  BY <1>0, <1>1, <1>2, <1>3
<1>7. phase'[c] = "admitting" /\ outcome'[c] = "open" /\ claimant'[c] = w
  BY <1>0, <1>1, <1>2, <1>3
<1>8. MemoryOK'
  <2>1. claimant' \in [Claims -> Workers \cup {NoWorker}]  BY <1>0, <1>2, <1>3
  <2>2. phase' \in [Claims -> Phases]
    <3>1. "admitting" \in Phases  BY DEF Phases
    <3> QED  BY <1>0, <1>2, <1>3, <3>1
  <2>3. watched' \in [Workers -> [Jobs -> 0..MaxAttempts]]
    <3>1. a \in 0..MaxAttempts  BY <1>1, NumbersAssumption DEF Attempts
    <3> HIDE DEF a
    <3> QED  BY <1>0, <1>2, <3>1
  <2>4. unsafe' \subseteq Claims  BY <1>0, <1>2, <1>3
  <2> QED  BY <1>0, <2>1, <2>2, <2>3, <2>4 DEF IInv, TypeOK, MemoryOK
<1>9. TypeOK'  BY <1>8, TypeParts DEF StoreInv, TypeOK, MemoryOK
<1> HIDE DEF c
<1>10. Housed'
  <2>1. ASSUME NEW d \in Claims, phase'[d] # "none"
        PROVE  /\ outcome'[d] # "none" /\ claimant'[d] \in Workers
               /\ life'[claimant'[d]] = "dying" \/ (phase'[d] # "native" /\ life'[claimant'[d]] \in {"up", "stopping"})
               /\ life'[claimant'[d]] = "dying" => phase'[d] = "native"
    <3>1. CASE d = c  BY <1>0, <1>7, <3>1
    <3>2. CASE d # c
      <4>1. phase'[d] = phase[d] /\ outcome'[d] = outcome[d] /\ claimant'[d] = claimant[d]  BY <1>6, <3>2
      <4> QED  BY <1>0, <2>1, <4>1 DEF IInv, Housed, Alive
    <3> QED  BY <3>1, <3>2
  <2>2. \A v \in workerStopped' : life'[v] = "gone"  BY <1>0 DEF IInv, Housed
  <2> QED  BY <2>1, <2>2 DEF Housed, Alive
<1>11. \A d \in Claims \ {c} : Executing(d)' <=> Executing(d)  BY <1>6 DEF Executing
<1>12. Truthful'
  <2>1. ASSUME NEW d \in proven' PROVE outcome'[d] # "none" /\ ~Executing(d)'
    <3>1. d \in Claims \ {c} /\ d \in proven  BY <1>0, <1>2, <1>5
    <3> QED  BY <1>6, <1>11, <3>1 DEF IInv, Truthful
  <2>2. ASSUME NEW d \in Claims, Executing(d)' PROVE outcome'[d] \notin {"completed", "deferred"}
    <3>1. CASE d = c  BY <1>7, <3>1
    <3>2. CASE d # c  BY <1>6, <1>11, <2>2, <3>2 DEF IInv, Truthful
    <3> QED  BY <3>1, <3>2
  <2>3. ASSUME NEW d \in unsafe' PROVE outcome'[d] # "none"
    <3>1. CASE d = c  BY <1>7, <3>1
    <3>2. CASE d # c
      <4>1. d \in unsafe /\ d \in Claims  BY <1>0, <1>2, <3>2
      <4> QED  BY <1>6, <3>2, <4>1 DEF IInv, Truthful
    <3> QED  BY <3>1, <3>2
  <2> QED  BY <2>1, <2>2, <2>3 DEF Truthful
<1>13. Held'
  <2>1. ASSUME NEW k \in Jobs, row'[k].state = "active"
        PROVE  claimant'[<<k, row'[k].token>>] = row'[k].worker
    <3>1. CASE k = j  BY <1>1, <1>7, <3>1 DEF c
    <3>2. CASE k # j
      <4>1. row'[k] = row[k] /\ Shape(row[k])  BY <1>0, <1>1, <3>2 DEF StoreInv
      <4>2. row[k].token # 0 /\ row[k].token \in 0..MaxAttempts  BY <2>1, <4>1, ShapeNumbers DEF Shape
      <4>3. <<k, row[k].token>> \in Claims  BY <4>2, NumbersAssumption DEF Claims, Attempts
      <4>4. <<k, row[k].token>> # c  BY <3>2 DEF c
      <4> QED  BY <1>6, <2>1, <4>1, <4>3, <4>4 DEF IInv, Held
    <3> QED  BY <3>1, <3>2
  <2> QED  BY <2>1 DEF Held
<1>14. Alone'
  <2>1. ASSUME NEW d \in unsafe', Executing(d)', d[2] > row'[d[1]].armed
        PROVE  d[2] = row'[d[1]].attempt /\ Guarded(row'[d[1]])
    <3>1. CASE d = c
      <4>1. ~(row[j].req.safe /\ ~row[j].req.op)  BY <1>0, <1>5, <3>1
      <4>2. Shape(row'[j])  BY <1>1 DEF Table
      <4>3. row'[j].oper # "released"  BY <1>1, <4>2 DEF Shape
      <4>4. d[1] = j /\ d[2] = a  BY <3>1 DEF c
      <4> QED  BY <1>1, <4>1, <4>3, <4>4 DEF Guarded
    <3>2. CASE d # c
      <4>1. d \in unsafe /\ d \in Claims /\ Executing(d)  BY <1>0, <1>2, <1>11, <2>1, <3>2
      <4>2. d[1] \in Jobs  BY <4>1, ClaimPairs
      <4>3. row'[d[1]].armed = row[d[1]].armed  BY <1>1, <4>2
      <4>4. d[2] = row[d[1]].attempt /\ Guarded(row[d[1]])  BY <2>1, <4>1, <4>3 DEF IInv, Alone
      <4>5. d[1] # j  BY <1>1, <4>4 DEF Guarded
      <4> QED  BY <1>1, <4>2, <4>4, <4>5
    <3> QED  BY <3>1, <3>2
  <2> QED  BY <2>1 DEF Alone, Guarded
<1> QED  BY <1>9, <1>10, <1>12, <1>13, <1>14 DEF IInv

-----------------------------------------------------------------------------
(* The theorems. *)

\* The queue starts with no claims and no workers.
LEMMA InitInv == Init => IInv
<1> SUFFICES ASSUME Init PROVE IInv  OBVIOUS
<1>1. StoreInv  BY StoreInitInv DEF Init
<1>2. MemoryOK
  <2>1. "none" \in Phases  BY DEF Phases
  <2>2. [k \in Jobs |-> 0] \in [Jobs -> 0..MaxAttempts] /\ [k \in Jobs |-> 0] \in [Jobs -> Nat]  BY Zero
  <2> QED  BY <2>1, <2>2 DEF Init, MemoryOK
<1>3. \A c \in Claims : phase[c] = "none" /\ ~Executing(c)  BY DEF Init, Executing
<1>4. Housed  BY <1>3 DEF Housed, Init
<1>5. Truthful  BY <1>3 DEF Truthful, Init
<1>6. Held  BY DEF Held, Init, StoreInit, AbsentRow
<1>7. Alone  BY DEF Alone, Init
<1>8. TypeOK  BY <1>1, <1>2, TypeParts DEF StoreInv
<1> QED  BY <1>1, <1>4, <1>5, <1>6, <1>7, <1>8 DEF IInv

\* Every step keeps the inductive invariant.
LEMMA NextKept == ASSUME IInv, Next PROVE IInv'
<1>0. StoreInv'  BY StoreKept
<1>1. CASE Administer /\ UNCHANGED <<evidence, memory, unsafe>>  BY <1>0, <1>1, AdministerKept
<1>2. CASE Coordinate
  <2>1. CASE \E w \in Workers : Start(w)  BY <1>0, <2>1, LifeKept
  <2>2. CASE \E w \in Workers : Heartbeat(w)  BY <1>0, <2>2, QuietCoordination
  <2>3. CASE \E w \in Workers, j \in Jobs : Dispatch(w, j)  BY <1>0, <2>3, DispatchKept
  <2>4. CASE \E w \in Workers, j \in Jobs : WatchDeadline(w, j)  BY <1>0, <2>4, QuietCoordination
  <2>5. CASE \E w \in Workers, j \in Jobs : SettledMessage(w, j)  BY <1>0, <2>5, RecordsKept
  <2>6. CASE \E j \in Jobs : SettleQueued(j)  BY <1>0, <2>6, QuietCoordination
  <2>7. CASE \E j \in Jobs : Sweep(j)  BY <1>0, <2>7, SweepKept
  <2>8. CASE \E r \in Runs : SweepRun(r)  BY <1>0, <2>8, QuietCoordination
  <2> QED  BY <1>2, <2>1, <2>2, <2>3, <2>4, <2>5, <2>6, <2>7, <2>8 DEF Coordinate
<1>3. ASSUME NEW j \in Jobs, NEW a \in Attempts, Execute(j, a) PROVE IInv'
  <2>1. CASE \/ StartHandler(j, a) \/ Return(j, a) \/ PublishRefused(j, a) \/ PutOffRefused(j, a)
             \/ ReportRefused(j, a) \/ LeaveToRecovery(j, a)
    BY <1>0, <2>1, UnsettledMoves
  <2>2. CASE SaveCheckpoint(j, a)  BY <1>0, <2>2, CheckpointKept
  <2>3. CASE Publish(j, a) \/ PutOff(j, a) \/ Report(j, a) \/ SettleStopped(j, a)
    BY <1>0, <2>3, SettlesKept
  <2>4. CASE Finish(j, a)  BY <1>0, <2>4, FinishKept
  <2> QED  BY <1>3, <2>1, <2>2, <2>3, <2>4 DEF Execute, Settles
<1>4. CASE Supervise
  <2>1. CASE \E w \in Workers : StopWorker(w)  BY <1>0, <2>1, LifeKept
  <2>2. CASE \E w \in Workers : Exit(w) \/ ChildrenAbsent(w)  BY <1>0, <2>2, ExitKept
  <2>3. CASE \E w \in Workers : RecordWorkerStopped(w)  BY <1>0, <2>3, RecordsKept
  <2> QED  BY <1>4, <2>1, <2>2, <2>3 DEF Supervise, Crash, Terminate
<1> QED  BY <1>1, <1>2, <1>3, <1>4 DEF Next

\* The inductive invariant holds throughout.
LEMMA QueueIInv == Spec => []IInv
<1>1. IInv /\ UNCHANGED vars => IInv'
  BY DEF IInv, StoreInv, StoreTypeOK, PublishedIsOver, AuditMatches, TypeOK, Housed, Truthful, Held, Alone,
         Alive, Executing, vars, storeVars, evidence, memory
<1> QED  BY InitInv, NextKept, <1>1, PTL DEF Spec

\* Neither a row nor an operation of unrepeatable work is given to a second executor while the
\* first may run: fail() holds such a row until the stop is on record, and only that record, a
\* person, or another request takes the row's guard down.
THEOREM NoSecondExecutor == Spec => []QueueInv
<1>1. IInv => QueueInv
  <2> SUFFICES ASSUME IInv PROVE QueueInv  OBVIOUS
  <2>1. UnsafeRunsAlone
    <3> SUFFICES ASSUME NEW c \in unsafe, Executing(c), ~(c[2] <= row[c[1]].armed)
                 PROVE  c[2] = row[c[1]].attempt
      BY DEF UnsafeRunsAlone
    <3>1. c \in Claims  BY DEF IInv, TypeOK
    <3>2. c[1] \in Jobs /\ c[2] \in Nat /\ row[c[1]].armed \in Nat
      BY <3>1, ClaimPairs, ShapeNumbers DEF IInv, StoreInv
    <3> QED  BY <3>2 DEF IInv, Alone
  <2>2. ReleasedOperationStopped
    <3> SUFFICES ASSUME NEW j \in Jobs, row[j].oper = "released", NEW a \in Attempts,
                        <<j, a>> \in unsafe, a > row[j].armed, Executing(<<j, a>>)
                 PROVE  FALSE
      BY DEF ReleasedOperationStopped
    <3> QED  BY DEF IInv, Alone, Guarded
  <2> QED  BY <2>1, <2>2 DEF QueueInv, IInv
<1> QED  BY QueueIInv, <1>1, PTL

\* The same, of the rows alone: the run over the whole stage graph checks it by itself.
THEOREM UnrepeatableRunsAlone == Spec => []UnsafeRunsAlone
<1>1. QueueInv => UnsafeRunsAlone  BY DEF QueueInv
<1> QED  BY NoSecondExecutor, <1>1, PTL

\* No stop is on record, and no completed or deferred audit, of an executor that may still run.
THEOREM EvidenceNeverAhead == Spec => []EvidenceIsTrue
<1>1. IInv => EvidenceIsTrue
  <2> SUFFICES ASSUME IInv, NEW c \in Claims, Executing(c)
               PROVE  ~ProofOf(c) /\ outcome[c] \notin {"completed", "deferred"}
    BY DEF EvidenceIsTrue
  <2>1. life[claimant[c]] # "gone"  BY DEF IInv, Housed, Executing, Alive
  <2> QED  BY <2>1 DEF ProofOf, IInv, Housed, Truthful
<1> QED  BY QueueIInv, <1>1, PTL

\* The queue at work implements the store on its own, so that the theorems about StoreSpec
\* hold of it: executors, coordinators and supervisors only narrow down who calls, when, and
\* with which evidence.
THEOREM QueueImplementsStore == Spec => StoreSpec
<1>1. Init => StoreInit  BY DEF Init
<1>2. [Next]_vars => [StoreNext]_storeVars  BY NextIsStoreStep DEF vars
<1> QED  BY <1>1, <1>2, PTL DEF Spec, StoreSpec

\* So the queue at work publishes a request once, keeps to the retry budget, leaves no live job in
\* a finished run without parked stages, never revises an audit and never loses a latest request.
COROLLARY QueueKeepsPromises ==
    Spec => /\ [](PublishedOnce /\ BudgetKept /\ FinishedRunsQuiet)
            /\ AuditIsFinal /\ LatestKept
BY QueueImplementsStore, PublishedOnceCorrect, BudgetIsKept, FinishedRunsStayQuiet, AuditIsFinalCorrect,
   LatestNeverLost, PTL

-----------------------------------------------------------------------------
(* What a cancelled row says of its executors. *)

\* Settling a row cancels that row only, and only with the stop on record.
LEMMA SettleCancels ==
    ASSUME IInv, Indexed(row), NEW k \in Jobs, row[k].state \in {"pending", "active"}, NEW u, NEW h, NEW cs,
           Settle(k, u, h, cs), NEW j \in Jobs, row[j].state # "cancelled", row'[j].state = "cancelled"
    PROVE  j = k /\ ~u
<1> DEFINE y == FailedRow(row[k], u, h)
           rows == [row EXCEPT ![k] = y]
<1>0. StoreInv /\ Shape(row[k]) /\ row \in [Jobs -> Row]  BY DEF IInv, StoreInv, StoreTypeOK
<1>1. \E R : Proceeds(rows, row', R)  BY <1>0, SettleProceeds
<1>2. y.state = FailState(row[k], u)  BY <1>0, FailedShape
<1>3. rows[j] = IF j = k THEN y ELSE row[j]  BY <1>0
<1> HIDE DEF rows, y
<1>4. rows[j].state = "cancelled"  BY <1>1 DEF Proceeds, Spares
<1>5. j = k /\ FailState(row[k], u) = "cancelled"  BY <1>2, <1>3, <1>4
<1> QED  BY <1>5 DEF FailState, UnconfirmedAttention

\* Rows that keep their requests are not cancelled.
LEMMA SameNotCancelled ==
    ASSUME NEW j \in Jobs, row[j].state # "cancelled", Same(row[j], row'[j])
    PROVE  row'[j].state # "cancelled"
BY DEF Same, Live

\* The step that cancels a row without Clear().
LEMMA CancelStep ==
    ASSUME IInv, Indexed(row), Next, NEW j \in Jobs, row[j].state # "cancelled", row'[j].state = "cancelled",
           ~\E S \in SUBSET Jobs : j \in S /\ Clear(S)
    PROVE  \/ SettleQueued(j) /\ StoppedJobAttempts(j)
           \/ Sweep(j) /\ Stopped(j)
           \/ \E a \in Attempts : Report(j, a) \/ SettleStopped(j, a)
<1>0. StoreInv /\ row \in [Jobs -> Row]  BY DEF IInv, StoreInv, StoreTypeOK
<1>1. ASSUME Spares(row[j], row'[j]) PROVE FALSE  BY <1>1 DEF Spares
<1>2. ASSUME Same(row[j], row'[j]) PROVE FALSE  BY <1>2, SameNotCancelled
<1>3. ASSUME row' = row PROVE FALSE  BY <1>3
<1>4. ASSUME Administer PROVE FALSE
  <2>1. CASE \E r \in Requests : Request(r)  BY <1>0, <1>1, <2>1, RequestEnters DEF Proceeds
  <2>2. CASE \E b \in BOOLEAN : Pause(b)  BY <1>3, <2>2 DEF Pause
  <2>3. CASE \E S \in SUBSET Jobs : Clear(S)
    <3>1. PICK S \in SUBSET Jobs : Clear(S)  BY <2>3
    <3> QED  BY <1>0, <1>1, <3>1, ClearLowers
  <2>4. CASE \/ \E S \in SUBSET Failed : RetryFailed(S)
             \/ \E r \in Runs, S \in SUBSET Jobs : S \subseteq Repeatable(r) /\ RetryRun(r, S)
    BY <1>0, <1>1, <2>4, RetrySteps DEF Proceeds
  <2>5. CASE \E k \in Jobs : StartNow(k) \/ WakeDeferred(k) \/ RequestCancel(k) \/ LeaseAges(k) \/ DelayPasses(k)
    BY <1>0, <1>2, <2>5, SameSteps
  <2>6. CASE \E r \in Runs : ReleaseRun(r) \/ \E S \in SUBSET Items : SetRunHolds(r, S)
    BY <1>0, <1>3, <2>6, RunHoldsQuiet
  <2> QED  BY <1>4, <2>1, <2>2, <2>3, <2>4, <2>5, <2>6 DEF Administer
<1>5. CASE Coordinate
  <2>1. ASSUME \E w \in Workers : Start(w) PROVE FALSE  BY <1>3, <2>1 DEF Start, storeVars
  <2>2. ASSUME \E w \in Workers : Heartbeat(w) PROVE FALSE  BY <1>0, <1>2, <2>2, RenewSame DEF Heartbeat
  <2>3. ASSUME NEW w \in Workers, NEW k \in Jobs, Dispatch(w, k) PROVE FALSE
    <3>1. Claim(w, k)  BY <2>3 DEF Dispatch
    <3> QED  BY <1>0, <1>2, <3>1, SameSteps
  <2>4. ASSUME NEW w \in Workers, NEW k \in Jobs, WatchDeadline(w, k) PROVE FALSE
    <3>1. Deadline(w, k)  BY <2>4 DEF WatchDeadline
    <3> QED  BY <1>0, <1>2, <3>1, SameSteps
  <2>5. ASSUME NEW w \in Workers, NEW k \in Jobs, SettledMessage(w, k) PROVE FALSE
    BY <1>3, <2>5 DEF SettledMessage, storeVars
  <2>6. ASSUME NEW k \in Jobs, SettleQueued(k) PROVE j = k /\ StoppedJobAttempts(k)
    <3> DEFINE u == ~StoppedJobAttempts(k)
               cs == {<<k, a>> : a \in {b \in Attempts : outcome[<<k, b>>] = "open"}}
    <3>1. row[k].state = "pending" /\ Settle(k, u, u, cs)  BY <2>6 DEF SettleQueued, CancelQueued
    <3> HIDE DEF u, cs
    <3>2. j = k /\ ~u  BY <3>1, SettleCancels
    <3> QED  BY <3>2 DEF u
  <2>7. ASSUME NEW k \in Jobs, Sweep(k) PROVE j = k /\ Stopped(k)
    <3> DEFINE u == ~Stopped(k)
               h == TRUE
               cs == {<<k, row[k].token>>}
               y == [row[k] EXCEPT !.cancel = "deadline"]
    <3>1. row[k].state = "active" /\ RecoverExpired(k, Stopped(k))  BY <2>7 DEF Sweep, RecoverExpired
    <3>2. CASE row' = [row EXCEPT ![k].cancel = "deadline"]
      <4>1. row' = [row EXCEPT ![k] = y] /\ row[k] \in Row  BY <1>0, <3>2
      <4>2. Same(row[k], y) /\ \A x : Same(x, x)  BY <4>1 DEF Same, Row
      <4> HIDE DEF y
      <4>3. row'[j] = IF j = k THEN y ELSE row[j]  BY <1>0, <4>1
      <4> QED  BY <1>2, <4>2, <4>3
    <3>3. CASE Settle(k, u, h, cs)
      <4> HIDE DEF u, h, cs
      <4>1. j = k /\ ~u  BY <3>1, <3>3, SettleCancels
      <4> QED  BY <4>1 DEF u
    <3> QED  BY <3>1, <3>2, <3>3 DEF RecoverExpired
  <2>8. ASSUME \E r \in Runs : SweepRun(r) PROVE FALSE  BY <1>3, <2>8 DEF SweepRun, FinishRun
  <2> QED  BY <1>5, <2>1, <2>2, <2>3, <2>4, <2>5, <2>6, <2>7, <2>8 DEF Coordinate
<1>6. ASSUME NEW k \in Jobs, NEW a \in Attempts, Execute(k, a)
      PROVE  j = k /\ (Report(j, a) \/ SettleStopped(j, a))
  <2>1. ASSUME \/ StartHandler(k, a) \/ Return(k, a) \/ PublishRefused(k, a) \/ PutOffRefused(k, a)
               \/ ReportRefused(k, a) \/ LeaveToRecovery(k, a) \/ Finish(k, a)
        PROVE  FALSE
    <3>1. row' = row
      BY <2>1 DEF StartHandler, Return, PublishRefused, PutOffRefused, ReportRefused, LeaveToRecovery, Finish, storeVars
    <3> QED  BY <1>3, <3>1
  <2>2. ASSUME SaveCheckpoint(k, a) PROVE FALSE
    <3>1. Checkpoint(k, a)  BY <2>2 DEF SaveCheckpoint
    <3> QED  BY <1>0, <1>2, <3>1, SameSteps
  <2>3. ASSUME PutOff(k, a) PROVE FALSE
    <3>1. Defer(k, a)  BY <2>3 DEF PutOff
    <3> QED  BY <1>0, <1>2, <3>1, SameSteps
  <2>4. ASSUME Publish(k, a) PROVE FALSE
    <3> DEFINE y == CompletedRow(row[k])
               rows == [row EXCEPT ![k] = y]
    <3>1. Complete(k, a) /\ row[k].state = "active" /\ row[k] \in Row
      BY <1>0, <2>4 DEF Publish, Complete, Fenced, Owned
    <3>2. \E R : Proceeds(rows, row', R)  BY <1>0, <3>1, CompleteProceeds
    <3>3. y.state = "completed"  BY <3>1, CompletedLowers
    <3>4. rows[j] = IF j = k THEN y ELSE row[j]  BY <1>0
    <3> HIDE DEF rows, y
    <3>5. rows[j].state = "cancelled"  BY <3>2 DEF Proceeds, Spares
    <3> QED  BY <3>3, <3>4, <3>5
  <2>5. ASSUME NEW stopped, NEW settling, NEW onlyStopped, Fail(k, a, stopped, settling, onlyStopped) PROVE j = k
    <3> DEFINE u == StopRequested(row[k]) /\ ~stopped
               h == FALSE
               cs == {<<k, a>>}
    <3>1. row[k].state \in {"pending", "active"} /\ Settle(k, u, h, cs)  BY <2>5 DEF Fail, Owned
    <3> HIDE DEF u, h, cs
    <3> QED  BY <3>1, SettleCancels
  <2>6. CASE Report(k, a)
    <3> DEFINE settling == In(k, a, {"failedSettling"})
    <3>1. Fail(k, a, Stopped(k), settling, FALSE)  BY <2>6 DEF Report
    <3> HIDE DEF settling
    <3>2. j = k  BY <2>5, <3>1
    <3> QED  BY <2>6, <3>2
  <2>7. CASE SettleStopped(k, a)
    <3> DEFINE settling == In(k, a, {"unsettledSettling"})
               only == ~settling
    <3>1. Fail(k, a, Stopped(k), settling, only)  BY <2>7 DEF SettleStopped
    <3> HIDE DEF settling, only
    <3>2. j = k  BY <2>5, <3>1
    <3> QED  BY <2>7, <3>2
  <2> QED  BY <1>6, <2>1, <2>2, <2>3, <2>4, <2>6, <2>7 DEF Execute, Settles
<1>7. ASSUME Supervise PROVE FALSE
  <2>1. row' = row
    BY <1>7 DEF Supervise, StopWorker, Crash, Terminate, Exit, ChildrenAbsent, RecordWorkerStopped, storeVars
  <2> QED  BY <1>3, <2>1
<1> QED  BY <1>4, <1>5, <1>6, <1>7 DEF Next

\* A row is cancelled on request only when the executor of its claim, or every executor a waiting
\* row ever had, has really stopped.
THEOREM CancelledMeansStopped == Spec => CancelledIsStopped
<1>1. ASSUME IInv, Indexed(row), Next, NEW j \in Jobs, row[j].state # "cancelled", row'[j].state = "cancelled",
             ~\E S \in SUBSET Jobs : j \in S /\ Clear(S),
             NEW a \in Attempts, a = row[j].attempt \/ row[j].state = "pending"
      PROVE  ~Executing(<<j, a>>)'
  <2>0. <<j, a>> \in Claims /\ Shape(row[j]) /\ a \in Nat /\ a # 0 /\ row[j].attempt \in Nat
    BY <1>1, ShapeNumbers, NumbersAssumption DEF Claims, Attempts, IInv, StoreInv
  <2>1. ASSUME ProofOf(<<j, a>>) \/ outcome[<<j, a>>] \in {"completed", "none"} PROVE ~Executing(<<j, a>>)
    <3> SUFFICES ASSUME Executing(<<j, a>>) PROVE FALSE  OBVIOUS
    <3>1. outcome[<<j, a>>] # "none" /\ life[claimant[<<j, a>>]] # "gone"
      BY <1>1, <2>0 DEF IInv, Housed, Executing, Alive
    <3> QED  BY <1>1, <2>0, <2>1, <3>1 DEF IInv, Housed, Truthful, ProofOf
  <2>2. CASE SettleQueued(j) /\ StoppedJobAttempts(j)
    <3>1. phase' = phase  BY <2>2 DEF SettleQueued, memory
    <3>2. CASE a <= row[j].attempt
      <4>1. a \in 1..row[j].attempt  BY <2>0, <3>2
      <4>2. outcome[<<j, a>>] = "completed" \/ ProofOf(<<j, a>>)  BY <2>2, <4>1 DEF StoppedJobAttempts
      <4> QED  BY <2>1, <3>1, <4>2 DEF Executing
    <3>3. CASE a > row[j].attempt
      <4>1. outcome[<<j, a>>] = "none"  BY <1>1, <3>3 DEF IInv, StoreInv, AuditMatches
      <4> QED  BY <2>1, <3>1, <4>1 DEF Executing
    <3> QED  BY <2>0, <3>2, <3>3
  <2>3. CASE Sweep(j) /\ Stopped(j)
    <3>1. phase' = phase /\ row[j].state = "active"  BY <2>3 DEF Sweep, RecoverExpired, memory
    <3>2. a = row[j].token /\ claimant[<<j, a>>] = row[j].worker  BY <1>1, <2>0, <3>1 DEF Shape, IInv, Held
    <3>3. ProofOf(<<j, a>>)  BY <2>3, <3>2 DEF Stopped, ProofOf
    <3> QED  BY <2>1, <3>1, <3>3 DEF Executing
  <2>4. ASSUME NEW b \in Attempts, Report(j, b) \/ SettleStopped(j, b) PROVE ~Executing(<<j, a>>)'
    <3>1. Owned(j, b) /\ Goes(j, b, "finishing")  BY <2>4 DEF Report, SettleStopped, Fail, Moves
    <3>2. a = b  BY <1>1, <2>0, <3>1, NumbersAssumption DEF Owned, Shape, Attempts
    <3>3. phase \in [Claims -> Phases]  BY <1>1 DEF IInv, TypeOK
    <3> QED  BY <2>0, <3>1, <3>2, <3>3 DEF Goes, Executing
  <2> QED  BY <1>1, <2>2, <2>3, <2>4, CancelStep
<1>2. (IInv /\ Indexed(row) /\ [Next]_vars) =>
        [\A j \in Jobs : (/\ row[j].state # "cancelled" /\ row'[j].state = "cancelled"
                          /\ ~\E S \in SUBSET Jobs : j \in S /\ Clear(S))
          => \A a \in Attempts : (a = row[j].attempt \/ row[j].state = "pending")
                                   => ~Executing(<<j, a>>)']_vars
  <2> SUFFICES ASSUME IInv, Indexed(row), Next, NEW j \in Jobs,
                      row[j].state # "cancelled", row'[j].state = "cancelled",
                      ~\E S \in SUBSET Jobs : j \in S /\ Clear(S),
                      NEW a \in Attempts, a = row[j].attempt \/ row[j].state = "pending"
               PROVE  ~Executing(<<j, a>>)'
    OBVIOUS
  <2> QED  BY <1>1
<1> QED  BY <1>2, QueueIInv, QueueImplementsStore, IndexesHold, PTL DEF Spec, CancelledIsStopped

=============================================================================
