--------------------------- MODULE RunHoldsProofs ---------------------------
(***************************************************************************)
(* Proofs about RunHolds, for every set of jobs, stages and descriptors    *)
(* and every page size, with any number of coordinators, descriptors that  *)
(* come back while a pass of them is in flight, and retries of a whole     *)
(* run.  What old passes can break is exempted by AppliedWhenClean itself. *)
(***************************************************************************)
EXTENDS RunHolds, TLAPS

\* Writing a state and an availability keeps the rows well typed and every other row as it is.
LEMMA WriteTyped ==
  ASSUME TypeOK, NEW j \in Jobs, NEW state \in States, NEW held \in BOOLEAN,
         Write(j, state, held)
  PROVE  /\ job' \in [Jobs -> Job]
         /\ job'[j].state = state /\ job'[j].held = held /\ job'[j].fresh = job[j].fresh
         /\ \A k \in Jobs \ {j} : job'[k] = job[k]
<1>1. job[j] \in Job  BY DEF TypeOK
<1>2. [job[j] EXCEPT !.state = state, !.held = held] \in Job  BY <1>1 DEF Job
<1> QED  BY <1>1, <1>2 DEF Write, TypeOK, Job

\* What a page does to the rows: availability only, of waiting rows of the page only.
LEMMA PageTyped ==
  ASSUME TypeOK, NEW page \in SUBSET Jobs, NEW holds \in [Stages -> Reasons]
  PROVE  /\ Applied(page, holds) \in [Jobs -> Job]
         /\ \A j \in Jobs :
              /\ Applied(page, holds)[j].state = job[j].state
              /\ Applied(page, holds)[j].fresh = job[j].fresh
              /\ j \in page /\ job[j].state = "pending" =>
                   Applied(page, holds)[j].held = StageHeld(holds, j)
              /\ j \notin page => Applied(page, holds)[j] = job[j]
<1>1. ASSUME NEW j \in Jobs
      PROVE  /\ Applied(page, holds)[j] \in Job
             /\ Applied(page, holds)[j].state = job[j].state
             /\ Applied(page, holds)[j].fresh = job[j].fresh
             /\ j \in page /\ job[j].state = "pending" =>
                  Applied(page, holds)[j].held = StageHeld(holds, j)
             /\ j \notin page => Applied(page, holds)[j] = job[j]
  <2>1. job[j] \in Job  BY DEF TypeOK
  <2>2. StageHeld(holds, j) \in BOOLEAN  BY DEF StageHeld
  <2>3. [job[j] EXCEPT !.held = StageHeld(holds, j)] \in Job  BY <2>1, <2>2 DEF Job
  <2> QED  BY <2>1, <2>3 DEF Applied, Job
<1>2. Applied(page, holds) \in [Jobs -> Job]  BY <1>1 DEF Applied
<1> QED  BY <1>1, <1>2

\* The page query returns an initial part of the rows after the cursor; a short one, all of them.
LEMMA PageShape ==
  ASSUME TypeOK, NEW page \in SUBSET Jobs, NEW cursor \in 0..LastJob, IsPage(page, cursor),
         NEW last \in page \cup {cursor}, \A j \in page : j <= last
  PROVE  /\ last \in 0..LastJob
         /\ \A j \in Jobs : j <= last /\ j > cursor /\ job[j].state # "absent" => j \in page
         /\ Cardinality(page) < HoldPage =>
              \A j \in Jobs : j > cursor /\ job[j].state # "absent" => j \in page
<1>1. last \in 0..LastJob  BY HoldsAssumption DEF Jobs
<1>2. ASSUME NEW j \in Jobs, j <= last, j > cursor, job[j].state # "absent"  PROVE j \in page
  <2>1. last # cursor /\ last \in page
    BY <1>1, <1>2, HoldsAssumption DEF Jobs
  <2>2. j \in After(cursor)  BY <1>2 DEF After
  <2>3. j = last \/ j < last  BY <1>1, <1>2, HoldsAssumption DEF Jobs
  <2> QED  BY <2>1, <2>2, <2>3 DEF IsPage
<1>3. ASSUME Cardinality(page) < HoldPage  PROVE page = After(cursor)
  <2>1. HoldPage \in Nat  BY HoldsAssumption
  <2>2. Cardinality(page) # HoldPage  BY <1>3, <2>1
  <2> QED  BY <2>2 DEF IsPage
<1> QED  BY <1>1, <1>2, <1>3 DEF After

\* A job that ends, with what waited for it blocked: no row comes to wait or to run by it.
LEMMA SettledTyped ==
  ASSUME TypeOK, NEW j \in Jobs, NEW s \in {"failed", "ended"}, NEW children, Settled(j, s, children)
  PROVE  /\ job' \in [Jobs -> Job]
         /\ job'[j].state = s /\ job'[j].fresh = job[j].fresh
         /\ \A k \in Jobs \ {j} : \/ job'[k] = job[k]
                                 \/ /\ job[k].state = "pending" /\ job'[k].state = "blocked"
                                    /\ job'[k].fresh = job[k].fresh
<1>1. ASSUME NEW k \in Jobs
      PROVE  /\ [job[k] EXCEPT !.state = s, !.held = FALSE] \in Job
             /\ [job[k] EXCEPT !.state = "blocked", !.held = FALSE] \in Job
             /\ [job[k] EXCEPT !.state = s, !.held = FALSE].state = s
             /\ [job[k] EXCEPT !.state = s, !.held = FALSE].fresh = job[k].fresh
             /\ [job[k] EXCEPT !.state = "blocked", !.held = FALSE].state = "blocked"
             /\ [job[k] EXCEPT !.state = "blocked", !.held = FALSE].fresh = job[k].fresh
  <2>1. job[k] \in Job  BY DEF TypeOK
  <2> QED  BY <2>1 DEF Job, States
<1>2. job \in [Jobs -> Job]  BY DEF TypeOK
<1>3. job' \in [Jobs -> Job]  BY <1>1, <1>2 DEF Settled
<1>4. job'[j].state = s /\ job'[j].fresh = job[j].fresh  BY <1>1 DEF Settled
<1>5. ASSUME NEW k \in Jobs \ {j}
      PROVE  \/ job'[k] = job[k]
             \/ /\ job[k].state = "pending" /\ job'[k].state = "blocked"
                /\ job'[k].fresh = job[k].fresh
  BY <1>1 DEF Settled
<1> QED  BY <1>3, <1>4, <1>5

\* Passes of another descriptor become old; under the same one they stay what they are.
LEMMA AgedTyped ==
  ASSUME TypeOK, NEW h, PassesAged(h)
  PROVE  /\ pass' \in [Coordinators -> Pass] /\ overtaken' \in BOOLEAN
         /\ h # run.holds => ~overtaken' /\ \A c \in Coordinators : pass'[c].at # "idle" => pass'[c].old
         /\ h = run.holds => /\ overtaken' = overtaken
                             /\ \A c \in Coordinators : pass'[c] = pass[c] \/ pass'[c].at = "idle"
<1>1. ASSUME NEW c \in Coordinators
      PROVE  /\ pass'[c] \in Pass /\ pass'[c].at = pass[c].at
             /\ h # run.holds /\ pass'[c].at # "idle" => pass'[c].old
             /\ h = run.holds /\ pass'[c].at # "idle" => pass'[c] = pass[c]
  <2>1. pass[c] \in Pass  BY DEF TypeOK
  <2> DEFINE old == pass[c].at # "idle" /\ (pass[c].old \/ h # run.holds)
  <2>2. old \in BOOLEAN /\ pass'[c] = [pass[c] EXCEPT !.old = old]  BY DEF PassesAged
  <2>3. h # run.holds /\ pass[c].at # "idle" => old  OBVIOUS
  <2>4. h = run.holds /\ pass[c].at # "idle" => old = pass[c].old  BY <2>1 DEF Pass
  <2> HIDE DEF old
  <2> QED  BY <2>1, <2>2, <2>3, <2>4 DEF Pass
<1>2. pass' \in [Coordinators -> Pass]
  <2>1. DOMAIN pass' = Coordinators /\ pass' = [c \in Coordinators |-> pass'[c]]  BY DEF PassesAged
  <2> QED  BY <1>1, <2>1
<1>3. overtaken' \in BOOLEAN /\ (h # run.holds => ~overtaken') /\ (h = run.holds => overtaken' = overtaken)
  BY DEF PassesAged, TypeOK
<1> QED  BY <1>1, <1>2, <1>3

-----------------------------------------------------------------------------
\* The part of the invariant that speaks of rows and types.
Base == TypeOK /\ Waiting /\ RetryOwned /\ Ran

LEMMA HoldsTyped ==
  /\ NoHolds \in [Stages -> Reasons] /\ SetupHolds \in [Stages -> Reasons]
  /\ 0 \in 0..LastJob
BY HoldsAssumption DEF NoHolds, SetupHolds, Reasons

LEMMA InitBase == Init => Base
<1> SUFFICES ASSUME Init PROVE Base  OBVIOUS
<1>1. PICK prepared \in SUBSET Jobs :
        job = [j \in Jobs |-> IF j \in prepared
                THEN [state |-> "pending", held |-> TRUE, fresh |-> TRUE]
                ELSE [state |-> "absent", held |-> FALSE, fresh |-> TRUE]]
  BY DEF Init
<1>2. job \in [Jobs -> Job]  BY <1>1 DEF Job, States
<1>3. run \in Run  BY HoldsTyped, HoldsAssumption DEF Init, Run
<1>4. pass \in [Coordinators -> Pass]  BY HoldsTyped, HoldsAssumption DEF Init, Idle, Pass
<1>5. changes \in 0..MaxChanges /\ failures \in 0..MaxFailures
  <2>1. changes = 0 /\ failures = 0  BY DEF Init
  <2> QED  BY <2>1, HoldsAssumption
<1>6. overtaken \in BOOLEAN  BY DEF Init
<1>7. retry \in [Jobs -> {"none", "held", "ready"}]  BY DEF Init
<1>8. TypeOK  BY <1>2, <1>3, <1>4, <1>5, <1>6, <1>7 DEF TypeOK
<1> QED  BY <1>1, <1>8, HoldsTyped DEF Base, Init, Idle, Waiting, RetryOwned, Ran

\* The rows a retry of the run puts back.
LEMMA BackTyped ==
  ASSUME TypeOK, NEW back \in SUBSET Jobs, NEW h, RetryRun(back, h)
  PROVE  /\ job' \in [Jobs -> Job]
         /\ \A j \in Jobs : /\ job'[j].fresh = job[j].fresh
                            /\ job'[j].state = IF j \in back THEN "pending" ELSE job[j].state
                            /\ j \in back => job'[j].held = StageHeld(run.holds, j)
                            /\ j \notin back => job'[j] = job[j]
<1>1. ASSUME NEW j \in Jobs
      PROVE  /\ job'[j] \in Job /\ job'[j].fresh = job[j].fresh
             /\ job'[j].state = IF j \in back THEN "pending" ELSE job[j].state
             /\ j \in back => job'[j].held = StageHeld(run.holds, j)
             /\ j \notin back => job'[j] = job[j]
  <2>1. job[j] \in Job /\ StageHeld(run.holds, j) \in BOOLEAN  BY DEF TypeOK, StageHeld
  <2> DEFINE held == StageHeld(run.holds, j)
  <2>2. job'[j] = IF j \in back THEN [job[j] EXCEPT !.state = "pending", !.held = held] ELSE job[j]
    BY DEF RetryRun
  <2>3. held \in BOOLEAN  BY <2>1
  <2> HIDE DEF held
  <2>4. /\ job'[j] \in Job /\ job'[j].fresh = job[j].fresh
        /\ job'[j].state = IF j \in back THEN "pending" ELSE job[j].state
        /\ j \in back => job'[j].held = held
        /\ j \notin back => job'[j] = job[j]
    BY <2>1, <2>2, <2>3 DEF Job, States
  <2> QED  BY <2>4 DEF held
<1>2. DOMAIN job' = Jobs /\ job' = [j \in Jobs |-> job'[j]]  BY DEF RetryRun
<1> QED  BY <1>1, <1>2

\* A step of the run's own row.
LEMMA RunBase == Base /\ RunStep => Base'
<1> SUFFICES ASSUME Base, RunStep PROVE Base'  OBVIOUS
<1> USE DEF Base
<1>0. run \in Run  BY DEF TypeOK
<1>1. CASE \E h \in Descriptors : SetRunHolds(h)
  <2>1. PICK h \in Descriptors : SetRunHolds(h)  BY <1>1
  <2>2. h \in [Stages -> Reasons]  BY HoldsAssumption
  <2>3. run' \in Run /\ run'.activated
    <3>1. PICK f \in BOOLEAN :
            run' = [run EXCEPT !.holds = h, !.dirty = TRUE, !.cursor = 0, !.finished = f]
      BY <1>0, <2>1 DEF SetRunHolds, Run
    <3> QED  BY <1>0, <2>1, <2>2, <3>1, HoldsTyped DEF SetRunHolds, Run
  <2>4. changes' \in 0..MaxChanges  BY <2>1, HoldsAssumption DEF SetRunHolds, TypeOK
  <2>5. pass' \in [Coordinators -> Pass] /\ overtaken' \in BOOLEAN
    BY <2>1, AgedTyped DEF SetRunHolds
  <2> QED  BY <2>1, <2>3, <2>4, <2>5 DEF SetRunHolds, TypeOK, Waiting, RetryOwned, Ran
<1>2. CASE ReleaseRun
  <2>3. run' \in Run /\ run'.activated
    BY <1>0, <1>2, HoldsTyped DEF ReleaseRun, Run
  <2>4. changes' \in 0..MaxChanges  BY <1>2, HoldsAssumption DEF ReleaseRun, TypeOK
  <2>5. pass' \in [Coordinators -> Pass] /\ overtaken' \in BOOLEAN
    BY <1>2, AgedTyped DEF ReleaseRun
  <2> QED  BY <1>2, <2>3, <2>4, <2>5 DEF ReleaseRun, TypeOK, Waiting, RetryOwned, Ran
<1>3. CASE \E manager \in BOOLEAN : Activate(manager)
  <2>1. PICK manager \in BOOLEAN : Activate(manager)  BY <1>3
  <2>3. run' \in Run /\ run'.activated  BY <1>0, <2>1, HoldsTyped DEF Activate, Run
  <2>4. pass' \in [Coordinators -> Pass] /\ overtaken' \in BOOLEAN
    BY <2>1, AgedTyped DEF Activate, passes, TypeOK
  <2> QED  BY <2>1, <2>3, <2>4 DEF Activate, TypeOK, Waiting, RetryOwned, Ran
<1>4. CASE FinishRun
  <2>1. /\ run' \in Run /\ run'.activated = run.activated /\ run'.holds = run.holds
        /\ run'.dirty = run.dirty /\ run'.cursor = run.cursor
    BY <1>0, <1>4 DEF FinishRun, Run
  <2> QED  BY <1>4, <2>1 DEF FinishRun, passes, TypeOK, Waiting, RetryOwned, Ran
<1>5. CASE \E back \in SUBSET Jobs, h \in Descriptors \cup {run.holds} : RetryRun(back, h)
  <2>1. PICK back \in SUBSET Jobs, h \in Descriptors \cup {run.holds} : RetryRun(back, h)  BY <1>5
  <2>2. h \in [Stages -> Reasons]  BY <1>0, HoldsAssumption DEF Run
  <2>3. run' \in Run /\ run'.activated
    BY <1>0, <2>1, <2>2, HoldsTyped DEF RetryRun, Run
  <2>4. changes' \in 0..MaxChanges
    <3>1. changes \in 0..MaxChanges  BY DEF TypeOK
    <3>2. changes' = changes \/ (changes < MaxChanges /\ changes' = changes + 1)
      BY <2>1 DEF RetryRun
    <3> QED  BY <3>1, <3>2, HoldsAssumption
  <2>5. pass' \in [Coordinators -> Pass] /\ overtaken' \in BOOLEAN
    BY <2>1, AgedTyped DEF RetryRun
  <2>6. /\ job' \in [Jobs -> Job]
        /\ \A j \in Jobs : /\ job'[j].fresh = job[j].fresh
                           /\ job'[j].state = IF j \in back THEN "pending" ELSE job[j].state
    BY <2>1, BackTyped DEF RetryRun
  <2>7. retry' = retry /\ failures' = failures /\ \A j \in back : retry[j] = "none"
    BY <2>1 DEF RetryRun
  <2>8. TypeOK'  BY <2>3, <2>4, <2>5, <2>6, <2>7 DEF TypeOK
  <2>9. Waiting'  BY <2>3 DEF Waiting
  <2>10. RetryOwned' /\ Ran'  BY <2>6, <2>7 DEF RetryOwned, Ran
  <2> QED  BY <2>8, <2>9, <2>10
<1> QED  BY <1>1, <1>2, <1>3, <1>4, <1>5 DEF RunStep

\* A statement of a pass.
LEMMA PassBase == ASSUME Base, NEW c \in Coordinators, PassStep(c) PROVE Base'
<1> USE DEF Base
<1>0. run \in Run /\ pass[c] \in Pass /\ Idle \in Pass
  BY HoldsTyped, HoldsAssumption DEF TypeOK, Idle, Pass
<1>1. CASE ReadDirty(c)
  <2>1. pass' \in [Coordinators -> Pass]  BY <1>0, <1>1 DEF ReadDirty, TypeOK, Run, Pass
  <2> QED  BY <1>1, <2>1 DEF ReadDirty, TypeOK, Waiting, RetryOwned, Ran
<1>2. CASE ApplyPage(c)
  <2>1. PICK page \in SUBSET Jobs :
          /\ IsPage(page, pass[c].cursor)
          /\ job' = Applied(page, pass[c].holds)
          /\ \E last \in page \cup {pass[c].cursor} :
               /\ \A j \in page : j <= last
               /\ pass' = [pass EXCEPT ![c] = [@ EXCEPT !.at = "paged", !.cursor = last,
                                                 !.done = Cardinality(page) < HoldPage]]
    BY <1>2 DEF ApplyPage
  <2>2. PICK last \in page \cup {pass[c].cursor} :
          /\ \A j \in page : j <= last
          /\ pass' = [pass EXCEPT ![c] = [@ EXCEPT !.at = "paged", !.cursor = last,
                                            !.done = Cardinality(page) < HoldPage]]
    BY <2>1
  <2>3. pass[c].cursor \in 0..LastJob /\ pass[c].holds \in [Stages -> Reasons]  BY <1>0 DEF Pass
  <2>4. last \in 0..LastJob  BY <2>1, <2>2, <2>3, PageShape
  <2>5. (Cardinality(page) < HoldPage) \in BOOLEAN  OBVIOUS
  <2>6. [pass[c] EXCEPT !.at = "paged", !.cursor = last, !.done = Cardinality(page) < HoldPage]
          \in Pass
    BY <1>0, <2>4, <2>5 DEF Pass
  <2>7. pass' \in [Coordinators -> Pass]  BY <2>2, <2>6 DEF TypeOK
  <2>8. /\ job' \in [Jobs -> Job]
        /\ \A j \in Jobs : job'[j].state = job[j].state /\ job'[j].fresh = job[j].fresh
    BY <2>1, <2>3, PageTyped
  <2>9. overtaken' \in BOOLEAN  BY <1>2 DEF ApplyPage
  <2>10. run.activated  BY <1>2 DEF ApplyPage, Waiting
  <2> QED  BY <1>2, <2>7, <2>8, <2>9, <2>10 DEF ApplyPage, TypeOK, Waiting, RetryOwned, Ran
<1>3. CASE RecordPage(c)
  <2>1. /\ run' \in Run /\ run'.activated = run.activated /\ run'.holds = run.holds
        /\ ~run.dirty => ~run'.dirty
    <3>1. CASE run' = run  BY <1>0, <3>1
    <3>2. CASE run' = [run EXCEPT !.dirty = FALSE, !.cursor = 0]
      BY <1>0, <3>2, HoldsTyped DEF Run
    <3>3. CASE run' = [run EXCEPT !.cursor = pass[c].cursor]
      BY <1>0, <3>3 DEF Run, Pass
    <3> QED  BY <1>3, <3>1, <3>2, <3>3 DEF RecordPage
  <2>2. pass' \in [Coordinators -> Pass]  BY <1>0, <1>3 DEF RecordPage, TypeOK
  <2>3. run.activated  BY <1>3 DEF RecordPage, Waiting
  <2>4. overtaken' \in BOOLEAN  BY <1>3 DEF RecordPage
  <2> QED  BY <1>3, <2>1, <2>2, <2>3, <2>4 DEF RecordPage, TypeOK, Waiting, RetryOwned, Ran
<1>4. CASE FailPass(c)
  <2>1. pass' \in [Coordinators -> Pass]  BY <1>0, <1>4 DEF FailPass, TypeOK
  <2>2. failures' \in 0..MaxFailures  BY <1>4, HoldsAssumption DEF FailPass, TypeOK
  <2> QED  BY <1>4, <2>1, <2>2 DEF FailPass, TypeOK, Waiting, RetryOwned, Ran
<1> QED  BY <1>1, <1>2, <1>3, <1>4 DEF PassStep

\* What a step keeps of a descriptor that is being applied: its holds, the passes that go on, and
\* the rows, but for those it leaves as the descriptor says.
Kept ==
  /\ run'.holds = run.holds
  /\ run'.cursor \in {run.cursor, 0}
  /\ run'.dirty \in {run.dirty, TRUE}
  /\ overtaken' = overtaken
  /\ \A c \in Coordinators : pass'[c] = pass[c] \/ pass'[c].at = "idle"
  /\ \A j \in Jobs : job'[j].state = "pending" /\ job'[j].fresh =>
                       job'[j] = job[j] \/ (job'[j].held <=> StageHeld(run.holds, j))

\* A step of one job.
LEMMA JobBase == ASSUME Base, NEW j \in Jobs, JobStep(j) PROVE Base' /\ Kept
<1> USE DEF Base, passes
<1>0. run \in Run /\ job[j] \in Job /\ StageHeld(run.holds, j) \in BOOLEAN
  BY DEF TypeOK, StageHeld
<1>1. CASE Enqueue(j)
  <2>1. /\ job' \in [Jobs -> Job] /\ job'[j].state = "pending"
        /\ job'[j].held = StageHeld(run.holds, j) /\ job'[j].fresh = job[j].fresh
        /\ \A k \in Jobs \ {j} : job'[k] = job[k]
    BY <1>0, <1>1, WriteTyped DEF Enqueue, States
  <2>2. /\ run' \in Run /\ run'.activated = run.activated /\ run'.holds = run.holds
        /\ run'.dirty = run.dirty /\ run'.cursor = run.cursor
    BY <1>0, <1>1 DEF Enqueue, Run
  <2>3. run.holds = SetupHolds => StageHeld(run.holds, j)
    BY HoldsAssumption DEF SetupHolds, StageHeld
  <2>4. Base'  BY <1>1, <2>1, <2>2, <2>3 DEF Enqueue, TypeOK, Waiting, RetryOwned, Ran
  <2>5. Kept  BY <1>1, <2>1, <2>2 DEF Enqueue, Kept
  <2> QED  BY <2>4, <2>5
<1>2. ASSUME NEW parent \in Jobs, EnqueueChild(parent, j) PROVE Base' /\ Kept
  <2>1. /\ job' \in [Jobs -> Job] /\ job'[j].state = "pending"
        /\ job'[j].held = StageHeld(run.holds, j) /\ job'[j].fresh = job[j].fresh
        /\ \A k \in Jobs \ {j} : job'[k] = job[k]
    BY <1>0, <1>2, WriteTyped DEF EnqueueChild, States
  <2>3. Base'  BY <1>2, <2>1 DEF EnqueueChild, TypeOK, Waiting, RetryOwned, Ran
  <2>4. Kept  BY <1>2, <2>1 DEF EnqueueChild, Kept
  <2> QED  BY <2>3, <2>4
<1>3. CASE Claim(j)
  <2>1. [job[j] EXCEPT !.state = "active", !.fresh = FALSE] \in Job  BY <1>0 DEF Job, States
  <2>2. /\ job' \in [Jobs -> Job] /\ job'[j].state = "active" /\ ~job'[j].fresh
        /\ \A k \in Jobs \ {j} : job'[k] = job[k]
    BY <1>0, <1>3, <2>1 DEF Claim, TypeOK, Job
  <2>3. job[j].state = "pending" /\ ~job[j].held  BY <1>3 DEF Claim
  <2>4. run.activated  BY <2>3 DEF Waiting
  <2>5. Base'  BY <1>3, <2>2, <2>3, <2>4 DEF Claim, TypeOK, Waiting, RetryOwned, Ran
  <2>6. Kept  BY <1>3, <2>2 DEF Claim, Kept
  <2> QED  BY <2>5, <2>6
<1>4. ASSUME job[j].state = "active", NEW state \in {"ended", "pending"},
             Write(j, state, FALSE), UNCHANGED <<run, retry, passes, changes, failures>>
      PROVE  Base' /\ Kept
  <2>1. /\ job' \in [Jobs -> Job] /\ job'[j].state = state /\ job'[j].fresh = job[j].fresh
        /\ \A k \in Jobs \ {j} : job'[k] = job[k]
    BY <1>4, WriteTyped DEF States
  <2>2. ~job[j].fresh /\ run.activated  BY <1>4 DEF Ran, Waiting
  <2>3. Base'  BY <1>4, <2>1, <2>2 DEF TypeOK, Waiting, RetryOwned, Ran
  <2>4. Kept  BY <1>4, <2>1, <2>2 DEF Kept
  <2> QED  BY <2>3, <2>4
<1>5. CASE RetryFailed(j)
  <2>1. retry' \in [Jobs -> {"none", "held", "ready"}]  BY <1>5 DEF RetryFailed, TypeOK
  <2>2. ~job[j].fresh /\ run.activated  BY <1>5 DEF RetryFailed, Ran, Waiting
  <2>3. Base'  BY <1>5, <2>1, <2>2 DEF RetryFailed, TypeOK, Waiting, RetryOwned, Ran
  <2>4. Kept  BY <1>5 DEF RetryFailed, Kept
  <2> QED  BY <2>3, <2>4
<1>6. CASE CommitRetry(j)
  <2>1. /\ job' \in [Jobs -> Job] /\ job'[j].state = "pending" /\ job'[j].fresh = job[j].fresh
        /\ \A k \in Jobs \ {j} : job'[k] = job[k]
    BY <1>6, WriteTyped DEF CommitRetry, States
  <2>2. /\ run' \in Run /\ run'.activated = run.activated /\ run'.holds = run.holds
        /\ run'.dirty = run.dirty /\ run'.cursor = run.cursor
    BY <1>0, <1>6 DEF CommitRetry, Run
  <2>3. ~job[j].fresh /\ run.activated  BY <1>6 DEF CommitRetry, RetryOwned, Waiting
  <2>4. retry' \in [Jobs -> {"none", "held", "ready"}]  BY <1>6 DEF CommitRetry, TypeOK
  <2>5. /\ retry'[j] = "none"
        /\ \A k \in Jobs \ {j} : retry'[k] = retry[k]
    BY <1>6 DEF CommitRetry, TypeOK
  <2>6. Base'
    BY <1>6, <2>1, <2>2, <2>3, <2>4, <2>5 DEF CommitRetry, TypeOK, Waiting, RetryOwned, Ran
  <2>7. Kept  BY <1>6, <2>1, <2>2, <2>3 DEF CommitRetry, Kept
  <2> QED  BY <2>6, <2>7
<1>7. ASSUME NEW children, NEW s \in {"failed", "ended"}, Settled(j, s, children), retry[j] = "none",
             s = "failed" => ~job[j].fresh /\ run.activated,
             UNCHANGED <<run, retry, passes, changes, failures>>
      PROVE  Base' /\ Kept
  <2>1. /\ job' \in [Jobs -> Job] /\ job'[j].state = s /\ job'[j].fresh = job[j].fresh
        /\ \A k \in Jobs \ {j} : \/ job'[k] = job[k]
                                \/ /\ job[k].state = "pending" /\ job'[k].state = "blocked"
                                   /\ job'[k].fresh = job[k].fresh
    BY <1>7, SettledTyped
  <2>2. TypeOK'  BY <1>7, <2>1 DEF TypeOK
  <2>3. Waiting'  BY <1>7, <2>1 DEF Waiting
  <2>4. RetryOwned' /\ Ran'  BY <1>7, <2>1 DEF RetryOwned, Ran
  <2>5. Kept  BY <1>7, <2>1 DEF Kept
  <2> QED  BY <2>2, <2>3, <2>4, <2>5
<1>8. CASE Complete(j) \/ TryAgain(j)
  BY <1>4, <1>8 DEF Complete, TryAgain
<1>9. ASSUME NEW children, FailJob(j, children) PROVE Base' /\ Kept
  <2>1. ~job[j].fresh /\ run.activated /\ retry[j] = "none"
    BY <1>9 DEF FailJob, Ran, Waiting, RetryOwned
  <2> QED  BY <1>7, <1>9, <2>1 DEF FailJob
<1>10. ASSUME NEW children, Cancel(j, children) PROVE Base' /\ Kept
  BY <1>7, <1>10 DEF Cancel
<1> QED  BY <1>1, <1>2, <1>3, <1>5, <1>6, <1>8, <1>9, <1>10 DEF JobStep

LEMMA StepBase == Base /\ [Next]_vars => Base'
<1> SUFFICES ASSUME Base, [Next]_vars PROVE Base'  OBVIOUS
<1>1. CASE UNCHANGED vars  BY <1>1 DEF vars, passes, Base, TypeOK, Waiting, RetryOwned, Ran
<1> QED  BY <1>1, RunBase, PassBase, JobBase DEF Next

\* Types, and an import that waits: whatever coordinators, pages and retries do, no job of an
\* import is ever claimed before its journal is activated.
THEOREM ImportHeld == Spec => [](TypeOK /\ ImportWaits)
<1>1. Base => TypeOK /\ ImportWaits  BY DEF Base, Waiting, ImportWaits
<1> QED  BY <1>1, InitBase, StepBase, PTL DEF Spec

-----------------------------------------------------------------------------
\* What the passes keep true of a descriptor that is being applied.
Passes ==
  /\ AppliedWhenClean
  /\ \A c \in Coordinators : PassPresent(c)
  /\ ~overtaken => AppliedUpTo(run.cursor, run.holds) /\ \A c \in Coordinators : PassTrue(c)

LEMMA NothingBelow == \A j \in Jobs : ~(j <= 0) /\ j <= LastJob
BY HoldsAssumption DEF Jobs

\* Rows that keep their availability, or get the descriptor's, leave what was applied applied.
LEMMA KeptPasses == Base /\ Passes /\ Kept => Passes'
<1> SUFFICES ASSUME Base, Passes, Kept PROVE Passes'  OBVIOUS
<1>1. AppliedWhenClean'
  BY DEF Passes, AppliedWhenClean, AllApplied, Kept, StageHeld, Base, TypeOK, Run
<1>2. ASSUME NEW c \in Coordinators PROVE PassPresent(c)'
  BY DEF Passes, PassPresent, Kept
<1>3. ASSUME ~overtaken' PROVE AppliedUpTo(run.cursor, run.holds)'
  <2>1. AppliedUpTo(run.cursor, run.holds)  BY <1>3 DEF Passes, Kept
  <2> QED  BY <2>1, NothingBelow DEF AppliedUpTo, Kept, StageHeld
<1>4. ASSUME ~overtaken', NEW c \in Coordinators PROVE PassTrue(c)'
  <2>1. PassTrue(c)  BY <1>4 DEF Passes, Kept
  <2> QED  BY <2>1 DEF PassTrue, AppliedUpTo, Kept, StageHeld
<1> QED  BY <1>1, <1>2, <1>3, <1>4 DEF Passes

\* Another descriptor: nothing of it is applied, and no pass counts as one of it.
LEMMA NewHoldsPasses ==
  ASSUME Base, NEW h, h # run.holds, PassesAged(h),
         run'.holds = h, run'.cursor = 0, run'.dirty
  PROVE  Passes'
<1>1. ~overtaken' /\ \A c \in Coordinators : pass'[c].at # "idle" => pass'[c].old
  BY AgedTyped DEF Base
<1>2. AppliedUpTo(run.cursor, run.holds)'  BY NothingBelow DEF AppliedUpTo
<1> QED  BY <1>1, <1>2 DEF Passes, AppliedWhenClean, PassPresent, PassTrue

LEMMA RunPasses == ASSUME Base, Passes, RunStep PROVE Passes'
<1>0. run \in Run  BY DEF Base, TypeOK
<1>1. CASE \E h \in Descriptors : SetRunHolds(h)
  <2>1. PICK h \in Descriptors : SetRunHolds(h)  BY <1>1
  <2>2. run'.cursor = 0 /\ run'.dirty /\ run'.holds = h  BY <1>0, <2>1 DEF SetRunHolds, Run
  <2> QED  BY <2>1, <2>2, NewHoldsPasses DEF SetRunHolds
<1>2. CASE ReleaseRun
  <2>1. run'.cursor = 0 /\ run'.dirty /\ run'.holds = NoHolds  BY <1>0, <1>2 DEF ReleaseRun, Run
  <2>2. CASE run.holds # NoHolds  BY <1>2, <2>1, <2>2, NewHoldsPasses DEF ReleaseRun
  <2>3. CASE run.holds = NoHolds
    <3>1. overtaken' = overtaken /\ \A c \in Coordinators : pass'[c] = pass[c] \/ pass'[c].at = "idle"
      BY <1>2, <2>3, AgedTyped DEF ReleaseRun, Base
    <3>2. Kept  BY <1>2, <2>1, <2>3, <3>1 DEF ReleaseRun, Kept
    <3> QED  BY <3>2, KeptPasses
  <2> QED  BY <2>2, <2>3
<1>3. CASE \E manager \in BOOLEAN : Activate(manager)
  <2>1. PICK manager \in BOOLEAN : Activate(manager)  BY <1>3
  <2>2. run.cursor = 0 /\ run.holds = SetupHolds /\ \A c \in Coordinators : pass[c].at = "idle"
    BY <2>1 DEF Activate, Base, Waiting
  <2>3. CASE manager
    <3>1. run'.holds = run.holds /\ run'.dirty = run.dirty /\ run'.cursor = run.cursor
      BY <1>0, <2>1, <2>3 DEF Activate, Run
    <3>2. Kept  BY <2>1, <2>3, <3>1 DEF Activate, passes, Kept
    <3> QED  BY <3>2, KeptPasses
  <2>4. CASE ~manager
    <3>1. run'.cursor = 0 /\ run'.dirty /\ run'.holds = NoHolds /\ PassesAged(NoHolds) /\ job' = job
      BY <1>0, <2>1, <2>2, <2>4 DEF Activate, Run
    <3>2. CASE run.holds # NoHolds  BY <3>1, <3>2, NewHoldsPasses
    <3>3. CASE run.holds = NoHolds
      <4>1. overtaken' = overtaken /\ \A c \in Coordinators : pass'[c] = pass[c] \/ pass'[c].at = "idle"
        BY <3>1, <3>3, AgedTyped DEF Base
      <4>2. Kept  BY <3>1, <3>3, <4>1 DEF Kept
      <4> QED  BY <4>2, KeptPasses
    <3> QED  BY <3>2, <3>3
  <2> QED  BY <2>3, <2>4
<1>4. CASE FinishRun
  <2>1. run'.holds = run.holds /\ run'.dirty = run.dirty /\ run'.cursor = run.cursor
    BY <1>0, <1>4 DEF FinishRun, Run
  <2>2. Kept  BY <1>4, <2>1 DEF FinishRun, passes, Kept
  <2> QED  BY <2>2, KeptPasses
<1>5. CASE \E back \in SUBSET Jobs, h \in Descriptors \cup {run.holds} : RetryRun(back, h)
  <2>1. PICK back \in SUBSET Jobs, h \in Descriptors \cup {run.holds} : RetryRun(back, h)  BY <1>5
  <2>2. CASE h # run.holds
    <3>1. run'.cursor = 0 /\ run'.dirty /\ run'.holds = h  BY <1>0, <2>1, <2>2 DEF RetryRun, Run
    <3> QED  BY <2>1, <2>2, <3>1, NewHoldsPasses DEF RetryRun
  <2>3. CASE h = run.holds
    <3>1. run'.holds = run.holds /\ run'.dirty = run.dirty /\ run'.cursor = run.cursor
      BY <1>0, <2>1, <2>3 DEF RetryRun, Run
    <3>2. overtaken' = overtaken /\ \A c \in Coordinators : pass'[c] = pass[c] \/ pass'[c].at = "idle"
      BY <2>1, <2>3, AgedTyped DEF RetryRun, Base
    <3>3. \A j \in Jobs : job'[j] = job[j] \/ job'[j].held = StageHeld(run.holds, j)
      BY <2>1, BackTyped DEF Base
    <3>4. Kept  BY <3>1, <3>2, <3>3 DEF Kept
    <3> QED  BY <3>4, KeptPasses
  <2> QED  BY <2>2, <2>3
<1> QED  BY <1>1, <1>2, <1>3, <1>4, <1>5 DEF RunStep

\* A page of the present descriptor applies one more page of it; an old one, written before any of
\* the present descriptor's, disturbs nothing that has been applied.
LEMMA ApplyPasses == ASSUME Base, Passes, NEW c \in Coordinators, ApplyPage(c) PROVE Passes'
<1>0. run \in Run /\ pass[c] \in Pass /\ pass \in [Coordinators -> Pass] /\ overtaken \in BOOLEAN
  BY DEF Base, TypeOK
<1>1. PICK page \in SUBSET Jobs :
        /\ IsPage(page, pass[c].cursor)
        /\ job' = Applied(page, pass[c].holds)
        /\ \E last \in page \cup {pass[c].cursor} :
             /\ \A j \in page : j <= last
             /\ pass' = [pass EXCEPT ![c] = [@ EXCEPT !.at = "paged", !.cursor = last,
                                               !.done = Cardinality(page) < HoldPage]]
  BY DEF ApplyPage
<1>2. PICK last \in page \cup {pass[c].cursor} :
        /\ \A j \in page : j <= last
        /\ pass' = [pass EXCEPT ![c] = [@ EXCEPT !.at = "paged", !.cursor = last,
                                          !.done = Cardinality(page) < HoldPage]]
  BY <1>1
<1>3. /\ pass[c].cursor \in 0..LastJob /\ pass[c].holds \in [Stages -> Reasons]
      /\ pass'[c].holds = pass[c].holds /\ pass'[c].cursor = last /\ pass'[c].old = pass[c].old
      /\ pass'[c].at = "paged" /\ pass'[c].done = (Cardinality(page) < HoldPage)
      /\ \A d \in Coordinators \ {c} : pass'[d] = pass[d]
  BY <1>0, <1>2 DEF Pass
<1>4. run' = run /\ pass[c].at = "read" /\ overtaken' = (overtaken \/ (pass[c].old /\ Begun))
  BY DEF ApplyPage
<1>5. \A j \in Jobs :
        /\ job'[j].state = job[j].state /\ job'[j].fresh = job[j].fresh
        /\ j \in page /\ job[j].state = "pending" => job'[j].held = StageHeld(pass[c].holds, j)
        /\ j \notin page => job'[j] = job[j]
  BY <1>1, <1>3, PageTyped, ZenonT(60) DEF Base
<1>6. \A d \in Coordinators : PassPresent(d)'
  BY <1>3, <1>4 DEF Passes, PassPresent
<1>7. CASE overtaken'
  BY <1>6, <1>7 DEF Passes, AppliedWhenClean
<1>8. CASE ~overtaken' /\ pass[c].old
  <2>1. ~Begun /\ ~overtaken  BY <1>4, <1>8
  <2>2. run.dirty /\ run.cursor = 0 /\ \A d \in Coordinators : pass[d].at = "idle" \/ pass[d].old
    BY <2>1 DEF Begun
  <2>3. AppliedUpTo(run.cursor, run.holds)'  BY <1>4, <2>2, NothingBelow DEF AppliedUpTo
  <2>4. \A d \in Coordinators : PassTrue(d)'  BY <1>3, <1>8, <2>2 DEF PassTrue
  <2> QED  BY <1>4, <1>6, <2>2, <2>3, <2>4 DEF Passes, AppliedWhenClean
<1>9. CASE ~overtaken' /\ ~pass[c].old
  <2>1. ~overtaken /\ pass[c].holds = run.holds
    BY <1>4, <1>9 DEF Passes, PassPresent
  <2>2. \A j \in Jobs : job'[j].state = "pending" /\ job'[j].fresh =>
          job'[j] = job[j] \/ (job'[j].held <=> StageHeld(run.holds, j))
    BY <1>5, <2>1
  <2>3. ASSUME NEW place, AppliedUpTo(place, run.holds) PROVE AppliedUpTo(place, run.holds)'
    BY <1>4, <2>2, <2>3 DEF AppliedUpTo, StageHeld
  <2>4. AppliedWhenClean'
    BY <1>4, <2>1, <2>2 DEF Passes, AppliedWhenClean, AllApplied, StageHeld
  <2>5. AppliedUpTo(run.cursor, run.holds)'
    <3>1. AppliedUpTo(run.cursor, run.holds)  BY <2>1 DEF Passes
    <3> QED  BY <1>4, <2>2, <3>1 DEF AppliedUpTo, StageHeld
  <2>6. ASSUME NEW d \in Coordinators \ {c} PROVE PassTrue(d)'
    <3>1. PassTrue(d)  BY <2>1 DEF Passes
    <3> QED  BY <1>3, <1>4, <2>2, <3>1 DEF PassTrue, AppliedUpTo, StageHeld
  <2>7. PassTrue(c)'
    <3>1. AppliedUpTo(pass[c].cursor, run.holds)
      BY <1>4, <1>9, <2>1 DEF Passes, PassTrue
    <3>2. ASSUME NEW j \in Jobs, job'[j].state = "pending", job'[j].fresh,
                 j <= pass[c].cursor \/ j \in page
          PROVE  job'[j].held <=> StageHeld(run.holds, j)
      BY <1>5, <2>1, <3>1, <3>2 DEF AppliedUpTo
    <3>3. \A j \in Jobs : job[j].state = "pending" => job[j].state # "absent"  OBVIOUS
    <3>4. \A j \in Jobs : j <= pass[c].cursor \/ j > pass[c].cursor
      BY <1>3, HoldsAssumption DEF Jobs
    <3>5. AppliedUpTo(last, run.holds)'
      <4>1. \A j \in Jobs : j <= last /\ j > pass[c].cursor /\ job[j].state # "absent" => j \in page
        BY <1>1, <1>2, <1>3, PageShape DEF Base
      <4> QED  BY <1>4, <1>5, <3>2, <3>3, <3>4, <4>1 DEF AppliedUpTo, StageHeld
    <3>6. ASSUME Cardinality(page) < HoldPage PROVE AppliedUpTo(LastJob, run.holds)'
      <4>1. \A j \in Jobs : j > pass[c].cursor /\ job[j].state # "absent" => j \in page
        BY <1>1, <1>2, <1>3, <3>6, PageShape DEF Base
      <4> QED  BY <1>4, <1>5, <3>2, <3>3, <3>4, <4>1 DEF AppliedUpTo, StageHeld
    <3> QED  BY <1>3, <1>4, <3>5, <3>6 DEF PassTrue, AppliedUpTo, StageHeld
  <2> QED  BY <1>6, <2>4, <2>5, <2>6, <2>7 DEF Passes
<1> QED  BY <1>7, <1>8, <1>9

\* A record: of the last page, the descriptor is applied; of another, the next one starts after it.
LEMMA RecordPasses == ASSUME Base, Passes, NEW c \in Coordinators, RecordPage(c) PROVE Passes'
<1>0. /\ run \in Run /\ pass[c] \in Pass /\ pass \in [Coordinators -> Pass] /\ overtaken \in BOOLEAN
      /\ Idle.at = "idle"
  BY DEF Base, TypeOK, Idle
<1>1. /\ job' = job /\ pass[c].at = "paged"
      /\ pass'[c].at = "idle" /\ \A d \in Coordinators \ {c} : pass'[d] = pass[d]
      /\ overtaken' = (overtaken \/ (pass[c].old /\ run.holds = pass[c].holds))
  BY <1>0 DEF RecordPage
<1>2. CASE run.holds # pass[c].holds
  <2>1. run' = run /\ overtaken' = overtaken  BY <1>0, <1>1, <1>2 DEF RecordPage
  <2>2. Kept  BY <1>1, <2>1 DEF Kept
  <2> QED  BY <2>2, KeptPasses
<1>3. CASE run.holds = pass[c].holds
  <2>1. run'.holds = run.holds  BY <1>0, <1>3 DEF RecordPage, Run
  <2>2. \A d \in Coordinators : PassPresent(d)'
    BY <1>1, <2>1 DEF Passes, PassPresent
  <2>3. CASE overtaken'  BY <2>2, <2>3 DEF Passes, AppliedWhenClean
  <2>4. CASE ~overtaken'
    <3>1. ~overtaken /\ ~pass[c].old  BY <1>1, <1>3, <2>4
    <3>2. PassTrue(c)  BY <3>1 DEF Passes
    <3>3. ASSUME NEW d \in Coordinators PROVE PassTrue(d)'
      <4>1. PassTrue(d)  BY <3>1 DEF Passes
      <4> QED  BY <1>1, <2>1, <4>1 DEF PassTrue, AppliedUpTo, StageHeld
    <3>4. CASE pass[c].done
      <4>1. run'.cursor = 0  BY <1>0, <1>3, <3>4 DEF RecordPage, Run
      <4>2. AppliedUpTo(LastJob, run.holds)  BY <1>1, <3>1, <3>2, <3>4 DEF PassTrue
      <4>3. AppliedWhenClean'
        BY <1>1, <2>1, <4>2, NothingBelow DEF AppliedUpTo, AppliedWhenClean, AllApplied, StageHeld
      <4>4. AppliedUpTo(run.cursor, run.holds)'  BY <4>1, NothingBelow DEF AppliedUpTo
      <4> QED  BY <2>2, <3>3, <4>3, <4>4 DEF Passes
    <3>5. CASE ~pass[c].done
      <4>1. run'.cursor = pass[c].cursor /\ run'.dirty = run.dirty
        BY <1>0, <1>3, <3>5 DEF RecordPage, Run
      <4>2. AppliedUpTo(pass[c].cursor, run.holds)  BY <1>1, <3>1, <3>2 DEF PassTrue
      <4>3. AppliedUpTo(run.cursor, run.holds)'
        BY <1>1, <2>1, <4>1, <4>2 DEF AppliedUpTo, StageHeld
      <4>4. AppliedWhenClean'
        BY <1>1, <2>1, <3>1, <4>1 DEF Passes, AppliedWhenClean, AllApplied, StageHeld
      <4> QED  BY <2>2, <3>3, <4>3, <4>4 DEF Passes
    <3> QED  BY <3>4, <3>5
  <2> QED  BY <2>3, <2>4
<1> QED  BY <1>2, <1>3

LEMMA PassPasses == ASSUME Base, Passes, NEW c \in Coordinators, PassStep(c) PROVE Passes'
<1>0. /\ run \in Run /\ pass[c] \in Pass /\ pass \in [Coordinators -> Pass]
      /\ Idle.at = "idle"
  BY DEF Base, TypeOK, Idle
<1>1. CASE ReadDirty(c)
  <2>1. /\ pass'[c] = [at |-> "read", holds |-> run.holds, cursor |-> run.cursor, done |-> FALSE,
                       old |-> FALSE]
        /\ \A d \in Coordinators \ {c} : pass'[d] = pass[d]
        /\ run' = run /\ job' = job /\ overtaken' = overtaken
    BY <1>0, <1>1 DEF ReadDirty
  <2>2. AppliedWhenClean'
    BY <2>1 DEF Passes, AppliedWhenClean, AllApplied, StageHeld
  <2>3. \A d \in Coordinators : PassPresent(d)'  BY <2>1 DEF Passes, PassPresent
  <2>4. ASSUME ~overtaken' PROVE AppliedUpTo(run.cursor, run.holds)'
    BY <2>1, <2>4 DEF Passes, AppliedUpTo, StageHeld
  <2>5. ASSUME ~overtaken', NEW d \in Coordinators PROVE PassTrue(d)'
    <3>1. PassTrue(d) /\ AppliedUpTo(run.cursor, run.holds)  BY <2>1, <2>5 DEF Passes
    <3>2. CASE d = c  BY <2>1, <3>1, <3>2 DEF PassTrue, AppliedUpTo, StageHeld
    <3>3. CASE d # c  BY <2>1, <3>1, <3>3 DEF PassTrue, AppliedUpTo, StageHeld
    <3> QED  BY <3>2, <3>3
  <2> QED  BY <2>2, <2>3, <2>4, <2>5 DEF Passes
<1>2. CASE ApplyPage(c)  BY <1>2, ApplyPasses
<1>3. CASE RecordPage(c)  BY <1>3, RecordPasses
<1>4. CASE FailPass(c)
  <2>1. Kept  BY <1>0, <1>4 DEF FailPass, Kept
  <2> QED  BY <2>1, KeptPasses
<1> QED  BY <1>1, <1>2, <1>3, <1>4 DEF PassStep

\* A run the coordinator has marked clean is one whose descriptor every waiting, never run job
\* carries: for any number of jobs, of coordinators and of descriptors that come back, and any
\* page size, with pages lost, the descriptor changing under a pass and whole runs retried;
\* but for what old passes, which the record's comparison of descriptors lets by, have written.
THEOREM CleanIsApplied == Spec => []AppliedWhenClean
<1>1. Init => Passes
  <2> SUFFICES ASSUME Init PROVE Passes  OBVIOUS
  <2>1. \A j \in Jobs : ~(j <= 0) /\ StageHeld(SetupHolds, j)
    BY HoldsAssumption DEF Jobs, SetupHolds, StageHeld
  <2>2. PICK prepared \in SUBSET Jobs :
          job = [j \in Jobs |-> IF j \in prepared
                  THEN [state |-> "pending", held |-> TRUE, fresh |-> TRUE]
                  ELSE [state |-> "absent", held |-> FALSE, fresh |-> TRUE]]
    BY DEF Init
  <2>3. AppliedWhenClean  BY <2>1, <2>2 DEF Init, AppliedWhenClean, AllApplied
  <2> QED  BY <2>1, <2>3 DEF Init, Idle, Passes, AppliedUpTo, PassPresent, PassTrue
<1>2. Base /\ Passes /\ [Next]_vars => Passes'
  <2> SUFFICES ASSUME Base, Passes, [Next]_vars PROVE Passes'  OBVIOUS
  <2>1. CASE UNCHANGED vars
    <3>1. Kept  BY <2>1 DEF vars, passes, Kept
    <3> QED  BY <3>1, KeptPasses
  <2>2. ASSUME NEW j \in Jobs, JobStep(j) PROVE Passes'  BY <2>2, JobBase, KeptPasses
  <2> QED  BY <2>1, <2>2, RunPasses, PassPasses DEF Next
<1>3. Passes => AppliedWhenClean  BY DEF Passes
<1> QED  BY <1>1, <1>2, <1>3, InitBase, StepBase, PTL DEF Spec
=============================================================================
