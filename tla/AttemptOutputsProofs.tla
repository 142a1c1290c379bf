------------------------ MODULE AttemptOutputsProofs ------------------------
(***************************************************************************)
(* Proofs about AttemptOutputs, for any number of jobs, workers and tokens.*)
(* That evidence is true and that no executor and no asset loses its file  *)
(* needs no assumption beyond the module's; that the directories of deleted*)
(* jobs can still be told abandoned is proved for retention transactions   *)
(* that do not span the beginning of a pass (LongCommit false).            *)
(***************************************************************************)
EXTENDS AttemptOutputs, WellFoundedInduction, TLAPS

\* The open attempt of a row owns it; an unused token has left nothing anywhere.
Owners ==
  \A t \in Tokens :
    /\ Owner(t) => attempt[t].state = "open"
    /\ attempt[t].state = "unused" => t \notin wrote /\ evid[t].state = "none"

\* An executor, or what it started and left behind, runs for an attempt that nothing says has
\* stopped.
Executors ==
  \A t \in running : /\ attempt[t].worker \notin proof
                     /\ attempt[t].state \in {"open", "ended"}
                     /\ evid[t].state = "none"

\* The jobs of an open retention transaction stay as it found them: settled, and each of
\* their attempts on record as stopped.
Locked ==
  \A j \in tx : /\ row[j].state = "settled"
                /\ \A t \in AttemptsOf(j) : evid[t].state # "none"

\* Only completed attempts are published, and what an owner wrote is still there to publish.
Published ==
  /\ \A t \in refs : attempt[t].state \in {"completed", "gone"}
  /\ \A t \in wrote : Owner(t) => t \in files

Outputs == TypeOK /\ Owners /\ Executors /\ Locked /\ Published /\ LiveOutputKept /\ PublishedOnDisk

\* The sweep's place in the directory.
Cursor == IF walk.on THEN walk.at ELSE pass.at

\* Directories with evidence from before the pass.
Dated == {t \in dirs : evid[t].old}

\* What a pass has met: every directory up to its cursor whose evidence is older than the pass,
\* and all of them once it is complete.  The names of a window leave none out between the cursor
\* and the last of them: an executor that may still make its directory has no evidence yet.
Swept ==
  /\ \A t \in Tokens : evid[t].old => evid[t].state = "set"
  /\ \A t \in Dated : t <= pass.at \/ t <= Cursor \/ pass.complete => evid[t].seen
  /\ \A t \in window : t > Cursor
  /\ \A t \in Dated, u \in window : t > Cursor /\ t <= u => t \in window
  /\ pass.complete => window = {}

Tracked == Outputs /\ Swept /\ Reclaimable

-----------------------------------------------------------------------------
(* The evidence and the attempt of one token. *)

LEMMA EvidenceFields ==
  ASSUME NEW e \in Evidence
  PROVE  e.state \in {"none", "writing", "set"} /\ e.old \in BOOLEAN /\ e.seen \in BOOLEAN
BY DEF Evidence

LEMMA NewEvidenceTyped ==
  /\ NoEvidence \in Evidence /\ NewEvidence("set") \in Evidence /\ NewEvidence("writing") \in Evidence
  /\ NoEvidence.state = "none" /\ NewEvidence("set").state = "set" /\ NewEvidence("writing").state = "writing"
  /\ ~NoEvidence.old /\ ~NewEvidence("set").old /\ ~NewEvidence("writing").old
BY DEF NoEvidence, NewEvidence, Evidence

\* Every attempt keeps its job and its worker for good.
Steady == \A t \in Tokens : /\ attempt'[t].job = attempt[t].job
                            /\ attempt'[t].worker = attempt[t].worker

\* The smallest name the sweep has read.
LEMMA FirstName ==
  ASSUME window \subseteq Tokens, window # {}
  PROVE  Min(window) \in window /\ \A t \in window : Min(window) <= t
<1>1. window \subseteq Nat  BY DEF Tokens
<1> DEFINE R == OpToRel(<, Nat)
<1>2. IsWellFoundedOn(R, Nat)  BY NatLessThanWellFounded, Zenon
<1>3. \A u, t \in Nat : <<u, t>> \notin R => t <= u  BY DEF OpToRel
<1> HIDE DEF R
<1>4. PICK t \in window : \A u \in window : <<u, t>> \notin R
  BY <1>1, <1>2, WFMin, Zenon
<1>5. \A u \in window : t <= u  BY <1>1, <1>3, <1>4
<1> QED  BY <1>5 DEF Min

-----------------------------------------------------------------------------
(* Evidence is true, and nobody loses a file. *)

\* Only the state of one attempt changes.
LEMMA AttemptState ==
  ASSUME NEW t \in Tokens, NEW s \in AttemptStates, attempt \in [Tokens -> Attempt],
         attempt' = [attempt EXCEPT ![t].state = s]
  PROVE  /\ attempt' \in [Tokens -> Attempt]
         /\ Steady
         /\ attempt'[t].state = s
         /\ \A u \in Tokens \ {t} : attempt'[u].state = attempt[u].state
BY DEF Attempt, Steady

\* The jobs and workers of attempts, and the types of what they are looked up in.
LEMMA Typed ==
  ASSUME TypeOK
  PROVE  /\ row \in [Jobs -> Row] /\ attempt \in [Tokens -> Attempt] /\ evid \in [Tokens -> Evidence]
         /\ \A t \in Tokens : /\ attempt[t].job \in Jobs /\ attempt[t].worker \in Workers
                              /\ attempt[t].state \in AttemptStates
                              /\ evid[t].state \in {"none", "writing", "set"}
         /\ \A j \in Jobs : row[j].state \in RowStates
BY DEF TypeOK, Attempt, Evidence, Row

LEMMA InitOutputs == Init => Outputs /\ Swept /\ Reclaimable
<1> SUFFICES ASSUME Init PROVE Outputs /\ Swept /\ Reclaimable  OBVIOUS
<1>1. \A t \in Tokens : /\ attempt[t].state = "unused" /\ attempt[t].job \in Jobs
                        /\ attempt[t] \in Attempt
  BY DEF Init, Attempt, AttemptStates
<1>2. TypeOK
  <2>1. row \in [Jobs -> Row]  BY DEF Init, Row, RowStates
  <2>2. attempt \in [Tokens -> Attempt]  BY <1>1 DEF Init
  <2>3. evid \in [Tokens -> Evidence] /\ \A t \in Tokens : evid[t].state = "none"
    BY NewEvidenceTyped DEF Init
  <2>4. pass \in Pass /\ walk \in Walk  BY DEF Init, Pass, Walk, NewPass, Asleep
  <2> QED  BY <2>1, <2>2, <2>3, <2>4 DEF Init, TypeOK
<1>3. Owners  BY <1>1 DEF Init, Owners, Owner, NoEvidence
<1>4. Executors /\ Locked /\ Published /\ LiveOutputKept /\ PublishedOnDisk
  BY DEF Init, Executors, Locked, Published, LiveOutputKept, PublishedOnDisk
<1>5. Swept  BY NewEvidenceTyped DEF Init, Swept, Dated, NewPass
<1>6. Reclaimable  BY DEF Init, Reclaimable
<1> QED  BY <1>2, <1>3, <1>4, <1>5, <1>6 DEF Outputs

\* The sweep leaves the queue alone.  It takes no file from an executor, an owner or an asset,
\* and no evidence of an attempt that a row remembers.
LEMMA SweepKeepsOutputs ==
  ASSUME Outputs, UNCHANGED <<queueVars, refs, proof, tx>>,
         files' \subseteq files, files' \subseteq dirs', dirs' \subseteq dirs,
         \A t \in files \ files' : t \notin refs /\ t \notin running /\ ~Owner(t),
         evid' \in [Tokens -> Evidence],
         \A t \in Tokens : \/ evid'[t].state = evid[t].state
                           \/ evid'[t].state = "none" /\ attempt[t].state \in {"unused", "gone"},
         pass' \in Pass, walk' \in Walk, window' \subseteq Tokens
  PROVE  Outputs'
<1> USE Typed DEF Outputs, queueVars
<1>1. TypeOK'  BY DEF TypeOK
<1>2. Owners'  BY DEF Owners, Owner
<1>3. Executors'  BY DEF Executors, TypeOK
<1>4. Locked'  BY DEF Locked, AttemptsOf
<1>5. Published'  BY DEF Published, Owner, TypeOK
<1>6. LiveOutputKept' /\ PublishedOnDisk'  BY DEF LiveOutputKept, PublishedOnDisk
<1> QED  BY <1>1, <1>2, <1>3, <1>4, <1>5, <1>6

\* What is on record as stopped does not run.
LEMMA OutputsTrue == Outputs => EvidenceIsTrue
BY DEF Outputs, Executors, EvidenceIsTrue, TypeOK

USE DEF diskVars

LEMMA ClaimOutputs == ASSUME Outputs, NEW t \in Tokens, Claim(t) PROVE Outputs'
<1> DEFINE j == attempt[t].job
           w == attempt[t].worker
<1>0. /\ j \in Jobs /\ w \in Workers /\ w \in alive /\ attempt[t].state = "unused"
      /\ row[j].state = "pending"
      /\ row' = [row EXCEPT ![j] = [state |-> "active", token |-> t]]
      /\ attempt' = [attempt EXCEPT ![t].state = "open"]
      /\ running' = running \cup {t}
      /\ UNCHANGED <<alive, wrote, listed, diskVars, refs, proof, evid, tx, sweepVars>>
  BY Typed DEF Claim, Outputs
<1>1. /\ attempt' \in [Tokens -> Attempt] /\ Steady /\ attempt'[t].state = "open"
      /\ \A u \in Tokens \ {t} : attempt'[u].state = attempt[u].state
  BY <1>0, AttemptState, Typed DEF Outputs, AttemptStates
<1>2. /\ row' \in [Jobs -> Row] /\ row'[j] = [state |-> "active", token |-> t]
      /\ \A i \in Jobs \ {j} : row'[i] = row[i]
  BY <1>0, Typed DEF Outputs, Row, RowStates
<1>3. t \notin wrote /\ evid[t].state = "none"  BY <1>0 DEF Outputs, Owners
<1>4. TypeOK'  BY <1>0, <1>1, <1>2 DEF Outputs, TypeOK, Steady, sweepVars
<1>5. \A u \in Tokens \ {t} : Owner(u)' => Owner(u)
  BY <1>1, <1>2, Typed DEF Outputs, Owner, Steady
<1>6. Owners'  BY <1>0, <1>1, <1>3, <1>5 DEF Outputs, Owners
<1>7. Executors'  BY <1>0, <1>1, <1>3, Typed DEF Outputs, Executors, Steady, TypeOK
<1>8. Locked'
  <2>1. j \notin tx  BY <1>0 DEF Outputs, Locked
  <2> QED  BY <1>0, <1>1, <1>2, <2>1, Typed DEF Outputs, Locked, AttemptsOf, Steady, TypeOK
<1>9. Published'
  <2>1. \A u \in refs : u \in Tokens \ {t}  BY <1>0 DEF Outputs, Published, TypeOK
  <2>2. \A u \in refs : attempt'[u].state \in {"completed", "gone"}
    BY <1>1, <2>1 DEF Outputs, Published
  <2>3. \A u \in wrote : u \in Tokens \ {t}  BY <1>3 DEF Outputs, TypeOK
  <2>4. \A u \in wrote : Owner(u)' => u \in files  BY <1>5, <2>3 DEF Outputs, Published
  <2> QED  BY <1>0, <2>2, <2>4 DEF Published
<1> QED  BY <1>0, <1>3, <1>4, <1>6, <1>7, <1>8, <1>9 DEF Outputs, LiveOutputKept, PublishedOnDisk

LEMMA WriteOutputs == ASSUME Outputs, NEW t \in Tokens, Write(t) PROVE Outputs'
<1> USE Typed DEF Outputs, Write, sweepVars
<1>1. TypeOK'  BY DEF TypeOK
<1>2. Owners'  BY DEF Owners, Owner, Executors
<1>3. Executors' /\ Locked'  BY DEF Executors, Locked, AttemptsOf
<1>4. Published' /\ LiveOutputKept' /\ PublishedOnDisk'
  BY DEF Published, LiveOutputKept, PublishedOnDisk, Owner
<1> QED  BY <1>1, <1>2, <1>3, <1>4

LEMMA ReturnOutputs == ASSUME Outputs, NEW t \in Tokens, Return(t) PROVE Outputs'
<1>1. /\ evid' \in [Tokens -> Evidence]
      /\ \A u \in Tokens \ {t} : evid'[u] = evid[u]
      /\ evid'[t].state \in {evid[t].state, "set"}
  <2>1. CASE evid' = evid  BY <2>1, Typed DEF Outputs
  <2>2. CASE evid' = [evid EXCEPT ![t] = NewEvidence("set")]
    BY <2>2, Typed, NewEvidenceTyped DEF Outputs
  <2> QED  BY <2>1, <2>2 DEF Return
<1> USE <1>1, Typed DEF Outputs, Return, sweepVars
<1>2. TypeOK'  BY DEF TypeOK
<1>3. Owners'  BY DEF Owners, Owner, Executors
<1>4. Executors'  BY DEF Executors, TypeOK
<1>5. Locked'  BY DEF Locked, AttemptsOf
<1>6. Published' /\ LiveOutputKept' /\ PublishedOnDisk'
  BY DEF Published, LiveOutputKept, PublishedOnDisk, Owner
<1> QED  BY <1>2, <1>3, <1>4, <1>5, <1>6

\* A claim ends: its row is no longer active, its attempt no longer open.
LEMMA EndClaimOutputs ==
  ASSUME Outputs, NEW t \in Tokens, Owner(t),
         NEW state \in RowStates \ {"active", "gone"}, NEW outcome \in {"completed", "ended"},
         EndClaim(t, state, outcome),
         outcome = "completed" => t \notin running,
         refs' = refs \/ (outcome = "completed" /\ refs' = refs \cup ({t} \cap wrote)),
         UNCHANGED <<running, alive, wrote, listed, diskVars, proof, evid, tx, sweepVars>>
  PROVE  Outputs'
<1> DEFINE j == attempt[t].job
<1>0. /\ j \in Jobs /\ row[j].state = "active" /\ row[j].token = t /\ attempt[t].state = "open"
      /\ row' = [row EXCEPT ![j] = [state |-> state, token |-> NoToken]]
      /\ attempt' = [attempt EXCEPT ![t].state = outcome]
  BY Typed DEF EndClaim, Outputs, Owner, Owners
<1>1. /\ attempt' \in [Tokens -> Attempt] /\ Steady /\ attempt'[t].state = outcome
      /\ \A u \in Tokens \ {t} : attempt'[u].state = attempt[u].state
  BY <1>0, AttemptState, Typed DEF Outputs, AttemptStates
<1>2. /\ row' \in [Jobs -> Row] /\ row'[j].state # "active"
      /\ \A i \in Jobs \ {j} : row'[i] = row[i]
  BY <1>0, Typed DEF Outputs, Row, RowStates
<1>3. /\ t \in wrote => t \in files
      /\ refs' \subseteq wrote
  BY DEF Outputs, Published, TypeOK
<1>4. TypeOK'  BY <1>0, <1>1, <1>2, <1>3 DEF Outputs, TypeOK, Steady, sweepVars
<1>5. /\ \A u \in Tokens : Owner(u)' => Owner(u)
      /\ ~Owner(t)'
  BY <1>1, <1>2, Typed DEF Outputs, Owner, Steady
<1>6. Owners'  BY <1>0, <1>1, <1>5 DEF Outputs, Owners
<1>7. Executors'  BY <1>0, <1>1, Typed DEF Outputs, Executors, Steady, TypeOK
<1>8. Locked'
  <2>1. j \notin tx  BY <1>0 DEF Outputs, Locked
  <2> QED  BY <1>0, <1>1, <1>2, <2>1, Typed DEF Outputs, Locked, AttemptsOf, Steady, TypeOK
<1>9. Published'
  <2>1. \A u \in refs : u \in Tokens \ {t} /\ attempt'[u].state \in {"completed", "gone"}
    BY <1>0, <1>1 DEF Outputs, Published, TypeOK
  <2>2. \A u \in wrote : Owner(u)' => u \in files  BY <1>5 DEF Outputs, Published, TypeOK
  <2> QED  BY <1>1, <2>1, <2>2 DEF Published
<1>10. LiveOutputKept' /\ PublishedOnDisk'
  BY <1>3 DEF Outputs, LiveOutputKept, PublishedOnDisk
<1> QED  BY <1>4, <1>6, <1>7, <1>8, <1>9, <1>10 DEF Outputs

LEMMA EndOutputs ==
  ASSUME Outputs, NEW t \in Tokens, Complete(t) \/ Fail(t) \/ Recover(t)
  PROVE  Outputs'
<1> USE DEF RowStates
<1>1. CASE Complete(t)  BY <1>1, EndClaimOutputs DEF Complete
<1>2. CASE Fail(t)
  <2>1. PICK state \in {"pending", "settled", "needs_attention"} : EndClaim(t, state, "ended")
    BY <1>2 DEF Fail, Ends
  <2> QED  BY <1>2, <2>1, EndClaimOutputs DEF Fail
<1>3. CASE Recover(t)
  <2>1. PICK state \in {"pending", "settled", "needs_attention"} : EndClaim(t, state, "ended")
    BY <1>3 DEF Recover, Ends
  <2> QED  BY <1>3, <2>1, EndClaimOutputs DEF Recover
<1> QED  BY <1>1, <1>2, <1>3

LEMMA DecideOutputs == ASSUME Outputs, NEW j \in Jobs, Decide(j) PROVE Outputs'
<1>1. /\ row' \in [Jobs -> Row] /\ j \notin tx
      /\ row'[j].state # "active" /\ row[j].state # "active"
      /\ \A i \in Jobs \ {j} : row'[i] = row[i]
  BY Typed DEF Decide, Outputs, Row, RowStates, Unlocked
<1> USE <1>1, Typed DEF Outputs, Decide, sweepVars
<1>2. TypeOK'  BY DEF TypeOK
<1>3. \A u \in Tokens : Owner(u)' => Owner(u)  BY DEF Owner
<1>4. Owners'  BY <1>3 DEF Owners
<1>5. Executors' /\ LiveOutputKept' /\ PublishedOnDisk'
  BY DEF Executors, LiveOutputKept, PublishedOnDisk
<1>6. Locked'  BY DEF Locked, AttemptsOf, TypeOK
<1>7. Published'  BY <1>3 DEF Published, TypeOK
<1> QED  BY <1>2, <1>4, <1>5, <1>6, <1>7

LEMMA ReplaceOutputs == ASSUME Outputs, NEW t \in Tokens, Replace(t) PROVE Outputs'
<1>1. ~Owner(t) /\ t \notin running
  BY DEF Replace, Outputs, Published, Owners, Executors
<1> USE Typed DEF Outputs, Replace, queueVars, sweepVars
<1>2. TypeOK'  BY DEF TypeOK
<1>3. Owners' /\ Executors'  BY DEF Owners, Executors, Owner
<1>4. Locked'  BY DEF Locked, AttemptsOf
<1>5. Published'  BY <1>1 DEF Published, Owner
<1>6. LiveOutputKept' /\ PublishedOnDisk'  BY <1>1 DEF LiveOutputKept, PublishedOnDisk
<1> QED  BY <1>2, <1>3, <1>4, <1>5, <1>6

LEMMA WorkerOutputs ==
  ASSUME Outputs,
         (\E w \in Workers : WorkerExit(w) \/ ProveStop(w)) \/ (\E t \in Tokens : NativeEnds(t))
  PROVE  Outputs'
<1>0. running' \subseteq running /\ \A t \in running' : attempt[t].worker \notin proof'
  BY DEF WorkerExit, ProveStop, NativeEnds, queueVars, Outputs, Executors, TypeOK
<1> USE <1>0, Typed DEF Outputs, WorkerExit, ProveStop, NativeEnds, queueVars, sweepVars
<1>1. TypeOK'  BY DEF TypeOK
<1>2. Owners' /\ Executors'  BY DEF Owners, Executors, Owner
<1>3. Locked'  BY DEF Locked, AttemptsOf
<1>4. Published'  BY DEF Published, Owner
<1>5. LiveOutputKept' /\ PublishedOnDisk'  BY DEF LiveOutputKept, PublishedOnDisk
<1> QED  BY <1>1, <1>2, <1>3, <1>4, <1>5

\* A transaction opens on jobs all of whose attempts have evidence, or get it from a stop
\* that is proven.
LEMMA BeginOutputs == ASSUME Outputs, NEW S \in SUBSET Jobs, RetentionBegin(S) PROVE Outputs'
<1> DEFINE P == {t \in Tokens : \E j \in S : t \in Preserved(j)}
<1>1. /\ tx = {} /\ tx' = S /\ S \subseteq Deletable /\ \A j \in S : FullyPreserved(j)
      /\ UNCHANGED <<queueVars, diskVars, refs, proof, sweepVars>>
      /\ evid' = [t \in Tokens |-> IF t \in P THEN NewEvidence("writing") ELSE evid[t]]
  BY DEF RetentionBegin
<1>2. \A t \in P : /\ attempt[t].job \in S /\ t \notin running
                   /\ attempt[t].state \in {"completed", "ended"} /\ evid[t].state = "none"
  BY DEF Preserved, AttemptsOf, Outputs, Executors, TypeOK
<1>3. /\ evid' \in [Tokens -> Evidence]
      /\ \A t \in P : evid'[t].state = "writing"
      /\ \A t \in Tokens \ P : evid'[t] = evid[t]
  BY <1>1, Typed, NewEvidenceTyped DEF Outputs
<1>4. \A j \in S : /\ row[j].state = "settled"
                   /\ \A t \in AttemptsOf(j) : evid'[t].state # "none"
  <2> SUFFICES ASSUME NEW j \in S PROVE /\ row[j].state = "settled"
                                        /\ \A t \in AttemptsOf(j) : evid'[t].state # "none"
    OBVIOUS
  <2>1. row[j].state = "settled"  BY <1>1 DEF Deletable
  <2>2. \A t \in AttemptsOf(j) : t \in Tokens /\ (evid[t].state = "set" \/ t \in P)
    BY <1>1 DEF FullyPreserved, AttemptsOf
  <2>3. \A t \in AttemptsOf(j) : evid'[t].state # "none"  BY <1>3, <2>2
  <2> QED  BY <2>1, <2>3
<1> HIDE DEF P
<1> USE <1>1, <1>2, <1>3, Typed DEF Outputs, queueVars, sweepVars
<1>5. TypeOK'  BY DEF TypeOK
<1>6. Owners' /\ Executors'  BY DEF Owners, Executors, Owner, TypeOK
<1>7. Locked'  BY <1>4 DEF Locked, AttemptsOf
<1>8. Published'  BY DEF Published, Owner
<1>9. LiveOutputKept' /\ PublishedOnDisk'  BY DEF LiveOutputKept, PublishedOnDisk
<1> QED  BY <1>5, <1>6, <1>7, <1>8, <1>9

LEMMA AbortOutputs == ASSUME Outputs, RetentionAbort PROVE Outputs'
<1>1. /\ evid' \in [Tokens -> Evidence]
      /\ \A t \in Tokens : evid'[t].state \in {"none", "set"} \cap {"none", evid[t].state}
  BY Typed, NewEvidenceTyped DEF RetentionAbort, Outputs
<1> USE <1>1, Typed DEF Outputs, RetentionAbort, queueVars, sweepVars
<1>2. TypeOK'  BY DEF TypeOK
<1>3. Owners' /\ Executors'  BY DEF Owners, Executors, Owner, TypeOK
<1>4. Locked'  BY DEF Locked
<1>5. Published'  BY DEF Published, Owner
<1>6. LiveOutputKept' /\ PublishedOnDisk'  BY DEF LiveOutputKept, PublishedOnDisk
<1> QED  BY <1>2, <1>3, <1>4, <1>5, <1>6

LEMMA VisibleTyped ==
  ASSUME NEW e \in Evidence
  PROVE  /\ Visible(e) \in Evidence
         /\ Visible(e).old = e.old /\ Visible(e).seen = e.seen
         /\ Visible(e).state = IF e.state = "none" THEN "none" ELSE "set"
BY DEF Visible, Evidence

\* What a commit does to rows, attempts and evidence.
LEMMA CommitEffect ==
  ASSUME Outputs, RetentionCommit
  PROVE  /\ row' \in [Jobs -> Row] /\ attempt' \in [Tokens -> Attempt] /\ evid' \in [Tokens -> Evidence]
         /\ Steady /\ tx' = {} /\ proof' \subseteq proof /\ listed' \subseteq listed
         /\ UNCHANGED <<running, alive, wrote, diskVars, refs, sweepVars>>
         /\ \A j \in Jobs : IF j \in tx THEN row'[j].state = "gone" ELSE row'[j] = row[j]
         /\ \A t \in Tokens : IF attempt[t].job \in tx /\ attempt[t].state \in {"open", "completed", "ended"}
                               THEN attempt'[t].state = "gone" ELSE attempt'[t] = attempt[t]
         /\ \A t \in Tokens : /\ evid'[t].old = evid[t].old /\ evid'[t].seen = evid[t].seen
                               /\ evid'[t].state = IF evid[t].state = "none" THEN "none" ELSE "set"
<1> DEFINE A == UNION {AttemptsOf(j) : j \in tx}
           kept == [t \in Tokens |-> IF t \in A THEN [attempt[t] EXCEPT !.state = "gone"] ELSE attempt[t]]
           used == {kept[t].worker : t \in {u \in Tokens : kept[u].state \notin {"unused", "gone"}}}
<1>1. /\ row' = [j \in Jobs |-> IF j \in tx THEN [row[j] EXCEPT !.state = "gone"] ELSE row[j]]
      /\ attempt' = kept /\ tx' = {}
      /\ evid' = [t \in Tokens |-> Visible(evid[t])]
      /\ UNCHANGED <<running, alive, wrote, diskVars, refs, sweepVars>>
  BY DEF RetentionCommit
<1>2. proof' \subseteq proof /\ listed' \subseteq listed  BY DEF RetentionCommit
<1>3. \A t \in Tokens : t \in A <=> attempt[t].job \in tx /\ attempt[t].state \in {"open", "completed", "ended"}
  BY DEF AttemptsOf
<1> HIDE DEF A
<1>4. /\ attempt' \in [Tokens -> Attempt] /\ Steady
      /\ \A t \in Tokens : IF t \in A THEN attempt'[t].state = "gone" ELSE attempt'[t] = attempt[t]
  BY <1>1, Typed DEF Outputs, Attempt, AttemptStates, Steady
<1>5. /\ row' \in [Jobs -> Row]
      /\ \A j \in Jobs : IF j \in tx THEN row'[j].state = "gone" ELSE row'[j] = row[j]
  BY <1>1, Typed DEF Outputs, Row, RowStates
<1>6. /\ evid' \in [Tokens -> Evidence]
      /\ \A t \in Tokens : /\ evid'[t].old = evid[t].old /\ evid'[t].seen = evid[t].seen
                           /\ evid'[t].state = IF evid[t].state = "none" THEN "none" ELSE "set"
  BY <1>1, Typed, VisibleTyped DEF Outputs
<1> QED  BY <1>1, <1>2, <1>3, <1>4, <1>5, <1>6

LEMMA CommitOutputs == ASSUME Outputs, RetentionCommit PROVE Outputs'
<1> USE CommitEffect, Typed DEF Outputs, Steady, sweepVars
<1>1. TypeOK'  BY DEF TypeOK
<1>2. \A t \in Tokens : Owner(t)' => Owner(t) /\ attempt'[t].state = attempt[t].state
  BY DEF Owner
<1>3. Owners'  BY <1>2 DEF Owners
<1>4. Executors'
  <2>1. \A t \in running : t \in Tokens /\ attempt'[t] = attempt[t]
    BY DEF Executors, Locked, AttemptsOf, TypeOK
  <2> QED  BY <2>1 DEF Executors
<1>5. Locked'  BY DEF Locked
<1>6. Published'
  <2>1. \A t \in refs : t \in Tokens /\ attempt'[t].state \in {"completed", "gone"}
    BY DEF Published, TypeOK
  <2>2. \A t \in wrote : Owner(t)' => t \in files  BY <1>2 DEF Published, TypeOK
  <2> QED  BY <2>1, <2>2 DEF Published
<1>7. LiveOutputKept' /\ PublishedOnDisk'  BY DEF LiveOutputKept, PublishedOnDisk
<1> QED  BY <1>1, <1>3, <1>4, <1>5, <1>6, <1>7

\* A file that the sweep may take belongs to no executor and no owner.
LEMMA AbandonedIsOver ==
  ASSUME Outputs, NEW t \in Tokens, Abandoned(t)
  PROVE  t \notin running /\ ~Owner(t)
<1>1. ~Owner(t)  BY DEF Abandoned, RowAllows, Owner
<1>2. t \notin running  BY DEF Abandoned, Outputs, Executors, TypeOK
<1> QED  BY <1>1, <1>2

\* The sweep comes to a name: it keeps the directory, takes the file or takes the directory.
Visit(t) == Keep(t) \/ Remove(t) \/ RemoveDirectory(t)

\* A visit changes no evidence but the mark that the directory was met.
LEMMA VisitEffect ==
  ASSUME TypeOK, NEW t \in Tokens, Visit(t)
  PROVE  /\ evid' \in [Tokens -> Evidence] /\ walk' \in Walk
         /\ walk'.on /\ walk'.at = t
         /\ \A u \in Tokens : /\ evid'[u].state = evid[u].state /\ evid'[u].old = evid[u].old
                              /\ evid[u].seen => evid'[u].seen
         /\ t \in dirs /\ evid[t].state = "set" /\ evid[t].old => evid'[t].seen
         /\ UNCHANGED <<queueVars, refs, proof, tx, pass>>
         /\ files' \subseteq files /\ files \ files' \subseteq {t}
         /\ dirs' \subseteq dirs /\ files' \subseteq dirs'
         /\ window' = window \ {t}
<1>1. \/ evid' = [evid EXCEPT ![t].seen = TRUE]
      \/ evid' = evid /\ ~(t \in dirs /\ evid[t].state = "set" /\ evid[t].old)
  BY DEF Visit, Keep, Remove, RemoveDirectory, Mark
<1>2. /\ evid' \in [Tokens -> Evidence]
      /\ \A u \in Tokens : /\ evid'[u].state = evid[u].state /\ evid'[u].old = evid[u].old
                           /\ evid[u].seen => evid'[u].seen
      /\ t \in dirs /\ evid[t].state = "set" /\ evid[t].old => evid'[t].seen
  <2>1. CASE evid' = evid /\ ~(t \in dirs /\ evid[t].state = "set" /\ evid[t].old)  BY <2>1, Typed
  <2>2. CASE evid' = [evid EXCEPT ![t].seen = TRUE]
    <3>1. \A u \in Tokens \ {t} : evid'[u] = evid[u]  BY <2>2, Typed
    <3>2. evid'[t] = [evid[t] EXCEPT !.seen = TRUE]  BY <2>2, Typed
    <3>3. /\ evid'[t] \in Evidence /\ evid'[t].seen
          /\ evid'[t].state = evid[t].state /\ evid'[t].old = evid[t].old
      BY <3>2, Typed DEF Evidence
    <3>4. evid' \in [Tokens -> Evidence]
      <4>1. evid' = [u \in Tokens |-> IF u = t THEN evid'[t] ELSE evid[u]]  BY <2>2, Typed
      <4> QED  BY <3>3, <4>1, Typed
    <3> QED  BY <3>1, <3>3, <3>4
  <2> QED  BY <1>1, <2>1, <2>2
<1>3. walk' \in Walk /\ walk'.on /\ walk'.at = t
  <2>1. walk \in Walk /\ walk.on  BY DEF TypeOK, Visit, Keep, Remove, RemoveDirectory, Visiting
  <2>2. \E lost \in BOOLEAN : \/ walk' = [walk EXCEPT !.at = t, !.incomplete = lost]
                              \/ walk' = [walk EXCEPT !.at = t]
    <3>1. CASE Remove(t)  BY <3>1 DEF Remove
    <3>2. CASE Keep(t)
      <4> DEFINE lost == walk.incomplete \/ t \notin dirs
      <4>1. walk' = [walk EXCEPT !.at = t, !.incomplete = lost]  BY <3>2 DEF Keep
      <4>2. lost \in BOOLEAN  OBVIOUS
      <4> HIDE DEF lost
      <4> QED  BY <4>1, <4>2
    <3>3. CASE RemoveDirectory(t)
      <4> DEFINE lost == walk.incomplete \/ \A u \in dirs \ {t} : attempt[u].job # attempt[t].job
      <4>1. walk' = [walk EXCEPT !.at = t, !.incomplete = lost]  BY <3>3 DEF RemoveDirectory
      <4>2. lost \in BOOLEAN  OBVIOUS
      <4> HIDE DEF lost
      <4> QED  BY <4>1, <4>2
    <3> QED  BY <3>1, <3>2, <3>3 DEF Visit
  <2> QED  BY <2>1, <2>2 DEF Walk
<1>4. /\ UNCHANGED <<queueVars, refs, proof, tx, pass>>
      /\ files' \subseteq files /\ files \ files' \subseteq {t}
      /\ dirs' \subseteq dirs /\ files' \subseteq dirs' /\ window' = window \ {t}
  BY DEF Visit, Keep, Remove, RemoveDirectory, TypeOK
<1> QED  BY <1>2, <1>3, <1>4

LEMMA VisitOutputs == ASSUME Outputs, NEW t \in Tokens, Visit(t) PROVE Outputs'
<1>1. \A u \in files \ files' : u \notin refs /\ u \notin running /\ ~Owner(u)
  <2>1. CASE Keep(t) \/ RemoveDirectory(t)  BY <2>1 DEF Keep, RemoveDirectory
  <2>2. CASE Remove(t)  BY <2>2, AbandonedIsOver DEF Remove
  <2> QED  BY <2>1, <2>2 DEF Visit
<1>2. pass' \in Pass /\ window' \subseteq Tokens  BY VisitEffect DEF Outputs, TypeOK
<1> QED  BY <1>1, <1>2, VisitEffect, SweepKeepsOutputs DEF Outputs

\* A new pass: nothing has been met yet, and what is dated was recorded when it began.
LEMMA StartEffect ==
  ASSUME NEW e \in [Tokens -> Evidence], StartPass(e)
  PROVE  /\ evid' \in [Tokens -> Evidence] /\ pass' = NewPass
         /\ \A t \in Tokens : evid'[t].state = e[t].state /\ (e[t].state = "none" => evid'[t] = e[t])
<1>1. \A t \in Tokens : /\ Aged(e, t) \in Evidence /\ Aged(e, t).state = e[t].state
                        /\ e[t].state = "none" => Aged(e, t) = e[t]
  <2> SUFFICES ASSUME NEW t \in Tokens
               PROVE  /\ Aged(e, t) \in Evidence /\ Aged(e, t).state = e[t].state
                      /\ e[t].state = "none" => Aged(e, t) = e[t]
    OBVIOUS
  <2> DEFINE o == t \in walk.known
  <2>1. o \in BOOLEAN  OBVIOUS
  <2>2. Aged(e, t) = IF e[t].state = "none" THEN e[t] ELSE [e[t] EXCEPT !.old = o, !.seen = FALSE]
    BY DEF Aged
  <2> HIDE DEF o
  <2> QED  BY <2>1, <2>2 DEF Evidence
<1> QED  BY <1>1 DEF StartPass

\* Evidence is pruned only of attempts that no row remembers.
Pruned == [t \in Tokens |-> IF Unused(t) THEN NoEvidence ELSE evid[t]]

LEMMA PrunedEffect ==
  ASSUME TypeOK
  PROVE  /\ Pruned \in [Tokens -> Evidence]
         /\ \A t \in Tokens : Pruned[t] = IF Unused(t) THEN NoEvidence ELSE evid[t]
BY Typed, NewEvidenceTyped DEF Pruned

\* The steps of the sweep between files.
SweepStep == SweepBegin \/ ReadNames \/ SaveCursor \/ EndPass \/ PruneEvidence \/ SweepLost

LEMMA PlacesTyped == NewPass \in Pass /\ Asleep \in Walk
BY DEF NewPass, Pass, Asleep, Walk

LEMMA SweepOutputs == ASSUME Outputs, SweepStep PROVE Outputs'
<1>0. UNCHANGED <<queueVars, refs, proof, tx>> /\ files' = files /\ dirs' = dirs
  BY DEF SweepStep, SweepBegin, ReadNames, SaveCursor, EndPass, PruneEvidence, SweepLost
<1>1. /\ pass' \in Pass /\ walk' \in Walk /\ window' \subseteq Tokens
      /\ files \subseteq dirs
  <2>1. /\ pass \in Pass /\ walk \in Walk /\ window \subseteq Tokens
          /\ files \subseteq dirs /\ dirs \subseteq Tokens
    BY DEF Outputs, TypeOK
  <2>2. CASE SweepBegin
    <3>1. HasEvidence \in SUBSET Tokens  BY DEF HasEvidence
    <3>2. pass.at \in {NoToken} \cup Tokens /\ pass.incomplete \in BOOLEAN  BY <2>1 DEF Pass
    <3> QED  BY <2>1, <2>2, <3>1, <3>2 DEF SweepBegin, Walk
  <2>3. CASE ReadNames  BY <2>1, <2>3 DEF ReadNames, After
  <2>4. CASE SaveCursor
    <3>1. walk.incomplete \in BOOLEAN /\ walk.at \in {NoToken} \cup Tokens  BY <2>1 DEF Walk
    <3>2. pass' \in Pass  BY <2>1, <2>4, <3>1 DEF SaveCursor, Pass
    <3> QED  BY <2>1, <2>4, <3>2, PlacesTyped DEF SaveCursor
  <2>5. CASE EndPass
    <3>1. pass' = NewPass \/ pass' = [pass EXCEPT !.at = NoToken, !.complete = TRUE]
      BY <2>5 DEF EndPass, StartPass
    <3>2. pass' \in Pass  BY <2>1, <3>1, PlacesTyped DEF Pass
    <3> QED  BY <2>1, <2>5, <3>2, PlacesTyped DEF EndPass
  <2>6. CASE PruneEvidence  BY <2>1, <2>6, PlacesTyped DEF PruneEvidence, StartPass
  <2>7. CASE SweepLost  BY <2>1, <2>7, PlacesTyped DEF SweepLost
  <2> QED  BY <2>2, <2>3, <2>4, <2>5, <2>6, <2>7 DEF SweepStep
<1>2. /\ evid' \in [Tokens -> Evidence]
      /\ \A t \in Tokens : \/ evid'[t].state = evid[t].state
                           \/ evid'[t].state = "none" /\ attempt[t].state \in {"unused", "gone"}
  <2>1. CASE evid' = evid  BY <2>1, Typed DEF Outputs
  <2>2. CASE StartPass(evid)  BY <2>2, Typed, StartEffect DEF Outputs
  <2>3. CASE StartPass(Pruned)
    <3>1. \A t \in Tokens : evid'[t].state = Pruned[t].state /\ evid' \in [Tokens -> Evidence]
      BY <2>3, PrunedEffect, StartEffect DEF Outputs
    <3> QED  BY <2>3, <3>1, PrunedEffect, StartEffect, NewEvidenceTyped DEF Outputs, Unused
  <2> QED  BY <2>1, <2>2, <2>3
       DEF SweepStep, SweepBegin, ReadNames, SaveCursor, EndPass, PruneEvidence, SweepLost, Pruned
<1> QED  BY <1>0, <1>1, <1>2, SweepKeepsOutputs

\* The steps of the queue, of supervisors and of retention.
QueueStep ==
  \/ \E t \in Tokens : \/ Claim(t) \/ Write(t) \/ Return(t) \/ Replace(t)
                       \/ Complete(t) \/ Fail(t) \/ Recover(t) \/ NativeEnds(t)
  \/ \E j \in Jobs : Decide(j)
  \/ \E w \in Workers : WorkerExit(w) \/ ProveStop(w)
  \/ \E S \in SUBSET Jobs : RetentionBegin(S)
  \/ RetentionCommit \/ RetentionAbort

LEMMA NextSteps == Next => QueueStep \/ (\E t \in Tokens : Visit(t)) \/ SweepStep
BY DEF Next, QueueStep, Visit, SweepStep

LEMMA NextOutputs == Outputs /\ [Next]_vars => Outputs'
<1> SUFFICES ASSUME Outputs, [Next]_vars PROVE Outputs'  OBVIOUS
<1>1. CASE QueueStep
  BY <1>1, ClaimOutputs, WriteOutputs, ReturnOutputs, ReplaceOutputs, EndOutputs, DecideOutputs,
     WorkerOutputs, BeginOutputs, CommitOutputs, AbortOutputs DEF QueueStep
<1>2. ASSUME NEW t \in Tokens, Visit(t) PROVE Outputs'  BY <1>2, VisitOutputs
<1>3. CASE SweepStep  BY <1>3, SweepOutputs
<1>4. CASE UNCHANGED vars
  BY <1>4 DEF vars, Outputs, TypeOK, Owners, Owner, Executors, Locked, AttemptsOf, Published,
       LiveOutputKept, PublishedOnDisk
<1> QED  BY <1>1, <1>2, <1>3, <1>4, NextSteps

\* Whatever leases expire, workers exit and rows settle: an attempt that is on record as
\* stopped, by its own completion, its evidence or its worker's stop, has no executor left.
THEOREM RecordedIsStopped == Spec => []EvidenceIsTrue
<1>1. Init => Outputs  BY InitOutputs
<1>2. Outputs /\ [Next]_vars => Outputs'  BY NextOutputs
<1> QED  BY <1>1, <1>2, OutputsTrue, PTL DEF Spec

\* The sweep never takes a file from an executor that still runs, from a claim that is still
\* to publish it, or from an asset.
THEOREM SweepTakesNoLiveOutput == Spec => []OutputsKept
<1>1. Init => Outputs  BY InitOutputs
<1>2. Outputs /\ [Next]_vars => Outputs'  BY NextOutputs
<1>3. Outputs => OutputsKept  BY DEF Outputs, OutputsKept
<1> QED  BY <1>1, <1>2, <1>3, PTL DEF Spec

-----------------------------------------------------------------------------
(* Directories of deleted jobs stay reclaimable. *)

\* A step that leaves the sweep where it is: evidence is added or dropped, but never aged,
\* and a directory that appears is not one that the pass should have met.
LEMMA OthersKeepTracked ==
  ASSUME Tracked, UNCHANGED sweepVars,
         evid' \in [Tokens -> Evidence], dirs' \subseteq Tokens,
         \A t \in Tokens : evid'[t].old =>
            evid[t].old /\ evid'[t].state = evid[t].state /\ evid'[t].seen = evid[t].seen,
         \A t \in Tokens : evid[t].state = "set" => evid'[t].state = "set",
         \A t \in Tokens : attempt'[t].state = "gone" => attempt[t].state = "gone" \/ evid'[t].state = "set",
         \A t \in dirs' \ dirs : ~evid'[t].old /\ attempt'[t].state # "gone"
  PROVE  Swept' /\ Reclaimable'
<1> USE DEF Tracked, sweepVars
<1>1. \A t \in Dated' : t \in Dated /\ evid'[t].seen = evid[t].seen  BY DEF Dated
<1>2. Cursor' = Cursor  BY DEF Cursor
<1>3. Swept'  BY <1>1, <1>2 DEF Swept
<1>4. Reclaimable'  BY DEF Reclaimable
<1> QED  BY <1>3, <1>4

LEMMA QueueTracked == ASSUME Tracked, QueueStep PROVE Swept' /\ Reclaimable'
<1>0. Outputs /\ TypeOK /\ dirs \subseteq Tokens  BY DEF Tracked, Outputs, TypeOK
<1>1. \A t \in Tokens : evid[t].state # "set" => ~evid[t].old  BY DEF Tracked, Swept
<1> USE Typed, <1>0
<1>2. CASE evid' = evid /\ dirs' \subseteq dirs
           /\ (\A t \in Tokens : attempt'[t].state = "gone" => attempt[t].state = "gone") /\ UNCHANGED sweepVars
  BY <1>2, OthersKeepTracked
<1>3. ASSUME NEW t \in Tokens, \/ Claim(t) \/ Complete(t) \/ Fail(t) \/ Recover(t)
      PROVE  Swept' /\ Reclaimable'
  <2>1. PICK s \in {"open", "completed", "ended"} : attempt' = [attempt EXCEPT ![t].state = s]
    BY <1>3 DEF Claim, Complete, Fail, Recover, EndClaim
  <2>2. \A u \in Tokens : attempt'[u].state = "gone" => attempt[u].state = "gone"
    BY <2>1, AttemptState DEF AttemptStates
  <2>3. evid' = evid /\ dirs' = dirs /\ UNCHANGED sweepVars
    BY <1>3 DEF Claim, Complete, Fail, Recover
  <2> QED  BY <1>2, <2>2, <2>3
<1>4. CASE (\E t \in Tokens : Replace(t)) \/ (\E j \in Jobs : Decide(j))
           \/ (\E w \in Workers : WorkerExit(w) \/ ProveStop(w)) \/ (\E t \in Tokens : NativeEnds(t))
  BY <1>2, <1>4 DEF Replace, Decide, WorkerExit, ProveStop, NativeEnds, queueVars
<1>5. ASSUME NEW t \in Tokens, Write(t) PROVE Swept' /\ Reclaimable'
  <2>1. /\ t \in running /\ dirs' = dirs \cup {t}
        /\ UNCHANGED <<attempt, evid>> /\ UNCHANGED sweepVars
    BY <1>5 DEF Write
  <2>2. ~evid'[t].old /\ attempt'[t].state # "gone"
    BY <1>1, <2>1 DEF Outputs, Executors
  <2> QED  BY <2>1, <2>2, OthersKeepTracked
<1>6. ASSUME NEW t \in Tokens, Return(t) PROVE Swept' /\ Reclaimable'
  <2>1. /\ \A u \in Tokens \ {t} : evid'[u] = evid[u]
        /\ \/ evid'[t] = evid[t]
           \/ evid[t].state = "none" /\ evid'[t] = NewEvidence("set")
        /\ evid' \in [Tokens -> Evidence]
        /\ UNCHANGED <<attempt, dirs>> /\ UNCHANGED sweepVars
    BY <1>6, NewEvidenceTyped DEF Return
  <2>2. \A u \in Tokens : /\ evid'[u].old => evid'[u] = evid[u]
                          /\ evid[u].state = "set" => evid'[u].state = "set"
    BY <2>1, NewEvidenceTyped
  <2> QED  BY <2>1, <2>2, OthersKeepTracked
<1>7. ASSUME NEW S \in SUBSET Jobs, RetentionBegin(S) PROVE Swept' /\ Reclaimable'
  <2>1. /\ \A t \in Tokens : \/ evid'[t] = evid[t]
                             \/ evid[t].state = "none" /\ evid'[t] = NewEvidence("writing")
        /\ evid' \in [Tokens -> Evidence]
        /\ UNCHANGED <<attempt, dirs>> /\ UNCHANGED sweepVars
    BY <1>7, NewEvidenceTyped DEF RetentionBegin, Preserved, queueVars
  <2>2. \A t \in Tokens : /\ evid'[t].old => evid'[t] = evid[t]
                          /\ evid[t].state = "set" => evid'[t].state = "set"
    BY <2>1, NewEvidenceTyped
  <2> QED  BY <2>1, <2>2, OthersKeepTracked
<1>8. CASE RetentionAbort
  <2>1. /\ \A t \in Tokens : \/ evid'[t] = evid[t]
                             \/ evid[t].state = "writing" /\ evid'[t] = NoEvidence
        /\ evid' \in [Tokens -> Evidence]
        /\ UNCHANGED <<attempt, dirs>> /\ UNCHANGED sweepVars
    BY <1>8, NewEvidenceTyped DEF RetentionAbort, queueVars
  <2>2. \A t \in Tokens : /\ evid'[t].old => evid'[t] = evid[t]
                          /\ evid[t].state = "set" => evid'[t].state = "set"
    BY <2>1, NewEvidenceTyped
  <2> QED  BY <2>1, <2>2, OthersKeepTracked
<1>9. CASE RetentionCommit
  <2>1. \A t \in Tokens : attempt'[t].state = "gone" => attempt[t].state = "gone" \/ evid'[t].state = "set"
    BY <1>9, CommitEffect DEF Outputs, Locked, AttemptsOf
  <2>2. \A t \in Tokens : evid'[t].old =>
            evid[t].old /\ evid'[t].state = evid[t].state /\ evid'[t].seen = evid[t].seen
    BY <1>1, <1>9, CommitEffect
  <2>3. \A t \in Tokens : evid[t].state = "set" => evid'[t].state = "set"  BY <1>9, CommitEffect
  <2>4. UNCHANGED sweepVars /\ evid' \in [Tokens -> Evidence] /\ dirs' = dirs
    BY <1>9, CommitEffect
  <2> QED  BY <2>1, <2>2, <2>3, <2>4, OthersKeepTracked
<1> QED  BY <1>3, <1>4, <1>5, <1>6, <1>7, <1>8, <1>9 DEF QueueStep

\* A visit moves the cursor to the first name read, over no dated directory but the one it marks.
LEMMA VisitTracked ==
  ASSUME Tracked, NEW t \in Tokens, Visit(t)
  PROVE  Swept' /\ Reclaimable'
<1>0. TypeOK /\ dirs \subseteq Tokens /\ dirs' \subseteq dirs /\ window \subseteq Tokens
  BY VisitEffect DEF Tracked, Outputs, TypeOK
<1>1. walk.on /\ ~pass.complete /\ t \in window /\ \A u \in window : t <= u
  BY <1>0, FirstName DEF Visit, Keep, Remove, RemoveDirectory, Visiting
<1>2. Cursor = walk.at /\ Cursor' = t  BY <1>0, <1>1, VisitEffect DEF Cursor
<1>3. /\ \A u \in Tokens : evid[u].old => evid[u].state = "set"
      /\ \A u \in Dated : u <= pass.at \/ u <= Cursor => evid[u].seen
      /\ \A u \in Dated, n \in window : u > Cursor /\ u <= n => u \in window
      /\ t > Cursor
  BY <1>1 DEF Tracked, Swept
<1>4. Cursor \in Int /\ pass.at \in Int /\ Tokens \subseteq Int
  BY <1>0, <1>2 DEF TypeOK, Walk, Pass, NoToken, Tokens
<1>5. \A u \in Dated' : u \in Tokens /\ u \in Dated  BY <1>0, VisitEffect DEF Dated
<1>6. \A u \in Dated' : u <= pass.at \/ u <= t => evid'[u].seen
  <2> SUFFICES ASSUME NEW u \in Dated', u <= pass.at \/ u <= t PROVE evid'[u].seen  OBVIOUS
  <2>1. u \in Tokens /\ u \in Dated /\ u \in dirs /\ evid[u].old
    BY <1>5 DEF Dated
  <2>2. CASE u <= pass.at \/ u <= Cursor
    <3>1. evid[u].seen  BY <1>3, <2>1, <2>2
    <3> QED  BY <1>0, <2>1, <3>1, VisitEffect
  <2>3. CASE ~(u <= pass.at \/ u <= Cursor)
    <3>1. u \in Int /\ t \in Int  BY <1>4, <2>1
    <3>2. u > Cursor /\ u <= t  BY <1>4, <2>3, <3>1
    <3>3. u \in window  BY <1>1, <1>3, <2>1, <3>2
    <3>4. u = t  BY <1>1, <3>1, <3>2, <3>3
    <3>5. evid[u].state = "set"  BY <1>3, <2>1
    <3> QED  BY <1>0, <2>1, <3>4, <3>5, VisitEffect
  <2> QED  BY <2>2, <2>3
<1>7. window' = window \ {t} /\ t \in Int /\ window \subseteq Int  BY <1>0, <1>4, VisitEffect
<1>8. \A u \in Dated', n \in window' : u > t /\ u <= n => u \in window'
  <2> SUFFICES ASSUME NEW u \in Dated', NEW n \in window', u > t, u <= n PROVE u \in window'
    OBVIOUS
  <2>1. u \in Dated /\ u \in Int  BY <1>4, <1>5
  <2> QED  BY <1>3, <1>4, <1>7, <2>1
<1>9. \A u \in window' : u > t  BY <1>1, <1>7
<1>10. Swept'
  <2>1. \A u \in Tokens : evid'[u].old => evid'[u].state = "set"  BY <1>0, <1>3, VisitEffect
  <2>2. pass' = pass  BY <1>0, VisitEffect
  <2> QED  BY <1>1, <1>2, <1>6, <1>8, <1>9, <2>1, <2>2 DEF Swept
<1>11. Reclaimable'  BY <1>0, VisitEffect DEF Tracked, Reclaimable, queueVars
<1> QED  BY <1>10, <1>11

\* A pass that starts has its cursor before every name, and dates only finished evidence: no
\* transaction is open.
LEMMA StartSwept ==
  ASSUME Tracked, ~LongCommit, NEW e \in [Tokens -> Evidence],
         \A t \in Tokens : e[t] = evid[t] \/ e[t] = NoEvidence,
         StartPass(e), walk' = Asleep, window' = {}, dirs' \subseteq Tokens
  PROVE  Swept'
<1>1. tx = {} /\ TypeOK  BY DEF StartPass, Tracked, Outputs
<1>2. \A t \in Tokens : evid[t].state \in {"none", "set"} /\ (evid[t].old => evid[t].state = "set")
  BY <1>1, Typed DEF TypeOK, Tracked, Swept
<1>3. \A t \in Tokens : e[t].state \in {"none", "set"} /\ (e[t].old => e[t].state = "set")
  BY <1>2, NewEvidenceTyped
<1>4. /\ evid' \in [Tokens -> Evidence]
      /\ \A t \in Tokens : evid'[t].old => evid'[t].state = "set"
  BY <1>3, StartEffect
<1>5. Cursor' = 0 /\ pass'.at = 0 /\ ~pass'.complete
  BY StartEffect DEF Cursor, NewPass, Asleep, NoToken
<1>6. \A t \in Dated' : ~(t <= 0)  BY DEF Dated, Tokens
<1> QED  BY <1>4, <1>5, <1>6 DEF Swept

LEMMA SweepTracked ==
  ASSUME ~LongCommit, Tracked, SweepStep
  PROVE  Swept' /\ Reclaimable'
<1>0. /\ TypeOK /\ dirs \subseteq Tokens /\ dirs' = dirs /\ attempt' = attempt
      /\ pass.at \in Int /\ walk.at \in Int /\ Tokens \subseteq Int
  <2>1. TypeOK /\ dirs \subseteq Tokens  BY DEF Tracked, Outputs, TypeOK
  <2>2. pass.at \in Int /\ walk.at \in Int /\ Tokens \subseteq Int
    BY <2>1 DEF TypeOK, Walk, Pass, NoToken, Tokens
  <2>3. dirs' = dirs /\ attempt' = attempt
    BY DEF SweepStep, SweepBegin, ReadNames, SaveCursor, EndPass, PruneEvidence, SweepLost, queueVars
  <2> QED  BY <2>1, <2>2, <2>3
<1>1. /\ \A t \in Tokens : evid[t].old => evid[t].state = "set"
      /\ \A t \in Dated : t <= pass.at \/ t <= Cursor \/ pass.complete => evid[t].seen
      /\ \A t \in window : t > Cursor
      /\ \A t \in Dated, u \in window : t > Cursor /\ t <= u => t \in window
      /\ pass.complete => window = {}
      /\ Reclaimable
  BY DEF Tracked, Swept
<1>2. evid' = evid => Dated' = Dated /\ Reclaimable'
  BY <1>0, <1>1 DEF Dated, Reclaimable
<1>3. CASE SweepBegin
  <2>1. evid' = evid /\ pass' = pass /\ window' = window /\ Cursor' = Cursor
    BY <1>3 DEF SweepBegin, Cursor
  <2> QED  BY <1>1, <1>2, <2>1 DEF Swept
<1>4. CASE ReadNames
  <2>1. /\ evid' = evid /\ pass' = pass /\ Cursor' = Cursor
        /\ Cursor = walk.at /\ ~pass.complete
        /\ window' \subseteq After(dirs)
        /\ \A t \in window', u \in After(dirs) \ window' : t < u
    BY <1>4 DEF ReadNames, Cursor
  <2>2. \A t \in window' : t \in Int /\ t > Cursor'  BY <1>0, <2>1 DEF After
  <2>3. \A t \in Dated' : t > Cursor' => t \in After(dirs) /\ t \in Int
    BY <1>0, <1>2, <2>1 DEF After, Dated
  <2>4. \A t \in Dated', u \in window' : t > Cursor' /\ t <= u => t \in window'
    BY <2>1, <2>2, <2>3
  <2> QED  BY <1>1, <1>2, <2>1, <2>2, <2>4 DEF Swept
<1>5. CASE SaveCursor
  <2>1. /\ evid' = evid /\ window' = window /\ Cursor = walk.at /\ ~pass.complete
        /\ pass' = [pass EXCEPT !.at = walk.at, !.incomplete = walk.incomplete]
        /\ ~walk'.on
    BY <1>5 DEF SaveCursor, Cursor, Asleep
  <2>2. pass'.at = walk.at /\ pass'.complete = pass.complete
    BY <1>0, <2>1 DEF TypeOK, Pass
  <2>3. Cursor' = Cursor  BY <2>1, <2>2 DEF Cursor
  <2> QED  BY <1>1, <1>2, <2>1, <2>2, <2>3 DEF Swept
<1>6. CASE SweepLost
  <2>1. evid' = evid /\ pass' = pass /\ window' = {} /\ Cursor' = pass.at
    BY <1>6 DEF SweepLost, Cursor, Asleep
  <2> QED  BY <1>1, <1>2, <2>1 DEF Swept
<1>7. CASE EndPass
  <2>1. /\ window' = {} /\ walk' = Asleep /\ ~walk'.on /\ Cursor = walk.at
        /\ \A t \in dirs : ~(t > walk.at)
    BY <1>7 DEF EndPass, After, Asleep, Cursor
  <2>2. CASE walk.incomplete
    <3>1. StartPass(evid)  BY <1>7, <2>2 DEF EndPass
    <3>2. Swept'  BY <1>0, <2>1, <3>1, StartSwept, Typed
    <3>3. Reclaimable'  BY <1>0, <1>1, <3>1, StartEffect, Typed DEF Reclaimable
    <3> QED  BY <3>2, <3>3
  <2>3. CASE ~walk.incomplete
    <3>1. evid' = evid /\ pass' = [pass EXCEPT !.at = NoToken, !.complete = TRUE]
      BY <1>7, <2>3 DEF EndPass
    <3>2. \A t \in Dated : t \in Tokens /\ t <= walk.at  BY <1>0, <2>1 DEF Dated
    <3>3. \A t \in Dated : evid[t].seen  BY <1>1, <2>1, <3>2
    <3> QED  BY <1>1, <1>2, <2>1, <3>1, <3>3 DEF Swept
  <2> QED  BY <2>2, <2>3
<1>8. CASE PruneEvidence
  <2>1. walk.on /\ pass.complete /\ StartPass(Pruned) /\ walk' = Asleep /\ window' = {}
    BY <1>1, <1>8 DEF PruneEvidence, Pruned
  <2>2. /\ Pruned \in [Tokens -> Evidence]
        /\ \A t \in Tokens : Pruned[t] = IF Unused(t) THEN NoEvidence ELSE evid[t]
    BY <1>0, PrunedEffect
  <2>3. Swept'  BY <1>0, <2>1, <2>2, StartSwept
  <2>4. \A t \in dirs : ~Unused(t)  BY <1>0, <1>1, <2>1 DEF Dated, Unused
  <2>5. \A t \in dirs : evid'[t].state = evid[t].state
    BY <1>0, <2>1, <2>2, <2>4, StartEffect
  <2>6. Reclaimable'  BY <1>0, <1>1, <2>5 DEF Reclaimable
  <2> QED  BY <2>3, <2>6
<1> QED  BY <1>3, <1>4, <1>5, <1>6, <1>7, <1>8 DEF SweepStep

\* A directory whose job retention deleted keeps the evidence that tells it abandoned, for any
\* number of names and any window, however passes are cut short, lost or read while directories come and go.
THEOREM LeftoversStayReclaimable ==
  ASSUME ~LongCommit
  PROVE  Spec => []Reclaimable
<1>1. Init => Tracked  BY InitOutputs DEF Tracked
<1>2. Tracked /\ [Next]_vars => Tracked'
  <2> SUFFICES ASSUME Tracked, [Next]_vars PROVE Tracked'  OBVIOUS
  <2>1. Outputs'  BY NextOutputs DEF Tracked
  <2>2. Swept' /\ Reclaimable'
    <3>1. CASE UNCHANGED vars
      BY <3>1 DEF vars, Tracked, Swept, Dated, Cursor, Reclaimable
    <3> QED  BY <3>1, NextSteps, QueueTracked, VisitTracked, SweepTracked
  <2> QED  BY <2>1, <2>2 DEF Tracked
<1>3. Tracked => Reclaimable  BY DEF Tracked
<1> QED  BY <1>1, <1>2, <1>3, PTL DEF Spec
=============================================================================
