--------------------------- MODULE AttemptOutputs ---------------------------
(***************************************************************************)
(* What becomes of the files an execution writes.  Every claim writes under *)
(* .attempts/<job>/<token>; a completed claim publishes its file, any other *)
(* leaves it behind.  Three parties then work on the same facts:            *)
(*                                                                         *)
(*  - the queue settles claims, also of executors that still run            *)
(*    (server/src/queue/store.ts);                                          *)
(*  - retention deletes old job rows and keeps compact evidence that their  *)
(*    attempts stopped (server/src/queue/retention.ts,                      *)
(*    server/src/utils/attempt-evidence.ts);                                *)
(*  - the sweep walks the directories, removes what is proven abandoned and *)
(*    drops evidence that a complete pass found no file for                 *)
(*    (server/src/utils/attempt-sweep.ts, attempt-tree.ts,                  *)
(*    attempt-directory.ts).                                                *)
(*                                                                         *)
(* A token is a random UUID: a claim takes any unused one, and the numeric  *)
(* order is the lexical order in which the sweep meets the directories, of  *)
(* all jobs together.  One file stands for the output of one attempt.  Ages *)
(* (a day's grace, a week of history) are left open: what is old enough is  *)
(* the choice of the step.                                                  *)
(***************************************************************************)
EXTENDS Integers, FiniteSets, FiniteSetsExt

CONSTANTS Jobs, Workers,
          MaxTokens,    \* bound: claims issued
          NameWindow,   \* names of a directory kept at a time
          LongCommit    \* a sweep pass may begin while a retention transaction is open

Tokens == 1..MaxTokens
NoToken == 0

ASSUME ConstantsAssumption ==
    MaxTokens \in Nat \ {0} /\ NameWindow \in Nat \ {0} /\ LongCommit \in BOOLEAN

VARIABLES row,       \* job: its state and the token that owns it
          attempt,   \* job_attempt: state, job and worker of each token
          running,   \* tokens whose handler or native process still runs
          alive,     \* worker processes that have not exited
          wrote,     \* tokens whose handler wrote its output
          dirs,      \* tokens with a directory on disk
          files,     \* tokens with a file in it
          refs,      \* tokens whose file an asset refers to
          listed,    \* job_worker: the workers with a row
          proof,     \* workers with frameleaf-worker-stopped evidence
          evid,      \* frameleaf-attempt-evidence per token
          tx,        \* jobs an open retention transaction is about to delete
          pass,      \* the sweep's saved pass and cursor
          walk,      \* the sweep in progress
          window     \* names the sweep has read and not visited, kept between slices

queueVars == <<row, attempt, running, alive, wrote, listed>>
sweepVars == <<pass, walk, window>>
diskVars == <<dirs, files>>
vars == <<row, attempt, running, alive, wrote, dirs, files, refs, listed, proof, evid, tx,
          pass, walk, window>>

\* "settled": completed, failed or cancelled.  "gone": deleted by retention.
RowStates == {"pending", "active", "needs_attention", "settled", "gone"}
AttemptStates == {"unused", "open", "completed", "ended", "gone"}

Row == [state : RowStates, token : {NoToken} \cup Tokens]
Attempt == [state : AttemptStates, job : Jobs, worker : Workers]
\* writing: inserted by a transaction that has not committed.  old: recorded before the
\* saved pass began.  seen: the saved pass met the file.
Evidence == [state : {"none", "writing", "set"}, old : BOOLEAN, seen : BOOLEAN]
Pass == [at : {NoToken} \cup Tokens, complete : BOOLEAN, incomplete : BOOLEAN]
\* known: evidence recorded before this slice took the lease.
Walk == [on : BOOLEAN, at : {NoToken} \cup Tokens, incomplete : BOOLEAN, known : SUBSET Tokens]

TypeOK ==
    /\ row \in [Jobs -> Row] /\ attempt \in [Tokens -> Attempt]
    /\ running \subseteq Tokens /\ wrote \subseteq Tokens
    /\ files \subseteq dirs /\ dirs \subseteq wrote /\ refs \subseteq wrote
    /\ alive \subseteq Workers /\ proof \subseteq Workers \ alive
    /\ listed \subseteq Workers
    /\ evid \in [Tokens -> Evidence] /\ tx \subseteq Jobs
    /\ pass \in Pass /\ walk \in Walk /\ window \subseteq Tokens
    /\ \A t \in Tokens : evid[t].state = "writing" => attempt[t].job \in tx

NoEvidence == [state |-> "none", old |-> FALSE, seen |-> FALSE]
NewEvidence(state) == [state |-> state, old |-> FALSE, seen |-> FALSE]
NewPass == [at |-> NoToken, complete |-> FALSE, incomplete |-> FALSE]
Asleep == [on |-> FALSE, at |-> NoToken, incomplete |-> FALSE, known |-> {}]

Init ==
    /\ row = [j \in Jobs |-> [state |-> "pending", token |-> NoToken]]
    /\ attempt \in [Tokens -> {[state |-> "unused", job |-> j, worker |-> w] :
                                   j \in Jobs, w \in Workers}]
    /\ running = {} /\ wrote = {} /\ dirs = {} /\ files = {} /\ refs = {}
    /\ alive = Workers /\ listed = Workers
    /\ proof = {} /\ evid = [t \in Tokens |-> NoEvidence] /\ tx = {}
    /\ pass = NewPass /\ walk = Asleep /\ window = {}

-----------------------------------------------------------------------------
(* The queue. *)

\* What the queue accepts as proof that an attempt's executor stopped.
Recorded(t) == evid[t].state = "set" \/ attempt[t].worker \in proof
Stopped(t) == attempt[t].state = "completed" \/ Recorded(t)

\* The rows an open retention transaction holds are locked.
Unlocked(j) == j \notin tx

\* Init fixes which job and worker each token will belong to; any of them may come next.
Claim(t) ==
    LET j == attempt[t].job
        w == attempt[t].worker
    IN  /\ attempt[t].state = "unused"
        /\ row[j].state = "pending" /\ w \in alive \cap listed
        /\ row' = [row EXCEPT ![j] = [state |-> "active", token |-> t]]
        /\ attempt' = [attempt EXCEPT ![t].state = "open"]
        /\ running' = running \cup {t}
        /\ UNCHANGED <<alive, wrote, listed, diskVars, refs, proof, evid, tx, sweepVars>>

\* The handler writes its output, whether or not it still owns the claim.
Write(t) == /\ t \in running \ wrote
            /\ wrote' = wrote \cup {t}
            /\ dirs' = dirs \cup {t} /\ files' = files \cup {t}
            /\ UNCHANGED <<row, attempt, running, alive, listed, refs, proof, evid, tx, sweepVars>>

\* The handler returned; recording that may fail (bounded by a statement timeout), and
\* finds the key taken when it was recorded before.
Return(t) ==
    /\ t \in running /\ attempt[t].worker \in alive
    /\ running' = running \ {t}
    /\ \/ evid' = evid
       \/ evid[t].state = "none" /\ evid' = [evid EXCEPT ![t] = NewEvidence("set")]
    /\ UNCHANGED <<row, attempt, alive, wrote, listed, diskVars, refs, proof, tx, sweepVars>>

\* Bound: no row waits again once the tokens of its job are used up.
TokensLeft(j) == \E t \in Tokens : attempt[t].state = "unused" /\ attempt[t].job = j
Ends(t) == {"settled", "needs_attention"} \cup {s \in {"pending"} : TokensLeft(attempt[t].job)}

Owner(t) == row[attempt[t].job] = [state |-> "active", token |-> t]

EndClaim(t, state, outcome) ==
    /\ row' = [row EXCEPT ![attempt[t].job] = [state |-> state, token |-> NoToken]]
    /\ attempt' = [attempt EXCEPT ![t].state = outcome]

\* complete(): the handler has returned; its output is adopted under the claim's token.
Complete(t) ==
    /\ Owner(t) /\ t \notin running /\ attempt[t].worker \in alive
    /\ EndClaim(t, "settled", "completed")
    /\ refs' = refs \cup ({t} \cap wrote)
    /\ UNCHANGED <<running, alive, wrote, listed, diskVars, proof, evid, tx, sweepVars>>

\* fail() and defer() by the executor's own worker, once the handler has returned.
Fail(t) ==
    /\ Owner(t) /\ t \notin running /\ attempt[t].worker \in alive
    /\ \E state \in Ends(t) : EndClaim(t, state, "ended")
    /\ UNCHANGED <<running, alive, wrote, listed, diskVars, refs, proof, evid, tx, sweepVars>>

\* Recovery of an expired claim.  Its executor may still run: repeatable work is retried
\* all the same, or settled: as failed; as cancelled only once the stop is on record.
Recover(t) ==
    /\ Owner(t)
    /\ \E state \in Ends(t) : EndClaim(t, state, "ended")
    /\ UNCHANGED <<running, alive, wrote, listed, diskVars, refs, proof, evid, tx, sweepVars>>

\* A person clears waiting work or what needs attention; a retry, or a new request for the same
\* stage of a run, takes a settled row on again.
Decide(j) ==
    /\ Unlocked(j)
    /\ \/ row[j].state \in {"pending", "needs_attention"}
          /\ row' = [row EXCEPT ![j].state = "settled"]
       \/ row[j].state = "settled" /\ TokensLeft(j)
          /\ row' = [row EXCEPT ![j].state = "pending"]
    /\ UNCHANGED <<attempt, running, alive, wrote, listed, diskVars, refs, proof, evid, tx, sweepVars>>

\* A later publication takes the asset's reference; the replaced file is deleted, or stays
\* when its deletion fails.
Replace(t) ==
    /\ t \in refs
    /\ refs' = refs \ {t}
    /\ files' \in {files, files \ {t}}
    /\ UNCHANGED <<queueVars, dirs, proof, evid, tx, sweepVars>>

\* A worker process exits: its handlers have stopped, but native processes they started may
\* survive it and go on writing.
WorkerExit(w) ==
    /\ w \in alive
    /\ alive' = alive \ {w}
    /\ \E native \in SUBSET {t \in running : attempt[t].worker = w} :
           running' = {t \in running : attempt[t].worker # w} \cup native
    /\ UNCHANGED <<row, attempt, wrote, listed, diskVars, refs, proof, evid, tx, sweepVars>>

\* The native processes of an attempt whose worker is gone have ended.
NativeEnds(t) ==
    /\ t \in running /\ attempt[t].worker \notin alive
    /\ running' = running \ {t}
    /\ UNCHANGED <<row, attempt, alive, wrote, listed, diskVars, refs, proof, evid, tx, sweepVars>>

\* Mutant: the worker's exit alone is recorded, whatever native processes it left.
ProveStopEarly(w) ==
    /\ w \notin alive \cup proof
    /\ proof' = proof \cup {w}
    /\ UNCHANGED <<queueVars, diskVars, refs, evid, tx, sweepVars>>
\* The supervisor records the stop (or republishes it) once the worker has exited and the native
\* processes it registered are absent.
ProveStop(w) ==
    /\ w \notin alive \cup proof
    /\ \A t \in running : attempt[t].worker # w
    /\ proof' = proof \cup {w}
    /\ UNCHANGED <<queueVars, diskVars, refs, evid, tx, sweepVars>>

-----------------------------------------------------------------------------
(* Retention. *)

AttemptsOf(j) == {t \in Tokens : attempt[t].job = j /\ attempt[t].state \in {"open", "completed", "ended"}}

\* The rows of a page that are due: every attempt completed, or its stop is on record.
Deletable == {j \in Jobs : row[j].state = "settled" /\ \A t \in AttemptsOf(j) : Stopped(t)}

\* preserveAttemptEvidence: finished attempts that completed, or whose worker's stop is
\* proven, get evidence of their own.
Preserved(j) == {t \in AttemptsOf(j) : /\ evid[t].state = "none" /\ attempt[t].state # "open"
                                       /\ attempt[t].state = "completed" \/ attempt[t].worker \in proof}

\* ... and only jobs all of whose attempts then have it are deleted.
FullyPreserved(j) == \A t \in AttemptsOf(j) : evid[t].state = "set" \/ t \in Preserved(j)

\* The transaction selects its jobs, locks them and inserts their evidence.
RetentionBegin(S) ==
    /\ tx = {} /\ S # {} /\ S \subseteq Deletable
    /\ \A j \in S : FullyPreserved(j)
    /\ tx' = S
    /\ evid' = [t \in Tokens |-> IF \E j \in S : t \in Preserved(j)
                                 THEN NewEvidence("writing") ELSE evid[t]]
    /\ UNCHANGED <<queueVars, diskVars, refs, proof, sweepVars>>

Visible(e) == IF e.state = "writing" THEN [e EXCEPT !.state = "set"] ELSE e

\* It deletes them with their attempts, then workers whose heartbeats stopped a week ago
\* and worker proofs, as far as nothing refers to them any more.
RetentionCommit ==
    LET kept == [t \in Tokens |-> IF t \in UNION {AttemptsOf(j) : j \in tx}
                                  THEN [attempt[t] EXCEPT !.state = "gone"] ELSE attempt[t]]
        used == {kept[t].worker : t \in {u \in Tokens : kept[u].state \notin {"unused", "gone"}}}
    IN  /\ tx # {}
        /\ row' = [j \in Jobs |-> IF j \in tx THEN [row[j] EXCEPT !.state = "gone"] ELSE row[j]]
        /\ attempt' = kept
        /\ listed' \in {listed \ lost : lost \in SUBSET (Workers \ used)}
        /\ proof' = proof \cap (used \cup listed')
        /\ evid' = [t \in Tokens |-> Visible(evid[t])]
        /\ tx' = {}
        /\ UNCHANGED <<running, alive, wrote, diskVars, refs, sweepVars>>

\* A failed statement rolls the transaction back.
RetentionAbort ==
    /\ tx # {} /\ tx' = {}
    /\ evid' = [t \in Tokens |-> IF evid[t].state = "writing" THEN NoEvidence ELSE evid[t]]
    /\ UNCHANGED <<queueVars, diskVars, refs, proof, sweepVars>>

-----------------------------------------------------------------------------
(* The sweep, one slice per lease. *)

HasEvidence == {t \in Tokens : evid[t].state # "none"}

\* Takes the lease and the saved pass.  The names read so far stay with the process.
SweepBegin ==
    /\ ~walk.on
    /\ walk' = [on |-> TRUE, at |-> pass.at, incomplete |-> pass.incomplete, known |-> HasEvidence]
    /\ UNCHANGED <<queueVars, diskVars, refs, proof, evid, tx, pass, window>>

After(S) == {t \in S : t > walk.at}

\* Once no name already read is left, the directory is read again from the cursor on: the first
\* names after it, no more than a window holds.
ReadNames ==
    /\ walk.on /\ ~pass.complete /\ window = {} /\ After(dirs) # {}
    /\ \E names \in SUBSET After(dirs) :
           /\ \A t \in names, u \in After(dirs) \ names : t < u
           /\ Cardinality(names) = Min({NameWindow, Cardinality(After(dirs))})
           /\ window' = names
    /\ UNCHANGED <<queueVars, diskVars, refs, proof, evid, tx, pass, walk>>

\* The job row as the sweep finds it: a row it cannot lock, or one that runs or waits for
\* a person, keeps its files.
RowAllows(j) == row[j].state \notin {"active", "needs_attention"} /\ Unlocked(j)
\* Mutant: the proof is not read under the job's row.
AbandonedUnlocked(t) ==
    \/ evid[t].state = "set"
    \/ attempt[t].state = "completed"
    \/ attempt[t].state = "ended" /\ attempt[t].worker \in proof
Abandoned(t) ==
    /\ RowAllows(attempt[t].job)
    /\ \/ evid[t].state = "set"
       \/ attempt[t].state = "completed"
       \/ attempt[t].state = "ended" /\ attempt[t].worker \in proof

Visiting(t) == walk.on /\ ~pass.complete /\ window # {} /\ t = Min(window)

\* Mutant: only files that could be removed are marked as met.
MarkAbandoned(t) == evid' = IF evid[t].state = "set" /\ evid[t].old /\ Abandoned(t) /\ t \notin refs
                            THEN [evid EXCEPT ![t].seen = TRUE] ELSE evid
\* The pass that met it, written into the evidence: of use for what is older than the pass alone.
\* What a transaction has inserted and not committed is not found.
Mark(t) == evid' = IF evid[t].state = "set" /\ evid[t].old
                   THEN [evid EXCEPT ![t].seen = TRUE] ELSE evid

\* One directory and its file: it is marked as met, and stays for any of the reasons the code has.
\* A directory that is no longer there makes the pass incomplete.
Keep(t) ==
    /\ Visiting(t)
    /\ IF t \in dirs THEN Mark(t) ELSE evid' = evid
    /\ walk' = [walk EXCEPT !.at = t, !.incomplete = @ \/ t \notin dirs]
    /\ window' = window \ {t}
    /\ UNCHANGED <<queueVars, diskVars, refs, proof, tx, pass>>

\* The file is removed when its executor is proven stopped, no asset refers to it and it is old;
\* its directory has changed by that and is not old.
Remove(t) ==
    /\ Visiting(t) /\ t \in files
    /\ Abandoned(t) /\ t \notin refs
    /\ Mark(t)
    /\ files' = files \ {t}
    /\ walk' = [walk EXCEPT !.at = t]
    /\ window' = window \ {t}
    /\ UNCHANGED <<queueVars, dirs, refs, proof, tx, pass>>

\* An empty directory is removed on the same proof.  With the job's last directory the job's own
\* goes, and the traversal, coming back to it, finds it missing: the pass is incomplete.
RemoveDirectory(t) ==
    /\ Visiting(t) /\ t \in dirs \ files
    /\ Abandoned(t)
    /\ Mark(t)
    /\ dirs' = dirs \ {t}
    /\ walk' = [walk EXCEPT !.at = t, !.incomplete = @ \/ \A u \in dirs \ {t} : attempt[u].job # attempt[t].job]
    /\ window' = window \ {t}
    /\ UNCHANGED <<queueVars, files, refs, proof, tx, pass>>

\* A pass begins at the time its slice took the lease: what was recorded by then is older.
Aged(e, t) == IF e[t].state = "none" THEN e[t]
              ELSE [e[t] EXCEPT !.old = t \in walk.known, !.seen = FALSE]
\* Mutant: a new pass inherits that the last one could not read everything.
StartPassIncomplete(e) ==
    /\ LongCommit \/ tx = {}
    /\ pass' = [NewPass EXCEPT !.incomplete = walk.incomplete]
    /\ evid' = [t \in Tokens |-> Aged(e, t)]
StartPass(e) ==
    /\ LongCommit \/ tx = {}
    /\ pass' = NewPass
    /\ evid' = [t \in Tokens |-> Aged(e, t)]

\* The budget of a slice is spent: the cursor is saved and the lease given back.
SaveCursor ==
    /\ walk.on /\ ~pass.complete
    /\ pass' = [pass EXCEPT !.at = walk.at, !.incomplete = walk.incomplete]
    /\ walk' = Asleep
    /\ UNCHANGED <<queueVars, diskVars, refs, proof, evid, tx, window>>

\* The last name was met.  A pass that could not read everything proves nothing.
EndPass ==
    /\ walk.on /\ ~pass.complete /\ window = {} /\ After(dirs) = {}
    /\ IF walk.incomplete
       THEN StartPass(evid)
       ELSE pass' = [pass EXCEPT !.at = NoToken, !.complete = TRUE] /\ evid' = evid
    /\ walk' = Asleep
    /\ UNCHANGED <<queueVars, diskVars, refs, proof, tx, window>>

\* Evidence older than the pass, met nowhere in it and of an attempt no row remembers.
Unused(t) == /\ evid[t].state = "set" /\ evid[t].old /\ ~evid[t].seen
             /\ attempt[t].state \in {"unused", "gone"}

\* The slice after a complete pass prunes and starts the next one.
PruneEvidence ==
    /\ walk.on /\ pass.complete
    /\ StartPass([t \in Tokens |-> IF Unused(t) THEN NoEvidence ELSE evid[t]])
    /\ walk' = Asleep
    /\ UNCHANGED <<queueVars, diskVars, refs, proof, tx, window>>

\* The process ends, or the lease is lost: nothing of the slice is saved.
SweepLost ==
    /\ walk.on
    /\ walk' = Asleep /\ window' = {}
    /\ UNCHANGED <<queueVars, diskVars, refs, proof, evid, tx, pass>>

-----------------------------------------------------------------------------
Next ==
    \/ \E t \in Tokens : Claim(t) \/ Write(t) \/ Return(t) \/ Complete(t) \/ Fail(t)
                         \/ Recover(t) \/ Replace(t) \/ NativeEnds(t)
                         \/ Keep(t) \/ Remove(t) \/ RemoveDirectory(t)
    \/ \E j \in Jobs : Decide(j)
    \/ \E w \in Workers : WorkerExit(w) \/ ProveStop(w)
    \/ \E S \in SUBSET Jobs : RetentionBegin(S)
    \/ RetentionCommit \/ RetentionAbort
    \/ SweepBegin \/ ReadNames \/ SaveCursor \/ EndPass \/ PruneEvidence \/ SweepLost

Spec == Init /\ [][Next]_vars

\* The sweep runs every minute; a slice can end before it gets anywhere, or be lost with what it
\* did, but not every one does.  Every file and directory grows old.  A retention transaction ends.
Fairness ==
    /\ WF_vars(SweepBegin)
    /\ SF_vars(ReadNames)
    /\ SF_vars(\E t \in Tokens : Keep(t) \/ Remove(t) \/ RemoveDirectory(t))
    /\ SF_vars(\E t \in Tokens : Remove(t) \/ RemoveDirectory(t))
    /\ SF_vars(SaveCursor /\ walk.at # pass.at)
    /\ SF_vars(EndPass \/ PruneEvidence)
    /\ WF_vars(RetentionCommit \/ RetentionAbort)
FairSpec == Spec /\ Fairness

-----------------------------------------------------------------------------
(* Properties. *)

\* recordStoppedAttempt, preserveAttemptEvidence and retention: what is on record as
\* stopped has stopped, although leases expire and rows settle while executors run.
EvidenceIsTrue ==
    \A t \in Tokens : (attempt[t].state = "completed" \/ evid[t].state # "none"
                        \/ attempt[t].worker \in proof) => t \notin running

\* The sweep never takes a file from under an executor that still runs: one that lost its
\* claim may be reading it.
LiveOutputKept == running \cap wrote \subseteq files

\* complete() publishes, and assets refer to, files that are on disk, although the sweep
\* may visit the file between its writing and its publication.
PublishedOnDisk == refs \subseteq files

\* Neither a running executor nor an asset loses its file to a sweep.
OutputsKept == TypeOK /\ LiveOutputKept /\ PublishedOnDisk

\* What retention has deleted the job row of can still be told abandoned: its evidence stays
\* until a whole pass has found file and directory gone.  Without it they would stay for ever.
Reclaimable == \A t \in dirs : attempt[t].state = "gone" => evid[t].state = "set"

\* What an attempt left behind goes in the end: its file and directory, and the evidence once no
\* attempt row remembers the token, although the names are read in windows, passes are cut short
\* at any name, lost or begun again, every directory removed may void the pass it is met in, and
\* work of other attempts appears and goes on both sides of the cursor.
LeftoversCleared ==
    \A t \in Tokens :
        (t \notin refs /\ attempt[t].state = "gone") ~> (t \notin dirs /\ evid[t].state = "none")
=============================================================================
