------------------------------ MODULE StopProof ------------------------------
(***************************************************************************)
(* The durable proof that a queue worker has stopped: the parent thread's  *)
(* supervision of the worker and its native children                       *)
(* (server/src/queue/supervisor.ts, child-process.ts), and the recorder    *)
(* that writes the proof to system_metadata, retries it and republishes it *)
(* into a restored database (server/src/queue/worker-stop-proof.ts).       *)
(* Workers are numbered in the order the server starts them; one runs at a *)
(* time.  Clocks are left out: a deadline may pass at any moment.          *)
(***************************************************************************)
EXTENDS Integers, FiniteSets

CONSTANTS
  MaxWorkers,    \* bound on workers started
  Children,      \* native processes a worker may spawn
  MaxEntries,    \* bound on record and republish calls
  MaxFailures,   \* bound on failed writes
  MaxRestores,   \* bound on restores of the database
  Torn           \* may a thread that is being killed stop between a spawn and its message?

Workers == 1..MaxWorkers
Entries == 1..MaxEntries
Nobody == 0

ASSUME StopAssumption ==
  /\ MaxWorkers \in Nat \ {0} /\ MaxEntries \in Nat
  /\ MaxFailures \in Nat /\ MaxRestores \in Nat /\ Torn \in BOOLEAN

VARIABLES
  server,     \* "running", "maintenance" or "booting"
  cur,        \* the latest worker started
  life,       \* where it is between start and the end of its stop
  known,      \* it registered its workerId, with no conflict
  child,      \* the worker that spawned a child and whether the process is alive
  told,       \* children whose queue-child message is under way
  tracked,    \* the supervisor's set of children
  pending,    \* the recorder's pending map
  retained,   \* the recorder's retained proof
  write,      \* the write in flight: the entries it took
  timer,      \* the retry timer is set
  caller,     \* the record or republish call that waits for a flush
  entries,    \* entries made so far, for their identity
  db,         \* proofs in system_metadata
  latest,     \* the worker of the latest confirmed stop
  attempted,  \* workers whose proof some finished write carried
  failures, restores
osVars == <<life, known, child, told, tracked>>
recorderVars == <<pending, retained, write, timer, caller, entries, db, attempted, failures>>
vars == <<server, cur, osVars, recorderVars, latest, restores>>

Lives == {"up", "terminating", "killed", "gone", "confirm", "recording", "stopped"}
NoEntry == [id |-> 0, re |-> FALSE]
NoWrite == [on |-> FALSE, took |-> {}]
NoCaller == [on |-> FALSE, id |-> 0, tried |-> FALSE]

\* Well-typed supervisor, recorder and database.
TypeOK ==
  /\ server \in {"running", "maintenance", "booting"}
  /\ cur \in Workers
  /\ life \in Lives
  /\ known \in {"no", "yes", "conflict"}
  /\ child \in [Children -> [of : Workers \cup {Nobody}, alive : BOOLEAN]]
  /\ told \subseteq Children /\ tracked \subseteq Children
  /\ pending \in [Workers -> [id : Entries \cup {0}, re : BOOLEAN]]
  /\ retained \in Workers \cup {Nobody}
  /\ write \in [on : BOOLEAN, took : SUBSET (Workers \X Entries)]
  /\ timer \in BOOLEAN
  /\ caller \in [on : BOOLEAN, id : Entries \cup {0}, tried : BOOLEAN]
  /\ entries \in Entries \cup {0}
  /\ db \subseteq Workers /\ attempted \subseteq Workers
  /\ latest \in Workers \cup {Nobody}
  /\ failures \in 0..MaxFailures /\ restores \in 0..MaxRestores

Init ==
  /\ server = "running" /\ cur = 1 /\ life = "up" /\ known = "no"
  /\ child = [c \in Children |-> [of |-> Nobody, alive |-> FALSE]]
  /\ told = {} /\ tracked = {}
  /\ pending = [w \in Workers |-> NoEntry] /\ retained = Nobody
  /\ write = NoWrite /\ timer = FALSE /\ caller = NoCaller /\ entries = 0
  /\ db = {} /\ attempted = {} /\ latest = Nobody
  /\ failures = 0 /\ restores = 0

-----------------------------------------------------------------------------
(* The worker and its children *)

Absent(c) == ~child[c].alive
InThread == life \in {"up", "terminating", "killed"}

\* queue-watchdog-port: the worker names itself; a second, different name is a conflict.
Register ==
  /\ InThread
  /\ known' = "yes" /\ known = "no"
  /\ UNCHANGED <<server, cur, life, child, told, tracked, recorderVars, latest, restores>>

RegisterOther ==
  /\ InThread /\ known = "yes"
  /\ known' = "conflict"
  /\ life' = IF life = "up" THEN "terminating" ELSE life
  /\ UNCHANGED <<server, cur, child, told, tracked, recorderVars, latest, restores>>

\* trackQueueChild: the worker spawns a process and posts its pid; worker.terminate() may stop
\* the thread's JavaScript between the two.
Spawn(c) ==
  /\ InThread /\ child[c].of = Nobody
  /\ child' = [child EXCEPT ![c] = [of |-> cur, alive |-> TRUE]]
  /\ \/ told' = told \cup {c} /\ UNCHANGED life
     \/ Torn /\ life = "killed" /\ life' = "gone" /\ UNCHANGED told
  /\ UNCHANGED <<server, cur, known, tracked, recorderVars, latest, restores>>

\* A child ends: by itself, or by the kills of the supervisor.
Die(c) ==
  /\ child[c].alive
  /\ child' = [child EXCEPT ![c].alive = FALSE]
  /\ UNCHANGED <<server, cur, life, known, told, tracked, recorderVars, latest, restores>>

DeliverChild(c) ==
  /\ c \in told
  /\ told' = told \ {c}
  /\ tracked' = tracked \cup {c}
  /\ UNCHANGED <<server, cur, life, known, child, recorderVars, latest, restores>>

\* The close of a child is reported; only its absence from the system takes it off the list.
DeliverClose(c) ==
  /\ life \in {"up", "terminating", "killed", "gone"}
  /\ c \in tracked /\ c \notin told /\ Absent(c)
  /\ tracked' = tracked \ {c}
  /\ UNCHANGED <<server, cur, life, known, child, told, recorderVars, latest, restores>>

\* terminate: silence, a request of the watchdog or the worker, a stop of the server...
Terminate ==
  /\ life = "up"
  /\ life' = "terminating"
  /\ UNCHANGED <<server, cur, known, child, told, tracked, recorderVars, latest, restores>>

\* ... reaps the children it knows of, until none is left or its deadline passes.
Kill ==
  /\ life = "terminating"
  /\ tracked' = {c \in tracked : ~Absent(c)}
  /\ life' = "killed"
  /\ UNCHANGED <<server, cur, known, child, told, recorderVars, latest, restores>>

\* The thread ends: terminated, crashed or finished.
Exit ==
  /\ InThread
  /\ life' = "gone"
  /\ UNCHANGED <<server, cur, known, child, told, tracked, recorderVars, latest, restores>>

\* 'exit' is emitted once the worker's port is drained: every posted message was delivered.
OnExit ==
  /\ life = "gone" /\ told = {}
  /\ life' = "confirm"
  /\ UNCHANGED <<server, cur, known, child, told, tracked, recorderVars, latest, restores>>

-----------------------------------------------------------------------------
(* The recorder *)

Taken(p) == {<<w, p[w].id>> : w \in {v \in Workers : p[v].id # 0}}

\* flush when no write is in flight: the write takes every pending entry.
StartWrite(p) ==
  /\ write' = [on |-> TRUE, took |-> Taken(p)]
  /\ timer' = FALSE

\* record and republish: a fresh entry, then a flush of its own or the one in flight.
Enter(w, re) ==
  /\ entries < MaxEntries
  /\ entries' = entries + 1
  /\ pending' = [pending EXCEPT ![w] = [id |-> entries + 1, re |-> re]]
  /\ caller' = [on |-> TRUE, id |-> entries + 1, tried |-> ~write.on]
  /\ IF write.on THEN UNCHANGED <<write, timer>> ELSE StartWrite(pending')
  /\ UNCHANGED <<db, attempted, failures>>

Record(w) == Enter(w, FALSE) /\ retained' = w
Republish == Enter(retained, TRUE) /\ UNCHANGED retained

\* Mutant: the call returns after the flush it joined, its own entry not yet written.
AfterWriteOnce(p) ==
  /\ caller' = NoCaller
  /\ write' = NoWrite /\ timer' = (Taken(p) # {})

\* Mutant: no retry is set for what is left.
AfterWriteNoRetry(p) ==
  IF caller.on /\ ~caller.tried
    THEN /\ StartWrite(p)
         /\ caller' = [caller EXCEPT !.tried = TRUE]
    ELSE /\ caller' = NoCaller
         /\ write' = NoWrite /\ timer' = FALSE

\* A write has ended and left p pending: a caller whose entry it missed flushes again, any
\* other returns, and a retry is set for what is left.
AfterWrite(p) ==
  IF caller.on /\ ~caller.tried
    THEN /\ StartWrite(p)
         /\ caller' = [caller EXCEPT !.tried = TRUE]
    ELSE /\ caller' = NoCaller
         /\ write' = NoWrite /\ timer' = (Taken(p) # {})

Written == {w \in Workers : \E id \in Entries : <<w, id>> \in write.took}
\* Entries still pending under the identity the write took are settled by it.
Settled == {w \in Workers : <<w, pending[w].id>> \in write.took}

WriteOk ==
  /\ write.on
  /\ db' = db \cup Written
  /\ pending' = [w \in Workers |-> IF w \in Settled THEN NoEntry ELSE pending[w]]
  /\ retained' = IF retained \in Settled /\ pending[retained].re THEN Nobody ELSE retained
  /\ attempted' = attempted \cup Written
  /\ AfterWrite(pending')
  /\ UNCHANGED <<server, cur, osVars, entries, latest, failures, restores>>

\* A failed or timed out write, which may have committed all the same.
WriteFail(committed) ==
  /\ write.on /\ failures < MaxFailures
  /\ failures' = failures + 1
  /\ db' = IF committed THEN db \cup Written ELSE db
  /\ attempted' = attempted \cup Written
  /\ AfterWrite(pending)
  /\ UNCHANGED <<server, cur, osVars, pending, retained, entries, latest, restores>>

Retry ==
  /\ timer /\ ~write.on
  /\ StartWrite(pending)
  /\ UNCHANGED <<server, cur, osVars, pending, retained, caller, entries, db, attempted,
                 failures, latest, restores>>

-----------------------------------------------------------------------------
(* The stop of a worker, and what the server does after it *)

\* Mutant: an empty list when the thread exits is not waited for.
ConfirmAtOnce ==
  /\ life = "confirm"
  /\ tracked' = {c \in tracked : ~Absent(c)}
  /\ IF known = "yes"
       THEN Record(cur) /\ life' = "recording" /\ latest' = cur
       ELSE life' = "stopped" /\ UNCHANGED <<recorderVars, latest>>
  /\ UNCHANGED <<server, cur, known, child, told, restores>>

\* confirm: every child absent, then the proof of a worker that named itself.
Confirm ==
  /\ life = "confirm"
  /\ \A c \in tracked : Absent(c)
  /\ tracked' = {}
  /\ IF known = "yes"
       THEN Record(cur) /\ life' = "recording" /\ latest' = cur
       ELSE life' = "stopped" /\ UNCHANGED <<recorderVars, latest>>
  /\ UNCHANGED <<server, cur, known, child, told, restores>>

\* Its deadline passes with children left: no proof.
ConfirmNever ==
  /\ life = "confirm"
  /\ \E c \in tracked : ~Absent(c)
  /\ life' = "stopped"
  /\ tracked' = {}
  /\ UNCHANGED <<server, cur, known, child, told, recorderVars, latest, restores>>

Recorded ==
  /\ life = "recording" /\ ~caller.on
  /\ life' = "stopped"
  /\ UNCHANGED <<server, cur, known, child, told, tracked, recorderVars, latest, restores>>

\* A worker is started: after a failure of the last one, or by bootstrap.
StartWorker ==
  /\ cur < MaxWorkers
  /\ cur' = cur + 1 /\ life' = "up" /\ known' = "no"
  /\ UNCHANGED <<child, told, tracked>>

RestartWorker ==
  /\ server = "running" /\ life = "stopped"
  /\ StartWorker
  /\ UNCHANGED <<server, recorderVars, latest, restores>>

\* Every worker has stopped for a restart of the server.
EnterMaintenance ==
  /\ server = "running" /\ life = "stopped"
  /\ server' = "maintenance"
  /\ UNCHANGED <<cur, osVars, recorderVars, latest, restores>>

\* A restore replaces system_metadata by what a dump held.
Restore(dump) ==
  /\ server = "maintenance" /\ restores < MaxRestores
  /\ restores' = restores + 1
  /\ db' = dump
  /\ UNCHANGED <<server, cur, osVars, pending, retained, write, timer, caller, entries, attempted,
                 failures, latest>>

\* bootstrap without maintenance, up to and including the call of republish.
Boot ==
  /\ \/ server = "maintenance"
     \/ server = "running" /\ life = "stopped"
  /\ server' = "booting"
  /\ IF retained # Nobody THEN Republish ELSE UNCHANGED recorderVars
  /\ UNCHANGED <<cur, osVars, latest, restores>>

\* ... which has returned: the replacement is admitted.
Booted ==
  /\ server = "booting" /\ ~caller.on
  /\ server' = "running"
  /\ StartWorker
  /\ UNCHANGED <<recorderVars, latest, restores>>

-----------------------------------------------------------------------------
WorkerStep ==
  \/ Register \/ RegisterOther \/ Terminate \/ Kill \/ Exit \/ OnExit
  \/ Confirm \/ ConfirmNever \/ Recorded
  \/ \E c \in Children : Spawn(c) \/ Die(c) \/ DeliverChild(c) \/ DeliverClose(c)

RecorderStep == WriteOk \/ Retry \/ \E committed \in BOOLEAN : WriteFail(committed)

ServerStep ==
  \/ RestartWorker \/ EnterMaintenance \/ Boot \/ Booted
  \/ \E dump \in SUBSET db : Restore(dump)

Next == WorkerStep \/ RecorderStep \/ ServerStep

Spec == Init /\ [][Next]_vars

\* Statements and the retry timer come to an end; nothing forces a worker to stop.
FairSpec == Spec /\ WF_vars(WriteOk) /\ WF_vars(Retry)

-----------------------------------------------------------------------------
(* Properties *)

Proofs == db \cup {w \in Workers : pending[w].id # 0} \cup ({retained} \ {Nobody})

\* A proof, written, pending or retained, is true: the worker's thread is gone and so is
\* every process it spawned, whatever messages were under way when it ended.
ProofIsTrue ==
  \A w \in Proofs : /\ w = cur => life \in {"recording", "stopped"}
                    /\ \A c \in Children : child[c].of = w => ~child[c].alive

\* A replacement is not admitted, nor the exit acted upon, before the proof had its own
\* finished write, though it arrived while another was being written.
AttemptedFirst == life = "stopped" /\ latest = cur => cur \in attempted

\* The confirmed stop of the worker that ran before this one is in the database or still to
\* be written, though writes fail and a restore replaced the database in between.
PrecedingCarried ==
  server = "running" /\ latest # Nobody /\ latest = cur - 1 =>
    latest \in db \/ pending[latest].id # 0

\* A confirmed stop reaches the database before anything is built on it, and is not lost to
\* a restore while the worker after it runs.
ProofDelivered == AttemptedFirst /\ PrecedingCarried

\* worker-stop-proof.ts:12, "carry only its latest confirmed stop across the maintenance
\* cycle, until normal bootstrap republishes it into the restored database": when an
\* executor runs, the latest confirmed stop before it is in the database or still to be written.
LatestCarried ==
  server = "running" /\ latest \notin {Nobody, cur} =>
    latest \in db \/ pending[latest].id # 0

\* A proof that could not be written is retried until it is.
PendingWritten == \A w \in Workers : pending[w].id # 0 ~> pending[w].id = 0
=============================================================================
