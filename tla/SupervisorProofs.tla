-------------------------- MODULE SupervisorProofs --------------------------
(***************************************************************************)
(* Proofs about the two supervisors of processes.                          *)
(*                                                                         *)
(* StopProof, for any number of workers, children, failed writes and       *)
(* restores.  Stop proofs are true, as long as a spawn and its message are *)
(* one step of the worker's thread (Torn false); they are attempted before *)
(* anything is built on them, and not lost to a restore while the worker   *)
(* after them runs, whatever Torn is.                                      *)
(*                                                                         *)
(* ServerWorkers, for any selection of workers and any bound on failures:  *)
(* the group of processes is sound whatever its exits, timers, restarts    *)
(* and stops were, and a stop reaches every worker, also when a restart is *)
(* published to workers that do not listen yet (Unheard true).             *)
(***************************************************************************)
EXTENDS StopProof, ServerWorkers, TLAPS

-----------------------------------------------------------------------------
(* StopProof: stop proofs are true. *)

\* A worker that is wholly gone: its thread, and every process it spawned.
Gone(w) ==
  /\ w \in Workers /\ w <= cur
  /\ w = cur => life \in {"recording", "stopped"}
  /\ \A c \in Children : child[c].of = w => ~child[c].alive

\* Until its exit is confirmed the supervisor knows, or is about to be told of, every living
\* child of the current worker; once its exit is acted upon nothing is left to be told.
Known ==
  /\ life \in {"up", "terminating", "killed", "gone", "confirm"} =>
       \A c \in Children : child[c].of = cur /\ child[c].alive => c \in told \cup tracked
  /\ life = "confirm" => told = {}

\* Everything the recorder holds, writes or has written is about a worker that is gone.
Carried ==
  /\ \A w \in db : Gone(w)
  /\ \A w \in Workers : pending[w].id # 0 => Gone(w)
  /\ retained # Nobody => Gone(retained)
  /\ \A w \in Workers, id \in Entries : <<w, id>> \in write.took => Gone(w)

Shape ==
  /\ cur \in Workers
  /\ life \in Lives
  /\ child \in [Children -> [of : Workers \cup {Nobody}, alive : BOOLEAN]]
  /\ \A c \in Children : child[c].of <= cur
  /\ pending \in [Workers -> [id : Entries \cup {0}, re : BOOLEAN]]
  /\ entries \in Entries \cup {0}
  /\ server # "running" => life = "stopped"

Truth == Shape /\ Known /\ Carried

LEMMA Numbers == Workers \subseteq Int /\ Nobody \notin Workers /\ 0 \notin Entries
BY StopAssumption DEF Workers, Nobody, Entries

LEMMA InitTruth == Init => Truth
<1> SUFFICES ASSUME Init PROVE Truth  OBVIOUS
<1>1. 1 \in Workers  BY StopAssumption DEF Workers
<1>2. Shape  BY <1>1 DEF Init, Shape, Lives, Nobody, NoEntry
<1>3. Known  BY DEF Init, Known
<1>4. Carried  BY DEF Init, Carried, NoEntry, NoWrite
<1> QED  BY <1>2, <1>3, <1>4 DEF Truth

\* What is gone stays gone when the recorder alone moves.
LEMMA RecorderKeeps ==
  ASSUME Truth, UNCHANGED <<server, cur, osVars, entries>>,
         pending' \in [Workers -> [id : Entries \cup {0}, re : BOOLEAN]],
         \A w \in db' : w \in db \/ Gone(w),
         \A w \in Workers : pending'[w].id # 0 => pending[w].id # 0 \/ Gone(w),
         retained' \in {retained, Nobody} \/ Gone(retained'),
         \A w \in Workers, id \in Entries : <<w, id>> \in write'.took =>
            <<w, id>> \in write.took \/ pending'[w].id # 0
  PROVE  Truth'
<1>1. \A w : Gone(w) => Gone(w)'  BY DEF Gone, osVars
<1>2. Shape' /\ Known'  BY DEF Truth, Shape, Known, osVars
<1>3. \A w \in db' : Gone(w)'  BY <1>1 DEF Truth, Carried
<1>4. \A w \in Workers : pending'[w].id # 0 => Gone(w)'  BY <1>1 DEF Truth, Carried
<1>5. retained' # Nobody => Gone(retained)'  BY <1>1 DEF Truth, Carried
<1>6. \A w \in Workers, id \in Entries : <<w, id>> \in write'.took => Gone(w)'
  BY <1>1, <1>4 DEF Truth, Carried
<1> QED  BY <1>2, <1>3, <1>4, <1>5, <1>6 DEF Truth, Carried

\* A write takes only what is pending.
LEMMA TakenPending ==
  ASSUME NEW p, NEW w \in Workers, NEW id \in Entries, <<w, id>> \in Taken(p)
  PROVE  p[w].id # 0
BY DEF Taken

LEMMA AfterTook ==
  ASSUME NEW p, AfterWrite(p), NEW w \in Workers, NEW id \in Entries, <<w, id>> \in write'.took
  PROVE  p[w].id # 0
<1>1. CASE caller.on /\ ~caller.tried
  <2>1. write'.took = Taken(p)  BY <1>1 DEF AfterWrite, StartWrite
  <2> QED  BY <2>1, TakenPending
<1>2. CASE ~(caller.on /\ ~caller.tried)
  BY <1>2 DEF AfterWrite, NoWrite
<1> QED  BY <1>1, <1>2

LEMMA RecorderTruth == Truth /\ RecorderStep => Truth'
<1> SUFFICES ASSUME Truth, RecorderStep PROVE Truth'  OBVIOUS
<1>0. \A w \in Written : Gone(w)  BY DEF Written, Truth, Carried
<1>1. CASE WriteOk
  <2>1. pending' = [w \in Workers |-> IF w \in Settled THEN NoEntry ELSE pending[w]]
    BY <1>1 DEF WriteOk
  <2>2. /\ pending' \in [Workers -> [id : Entries \cup {0}, re : BOOLEAN]]
        /\ \A w \in Workers : pending'[w].id # 0 => pending[w].id # 0
    BY <2>1 DEF Truth, Shape, NoEntry
  <2>3. \A w \in Workers, id \in Entries : <<w, id>> \in write'.took => pending'[w].id # 0
    BY <1>1, AfterTook DEF WriteOk
  <2>4. retained' \in {retained, Nobody} /\ db' = db \cup Written /\ UNCHANGED <<server, cur, osVars, entries>>
    BY <1>1 DEF WriteOk
  <2> QED  BY <1>0, <2>2, <2>3, <2>4, RecorderKeeps
<1>2. ASSUME NEW committed \in BOOLEAN, WriteFail(committed) PROVE Truth'
  <2>1. pending' = pending /\ retained' = retained /\ UNCHANGED <<server, cur, osVars, entries>>
    BY <1>2 DEF WriteFail
  <2>2. \A w \in Workers, id \in Entries : <<w, id>> \in write'.took => pending'[w].id # 0
    BY <1>2, <2>1, AfterTook DEF WriteFail
  <2>3. \A w \in db' : w \in db \/ Gone(w)  BY <1>0, <1>2 DEF WriteFail
  <2>4. pending' \in [Workers -> [id : Entries \cup {0}, re : BOOLEAN]]
    BY <2>1 DEF Truth, Shape
  <2> QED  BY <2>1, <2>2, <2>3, <2>4, RecorderKeeps
<1>3. CASE Retry
  <2>1. /\ pending' = pending /\ retained' = retained /\ db' = db
        /\ UNCHANGED <<server, cur, osVars, entries>> /\ write'.took = Taken(pending)
    BY <1>3 DEF Retry, StartWrite
  <2>2. \A w \in Workers, id \in Entries : <<w, id>> \in write'.took => pending'[w].id # 0
    BY <2>1, TakenPending
  <2>3. pending' \in [Workers -> [id : Entries \cup {0}, re : BOOLEAN]]
    BY <2>1 DEF Truth, Shape
  <2> QED  BY <2>1, <2>2, <2>3, RecorderKeeps
<1> QED  BY <1>1, <1>2, <1>3 DEF RecorderStep

\* The recorder's claims survive any step that leaves it alone and revives nobody.
LEMMA OthersKeep ==
  ASSUME Truth, UNCHANGED recorderVars, \A w : Gone(w) => Gone(w)', Shape', Known'
  PROVE  Truth'
<1>1. UNCHANGED <<db, pending, retained, write>>  BY DEF recorderVars
<1>2. Carried'  BY <1>1 DEF Truth, Carried
<1> QED  BY <1>2 DEF Truth

LEMMA EnterId == ASSUME NEW w, NEW re, Enter(w, re), entries \in Entries \cup {0}
  PROVE entries + 1 \in Entries /\ entries + 1 # 0
BY StopAssumption DEF Enter, Entries

\* A fresh entry about a worker that is gone.
LEMMA EnterTook ==
  ASSUME NEW w \in Workers, NEW re \in BOOLEAN, Enter(w, re), Shape
  PROVE  /\ pending' \in [Workers -> [id : Entries \cup {0}, re : BOOLEAN]]
         /\ \A v \in Workers : v # w => pending'[v] = pending[v]
         /\ pending'[w].id # 0
         /\ \A v \in Workers, id \in Entries : <<v, id>> \in write'.took =>
              <<v, id>> \in write.took \/ pending'[v].id # 0
         /\ db' = db /\ entries' \in Entries
<1>0. /\ pending \in [Workers -> [id : Entries \cup {0}, re : BOOLEAN]]
      /\ entries \in Entries \cup {0}
  BY DEF Shape
<1> DEFINE new == [id |-> entries + 1, re |-> re]
<1>1. /\ pending' = [pending EXCEPT ![w] = new] /\ db' = db /\ entries' = entries + 1
      /\ entries + 1 \in Entries /\ entries + 1 # 0
  BY <1>0, EnterId DEF Enter
<1>4. /\ pending' \in [Workers -> [id : Entries \cup {0}, re : BOOLEAN]]
      /\ \A v \in Workers : v # w => pending'[v] = pending[v]
      /\ pending'[w].id # 0
  BY <1>0, <1>1
<1>2. CASE write.on
  <2>1. write' = write  BY <1>2 DEF Enter
  <2> QED  BY <1>1, <1>4, <2>1
<1>3. CASE ~write.on
  <2>1. write'.took = Taken(pending')  BY <1>3 DEF Enter, StartWrite
  <2>2. \A v \in Workers, id \in Entries : <<v, id>> \in Taken(pending') => pending'[v].id # 0
    BY DEF Taken
  <2> QED  BY <1>1, <1>4, <2>1, <2>2, ZenonT(60)
<1> QED  BY <1>2, <1>3

LEMMA WorkerTruth == ASSUME ~Torn PROVE Truth /\ WorkerStep => Truth'
<1> SUFFICES ASSUME Truth, WorkerStep PROVE Truth'  OBVIOUS
<1>0. Shape /\ Known /\ Carried  BY DEF Truth
<1>1. CASE Register
  BY <1>0, <1>1, OthersKeep DEF Register, Gone, Shape, Known, recorderVars
<1>2. CASE RegisterOther
  BY <1>0, <1>2, OthersKeep DEF RegisterOther, InThread, Gone, Shape, Known, Lives, recorderVars
<1>3. CASE Terminate
  BY <1>0, <1>3, OthersKeep DEF Terminate, Gone, Shape, Known, Lives, recorderVars
<1>4. CASE Kill
  BY <1>0, <1>4, OthersKeep DEF Kill, Absent, Gone, Shape, Known, Lives, recorderVars
<1>5. CASE Exit
  BY <1>0, <1>5, OthersKeep DEF Exit, InThread, Gone, Shape, Known, Lives, recorderVars
<1>6. CASE OnExit
  BY <1>0, <1>6, OthersKeep DEF OnExit, Gone, Shape, Known, Lives, recorderVars
<1>7. CASE Confirm
  <2>1. \A c \in Children : child[c].of = cur => ~child[c].alive
    BY <1>0, <1>7 DEF Confirm, Known, Absent, Shape
  <2>2. /\ UNCHANGED <<server, cur, child, told>> /\ life' \in {"recording", "stopped"}
        /\ life = "confirm"
    BY <1>7 DEF Confirm
  <2>3. \A w : Gone(w) => Gone(w)'  BY <2>2 DEF Gone
  <2>4. Gone(cur)'  BY <1>0, <2>1, <2>2, Numbers DEF Gone, Shape
  <2>5. Known'  BY <2>2 DEF Known
  <2>6. CASE known = "yes"
    <3>1. Enter(cur, FALSE) /\ retained' = cur  BY <1>7, <2>6 DEF Confirm, Record
    <3>2. cur \in Workers  BY <1>0 DEF Shape
    <3>3. Carried'
      BY <1>0, <2>2, <2>3, <2>4, <3>1, <3>2, EnterTook DEF Carried
    <3>4. Shape'  BY <1>0, <2>2, <3>1, <3>2, EnterTook DEF Shape, Lives
    <3> QED  BY <2>5, <3>3, <3>4 DEF Truth
  <2>7. CASE known # "yes"
    <3>1. UNCHANGED recorderVars  BY <1>7, <2>7 DEF Confirm
    <3>2. Shape'  BY <1>0, <2>2, <3>1 DEF Shape, Lives, recorderVars
    <3> QED  BY <2>3, <2>5, <3>1, <3>2, OthersKeep
  <2> QED  BY <2>6, <2>7
<1>8. CASE ConfirmNever
  BY <1>0, <1>8, OthersKeep DEF ConfirmNever, Gone, Shape, Known, Lives, recorderVars
<1>9. CASE Recorded
  BY <1>0, <1>9, OthersKeep DEF Recorded, Gone, Shape, Known, Lives, recorderVars
<1>10. ASSUME NEW c \in Children, Spawn(c) PROVE Truth'
  <2>1. /\ child' = [child EXCEPT ![c] = [of |-> cur, alive |-> TRUE]] /\ told' = told \cup {c}
        /\ UNCHANGED <<server, cur, life, tracked>> /\ UNCHANGED recorderVars
        /\ life \in {"up", "terminating", "killed"}
    BY <1>10 DEF Spawn, InThread
  <2>2. \A w : Gone(w) => Gone(w)'  BY <1>0, <2>1 DEF Gone, Shape
  <2>3. Shape'  BY <1>0, <2>1, Numbers DEF Shape, recorderVars
  <2>4. Known'  BY <1>0, <2>1 DEF Known, Shape
  <2> QED  BY <2>1, <2>2, <2>3, <2>4, OthersKeep
<1>11. ASSUME NEW c \in Children, Die(c) PROVE Truth'
  <2>1. /\ child' = [child EXCEPT ![c].alive = FALSE]
        /\ UNCHANGED <<server, cur, life, told, tracked>> /\ UNCHANGED recorderVars
    BY <1>11 DEF Die
  <2>2. \A d \in Children : child'[d].of = child[d].of /\ (child'[d].alive => child[d].alive)
    BY <1>0, <2>1 DEF Shape
  <2>3. Shape'  BY <1>0, <2>1, <2>2 DEF Shape, recorderVars
  <2>4. (\A w : Gone(w) => Gone(w)') /\ Known'  BY <1>0, <2>1, <2>2 DEF Known, Gone
  <2> QED  BY <2>1, <2>3, <2>4, OthersKeep
<1>12. ASSUME NEW c \in Children, DeliverChild(c) PROVE Truth'
  BY <1>0, <1>12, OthersKeep DEF DeliverChild, Gone, Shape, Known, recorderVars
<1>13. ASSUME NEW c \in Children, DeliverClose(c) PROVE Truth'
  BY <1>0, <1>13, OthersKeep DEF DeliverClose, Absent, Gone, Shape, Known, recorderVars
<1> QED
  BY <1>1, <1>2, <1>3, <1>4, <1>5, <1>6, <1>7, <1>8, <1>9, <1>10, <1>11, <1>12, <1>13
  DEF WorkerStep


\* Starting the next worker revives nothing of the ones before it.
LEMMA StartKeeps ==
  ASSUME Truth, life = "stopped", StartWorker
  PROVE  /\ \A w : Gone(w) => Gone(w)'
         /\ Known' /\ cur' \in Workers /\ life' = "up" /\ child' = child
         /\ \A c \in Children : child'[c].of <= cur'
<1>1. /\ cur \in Workers /\ child \in [Children -> [of : Workers \cup {Nobody}, alive : BOOLEAN]]
      /\ \A c \in Children : child[c].of <= cur
  BY DEF Truth, Shape
<1>2. cur' \in Workers /\ cur' > cur /\ cur' = cur + 1 /\ life' = "up" /\ child' = child
  BY <1>1, StopAssumption DEF StartWorker, Workers
<1>3. ASSUME NEW c \in Children PROVE child[c].of \in Int
  <2>1. child[c].of \in Workers \cup {Nobody}  BY <1>1
  <2>2. Workers \cup {Nobody} \subseteq Int  BY Numbers DEF Nobody
  <2> QED  BY <2>1, <2>2, Zenon
<1>4. \A c \in Children : child'[c].of # cur' /\ child'[c].of <= cur'
  BY <1>1, <1>2, <1>3, Numbers
<1>5. \A w : Gone(w) => Gone(w)'  BY <1>1, <1>2, Numbers DEF Gone
<1> QED  BY <1>2, <1>4, <1>5 DEF Known

LEMMA ServerTruth == Truth /\ ServerStep => Truth'
<1> SUFFICES ASSUME Truth, ServerStep PROVE Truth'  OBVIOUS
<1>0. Shape /\ Known /\ Carried  BY DEF Truth
<1>1. CASE RestartWorker
  <2>1. life = "stopped" /\ StartWorker /\ server' = "running" /\ UNCHANGED recorderVars
    BY <1>1 DEF RestartWorker
  <2>2. Shape'  BY <1>0, <2>1, StartKeeps DEF Shape, Lives, recorderVars
  <2> QED  BY <2>1, <2>2, StartKeeps, OthersKeep
<1>2. CASE EnterMaintenance
  BY <1>0, <1>2, OthersKeep DEF EnterMaintenance, Gone, Shape, Known, Lives, recorderVars, osVars
<1>3. CASE Booted
  <2>1. life = "stopped" /\ StartWorker /\ server' = "running" /\ UNCHANGED recorderVars
    BY <1>0, <1>3 DEF Booted, Shape
  <2>2. Shape'  BY <1>0, <2>1, StartKeeps DEF Shape, Lives, recorderVars
  <2> QED  BY <2>1, <2>2, StartKeeps, OthersKeep
<1>4. CASE Boot
  <2>1. UNCHANGED <<cur, life, child, told, tracked>> /\ life = "stopped"
    BY <1>0, <1>4 DEF Boot, osVars, Shape
  <2>2. \A w : Gone(w) => Gone(w)'  BY <2>1 DEF Gone
  <2>3. Known'  BY <2>1 DEF Known
  <2>4. CASE retained # Nobody
    <3>1. Enter(retained, TRUE) /\ retained' = retained  BY <1>4, <2>4 DEF Boot, Republish
    <3>2. Gone(retained) /\ retained \in Workers  BY <1>0, <2>4 DEF Carried, Gone
    <3>3. Carried'  BY <1>0, <2>2, <3>1, <3>2, EnterTook DEF Carried
    <3>4. Shape'  BY <1>0, <2>1, <3>1, <3>2, EnterTook DEF Shape
    <3> QED  BY <2>3, <3>3, <3>4 DEF Truth
  <2>5. CASE retained = Nobody
    <3>1. UNCHANGED recorderVars  BY <1>4, <2>5 DEF Boot
    <3>2. Shape'  BY <1>0, <2>1, <3>1 DEF Shape, recorderVars
    <3> QED  BY <2>2, <2>3, <3>1, <3>2, OthersKeep
  <2> QED  BY <2>4, <2>5
<1>5. ASSUME NEW dump \in SUBSET db, Restore(dump) PROVE Truth'
  <2>1. /\ UNCHANGED <<server, cur, osVars, entries>> /\ UNCHANGED <<pending, retained, write>>
        /\ db' = dump
    BY <1>5 DEF Restore
  <2>2. pending' \in [Workers -> [id : Entries \cup {0}, re : BOOLEAN]]
    BY <1>0, <2>1 DEF Shape
  <2> QED  BY <1>5, <2>1, <2>2, RecorderKeeps
<1> QED  BY <1>1, <1>2, <1>3, <1>4, <1>5 DEF ServerStep

LEMMA TruthImplies == Truth => ProofIsTrue
<1> SUFFICES ASSUME Truth, NEW w \in Proofs PROVE Gone(w)  BY DEF ProofIsTrue, Gone
<1> QED  BY DEF Proofs, Truth, Carried

LEMMA StutterTruth == Truth /\ UNCHANGED vars => Truth'
BY DEF Truth, Shape, Known, Carried, Gone, vars, osVars, recorderVars

\* Stop proofs, written, waiting or retained, are true for every number of workers, children,
\* failed writes and restores, when a spawn and the message about it cannot be separated
\* (queue/supervisor.ts waits for the port to drain before it confirms the exit).
THEOREM ProofsAreTrue == ASSUME ~Torn PROVE Spec => []ProofIsTrue
<1>1. Init => Truth  BY InitTruth
<1>2. Truth /\ [Next]_vars => Truth'
  BY WorkerTruth, RecorderTruth, ServerTruth, StutterTruth DEF Next
<1>3. Truth => ProofIsTrue  BY TruthImplies
<1> QED  BY <1>1, <1>2, <1>3, PTL DEF Spec

-----------------------------------------------------------------------------
(* Stop proofs are delivered. *)

EntryType == [id : Entries \cup {0}, re : BOOLEAN]
CallerType == [on : BOOLEAN, id : Entries \cup {0}, tried : BOOLEAN]

\* The recorder and the workers it hears of; entries are numbered as they are made.
Numbered ==
  /\ server \in {"running", "maintenance", "booting"} /\ life \in Lives
  /\ cur \in Workers /\ latest \in Workers \cup {Nobody} /\ latest <= cur
  /\ retained \in Workers \cup {Nobody}
  /\ pending \in [Workers -> EntryType]
  /\ entries \in Entries \cup {0} /\ \A w \in Workers : pending[w].id <= entries
  /\ write.took \subseteq Workers \X Entries /\ \A e \in write.took : e[2] <= entries
  /\ caller \in CallerType

\* When the server moves on, when a stop is confirmed, and when a call is under way.
Staged ==
  /\ server # "running" => life = "stopped"
  /\ life \notin {"recording", "stopped"} => latest # cur
  /\ life = "recording" => latest = cur
  /\ caller.on => write.on /\ (life = "recording" \/ server = "booting")

\* The proof of a confirmed stop until its call returns: it waits for a write that does not
\* have it, or is being written, or some finished write had it.
Waiting ==
  life = "recording" =>
    /\ caller.on /\ ~caller.tried => /\ pending[cur].id # 0
                                     /\ <<cur, pending[cur].id>> \notin write.took
    /\ caller.on /\ caller.tried => cur \in Written
    /\ ~caller.on => cur \in attempted

InHand(w) == w \in db \/ pending[w].id # 0

\* The latest confirmed stop, if it is of this worker or the one before: in hand whenever no
\* restore can come between, and otherwise retained, to be republished.
Safe ==
  /\ latest = cur /\ server # "maintenance" => InHand(latest)
  /\ latest # Nobody /\ latest = cur - 1 /\ server = "running" => InHand(latest)
  /\ latest = cur /\ server # "booting" =>
       retained = latest /\ (pending[latest].id # 0 => ~pending[latest].re)

Delivery == Numbered /\ Staged /\ Waiting /\ AttemptedFirst /\ Safe

LEMMA InitDelivery == Init => Delivery
<1> SUFFICES ASSUME Init PROVE Delivery  OBVIOUS
<1>1. 1 \in Workers  BY StopAssumption DEF Workers
<1>2. Numbered
  BY <1>1, StopAssumption DEF Init, Numbered, Lives, Nobody, NoEntry, NoWrite, NoCaller, EntryType, CallerType,
       Entries
<1>3. Staged /\ Waiting /\ AttemptedFirst /\ Safe
  BY DEF Init, Staged, Waiting, AttemptedFirst, Safe, Nobody, NoCaller
<1> QED  BY <1>2, <1>3 DEF Delivery

\* What a write takes of p.
LEMMA TakenType ==
  ASSUME NEW p \in [Workers -> EntryType]
  PROVE  /\ Taken(p) \subseteq Workers \X Entries
         /\ \A e \in Taken(p) : e[2] = p[e[1]].id /\ e[1] \in Workers
         /\ \A w \in Workers : p[w].id # 0 => <<w, p[w].id>> \in Taken(p)
BY DEF Taken, EntryType

\* The worker and its children move; the recorder, and what is confirmed, stay.
LEMMA OsDelivery ==
  ASSUME Delivery, UNCHANGED <<server, cur, latest, recorderVars>>, life' \in Lives,
         life' = life \/ (life \notin {"recording", "stopped"} /\ life' # "recording")
  PROVE  Delivery'
<1> USE DEF Delivery, recorderVars
<1>1. Numbered'  BY DEF Numbered
<1>2. Staged'  BY DEF Staged
<1>3. Waiting'  BY DEF Waiting, Written
<1>4. AttemptedFirst'  BY DEF AttemptedFirst, Staged
<1>5. Safe'  BY DEF Safe, InHand
<1> QED  BY <1>1, <1>2, <1>3, <1>4, <1>5

\* A call of the recorder: its entry is taken by its own write, or by none so far.
LEMMA EnterEffect ==
  ASSUME Numbered, NEW w \in Workers, NEW re \in BOOLEAN, Enter(w, re)
  PROVE  /\ pending' \in [Workers -> EntryType]
         /\ pending'[w].id # 0 /\ pending'[w].re = re
         /\ \A v \in Workers \ {w} : pending'[v] = pending[v]
         /\ entries' \in Entries /\ \A v \in Workers : pending'[v].id <= entries'
         /\ write'.took \subseteq Workers \X Entries /\ \A e \in write'.took : e[2] <= entries'
         /\ write'.on /\ caller'.on /\ caller' \in CallerType /\ UNCHANGED <<db, attempted>>
         /\ caller'.tried => <<w, pending'[w].id>> \in write'.took
         /\ ~caller'.tried => <<w, pending'[w].id>> \notin write'.took
<1> DEFINE n == entries + 1
<1>1. n \in Entries /\ n # 0 /\ n > entries /\ entries \in Int /\ Entries \subseteq Int
  BY StopAssumption DEF Numbered, Enter, Entries
<1>2. pending' = [pending EXCEPT ![w] = [id |-> n, re |-> re]] /\ entries' = n
  BY DEF Enter
<1> HIDE DEF n
<1>3. /\ pending' \in [Workers -> EntryType] /\ pending'[w] = [id |-> n, re |-> re]
      /\ \A v \in Workers \ {w} : pending'[v] = pending[v]
  BY <1>1, <1>2 DEF Numbered, EntryType
<1>4. \A v \in Workers : pending[v].id \in Int /\ pending[v].id <= entries
  <2>1. \A v \in Workers : pending[v].id \in Entries \cup {0}  BY DEF Numbered, EntryType
  <2>2. Entries \cup {0} \subseteq Int  BY <1>1
  <2> QED  BY <2>1, <2>2 DEF Numbered
<1>5. \A v \in Workers : pending'[v].id <= n  BY <1>1, <1>3, <1>4
<1>6. UNCHANGED <<db, attempted>> /\ pending'[w].id = n /\ pending'[w].re = re  BY <1>3 DEF Enter
<1>7. CASE write.on
  <2> DEFINE own == ~write.on
  <2>1. own = FALSE  BY <1>7
  <2>2. caller' = [on |-> TRUE, id |-> n, tried |-> own]  BY DEF Enter, n
  <2> HIDE DEF own
  <2>3. caller'.on /\ ~caller'.tried /\ caller' \in CallerType  BY <1>1, <2>1, <2>2 DEF CallerType
  <2>4. write' = write  BY <1>7 DEF Enter
  <2>5. \A e \in write.took : e[2] \in Int /\ e[2] <= entries  BY <1>1 DEF Numbered
  <2>6. <<w, n>> \notin write.took  BY <1>1, <2>5
  <2>7. write'.took \subseteq Workers \X Entries /\ \A e \in write'.took : e[2] <= n
    BY <1>1, <2>4, <2>5 DEF Numbered
  <2>8. write'.on  BY <1>7, <2>4
  <2> QED  BY <1>1, <1>2, <1>3, <1>5, <1>6, <2>4, <2>6, <2>7, <2>3, <2>8
<1>8. CASE ~write.on
  <2> DEFINE own == ~write.on
  <2>1. own = TRUE  BY <1>8
  <2>2. caller' = [on |-> TRUE, id |-> n, tried |-> own]  BY DEF Enter, n
  <2> HIDE DEF own
  <2>3. caller'.on /\ caller'.tried /\ caller' \in CallerType  BY <1>1, <2>1, <2>2 DEF CallerType
  <2>4. write'.on /\ write'.took = Taken(pending')  BY <1>8 DEF Enter, StartWrite
  <2>5. \A e \in Taken(pending') : e[2] <= n  BY <1>3, <1>5, TakenType
  <2>6. <<w, pending'[w].id>> \in Taken(pending')  BY <1>1, <1>3, TakenType
  <2>7. Taken(pending') \subseteq Workers \X Entries  BY <1>3, TakenType
  <2> QED  BY <1>1, <1>2, <1>3, <1>5, <1>6, <2>3, <2>4, <2>5, <2>6, <2>7
<1> QED  BY <1>7, <1>8

LEMMA WorkerDelivery == ASSUME Delivery, WorkerStep PROVE Delivery'
<1>0. Numbered /\ Staged /\ Waiting /\ AttemptedFirst /\ Safe  BY DEF Delivery
<1>1. CASE Register \/ RegisterOther \/ Terminate \/ Kill \/ Exit \/ OnExit \/ ConfirmNever
  BY <1>0, <1>1, OsDelivery
     DEF Register, RegisterOther, Terminate, Kill, Exit, OnExit, ConfirmNever, InThread, Lives, Numbered
<1>2. ASSUME NEW c \in Children, Spawn(c) \/ Die(c) \/ DeliverChild(c) \/ DeliverClose(c)
      PROVE  Delivery'
  BY <1>0, <1>2, OsDelivery DEF Spawn, Die, DeliverChild, DeliverClose, InThread, Lives, Numbered
<1>3. CASE Recorded
  <2>1. /\ life = "recording" /\ ~caller.on /\ life' = "stopped"
        /\ UNCHANGED <<server, cur, latest, recorderVars>>
    BY <1>3 DEF Recorded
  <2> USE <1>0, <2>1 DEF recorderVars
  <2>2. Numbered'  BY DEF Numbered, Lives
  <2>3. Staged' /\ Waiting'  BY DEF Staged, Waiting
  <2>4. AttemptedFirst'  BY DEF AttemptedFirst, Waiting
  <2>5. Safe'  BY DEF Safe, InHand
  <2> QED  BY <2>2, <2>3, <2>4, <2>5 DEF Delivery
<1>4. CASE Confirm
  <2>1. CASE known # "yes"
    BY <1>0, <1>4, <2>1, OsDelivery DEF Confirm, Lives
  <2>2. CASE known = "yes"
    <3>1. /\ life = "confirm" /\ Enter(cur, FALSE) /\ retained' = cur /\ life' = "recording"
          /\ latest' = cur /\ UNCHANGED <<server, cur>>
      BY <1>4, <2>2 DEF Confirm, Record
    <3>2. cur \in Workers /\ server = "running"  BY <1>0, <3>1 DEF Numbered, Staged
    <3>3. cur <= cur  BY <3>2, Numbers
    <3> USE <1>0, <3>1, <3>2, EnterEffect
    <3>4. Numbered'  BY <3>3 DEF Numbered, Lives
    <3>5. Staged'  BY DEF Staged
    <3>6. Waiting'
      <4>1. pending'[cur].id \in Entries  BY DEF EntryType
      <4> QED  BY <4>1 DEF Waiting, Written
    <3>7. AttemptedFirst'  BY DEF AttemptedFirst
    <3>8. Safe'
      <4>1. cur # cur - 1  BY <3>2, Numbers
      <4> QED  BY <4>1 DEF Safe, InHand
    <3> QED  BY <3>4, <3>5, <3>6, <3>7, <3>8 DEF Delivery
  <2> QED  BY <2>1, <2>2
<1> QED  BY <1>1, <1>2, <1>3, <1>4 DEF WorkerStep

\* After a write that left p pending: the proof of a stop whose call has not returned is in
\* the next write, unless it was in this one.
LEMMA AfterEffect ==
  ASSUME Numbered, Staged, Waiting, NEW p \in [Workers -> EntryType],
         \A w \in Workers : p[w].id <= entries,
         <<cur, pending[cur].id>> \notin write.took => p[cur] = pending[cur],
         AfterWrite(p), attempted' = attempted \cup Written,
         UNCHANGED <<server, cur, life, latest, entries>>, pending' = p
  PROVE  /\ write'.took \subseteq Workers \X Entries /\ \A e \in write'.took : e[2] <= entries
         /\ caller' \in CallerType /\ Staged' /\ Waiting'
<1>1. CASE caller.on /\ ~caller.tried
  <2>1. write'.on /\ write'.took = Taken(p) /\ caller' = [caller EXCEPT !.tried = TRUE]
    BY <1>1 DEF AfterWrite, StartWrite
  <2>2. caller' \in CallerType /\ caller'.on = caller.on /\ caller'.tried
    BY <2>1 DEF Numbered, CallerType
  <2>3. write'.took \subseteq Workers \X Entries /\ \A e \in write'.took : e[2] <= entries
    BY <2>1, TakenType
  <2>4. caller.on /\ (life = "recording" \/ server = "booting")  BY <1>1 DEF Staged
  <2>5. Staged'  BY <2>1, <2>4 DEF Staged
  <2>6. Waiting'
    <3> SUFFICES ASSUME life = "recording" PROVE caller'.on /\ caller'.tried /\ cur \in Written'
      BY DEF Waiting
    <3>1. p[cur].id # 0  BY <1>1 DEF Waiting
    <3>2. <<cur, p[cur].id>> \in write'.took  BY <2>1, <3>1, TakenType DEF Numbered
    <3>3. cur \in Written'  BY <2>3, <3>2 DEF Written, Numbered
    <3> QED  BY <2>2, <2>4, <3>3
  <2> QED  BY <2>2, <2>3, <2>5, <2>6
<1>2. CASE ~(caller.on /\ ~caller.tried)
  <2>1. write' = NoWrite /\ caller' = NoCaller  BY <1>2 DEF AfterWrite
  <2>2. write'.took = {} /\ ~caller'.on /\ caller' \in CallerType
    BY <2>1 DEF NoWrite, NoCaller, CallerType
  <2>3. Staged'  BY <2>2 DEF Staged
  <2>4. Waiting'  BY <1>2, <2>2 DEF Waiting
  <2> QED  BY <2>2, <2>3, <2>4
<1> QED  BY <1>1, <1>2

LEMMA RecorderDelivery == ASSUME Delivery, RecorderStep PROVE Delivery'
<1>0. /\ Numbered /\ Staged /\ Waiting /\ AttemptedFirst /\ Safe
      /\ latest = cur - 1 /\ latest # Nobody => latest \in Workers
      /\ latest = cur => latest \in Workers
  BY DEF Delivery, Numbered
<1>1. CASE WriteOk
  <2>1. /\ write.on /\ db' = db \cup Written /\ attempted' = attempted \cup Written
        /\ pending' = [w \in Workers |-> IF w \in Settled THEN NoEntry ELSE pending[w]]
        /\ retained' = IF retained \in Settled /\ pending[retained].re THEN Nobody ELSE retained
        /\ AfterWrite(pending') /\ UNCHANGED <<server, cur, life, entries, latest>>
    BY <1>1 DEF WriteOk, osVars
  <2>2. /\ pending' \in [Workers -> EntryType]
        /\ \A w \in Workers : pending'[w].id <= entries
        /\ \A w \in Workers \ Settled : pending'[w] = pending[w]
    <3>1. NoEntry \in EntryType /\ NoEntry.id = 0  BY DEF NoEntry, EntryType
    <3>2. 0 <= entries  BY <1>0, StopAssumption DEF Numbered, Entries
    <3> QED  BY <1>0, <2>1, <3>1, <3>2 DEF Numbered
  <2>3. \A w \in Settled : w \in Written /\ pending[w].id # 0
    BY <1>0, Numbers DEF Settled, Written, Numbered
  <2>4. /\ write'.took \subseteq Workers \X Entries /\ \A e \in write'.took : e[2] <= entries
        /\ caller' \in CallerType /\ Staged' /\ Waiting'
    BY <1>0, <2>1, <2>2, AfterEffect DEF Settled, Numbered
  <2>5. Numbered'  BY <1>0, <2>1, <2>2, <2>4 DEF Numbered
  <2>6. AttemptedFirst'  BY <1>0, <2>1 DEF AttemptedFirst
  <2>7. \A w \in Workers : InHand(w) => InHand(w)'  BY <2>1, <2>2, <2>3 DEF InHand
  <2>8. Safe'
    <3>1. latest = cur /\ server # "booting" =>
            /\ retained' = latest
            /\ pending'[latest].id # 0 => ~pending'[latest].re
      <4> SUFFICES ASSUME latest = cur, server # "booting"
                   PROVE  retained' = latest /\ (pending'[latest].id # 0 => ~pending'[latest].re)
        OBVIOUS
      <4>1. latest \in Workers /\ retained = latest /\ (pending[latest].id # 0 => ~pending[latest].re)
        BY <1>0 DEF Safe
      <4>2. retained' = latest  BY <2>1, <2>3, <4>1
      <4>3. pending'[latest] \in {NoEntry, pending[latest]}  BY <2>1, <4>1
      <4> QED  BY <4>1, <4>2, <4>3 DEF NoEntry
    <3> QED  BY <1>0, <2>1, <2>7, <3>1 DEF Safe
  <2> QED  BY <2>4, <2>5, <2>6, <2>8 DEF Delivery
<1>2. ASSUME NEW committed \in BOOLEAN, WriteFail(committed) PROVE Delivery'
  <2>1. /\ db \subseteq db' /\ attempted' = attempted \cup Written
        /\ AfterWrite(pending) /\ UNCHANGED <<server, cur, life, pending, retained, entries, latest>>
    BY <1>2 DEF WriteFail, osVars
  <2>2. /\ write'.took \subseteq Workers \X Entries /\ \A e \in write'.took : e[2] <= entries
        /\ caller' \in CallerType /\ Staged' /\ Waiting'
    BY <1>0, <2>1, AfterEffect DEF Numbered
  <2>3. Numbered'  BY <1>0, <2>1, <2>2 DEF Numbered
  <2>4. AttemptedFirst' /\ Safe'  BY <1>0, <2>1 DEF AttemptedFirst, Safe, InHand
  <2> QED  BY <2>2, <2>3, <2>4 DEF Delivery
<1>3. CASE Retry
  <2>1. /\ ~write.on /\ write'.on /\ write'.took = Taken(pending)
        /\ UNCHANGED <<server, cur, life, pending, retained, caller, entries, db, attempted, latest>>
    BY <1>3 DEF Retry, StartWrite, osVars
  <2>2. ~caller.on  BY <1>0, <2>1 DEF Staged
  <2>3. Numbered'  BY <1>0, <2>1, TakenType DEF Numbered
  <2>4. Staged' /\ Waiting'  BY <1>0, <2>1, <2>2 DEF Staged, Waiting
  <2>5. AttemptedFirst' /\ Safe'  BY <1>0, <2>1 DEF AttemptedFirst, Safe, InHand
  <2> QED  BY <2>3, <2>4, <2>5 DEF Delivery
<1> QED  BY <1>1, <1>2, <1>3 DEF RecorderStep

\* The next worker starts: the latest confirmed stop is now that of the one before.
LEMMA StartDelivery ==
  ASSUME Delivery, life = "stopped", ~caller.on, server # "maintenance",
         StartWorker, server' = "running", UNCHANGED <<recorderVars, latest>>
  PROVE  Delivery'
<1>0. Numbered /\ Staged /\ Safe  BY DEF Delivery
<1>1. /\ cur' = cur + 1 /\ cur' \in Workers /\ cur \in Int /\ life' = "up"
      /\ latest \in Int /\ latest <= cur
  <2>1. latest \in Workers \cup {Nobody}  BY <1>0 DEF Numbered
  <2>2. Workers \cup {Nobody} \subseteq Int  BY Numbers DEF Nobody
  <2> QED  BY <1>0, <2>1, <2>2, StopAssumption DEF StartWorker, Workers, Numbered
<1>2. latest # cur' /\ latest <= cur' /\ (latest = cur' - 1 => latest = cur)  BY <1>1
<1>3. Numbered'  BY <1>0, <1>1, <1>2 DEF Numbered, Lives, recorderVars
<1>4. Staged' /\ Waiting' /\ AttemptedFirst'
  BY <1>1, <1>2 DEF Staged, Waiting, AttemptedFirst, recorderVars
<1>5. Safe'  BY <1>0, <1>2 DEF Safe, InHand, recorderVars
<1> QED  BY <1>3, <1>4, <1>5 DEF Delivery

LEMMA ServerDelivery == ASSUME Delivery, ServerStep PROVE Delivery'
<1>0. Numbered /\ Staged /\ Waiting /\ AttemptedFirst /\ Safe  BY DEF Delivery
<1>1. CASE RestartWorker
  BY <1>0, <1>1, StartDelivery DEF RestartWorker, Staged
<1>2. CASE Booted
  BY <1>0, <1>2, StartDelivery DEF Booted, Staged
<1>3. CASE EnterMaintenance
  <2>1. /\ server = "running" /\ life = "stopped" /\ server' = "maintenance"
        /\ UNCHANGED <<cur, life, recorderVars, latest>>
    BY <1>3 DEF EnterMaintenance, osVars
  <2> USE <1>0, <2>1 DEF recorderVars
  <2>2. Numbered'  BY DEF Numbered
  <2>3. Staged' /\ Waiting' /\ AttemptedFirst'  BY DEF Staged, Waiting, AttemptedFirst
  <2>4. Safe'  BY DEF Safe, InHand
  <2> QED  BY <2>2, <2>3, <2>4 DEF Delivery
<1>4. ASSUME NEW dump \in SUBSET db, Restore(dump) PROVE Delivery'
  <2>1. /\ server = "maintenance"
        /\ UNCHANGED <<server, cur, life, pending, retained, write, caller, entries, attempted, latest>>
    BY <1>4 DEF Restore, osVars
  <2> USE <1>0, <2>1
  <2>2. Numbered'  BY DEF Numbered
  <2>3. Staged' /\ Waiting' /\ AttemptedFirst'  BY DEF Staged, Waiting, Written, AttemptedFirst
  <2>4. Safe'  BY DEF Safe
  <2> QED  BY <2>2, <2>3, <2>4 DEF Delivery
<1>5. CASE Boot
  <2>1. /\ server \in {"maintenance", "running"} /\ life = "stopped" /\ server' = "booting"
        /\ UNCHANGED <<cur, life, latest>>
    BY <1>0, <1>5 DEF Boot, osVars, Staged
  <2>2. CASE retained # Nobody
    <3>1. Enter(retained, TRUE) /\ retained' = retained /\ retained \in Workers
      BY <1>0, <1>5, <2>2 DEF Boot, Republish, Numbered
    <3> USE <1>0, <2>1, <3>1, EnterEffect
    <3>2. Numbered'  BY DEF Numbered
    <3>3. Staged' /\ Waiting' /\ AttemptedFirst'  BY DEF Staged, Waiting, AttemptedFirst
    <3>4. Safe'  BY DEF Safe, InHand
    <3> QED  BY <3>2, <3>3, <3>4 DEF Delivery
  <2>3. CASE retained = Nobody
    <3>1. UNCHANGED recorderVars  BY <1>5, <2>3 DEF Boot
    <3>2. latest # cur  BY <1>0, <2>1, <2>3, Numbers DEF Safe, Numbered
    <3> USE <1>0, <2>1, <3>1, <3>2 DEF recorderVars
    <3>3. Numbered'  BY DEF Numbered
    <3>4. Staged' /\ Waiting' /\ AttemptedFirst'  BY DEF Staged, Waiting, AttemptedFirst
    <3>5. Safe'  BY DEF Safe
    <3> QED  BY <3>3, <3>4, <3>5 DEF Delivery
  <2> QED  BY <2>2, <2>3
<1> QED  BY <1>1, <1>2, <1>3, <1>4, <1>5 DEF ServerStep

\* A confirmed stop has a finished write of its own before the exit is acted upon, though it
\* arrived while another was being written, and is in the database or still to be written
\* while the worker after it runs, though writes fail and a restore replaced the database.
THEOREM StopsAreDelivered == Spec => []ProofDelivered
<1>1. Init => Delivery  BY InitDelivery
<1>2. Delivery /\ [Next]_vars => Delivery'
  <2>1. Delivery /\ UNCHANGED vars => Delivery'
    BY OsDelivery DEF vars, osVars, Delivery, Numbered
  <2> QED  BY <2>1, WorkerDelivery, RecorderDelivery, ServerDelivery DEF Next
<1>3. Delivery => ProofDelivered
  BY DEF Delivery, Safe, InHand, ProofDelivered, PrecedingCarried
<1> QED  BY <1>1, <1>2, <1>3, PTL DEF Spec

-----------------------------------------------------------------------------
(* ServerWorkers: the group is sound. *)

\* While the supervisor runs it knows every process, an exit not yet handled included; the
\* maintenance worker and the others, or a pending start of the edge worker, are never there
\* together; and nothing is due to start while the group goes down or comes up.
Tended ==
  ~exited =>
    /\ \A n \in Names : n \in workers <=> proc[n] # "none"
    /\ \A n \in Names : workerFailures[n] <= MaxWorkerFailures
    /\ maintenanceMode => workers \subseteq {"maint"} /\ ~edgeTimer
    /\ ~maintenanceMode => "maint" \notin workers
    /\ restarting => timers = {}
    /\ boot = "waiting" => ~maintenanceMode

\* Once it has exited only forks are left, and each of them is on its way out.
Abandoned ==
  exited => \A n \in Names : /\ proc[n] # "none" => n \in Forks
                             /\ proc[n] \notin {"starting", "running"}

GroupInv == GroupTypeOK /\ OneProcess /\ Tended /\ Abandoned

LEMMA GroupInvSound == GroupInv => GroupSound
<1> SUFFICES ASSUME GroupInv PROVE GroupSound  OBVIOUS
<1>1. MaintenanceAlone
  BY DEF GroupInv, GroupTypeOK, Tended, Abandoned, MaintenanceAlone, Alive, Living, Names, Forks
<1>2. NothingLeftBehind
  BY DEF GroupInv, GroupTypeOK, Tended, Abandoned, NothingLeftBehind, Alive, Living, Names, Forks
<1> QED  BY <1>1, <1>2 DEF GroupInv, GroupSound

LEMMA InitGroup == GroupInit => GroupInv
<1> SUFFICES ASSUME GroupInit PROVE GroupInv  OBVIOUS
<1>1. GroupTypeOK
  <2>1. workerFailures \in [Names -> 0..MaxWorkerFailures + 1]  BY ConstantsAssumption DEF GroupInit
  <2> QED  BY <2>1 DEF GroupInit, GroupTypeOK, Names, Living, Codes
<1>2. OneProcess /\ Tended /\ Abandoned
  BY ConstantsAssumption DEF GroupInit, OneProcess, Tended, Abandoned
<1> QED  BY <1>1, <1>2 DEF GroupInv

\* A worker starts up, ends or is killed: the supervisor hears nothing yet.
LEMMA WorkerKeepsGroup ==
  ASSUME GroupInv, NEW n \in Names, Listen(n) \/ End(n) \/ Unusable(n)
  PROVE  GroupInv'
<1> USE DEF GroupInv, GroupTypeOK, OneProcess, Tended, Abandoned, Workless, edgeVars, Living, Codes
<1>1. CASE Listen(n)  BY <1>1 DEF Listen
<1>2. CASE End(n)  BY <1>2 DEF End, CodesFrom, Names, Forks
<1>3. CASE Unusable(n)  BY <1>3 DEF Unusable, Killed, Names, Forks
<1> QED  BY <1>1, <1>2, <1>3

LEMMA RestartKeepsGroup == ASSUME GroupInv, Restart PROVE GroupInv'
BY DEF Restart, Workless, edgeVars, GroupInv, GroupTypeOK, OneProcess, Tended, Abandoned, Living, Codes

\* bootstrap() finds no process and no timer: what it starts is alone.
LEMMA BootKeepsGroup == ASSUME GroupInv, Bootstrap PROVE GroupInv'
<1> USE ConstantsAssumption
    DEF GroupInv, GroupTypeOK, OneProcess, Tended, Abandoned, BootRest, restartVars, Living, Codes, Names
<1>1. CASE BootMaintenance  BY <1>1 DEF BootMaintenance, StartWorkers, Started
<1>2. CASE BootOpen  BY <1>2 DEF BootOpen
<1>3. CASE BootStart  BY <1>3 DEF BootStart, StartWorkers, Started
<1> QED  BY <1>1, <1>2, <1>3 DEF Bootstrap

LEMMA StopKeepsGroup == ASSUME GroupInv, Stop \/ StopDeadline PROVE GroupInv'
<1> USE DEF GroupInv, GroupTypeOK, OneProcess, Tended, Abandoned, edgeVars, restartVars, Living, Codes, Names, Forks
<1>1. CASE Stop  BY <1>1 DEF Stop, ClearTimers, InvalidateWorkerRestarts, Left, Asked
<1>2. CASE StopDeadline  BY <1>2 DEF StopDeadline, Left, Killed
<1> QED  BY <1>1, <1>2

\* A timer starts at most the worker it is for, where none is, and in the mode it belongs to.
LEMMA TimerKeepsGroup ==
  ASSUME GroupInv, EdgeRestartTimer \/ EdgeKill \/ \E n \in Names : WorkerRestartTimer(n)
  PROVE  GroupInv'
<1> USE DEF GroupInv, GroupTypeOK, OneProcess, Tended, Abandoned, TimerRest, restartVars, Living, Codes, Names
<1>1. CASE EdgeKill  BY <1>1 DEF EdgeKill, Killed
<1>2. ASSUME NEW n \in Names, ~exited, n \notin workers, Permitted(n), boot = "none", StartWorkers({n}),
             timers' \subseteq timers, edgeTimer' \in {edgeTimer, FALSE}, UNCHANGED TimerRest
      PROVE  GroupInv'
  <2>1. /\ proc' \in [Names -> Living \cup Codes \cup {"none"}] /\ workers' \subseteq Names
        /\ edgeStopRequested' \in BOOLEAN
    BY <1>2 DEF StartWorkers, Started
  <2>2. strays' = {} /\ \A m \in Names : m \in workers' <=> proc'[m] # "none"
    BY <1>2 DEF StartWorkers, Started
  <2>3. workers' = workers \cup {n} /\ timers' \subseteq Names \ {"edge"} /\ edgeTimer' \in BOOLEAN
    BY <1>2 DEF StartWorkers
  <2>4. ~exited' /\ boot' = "none"  BY <1>2
  <2>5. GroupTypeOK'
    <3> HIDE DEF Names, Living, Codes, OneProcess, Tended, Abandoned
    <3> QED  BY <1>2, <2>1, <2>2, <2>3, <2>4
  <2>6. Tended'  BY <1>2, <2>2, <2>3, <2>4 DEF Permitted
  <2> QED  BY <2>2, <2>4, <2>5, <2>6
<1>3. CASE EdgeRestartTimer /\ ~restarting /\ "edge" \notin workers
  <2>1. Permitted("edge") /\ boot = "none"  BY <1>3 DEF EdgeRestartTimer, Permitted
  <2> QED  BY <1>2, <1>3, <2>1 DEF EdgeRestartTimer
<1>4. CASE EdgeRestartTimer /\ ~(~restarting /\ "edge" \notin workers)  BY <1>4 DEF EdgeRestartTimer
<1>5. ASSUME NEW n \in Names, WorkerRestartTimer(n),
             Permitted(n) /\ ~stopping /\ ~restarting /\ n \notin workers
      PROVE  GroupInv'
  <2>1. boot = "none"  BY <1>5 DEF WorkerRestartTimer
  <2> QED  BY <1>2, <1>5, <2>1 DEF WorkerRestartTimer
<1>6. ASSUME NEW n \in Names, WorkerRestartTimer(n),
             ~(Permitted(n) /\ ~stopping /\ ~restarting /\ n \notin workers)
      PROVE  GroupInv'
  BY <1>6, ZenonT(60) DEF WorkerRestartTimer
<1> QED  BY <1>1, <1>3, <1>4, <1>5, <1>6

LEMMA ExitKeepsGroup == ASSUME GroupInv, NEW n \in Names, HandleExit(n) PROVE GroupInv'
<1> USE DEF GroupInv, GroupTypeOK, OneProcess, Tended, Abandoned, edgeVars, restartVars, Living, Codes,
        Exited, Code, Handled
<1>1. CASE ExitStopping(n)  BY <1>1 DEF ExitStopping, Left, Forks
<1>2. CASE ExitRestarting(n)
  BY <1>2 DEF ExitRestarting, IsRestart, Invalidated, InvalidateWorkerRestarts, ClearEdgeTimer, EdgeKillTimer,
              StopsEdge, Asked
<1>3. CASE ExitFatal(n)
  BY <1>3 DEF ExitFatal, Fatal, FatalAsked, IsLocal, IsRestart, Left, Asked, Names, Forks
<1>4. CASE n = "edge" /\ ExitEdge  BY <1>4 DEF ExitEdge, IsRestart, EdgeReturns, Names
<1>5. ASSUME NEW fresh \in BOOLEAN, ExitLocal(n, fresh) PROVE GroupInv'
  BY <1>5, ConstantsAssumption DEF ExitLocal, Local, FailuresAfter, IsRestart
<1>6. ASSUME NEW fresh \in BOOLEAN, GiveUp(n, fresh) PROVE GroupInv'
  BY <1>6, ConstantsAssumption DEF GiveUp, Local, Fatal, FatalAsked, FailuresAfter, IsRestart, Left, Asked, Names, Forks
<1> QED  BY <1>1, <1>2, <1>3, <1>4, <1>5, <1>6 DEF HandleExit

LEMMA GroupKeeps == GroupInv /\ [GroupNext]_groupVars => GroupInv'
<1> SUFFICES ASSUME GroupInv, [GroupNext]_groupVars PROVE GroupInv'  OBVIOUS
<1>1. CASE GroupNext
  BY <1>1, WorkerKeepsGroup, RestartKeepsGroup, BootKeepsGroup, StopKeepsGroup, TimerKeepsGroup,
     ExitKeepsGroup DEF GroupNext
<1>2. CASE UNCHANGED groupVars
  BY <1>2 DEF groupVars, edgeVars, restartVars, GroupInv, GroupTypeOK, OneProcess, Tended, Abandoned
<1> QED  BY <1>1, <1>2

\* While a stop waits there is a worker to wait for and no start is pending.
Stopped ==
  stopping => /\ \A n \in Names : proc[n] \notin {"starting", "running"}
              /\ ~exited => workers # {} /\ timers = {} /\ ~edgeTimer

LEMMA StopKeeps ==
  ASSUME GroupInv, Stopped, GroupNext  PROVE Stopped'
<1> USE DEF GroupInv, GroupTypeOK, Tended, Abandoned, Stopped, edgeVars, restartVars, Living, Codes
<1>1. ASSUME NEW n \in Names, Listen(n) \/ End(n) \/ Unusable(n) PROVE Stopped'
  BY <1>1 DEF Listen, End, CodesFrom, Unusable, Killed, Workless
<1>2. CASE Restart  BY <1>2 DEF Restart, Workless
<1>3. CASE Bootstrap
  BY <1>3 DEF Bootstrap, BootMaintenance, BootOpen, BootStart, BootRest
<1>4. CASE Stop
  BY <1>4 DEF Stop, ClearTimers, InvalidateWorkerRestarts, Left, Asked, Names, Forks
<1>5. CASE StopDeadline  BY <1>5 DEF StopDeadline, Left, Killed
<1>6. CASE EdgeRestartTimer
  <2>1. ~stopping /\ ~stopping'  BY <1>6 DEF EdgeRestartTimer, TimerRest
  <2> QED  BY <2>1
<1>7. CASE EdgeKill
  <2>1. UNCHANGED <<stopping, exited, workers, timers, edgeTimer>>  BY <1>7 DEF EdgeKill
  <2>2. \A n \in Names : proc'[n] \in {proc[n], "killed"}  BY <1>7 DEF EdgeKill, Killed
  <2> QED  BY <2>1, <2>2
<1>8. ASSUME NEW n \in Names, WorkerRestartTimer(n) PROVE Stopped'
  BY <1>8 DEF WorkerRestartTimer, TimerRest
<1>9. ASSUME NEW n \in Names, HandleExit(n) PROVE Stopped'
  <2>1. CASE ExitStopping(n)  BY <2>1 DEF ExitStopping, Exited, Left, Handled
  <2>2. CASE ~stopping /\ stopping' = stopping  BY <2>2
  <2>3. CASE ~ExitStopping(n)
    <3>1. ~stopping /\ stopping' = stopping
      BY <1>9, <2>3 DEF HandleExit, ExitRestarting, ExitEdge, ExitLocal, ExitFatal, GiveUp, Local, Fatal
    <3> QED  BY <2>2, <3>1
  <2> QED  BY <2>1, <2>3
<1> QED  BY <1>1, <1>2, <1>3, <1>4, <1>5, <1>6, <1>7, <1>8, <1>9 DEF GroupNext

\* supervisor.ts: one process for each worker, maintenance alone, and nothing that runs out of
\* the supervisor's reach, in every order of exits, timers, restarts, signals and kills.
THEOREM GroupStaysSound == GroupSpec => []GroupSound
BY InitGroup, GroupKeeps, GroupInvSound, PTL DEF GroupSpec

\* SupervisorStop: a stop that arrives during a boot, a restart or a back-off reaches every
\* worker there is, and none starts after it.
THEOREM StopsReachAll == GroupSpec => []StopReachesAll
<1>1. GroupInit => Stopped  BY DEF GroupInit, Stopped
<1>2. GroupInv /\ Stopped /\ [GroupNext]_groupVars => Stopped'
  <2>1. Stopped /\ UNCHANGED groupVars => Stopped'
    BY DEF groupVars, edgeVars, restartVars, Stopped
  <2> QED  BY <2>1, StopKeeps
<1>3. GroupInv /\ Stopped => StopReachesAll
  BY DEF GroupInv, GroupTypeOK, Stopped, StopReachesAll, Alive, Living
<1> QED  BY InitGroup, GroupKeeps, <1>1, <1>2, <1>3, PTL DEF GroupSpec
=============================================================================
