--------------------------- MODULE ServerWorkers ---------------------------
(***************************************************************************)
(* The process supervisor (server/src/supervisor.ts, class Workers, with    *)
(* SupervisorStop of server/src/utils/shutdown.ts): it starts the workers,  *)
(* starts them again when they fail, takes the whole group down and up for  *)
(* a restart (which is how maintenance begins and ends) and stops it.       *)
(*                                                                         *)
(* A worker's end and its 'exit' event are two steps: timers, signals and   *)
(* other exits are handled in between.  For the job worker the gap is long, *)
(* as its exit is handled once its stop is proved (see StopProof).          *)
(***************************************************************************)
EXTENDS Naturals, FiniteSets

CONSTANTS Enabled,            \* the workers the configuration selects
          MaxWorkerFailures,  \* MAX_CONSECUTIVE_WORKER_FAILURES
          Unheard             \* a worker may be starting when a restart is published

Names == {"api", "edge", "micro", "maint"}
Forks == {"api", "edge"}          \* processes of their own; the others are threads

ASSUME ConstantsAssumption == /\ Enabled \subseteq Names \ {"maint"} /\ "api" \in Enabled
                              /\ MaxWorkerFailures \in Nat \ {0} /\ Unheard \in BOOLEAN

VARIABLES proc,         \* the worker's process, or the exit code not yet handled
          strays,       \* workers started while a process of theirs was there
          workers,      \* names in this.workers
          restarting, stoppingEdge, edgeStopRequested,
          edgeTimer, edgeKillTimer,
          timers,       \* workerRestarts
          unusable,     \* databaseRestarts
          workerFailures,
          maintenanceMode, boot,
          stopping,     \* stopper.stopping, with its deadline running
          exited,       \* process.exit was called
          maint         \* the maintenance mode stored in the database

edgeVars == <<stoppingEdge, edgeStopRequested, edgeTimer, edgeKillTimer>>
restartVars == <<timers, unusable, workerFailures>>
groupVars == <<proc, strays, workers, restarting, edgeVars, restartVars, maintenanceMode, boot,
          stopping, exited, maint>>

\* leaving: heard the restart.  stopping: was asked to stop.
Living == {"starting", "running", "leaving", "stopping", "killed"}
Codes == {"ok", "restart", "retry", "fail", "killed_exit"}

GroupTypeOK ==
    /\ proc \in [Names -> Living \cup Codes \cup {"none"}]
    /\ strays \subseteq Names /\ workers \subseteq Names /\ timers \subseteq Names \ {"edge"}
    /\ unusable \subseteq Names /\ workerFailures \in [Names -> 0..MaxWorkerFailures + 1]
    /\ \A f \in {restarting, stoppingEdge, edgeStopRequested, edgeTimer, edgeKillTimer,
                 maintenanceMode, stopping, exited, maint} : f \in BOOLEAN
    /\ boot \in {"none", "reading", "waiting"}
    /\ ~exited /\ boot # "none" => workers = {} /\ timers = {} /\ ~edgeTimer /\ ~restarting

GroupInit ==
    /\ proc = [n \in Names |-> "none"] /\ strays = {} /\ workers = {}
    /\ restarting = FALSE /\ stoppingEdge = FALSE /\ edgeStopRequested = FALSE
    /\ edgeTimer = FALSE /\ edgeKillTimer = FALSE
    /\ timers = {} /\ unusable = {} /\ workerFailures = [n \in Names |-> 0]
    /\ maintenanceMode = FALSE /\ boot = "reading" /\ stopping = FALSE /\ exited = FALSE
    /\ maint = FALSE

Alive(n) == proc[n] \in Living

-----------------------------------------------------------------------------
(* What the operations share, as functions of the processes. *)

\* startWorker of every name in S.
Started(S, p) == [n \in Names |-> IF n \in S THEN "starting" ELSE p[n]]
StartWorkers(S) == /\ proc' = Started(S, proc)
                   /\ strays' = strays \cup {n \in S : proc[n] # "none"}
                   /\ workers' = workers \cup S
                   /\ edgeStopRequested' = (edgeStopRequested /\ "edge" \notin S)

\* stop() of every worker in S; one that leaves or is killed goes on doing that.
Asked(S, p) == [n \in Names |-> IF n \in S /\ p[n] \in {"starting", "running"}
                                THEN "stopping" ELSE p[n]]
Killed(S, p) == [n \in Names |-> IF n \in S /\ p[n] \in Living THEN "killed" ELSE p[n]]

\* The exit of n is handled.
Handled(n, p) == [p EXCEPT ![n] = "none"]

\* process.exit: the threads end with the process, the forks do not.
Left(p) == [n \in Names |-> IF n \in Forks THEN p[n] ELSE "none"]

\* The lifecycle token that a retry compares guards a callback that was already taken from
\* the timer queue; a cleared timer does not fire.
InvalidateWorkerRestarts == timers' = {}

-----------------------------------------------------------------------------
(* The workers. *)

Workless == <<strays, workers, restarting, edgeVars, timers, workerFailures, maintenanceMode, boot,
              stopping, exited>>

\* A worker has started: it listens for restarts from here on.
Listen(n) == /\ proc[n] = "starting" /\ proc' = [proc EXCEPT ![n] = "running"]
             /\ UNCHANGED <<Workless, unusable, maint>>

\* It ends, for the reason its state gives or because it crashes.
CodesFrom(n) ==
    CASE proc[n] = "starting" -> {"fail"} \cup (IF n = "api" THEN {"retry"} ELSE {})
      [] proc[n] = "running" -> {"fail"} \cup (IF n \in Forks THEN {"ok"} ELSE {})
      [] proc[n] = "leaving" -> {"restart", "fail"}
      [] proc[n] = "stopping" -> {"ok", "fail"}
      [] proc[n] = "killed" -> {"killed_exit"}
      [] OTHER -> {}
End(n) == /\ \E c \in CodesFrom(n) : proc' = [proc EXCEPT ![n] = IF exited THEN "none" ELSE c]
          /\ UNCHANGED <<Workless, unusable, maint>>

\* AppRestart is published: every worker that listens leaves with the restart code.
Restart ==
    /\ ~exited /\ \E n \in Names \ {"edge"} : proc[n] = "running"
    /\ ~Unheard => timers = {} /\ \A n \in workers \ {"edge"} : proc[n] = "running"
    /\ proc' = [n \in Names |-> IF n # "edge" /\ proc[n] = "running" THEN "leaving" ELSE proc[n]]
    /\ maint' \in BOOLEAN
    /\ UNCHANGED <<Workless, unusable>>

\* 'database-unusable': the supervisor kills the worker and remembers why.
Unusable(n) ==
    /\ ~exited /\ n # "edge" /\ proc[n] \in Living \ {"killed"}
    /\ unusable' = unusable \cup {n} /\ proc' = Killed({n}, proc)
    /\ UNCHANGED <<Workless, maint>>

-----------------------------------------------------------------------------
(* bootstrap(): asks the database, waits for the maintenance lock, starts. *)

BootRest == <<restarting, stoppingEdge, edgeTimer, edgeKillTimer, restartVars, stopping, exited, maint>>

BootMaintenance ==
    /\ ~exited /\ boot = "reading" /\ maint
    /\ maintenanceMode' = TRUE /\ boot' = "none" /\ StartWorkers({"maint"})
    /\ UNCHANGED BootRest
BootOpen ==
    /\ ~exited /\ boot = "reading" /\ ~maint
    /\ maintenanceMode' = FALSE /\ boot' = "waiting"
    /\ UNCHANGED <<proc, strays, workers, edgeStopRequested, BootRest>>
\* The lock is free and the last stop proof republished.
BootStart ==
    /\ ~exited /\ boot = "waiting"
    /\ boot' = "none" /\ StartWorkers(Enabled)
    /\ UNCHANGED <<maintenanceMode, BootRest>>

\* Mutant: the delayed start of the edge, which looks at restarting only, survives a stop.
ClearTimersWorkers == InvalidateWorkerRestarts /\ UNCHANGED edgeTimer /\ edgeKillTimer' = FALSE
ClearTimers == InvalidateWorkerRestarts /\ edgeTimer' = FALSE /\ edgeKillTimer' = FALSE
\* stop(): a signal, or bootstrap() failed.
Stop ==
    /\ ~exited /\ ~stopping
    /\ ClearTimers /\ edgeStopRequested' = TRUE
    /\ stopping' = TRUE /\ exited' = (workers = {})
    /\ proc' = IF workers = {} THEN Left(proc) ELSE Asked(workers, proc)
    /\ UNCHANGED <<strays, workers, restarting, stoppingEdge, unusable, workerFailures, maintenanceMode,
                   boot, maint>>

\* The stop's deadline: what is left is killed, and the supervisor exits.
StopDeadline ==
    /\ ~exited /\ stopping
    /\ proc' = Left(Killed(workers, proc)) /\ exited' = TRUE
    /\ UNCHANGED <<strays, workers, restarting, edgeVars, restartVars, maintenanceMode, boot,
                   stopping, maint>>

-----------------------------------------------------------------------------
(* onExit(n, code), one action for each way through it. *)

Code(n) == proc[n]
Exited(n) == ~exited /\ proc[n] \in Codes

ExitStopping(n) ==
    /\ Exited(n) /\ stopping
    /\ workers' = workers \ {n}
    /\ exited' = (workers' = {})
    /\ proc' = IF exited' THEN Left(Handled(n, proc)) ELSE Handled(n, proc)
    /\ UNCHANGED <<strays, restarting, edgeVars, restartVars, maintenanceMode, boot, stopping, maint>>

IsRestart(n) == Code(n) = "restart" \/ restarting
Invalidated == IF restarting THEN UNCHANGED timers ELSE InvalidateWorkerRestarts
\* The first other worker to leave takes the edge worker along.
StopsEdge(n) == "edge" \in workers /\ n # "edge" /\ ~stoppingEdge

\* Mutant: an edge worker that hangs in its teardown is waited for.
EdgeKillTimerNever(n) == edgeKillTimer' = FALSE
EdgeKillTimer(n) == edgeKillTimer' = (n # "edge" /\ (edgeKillTimer \/ StopsEdge(n)))

\* Mutant: a pending start of the edge worker survives the restart.
ClearEdgeTimerNever == UNCHANGED edgeTimer
ClearEdgeTimer == edgeTimer' = FALSE

ExitRestarting(n) ==
    LET last == workers = {n}
    IN  /\ Exited(n) /\ ~stopping /\ IsRestart(n)
        /\ Invalidated /\ ClearEdgeTimer /\ EdgeKillTimer(n)
        /\ workers' = workers \ {n}
        /\ proc' = IF StopsEdge(n) THEN Asked({"edge"}, Handled(n, proc)) ELSE Handled(n, proc)
        /\ edgeStopRequested' = (edgeStopRequested \/ StopsEdge(n))
        /\ restarting' = ~last
        /\ stoppingEdge' = (~last /\ (stoppingEdge \/ StopsEdge(n)))
        /\ boot' = IF last THEN "reading" ELSE boot
        /\ UNCHANGED <<strays, unusable, workerFailures, maintenanceMode, stopping, exited, maint>>

\* Mutant: an edge worker that exits cleanly by itself stays away.
EdgeReturnsFailed == edgeTimer' = (~edgeStopRequested /\ Code("edge") = "fail")
EdgeReturns == edgeTimer' = ~edgeStopRequested
ExitEdge ==
    /\ Exited("edge") /\ ~stopping /\ ~IsRestart("edge")
    /\ workers' = workers \ {"edge"} /\ proc' = Handled("edge", proc)
    /\ EdgeReturns
    /\ UNCHANGED <<strays, restarting, stoppingEdge, edgeStopRequested, edgeKillTimer, restartVars,
                   maintenanceMode, boot, stopping, exited, maint>>

\* Only this worker's pool, or its start, has failed: it may be started again by itself.
IsLocal(n) == n \in unusable \/ n = "micro" \/ (n = "api" /\ Code(n) = "retry")
\* fresh: it had run for a minute.
FailuresAfter(n, fresh) == IF fresh THEN 1 ELSE workerFailures[n] + 1
Local(n, fresh) == /\ Exited(n) /\ ~stopping /\ ~IsRestart(n) /\ n # "edge" /\ IsLocal(n)
                   /\ unusable' = unusable \ {n}
                   /\ workerFailures' = [workerFailures EXCEPT ![n] = FailuresAfter(n, fresh)]

ExitLocal(n, fresh) ==
    /\ Local(n, fresh) /\ FailuresAfter(n, fresh) <= MaxWorkerFailures
    /\ workers' = workers \ {n} /\ proc' = Handled(n, proc)
    /\ timers' = timers \cup {n}
    /\ UNCHANGED <<strays, restarting, edgeVars, maintenanceMode, boot, stopping, exited, maint>>

\* The forks that are asked to stop before the server exits.
FatalAsked(n, code) == {"edge"} \cup (IF code = "ok" THEN {} ELSE {"api"})
Fatal(n, code) ==
    /\ workers' = workers \ {n} /\ exited' = TRUE
    /\ proc' = Left(Asked(FatalAsked(n, code), Handled(n, proc)))
    /\ edgeStopRequested' = (edgeStopRequested \/ "edge" \in workers)
    /\ UNCHANGED <<strays, restarting, stoppingEdge, edgeTimer, edgeKillTimer, timers,
                   maintenanceMode, boot, stopping, maint>>

GiveUp(n, fresh) == Local(n, fresh) /\ FailuresAfter(n, fresh) > MaxWorkerFailures /\ Fatal(n, "fail")
ExitFatal(n) ==
    /\ Exited(n) /\ ~stopping /\ ~IsRestart(n) /\ n # "edge" /\ ~IsLocal(n)
    /\ Fatal(n, Code(n)) /\ UNCHANGED <<unusable, workerFailures>>

-----------------------------------------------------------------------------
(* Timers. *)

TimerRest == <<restarting, stoppingEdge, edgeKillTimer, unusable, workerFailures, maintenanceMode, boot,
               stopping, exited, maint>>
\* Under the assumption ~Unheard no worker starts while others leave for a restart.
Quiet == Unheard \/ \A n \in Names : proc[n] \notin {"leaving", "restart"}

EdgeRestartTimer ==
    /\ ~exited /\ edgeTimer
    /\ edgeTimer' = FALSE /\ UNCHANGED <<timers, TimerRest>>
    /\ IF ~restarting /\ "edge" \notin workers THEN StartWorkers({"edge"})
       ELSE UNCHANGED <<proc, strays, workers, edgeStopRequested>>

Permitted(n) == maintenanceMode = (n = "maint")
WorkerRestartTimer(n) ==
    /\ ~exited /\ n \in timers /\ Quiet
    /\ timers' = timers \ {n} /\ UNCHANGED <<edgeTimer, TimerRest>>
    /\ IF Permitted(n) /\ ~stopping /\ ~restarting /\ n \notin workers THEN StartWorkers({n})
       ELSE UNCHANGED <<proc, strays, workers, edgeStopRequested>>

EdgeKill ==
    /\ ~exited /\ edgeKillTimer /\ edgeKillTimer' = FALSE
    /\ proc' = IF "edge" \in workers THEN Killed({"edge"}, proc) ELSE proc
    /\ UNCHANGED <<strays, workers, restarting, stoppingEdge, edgeStopRequested, edgeTimer,
                   restartVars, maintenanceMode, boot, stopping, exited, maint>>

HandleExit(n) == \/ ExitStopping(n) \/ ExitRestarting(n) \/ ExitFatal(n)
                 \/ n = "edge" /\ ExitEdge
                 \/ \E fresh \in BOOLEAN : ExitLocal(n, fresh) \/ GiveUp(n, fresh)
Bootstrap == BootMaintenance \/ BootOpen \/ BootStart

GroupNext ==
    \/ \E n \in Names : Listen(n) \/ End(n) \/ Unusable(n) \/ HandleExit(n) \/ WorkerRestartTimer(n)
    \/ Restart \/ Bootstrap \/ Stop \/ StopDeadline \/ EdgeRestartTimer \/ EdgeKill

GroupSpec == GroupInit /\ [][GroupNext]_groupVars

\* Exit events and timers come, the maintenance lock is released, and a worker that leaves
\* (its own deadline), that was killed or that has started does so.  A worker that was asked
\* to stop may hang.
GroupFairSpec ==
    /\ GroupSpec
    /\ WF_groupVars(Bootstrap) /\ WF_groupVars(StopDeadline)
    /\ WF_groupVars(EdgeRestartTimer) /\ WF_groupVars(EdgeKill)
    /\ \A n \in Names : /\ WF_groupVars(HandleExit(n)) /\ WF_groupVars(WorkerRestartTimer(n))
                        /\ WF_groupVars(proc[n] \in {"leaving", "killed"} /\ End(n))

-----------------------------------------------------------------------------
(* Properties. *)

\* No worker is started beside a process of the same name: onExit() of the first would remove
\* the second from this.workers, and nothing could stop it.
OneProcess == strays = {}

\* A restore replaces the database under no running worker: while the maintenance worker
\* runs nothing else does, whatever retries were pending when maintenance began.
MaintenanceAlone == Alive("maint") => \A n \in Names \ {"maint"} : ~Alive(n)

\* The server leaves no process behind: what runs can be stopped through this.workers, and
\* when the supervisor has exited the forks that still run were told to end.
NothingLeftBehind ==
    \A n \in Names : Alive(n) => IF exited THEN proc[n] \in {"leaving", "stopping", "killed"}
                                 ELSE n \in workers

\* The group is sound whatever its exits, timers, restarts and stops were: one process for
\* each worker, maintenance alone, and nothing that runs out of the supervisor's reach.
GroupSound == GroupTypeOK /\ OneProcess /\ MaintenanceAlone /\ NothingLeftBehind

\* A stop that arrives during a boot, a restart or a back-off reaches every worker: none starts
\* after it, which nobody would ask to stop and the exit would wait for, and each one that is
\* left was asked, leaves already or was killed.
StopReachesAll == stopping => \A n \in Names : Alive(n) => proc[n] \in {"leaving", "stopping", "killed"}

\* A restart comes back: all workers end and bootstrap() starts the next group, although the
\* edge worker may hang in its teardown.
RestartCompletes == restarting ~> ~restarting \/ exited

\* The job worker and the edge worker do not stay away behind a serving API.
Down(n) == n \in Enabled \ workers /\ "api" \in workers /\ ~restarting /\ ~stopping /\ ~exited
WorkersComeBack == \A n \in {"micro", "edge"} : Down(n) ~> ~Down(n)

\* supervisor.spec.ts, "still stops the server when the API worker fails for any other
\* reason": an API worker that ends with a failure of its own takes the server down.
FailureStops == [][proc["api"] = "fail" /\ proc'["api"] # "fail" /\ ~restarting /\ ~stopping
                    => exited']_groupVars
=============================================================================
