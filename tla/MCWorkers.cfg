\* All workers, up to two failures in a row.
SPECIFICATION GroupFairSpec
CONSTANTS
    Enabled <- AllWorkers
    MaxWorkerFailures = 2
    Unheard = FALSE
CHECK_DEADLOCK FALSE
INVARIANTS GroupSound StopReachesAll
PROPERTIES RestartCompletes WorkersComeBack
