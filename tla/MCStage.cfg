\* One stage of a run with its executors, retried, cleared, re-armed and stopped.
SPECIFICATION Spec
CONSTANTS
  Jobs = {1}
  Workers = {w1}
  Runs = {r1}
  Items = {i1}
  Keys = {k1, k2}
  Requests <- OneStage
  NoJob = NoJob
  NoWorker = NoWorker
  NoRun = NoRun
  NoKey = NoKey
  NoRequest = NoRequest
  k1 = k1
  k2 = k2
  r1 = r1
  i1 = i1
  i2 = i2
  w1 = w1
  w2 = w2
  Inputs = {"expiry", "retry", "clear", "producer", "stop", "key"}
  Concurrency = 1
  LeaseTicks = 1
  MaxAttempts = 2
  MaxClaims = 2
CHECK_DEADLOCK FALSE
INVARIANTS UnsafeRunsAlone PublishedOnce
PROPERTIES FencedPublication
