\* Two rows of the store alone: one stage asked for in its run and outside it.
SPECIFICATION StoreSpec
CONSTANTS
  Jobs = {1, 2}
  Workers = {w1}
  Runs = {r1}
  Items = {i2}
  Keys = {k1, k2}
  Requests <- InAndOut
  NoJob = NoJob
  NoWorker = NoWorker
  NoRun = NoRun
  NoKey = NoKey
  NoRequest = NoRequest
  k1 = k1
  k2 = k2
  r1 = r1
  i1 = i1
  i2 = i2
  w1 = w1
  Inputs = {"pause", "hand", "key", "cancel", "expiry", "producer", "clear", "retry", "park"}
  Concurrency = 1
  LeaseTicks = 1
  MaxAttempts = 2
  MaxClaims = 2
CHECK_DEADLOCK FALSE
INVARIANTS FinishedRunsQuiet
PROPERTIES AuditIsFinal LatestKept
