SPECIFICATION StoreSpec
CONSTANTS
  Jobs = {1, 2, 3}
  Workers = {w1}
  Runs = {r1}
  Items = {i1, i2}
  Keys = {k1, k2}
  Requests <- TwoStages
  NoJob = NoJob
  NoWorker = NoWorker
  NoRun = NoRun
  NoKey = NoKey
  NoRequest = NoRequest
  k1 = k1
  k2 = k2
  r1 = r1
  i1 = i1
  i2 = i2
  w1 = w1
  Inputs = {"clear"}
  Concurrency = 2
  LeaseTicks = 1
  MaxAttempts = 2
  MaxClaims = 4
INVARIANTS NoOrphans

CHECK_DEADLOCK FALSE
