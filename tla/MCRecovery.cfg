\* One row, two workers: every interleaving of claims, crashes, expiry and requested stops.
SPECIFICATION FairSpec
CONSTANTS
  Jobs = {1}
  Workers = {w1, w2}
  Runs = {}
  Items = {i1}
  Keys = {k1, k2}
  Requests <- LoneWork
  NoJob = NoJob
  NoWorker = NoWorker
  NoRun = NoRun
  NoKey = NoKey
  NoRequest = NoRequest
  k1 = k1
  k2 = k2
  r1 = r1
  i1 = i1
  i2 = i2
  w1 = w1
  w2 = w2
  Inputs = {"cancel", "crash", "expiry"}
  Concurrency = 1
  LeaseTicks = 1
  MaxAttempts = 2
  MaxClaims = 2
CHECK_DEADLOCK FALSE
INVARIANTS QueueInv EvidenceIsTrue
PROPERTIES CancelledIsStopped EveryClaimSettles CancelRequestHonoured
