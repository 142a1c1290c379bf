\* Two attempts of one job, read one name at a time.
SPECIFICATION FairSpec
CONSTANTS
    Jobs = {j1}
    Workers = {w1}
    MaxTokens = 2
    NameWindow = 1
    LongCommit = FALSE
CHECK_DEADLOCK FALSE
INVARIANTS EvidenceIsTrue OutputsKept Reclaimable
PROPERTY LeftoversCleared
