\* Three workers in turn, two native processes, two failed writes, one restore.
SPECIFICATION FairSpec
CONSTANTS
  MaxWorkers = 3
  Children = {ffmpeg, sharp}
  MaxEntries = 4
  MaxFailures = 2
  MaxRestores = 1
  Torn = FALSE
CHECK_DEADLOCK FALSE
INVARIANTS ProofIsTrue ProofDelivered
PROPERTIES PendingWritten
