\* A job that may not be repeated and a backup, restored from any earlier dump.
SPECIFICATION Spec
CONSTANTS
    sync = sync
    backup = backup
    Jobs = {sync, backup}
    Kind <- RestoredKinds
    MaxAttempts = 2
    NoRows = NoRows
CHECK_DEADLOCK FALSE
INVARIANTS UnsafeOnce OverIsOver RestoreInv
