------------------------ MODULE MCDatabaseRestore ------------------------
\* Small instances of DatabaseRestore.
EXTENDS DatabaseRestore, TLC

CONSTANTS sync, backup

\* Work a restore must not repeat, and a backup an older server recorded.
RestoredKinds == sync :> "unsafe" @@ backup :> "oldBackup"
=============================================================================
