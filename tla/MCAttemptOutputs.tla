------------------------- MODULE MCAttemptOutputs -------------------------
\* Small instances of AttemptOutputs.
EXTENDS AttemptOutputs
=============================================================================
