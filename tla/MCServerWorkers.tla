-------------------------- MODULE MCServerWorkers --------------------------
\* Instances of ServerWorkers.
EXTENDS ServerWorkers

AllWorkers == {"api", "micro", "edge"}
=============================================================================
