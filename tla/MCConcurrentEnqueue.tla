------------------------ MODULE MCConcurrentEnqueue ------------------------
(* Latest requests of a run and of none, a seal, a plain request and a retry. *)
EXTENDS ConcurrentEnqueue
MCMode == [c \in Callers |-> CASE c \in {"a", "b"} -> "last" [] c = "d" -> "seal" [] c = "e" -> "retry" [] OTHER -> "drop"]
MCRunOf == [c \in Callers |-> IF c = "b" THEN "r" ELSE NoRun]
MCParent == [c \in Callers |-> IF c = "b" THEN "a" ELSE Nobody]
\* Seals of one asset, published by two jobs.
SealMode == [c \in Callers |-> "seal"]
SealRunOf == [c \in Callers |-> NoRun]
SealParent == [c \in Callers |-> Nobody]
=============================================================================
