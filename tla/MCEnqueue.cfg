\* Four requests of one key in every mode, two of them published with their change, and a retry.
SPECIFICATION Spec
CONSTANTS
  Callers = {"a", "b", "c", "d", "e"}
  Mode <- MCMode
  RunOf <- MCRunOf
  Parent <- MCParent
  InTx = {"a", "d"}
  Runs = {"r"}
  MaxJobs = 3
CHECK_DEADLOCK FALSE
INVARIANTS EnqueueInv
