\* Four callers, up to two slots: one more than a full queue and its holders.
SPECIFICATION FairSpec
CONSTANTS
  Callers = {c1, c2, c3, c4}
  MaxCapacity = 2
  MaxWaiting = 3
INVARIANTS AdmissionInv
PROPERTIES ArrivalOrder WaitersServed
