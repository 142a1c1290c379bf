\* Two coordinators; two jobs in pages of one, two changes of the holds, which may return.
SPECIFICATION FairSpec
CONSTANTS
  LastJob = 2
  Stages = {"image", "search"}
  Stage <- StageOf
  Descriptors <- Wanted
  Coordinators = {c1, c2}
  HoldPage = 1
  MaxChanges = 2
  MaxFailures = 1
CHECK_DEADLOCK FALSE
INVARIANTS AppliedWhenClean ImportWaits
PROPERTIES ReleasedWorkRuns
