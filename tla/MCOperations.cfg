\* Rows of the five kinds, one at a time: rows do not read each other.
SPECIFICATION FairSpec
CONSTANTS
  edit = edit
  export = export
  bulk = bulk
  cloud = cloud
  batch = batch
  Ops = {edit, export, bulk, cloud, batch}
  Safe = {edit, export}
  Pausable = {export, bulk, cloud}
  Edits = {edit}
  Remote = {cloud, batch}
  Batches = {batch}
  Resumable = {batch}
  MaxClaims = 3
  MaxRows = 1
  MaxJobs = 2
CHECK_DEADLOCK FALSE
INVARIANTS OperationInv
PROPERTIES OutcomeIsFinal LostClaimRecovered CancelSettles
