SPECIFICATION FairPipelineSpec
CONSTANTS
  j1 = j1
  a1 = a1
  a2 = a2
  Jobs = {j1}
  Batches <- OneBatch
  LoadingJobs = {j1}
  AgentsEnabled = FALSE
  Faults = {"infrastructure"}
  Agents = {a1, a2}
  Items <- QueueItems
  MaxRetries = 3
  MaxItems = 1
  Triage = {}
  MaxCrashes = 0
INVARIANTS
  BudgetLeft
  NeverGivesUpEarly
  ResolvedWasHealed
  HealsWhatIsOnRecord
PROPERTIES
  Drained
  ErrorsDecided
CHECK_DEADLOCK FALSE
