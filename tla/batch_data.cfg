SPECIFICATION Spec
CONSTANTS
  pipelineA = pipelineA
  pipelineB = pipelineB
  Jobs = {pipelineA}
  Batches <- AllBatches
  LoadingJobs = {pipelineA}
  AgentsEnabled = TRUE
  Faults = {}
INVARIANT PayloadsNeverStopBatch
CHECK_DEADLOCK FALSE
