SPECIFICATION Spec
CONSTANTS
  pipelineA = pipelineA
  pipelineB = pipelineB
  Jobs = {pipelineA}
  Batches <- DriftedBatches
  LoadingJobs = {pipelineA}
  AgentsEnabled = TRUE
  Faults = {"model"}
INVARIANT ModelNeverStopsBatch
CHECK_DEADLOCK FALSE
