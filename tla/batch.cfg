SPECIFICATION Spec
CONSTANTS
  pipelineA = pipelineA
  pipelineB = pipelineB
  Jobs = {pipelineA, pipelineB}
  Batches <- AllBatches
  LoadingJobs = {pipelineA}
  AgentsEnabled = TRUE
  Faults = {"infrastructure", "model"}
INVARIANTS
  TypeOK
  EveryRowAccounted
  LedgerBeforeLoad
  VerdictMatchesRepository
  OrphanOnlyByFault
  QueueBacked
  DataStopLeaves
PROPERTIES
  VerdictIsLast
  ImplementsLedger
CHECK_DEADLOCK FALSE
