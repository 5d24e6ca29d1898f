SPECIFICATION Spec
CONSTANTS
  s1 = s1
  s2 = s2
  p1 = p1
  p2 = p2
  r1 = r1
  r2 = r2
  NoWorker = NoWorker
  Splitters <- TwoSplitters
  Processors <- NoProcessors
  Clients <- TwoClients
  MaxAttempts = 2
  MaxChunks = 2
  Files <- EveryFile
  Faults <- SplitBudget
  SplitterFaults <- SplitSteps
  ProcessorFaults <- NoSteps
  ClientFaults <- OfferSteps
INVARIANT TypeOK
INVARIANT CheckpointIsCovered
INVARIANT MessageHasRowAndFile
INVARIANT UnfinishedSplitIsQueued
CHECK_DEADLOCK FALSE
