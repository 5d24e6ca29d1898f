SPECIFICATION FairSpec
CONSTANTS
  s1 = s1
  s2 = s2
  p1 = p1
  p2 = p2
  r1 = r1
  r2 = r2
  NoWorker = NoWorker
  Splitters <- OneSplitter
  Processors <- TwoProcessors
  Clients <- OneClient
  MaxAttempts = 2
  MaxChunks = 2
  Files <- EveryFile
  Faults <- RetryBudget
  SplitterFaults <- NoSteps
  ProcessorFaults <- ProcessSteps
  ClientFaults <- NoSteps
INVARIANT PartialHasFailedChunk
INVARIANT FinishedJobIsInvalidated
PROPERTY StartedJobFinishes
CHECK_DEADLOCK FALSE
