SPECIFICATION Spec
CONSTANTS
  s1 = s1
  s2 = s2
  p1 = p1
  p2 = p2
  r1 = r1
  r2 = r2
  NoWorker = NoWorker
  Splitters <- OneSplitter
  Processors <- TwoProcessors
  Clients <- OneClient
  MaxAttempts = 2
  MaxChunks = 2
  Files <- GoodFiles
  Faults <- CrashBudget
  SplitterFaults <- NoSteps
  ProcessorFaults <- ProcessSteps
  ClientFaults <- NoSteps
INVARIANT PendingIsQueued
INVARIANT ExhaustedIsReplayable
CHECK_DEADLOCK FALSE
