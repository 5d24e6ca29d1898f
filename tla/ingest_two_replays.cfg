SPECIFICATION Spec
CONSTANTS
  s1 = s1
  s2 = s2
  p1 = p1
  p2 = p2
  r1 = r1
  r2 = r2
  NoWorker = NoWorker
  Splitters <- OneSplitter
  Processors <- OneProcessor
  Clients <- TwoClients
  MaxAttempts = 1
  MaxChunks = 1
  Files <- OnlyOneFull
  Faults <- TwoReplayBudget
  SplitterFaults <- SplitWorkSteps
  ProcessorFaults <- ProcessSteps
  ClientFaults <- ReplaySteps
INVARIANT CompletionIsNotEarly
INVARIANT SettledJobHasFinisher
CHECK_DEADLOCK FALSE
