SPECIFICATION FairSpec
CONSTANTS
  s1 = s1
  s2 = s2
  p1 = p1
  p2 = p2
  r1 = r1
  r2 = r2
  NoWorker = NoWorker
  Splitters <- OneSplitter
  Processors <- OneProcessor
  Clients <- OneClient
  MaxAttempts = 2
  MaxChunks = 1
  Files <- OnlyOneFull
  Faults <- OneErrorOneReplay
  SplitterFaults <- NoSteps
  ProcessorFaults <- FinishSteps
  ClientFaults <- NoSteps
PROPERTY SettledJobFinishes
CHECK_DEADLOCK FALSE
