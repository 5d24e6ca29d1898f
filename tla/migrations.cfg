SPECIFICATION FairSpec
CONSTANTS
  old = old
  new = new
  newest = newest
  none = none
  Runners <- ThreeRunners
  Release <- ThreeReleases
  Broken <- ThirdIsBroken
  NoRunner = none
  MaxAttempts = 1
  MaxRuns = 2
  MaxFaults = 2
INVARIANT TypeOK
INVARIANT SuccessIsComplete
INVARIANT FailsForCause
PROPERTY ImplementsHistory
PROPERTY RunsEnd
CHECK_DEADLOCK FALSE
