SPECIFICATION FairSpec
CONSTANTS
  mug = mug
  books = books
  toys = toys
  all = all
  w1 = w1
  r1 = r1
  r2 = r2
  none = none
  Products <- OneProduct
  Categories <- BothCategories
  All = all
  Lists <- AllList
  Readers <- TwoReaders
  ProcessOf <- OneProcess
  Writers <- OneWriter
  NoCategory = none
  NoScope = none
  NoView = none
  InitialCategory <- InBooks
  Workloads <- TwoRequests
  MaxCommits = 1
  MaxFaults = 1
INVARIANT TypeOK
INVARIANT FreshRead
INVARIANT OneFlight
PROPERTY EventuallyFresh
CHECK_DEADLOCK FALSE
