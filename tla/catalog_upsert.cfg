SPECIFICATION Spec
CONSTANTS
  t1 = t1
  t2 = t2
  books = books
  toys = toys
  NoCategory = NoCategory
  Txns <- TwoTxns
  Chunks <- ThreeChunks
  JobSeq <- Seqs
  SkuCount = 2
  Categories <- BothCategories
  RowLimit <- Limit
  OldCategories <- OnlyToys
  Contents <- AllContents
  MaxRuns = 3
  NewPrices <- Price3
  MaxCreated = 1
INVARIANT TypeOK
INVARIANT NewestWins
INVARIANT CategoriesResolved
INVARIANT NoDeadlock
PROPERTY RerunMovesNothing
PROPERTY ListingChangeIsReported
CHECK_DEADLOCK FALSE
