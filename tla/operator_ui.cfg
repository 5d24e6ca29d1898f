SPECIFICATION FairSpec
CONSTANTS
  none = none
  anyCategory = anyCategory
  mugs = mugs
  hats = hats
  tea = tea
  tee = tee
  Nothing = none
  AllCategories = anyCategory
  Products <- ThreeProducts
  Categories <- BothCategories
  CategoryOf <- Categorised
  Prices <- TwoPrices
  FirstPrice <- AllTheSame
  PromotionIds <- OnePromotion
  Terms <- TwoTerms
  Jobs <- TwoJobs
  Sessions <- SomeSessions
  PageSize = 1
  ListLimit = 1
INVARIANT RowsAreOfTheFilter
INVARIANT UnmovedShownOnce
INVARIANT SubmittedOnce
PROPERTY FinishMarksStale
PROPERTY ListIsTrueInTheEnd
CHECK_DEADLOCK FALSE
