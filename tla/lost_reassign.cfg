SPECIFICATION Spec
CONSTANTS
  c1 = c1
  c2 = c2
  lamp = lamp
  mug = mug
  pen = pen
  books = books
  toys = toys
  NoProduct = none
  none = none
  Products <- AllProducts
  Categories <- BothCategories
  Clients <- TwoClients
  Assigners <- TwoClients
  Targets <- AllTargets
  Offers <- ThreeOffers
  Windows <- TwoWindows
  Feed <- Rows
  InitialRows <- First2
  InitialPromotions <- Earlier
  NewProducts <- Created
  MaxTime = 2
  MaxRequests = 3
  MaxRows = 1
  CategoryMargins <- Margins
  DefaultMargin = 30
  FloorMargin = 10
  PriceEnding = 99
  MaxPrice = 5000
CHECK_DEADLOCK FALSE
INVARIANT PriceChangesAreBumped
