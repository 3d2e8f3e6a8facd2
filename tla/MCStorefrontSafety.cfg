SPECIFICATION ShopSpec
CONSTANTS
  shirt = shirt
  red = red
  Products = {shirt}
  Variants = {red}
  ProductOf <- MCProductOf
  Tabs = {r1, r2}
  MaxQuantity <- MCMaxQuantity
  MaxOrders = 2
  Clicks = {r1, r2}
  NoLine = NoLine
  MaxRows = 2
  MaxLists = 2
  MaxAsked = 2
  Attempts = {r1, r2, r3}
  Limit = 1
  NoCount = NoCount
  MaxWindows = 3
  MaxPosts = 4
  PageSize = 2
  MaxResults = 5
  MaxChanges = 1
  MaxFetches = 4
  Processes = {p1}
  Urls <- MCUrls
  Ages <- MCAges
  Unset = Unset
  NotANumber = NotANumber
  q1 = q1
  Threads = {t1}
  Pool = {w1}
  Requests = {q1, q2}
  Header <- MCHeader
  Absent = Absent
  Malformed = Malformed
  NoId = NoId
  NoJob = NoJob
  Metered = {q1}
  TasksMetered = TRUE
  MaxKills = 1
  Runs = {r1, r2}
  NumRows = 1
  Home <- MCHome
  Elsewhere = "electronics"
  NumCustomers = 1
  NoStock = NoStock
  Stocked = 2
  MaxProducts = 3
  MaxEdits = 2
  MaxSeeds = 2
SYMMETRY Symmetry
INVARIANTS
  ShopTypeOK
  PayableIsWhole
  UnitsConserved
  VariantOnListOnce
  NeverMovedTwice
  WindowHoldsLimit
  GridIsWhole
  WritesOnPrimary
  LinesTraceBack
  EachJobCountedOnce
  SeededOnce
  SeedKeepsStock
CHECK_DEADLOCK FALSE
