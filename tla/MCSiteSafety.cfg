SPECIFICATION SiteSpec
CONSTANTS
  o1 = o1
  o2 = o2
  mug = mug
  blue = blue
  l1 = l1
  l2 = l2
  l3 = l3
  l4 = l4
  Orders = {o1, o2}
  Lines = {l1, l2, l3, l4}
  Products = {mug}
  Variants = {blue}
  LineOrder <- MCLineOrder
  LineProduct <- MCLineProduct
  LineVariant <- MCLineVariant
  LineQty <- MCLineQty
  ParentOf <- MCParentOf
  NoRow = NoRow
  Untracked = Untracked
  MaxStock = 3
  MaxEdits = 1
  MayFail = TRUE
  r1 = r1
  r2 = r2
  Goods = {1, 2}
  Categories = {"x", "y"}
  Start <- MCStart
  Facts <- MCFacts
  Ratings = {5}
  Found = {2}
  NoCategory = "none"
  PerPage = 1
  Visitors = {r1, r2}
  Staff = {s1}
  Typed <- MCTyped
  Undefined = {"z"}
  MaxVisits = 2
  MaxSaves = 1
  Users = {u1, u2}
  Addresses = {a1, a2}
  NoAddress = NoAddress
  NoUser = NoUser
  Forms = {r1, r2}
  MaxTokens = 2
  Jobs = {r1, r2}
  Keeps = {1, 2}
  MaxStarts = 3
SYMMETRY Symmetry
INVARIANTS
  NeverNegative
  StockAccounted
  WholeOrdersTaken
  CachedIsCurrent
  CountsNeverLie
  VerifiedByItsLink
  OneLinkAtATime
  NewestBackupKept
  PartsTypeOK
PROPERTIES
  UntrackedUntouched
  StockPromise
CHECK_DEADLOCK FALSE
