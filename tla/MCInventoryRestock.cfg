SPECIFICATION Spec
CONSTANTS
  o1 = o1
  o2 = o2
  mug = mug
  blue = blue
  l1 = l1
  l2 = l2
  l3 = l3
  l4 = l4
  Orders = {o1, o2}
  Lines = {l1, l2, l3, l4}
  Products = {mug}
  Variants = {blue}
  LineOrder <- MCLineOrder
  LineProduct <- MCLineProduct
  LineVariant <- MCLineVariant
  LineQty <- MCLineQty
  ParentOf <- MCParentOf
  NoRow = NoRow
  Untracked = Untracked
  MaxStock = 3
  MaxEdits = 1
  MayFail = FALSE
INVARIANTS
  ClampOnlyWhenShort
CHECK_DEADLOCK FALSE
