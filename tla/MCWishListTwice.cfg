SPECIFICATION WishSpec
CONSTANTS
  p = p
  v = v
  Products = {p}
  Variants = {}
  ProductOf <- MCProductOf
  Clicks = {c1, c2}
  NoLine = NoLine
  MaxRows = 2
  MaxLists = 1
  MaxAsked = 2
SYMMETRY WishSymmetry
INVARIANTS
  OneRowPerLine
CHECK_DEADLOCK FALSE
