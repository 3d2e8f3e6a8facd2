SPECIFICATION Spec
CONSTANTS
  o1 = o1
  x1 = x1
  x2 = x2
  Orders = {o1}
  Items = {x1, x2}
  ItemOrder <- MCItemOrder
  Cost <- MCCost
  Charge <- MCCharge
  Callers = {}
  Hooks = {h1}
  PaidAtStart = {o1}
  Full = Full
  Nobody = Nobody
  MaxRefunds = 2
  MaxCrashes = 0
  MayLoseAnswer = FALSE
  MayDeleteItems = FALSE
SYMMETRY Symmetry
INVARIANTS
  RefundReflected

CHECK_DEADLOCK FALSE
