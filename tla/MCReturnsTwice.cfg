SPECIFICATION ReturnsSpec
CONSTANTS
  o1 = o1
  x1 = x1
  x2 = x2
  r1 = r1
  r2 = r2
  Orders = {o1}
  Items = {x1, x2}
  ItemOrder <- MCItemOrder
  Cost <- MCCost
  Charge <- MCCharge
  Requests = {r1}
  RequestItem <- MCRequestItem
  RequestOrder <- MCRequestOrder
  WholeOrder = WholeOrder
  NoRequest = NoRequest
  Callers = {c1, c2}
  Hooks = {}
  PaidAtStart = {}
  Full = Full
  Nobody = Nobody
  MaxRefunds = 2
  MaxCrashes = 0
  MayLoseAnswer = FALSE
  MayDeleteItems = FALSE
SYMMETRY Symmetry
INVARIANTS
  IssuedAtMostOnce
CHECK_DEADLOCK FALSE
