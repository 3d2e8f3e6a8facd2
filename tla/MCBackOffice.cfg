SPECIFICATION BackOfficeSpec
CONSTANTS
  o1 = o1
  x1 = x1
  x2 = x2
  r1 = r1
  r2 = r2
  Orders = {o1}
  Items = {x1, x2}
  ItemOrder <- MCItemOrder
  Cost <- MCCost
  Charge <- MCCharge
  Requests = {r1, r2}
  RequestItem <- MCRequestItem
  RequestOrder <- MCRequestOrder
  WholeOrder = WholeOrder
  NoRequest = NoRequest
  Contended = {r1}
  Callers = {c1, c2}
  Hooks = {h1}
  PaidAtStart = {}
  Full = Full
  Nobody = Nobody
  MaxRefunds = 2
  MaxCrashes = 1
  MayLoseAnswer = TRUE
  MayDeleteItems = TRUE
SYMMETRY Symmetry
INVARIANTS
  BackOfficeTypeOK
  RecordNotAhead
  SettledRecord
  RefundedMeansIssued
  OneAnalystRefundsOnce
  OneAnalystRefundsCost
  OneAnalystOwnRefund
PROPERTIES
  OneAnalystTerminalStays
CHECK_DEADLOCK FALSE
