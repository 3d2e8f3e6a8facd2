SPECIFICATION MCSpec
CONSTANTS
  o1 = o1
  o2 = o2
  a1 = a1
  a2 = a2
  Orders = {o1, o2}
  Intents = {i1, i2}
  Workers = {w1, w2}
  Tabs = {t1}
  NoIntent = NoIntent
  NoOrder = NoOrder
  Forgetful = {o1}
  MaxCrashes = 1
  MaxRefusals = 1
  MaxReverts = 2
  Fact <- MCFact
  Limits <- MCLimits
  Weight <- MCWeight
  MayRaise = {"velocity_email", "bulk_quantity"}
  Analysts = {a1, a2}
INVARIANTS
  FormTypeOK
  RepeatedPerRevert
  AckedUnlessReverted
  SignalsUnlessReverted
  PaidByOwnCharge
  ChargedAtMostOnce
SYMMETRY Symmetry
CHECK_DEADLOCK FALSE
