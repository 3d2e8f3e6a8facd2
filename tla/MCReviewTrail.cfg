SPECIFICATION MCSpec
CONSTANTS
  o1 = o1
  o2 = o2
  a1 = a1
  a2 = a2
  Orders = {o1, o2}
  Intents = {i1}
  Workers = {w1}
  Tabs = {t1}
  NoIntent = NoIntent
  NoOrder = NoOrder
  Forgetful = {}
  MaxCrashes = 0
  MaxRefusals = 0
  MaxReverts = 0
  Fact <- MCFact
  Limits <- MCLimits
  Weight <- MCWeight
  MayRaise = {}
  Analysts = {a1, a2}
INVARIANTS
  RulesStayNamed
CHECK_DEADLOCK FALSE
