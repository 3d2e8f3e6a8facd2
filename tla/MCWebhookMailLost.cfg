SPECIFICATION FairSpec
CONSTANTS
  Orders = {o1}
  Intents = {i1}
  Workers = {w1}
  Tabs = {t1}
  NoIntent = NoIntent
  NoOrder = NoOrder
  Forgetful = {}
  MaxCrashes = 0
  MaxRefusals = 1
PROPERTIES
  MailAlwaysDispatched
CHECK_DEADLOCK FALSE
