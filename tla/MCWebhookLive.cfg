SPECIFICATION FairSpec
CONSTANTS
  Orders = {o1}
  Intents = {i1, i2}
  Workers = {w1, w2}
  Tabs = {t1}
  NoIntent = NoIntent
  NoOrder = NoOrder
  Forgetful = {o1}
  MaxCrashes = 1
  MaxRefusals = 1
PROPERTIES
  PaidOncePromise
  ChargeIsRecorded
  MailDispatched
CHECK_DEADLOCK FALSE
