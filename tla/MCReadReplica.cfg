SPECIFICATION ReplicaSpec
CONSTANTS
  Processes = {p1}
  Urls <- MCUrls
  Ages <- MCAges
  Unset = Unset
  NotANumber = NotANumber
INVARIANTS
  ReadsReachReplicas
CHECK_DEADLOCK FALSE
